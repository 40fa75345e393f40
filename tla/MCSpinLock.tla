----------------------------- MODULE MCSpinLock -----------------------------
(* SpinLock on a handful of threads. *)
EXTENDS SpinLock

CONSTANTS t1, t2, t3, t4

FourThreads == {t1, t2, t3, t4}
=============================================================================
