--------------------------- MODULE MCSpinLockQueue ---------------------------
(* SpinLockQueue on three threads, two values and a short ring.  Threads   *)
(* and values are interchangeable: Init, Next and the properties checked   *)
(* name none of them, and none of the properties is a liveness property.   *)
EXTENDS SpinLockQueue, TLC

CONSTANTS t1, t2, t3, v1, v2

MCThreads == {t1, t2, t3}
MCValues == {v1, v2}
Symmetric == Permutations(MCThreads) \cup Permutations(MCValues)
=============================================================================
