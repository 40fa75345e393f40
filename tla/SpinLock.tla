------------------------------ MODULE SpinLock ------------------------------
(***************************************************************************)
(* The reader/writer spin lock: one atomic flag and one atomic counter.    *)
(* A step is one atomic access; a thread that spins stays where it is.     *)
(* The accesses are sequentially consistent: the build targets x86 with    *)
(* AVX, where every read-modify-write is a full barrier.                   *)
(***************************************************************************)
EXTENDS Integers, FiniteSets

CONSTANT Threads

ASSUME ThreadsAssumption == IsFiniteSet(Threads)

VARIABLES
  exclusive,     \* m_exclusiveAccess
  refCount,      \* m_referenceCount
  lpc            \* where each thread is in the lock's code

lockVars == <<exclusive, refCount, lpc>>

LockPCs == {"out", "xswap", "xwait", "excl",
            "swait", "sadd", "scheck", "sundo", "shared"}

(* The counter m_referenceCount never drops below zero and every thread is *)
(* at a place of ExclusiveLock or SharedLock.                              *)
LockTypeOK ==
  /\ exclusive \in BOOLEAN
  /\ refCount \in Nat
  /\ lpc \in [Threads -> LockPCs]

LockInit ==
  /\ exclusive = FALSE /\ refCount = 0
  /\ lpc = [t \in Threads |-> "out"]

Move(t, from, to) == lpc[t] = from /\ lpc' = [lpc EXCEPT ![t] = to]

-----------------------------------------------------------------------------
(* ExclusiveLock: win the flag, then wait for the readers to leave.        *)

CallExclusiveLock(t) ==
  /\ Move(t, "out", "xswap")
  /\ UNCHANGED <<exclusive, refCount>>

(* exchange(true) returned false; when it returns true nothing changes.    *)
WinFlag(t) ==
  /\ Move(t, "xswap", "xwait")
  /\ ~exclusive /\ exclusive' = TRUE
  /\ UNCHANGED refCount

(* Mutant: the writer does not wait for the readers. *)
ReadersIgnored(t) ==
  /\ Move(t, "xwait", "excl")
  /\ UNCHANGED <<exclusive, refCount>>

ReadersGone(t) ==
  /\ Move(t, "xwait", "excl")
  /\ refCount = 0
  /\ UNCHANGED <<exclusive, refCount>>

(* Mutant: the flag stays up. *)
FlagLeftUp(t) ==
  /\ Move(t, "excl", "out")
  /\ UNCHANGED <<exclusive, refCount>>

ExclusiveRelease(t) ==
  /\ Move(t, "excl", "out")
  /\ exclusive' = FALSE
  /\ UNCHANGED refCount

-----------------------------------------------------------------------------
(* SharedLock: count in, look at the flag again, count out if it was set.  *)

CallSharedLock(t) ==
  /\ Move(t, "out", "swait")
  /\ UNCHANGED <<exclusive, refCount>>

SeeFlagClear(t) ==
  /\ Move(t, "swait", "sadd")
  /\ ~exclusive
  /\ UNCHANGED <<exclusive, refCount>>

(* Mutant: the reader is not counted in. *)
ReaderUncounted(t) ==
  /\ Move(t, "sadd", "scheck")
  /\ UNCHANGED <<exclusive, refCount>>

AddReference(t) ==
  /\ Move(t, "sadd", "scheck")
  /\ refCount' = refCount + 1
  /\ UNCHANGED exclusive

(* Mutant: no second look at the flag. *)
NoRecheck(t) ==
  /\ Move(t, "scheck", "shared")
  /\ UNCHANGED <<exclusive, refCount>>

Recheck(t) ==
  /\ Move(t, "scheck", IF exclusive THEN "sundo" ELSE "shared")
  /\ UNCHANGED <<exclusive, refCount>>

(* Mutant: the reader that backs off stays counted. *)
ReferenceKept(t) ==
  /\ Move(t, "sundo", "swait")
  /\ UNCHANGED <<exclusive, refCount>>

UndoReference(t) ==
  /\ Move(t, "sundo", "swait")
  /\ refCount' = refCount - 1
  /\ UNCHANGED exclusive

SharedRelease(t) ==
  /\ Move(t, "shared", "out")
  /\ refCount' = refCount - 1
  /\ UNCHANGED exclusive

-----------------------------------------------------------------------------
(* The steps inside ExclusiveLock and SharedLock. *)
LockStep(t) ==
  \/ WinFlag(t) \/ ReadersGone(t)
  \/ SeeFlagClear(t) \/ AddReference(t) \/ Recheck(t) \/ UndoReference(t)

LockCall(t) == CallExclusiveLock(t) \/ CallSharedLock(t)
LockRelease(t) == ExclusiveRelease(t) \/ SharedRelease(t)

LockNext == \E t \in Threads : LockCall(t) \/ LockStep(t) \/ LockRelease(t)

(* A thread is never descheduled for good, and who holds the lock lets go. *)
LockFairness == \A t \in Threads : WF_lockVars(LockStep(t) \/ LockRelease(t))

LockSpec == LockInit /\ [][LockNext]_lockVars /\ LockFairness

-----------------------------------------------------------------------------
(* Properties.                                                             *)

Holds(t) == lpc[t] \in {"excl", "shared"}
Counted(t) == lpc[t] \in {"scheck", "sundo", "shared"}
Flagged(t) == lpc[t] \in {"xwait", "excl"}

(* A thread between ExclusiveLock and ExclusiveRelease is alone: no other  *)
(* writer and no reader holds the lock, although a reader raises the count *)
(* before it knows whether it may enter.                                   *)
MutualExclusion ==
  \A s, t \in Threads :
    s # t /\ lpc[s] = "excl" => ~Holds(t)

(* The flag is up exactly while one thread owns it, and the counter counts *)
(* the readers that are in or about to find out: no lost release and no    *)
(* double undo.                                                            *)
LockInv ==
  /\ exclusive <=> \E t \in Threads : Flagged(t)
  /\ \A s, t \in Threads : Flagged(s) /\ Flagged(t) => s = t
  /\ refCount = Cardinality({t \in Threads : Counted(t)})
  /\ (\E t \in Threads : lpc[t] = "excl") =>
       \A t \in Threads : lpc[t] # "shared"

(* Once a writer owns the flag, readers can only delay it by one pass      *)
(* through the counter each.                                               *)
WriterGetsIn ==
  \A t \in Threads : lpc[t] = "xwait" ~> lpc[t] = "excl"

(* The lock implements the abstract many-readers-or-one-writer lock.       *)
Abstract == INSTANCE SharedExclusive WITH
  readers <- {t \in Threads : lpc[t] = "shared"},
  writers <- {t \in Threads : lpc[t] = "excl"}
ImplementsSharedExclusive == Abstract!Spec

(* When threads want the lock, one of them gets it: spinning readers and   *)
(* writers never block each other for good.  (Which one is left open: the  *)
(* lock is not starvation free.)                                           *)
SomeoneGetsIn ==
  (\E t \in Threads : lpc[t] # "out") ~> (\E t \in Threads : Holds(t))
=============================================================================
