--------------------------- MODULE SpinLockProofs ---------------------------
(***************************************************************************)
(* Proofs about the spin lock, for any finite set of threads: the counters *)
(* are exact, the lock excludes, and it implements SharedExclusive.        *)
(***************************************************************************)
EXTENDS SpinLock, FiniteSetTheorems, TLAPS

(* LockInv lifts to the next state once the threads counted in refCount    *)
(* are known to be those counted before, plus or minus one.                *)
CountedSet == {t \in Threads : Counted(t)}

LEMMA CountedFinite ==
  /\ IsFiniteSet(CountedSet)
  /\ Cardinality(CountedSet) \in Nat
BY ThreadsAssumption, FS_Subset, FS_CardinalityType DEF CountedSet

(* The steps that change who is counted keep refCount in step. *)
LEMMA CountedIn ==
  ASSUME refCount = Cardinality(CountedSet), NEW t \in Threads, ~Counted(t),
         CountedSet' = CountedSet \cup {t}, refCount' = refCount + 1
  PROVE  refCount' = Cardinality(CountedSet')
BY CountedFinite, FS_AddElement DEF CountedSet

LEMMA CountedOut ==
  ASSUME refCount = Cardinality(CountedSet), NEW t \in Threads, Counted(t),
         CountedSet' = CountedSet \ {t}, refCount' = refCount - 1
  PROVE  refCount' = Cardinality(CountedSet')
BY CountedFinite, FS_RemoveElement DEF CountedSet

(* Types alone do not keep the counter natural: UndoReference and          *)
(* SharedRelease subtract one.  The integer version is inductive by itself *)
(* and LockTypeCorrect follows from it and LockInv.                        *)
LockTypes ==
  /\ exclusive \in BOOLEAN
  /\ refCount \in Int
  /\ lpc \in [Threads -> LockPCs]

LEMMA LockTypesInit == LockInit => LockTypes
<1> SUFFICES ASSUME LockInit PROVE LockTypes
  OBVIOUS
<1>1. exclusive \in BOOLEAN
  BY DEF LockInit
<1>2. refCount \in Int /\ lpc \in [Threads -> LockPCs]
  BY DEF LockInit, LockPCs
<1>3. QED
  BY <1>1, <1>2 DEF LockTypes

LEMMA LockTypesStep == LockTypes /\ [LockNext]_lockVars => LockTypes'
<1> SUFFICES ASSUME LockTypes, [LockNext]_lockVars PROVE LockTypes'
  OBVIOUS
<1>1. CASE UNCHANGED lockVars
  BY <1>1 DEF LockTypes, lockVars
<1>2. ASSUME NEW t \in Threads,
             LockCall(t) \/ LockStep(t) \/ LockRelease(t)
      PROVE  LockTypes'
  <2> USE <1>2 DEF LockCall, LockStep, LockRelease, CallExclusiveLock,
          WinFlag, ReadersGone, ExclusiveRelease, CallSharedLock,
          SeeFlagClear, AddReference, Recheck, UndoReference,
          SharedRelease
  <2>1. exclusive' \in BOOLEAN
    BY Zenon DEF LockTypes
  <2>2. refCount' \in Int
    BY DEF LockTypes
  <2>3. \E b \in LockPCs : lpc' = [lpc EXCEPT ![t] = b]
    BY DEF Move, LockPCs
  <2>4. lpc' \in [Threads -> LockPCs]
    BY <2>3 DEF LockTypes
  <2>5. QED
    BY <2>1, <2>2, <2>4 DEF LockTypes
<1>3. QED
  BY <1>1, <1>2 DEF LockNext

LEMMA LockTypesInvariant == LockSpec => []LockTypes
BY LockTypesInit, LockTypesStep, PTL DEF LockSpec

-----------------------------------------------------------------------------
LEMMA LockInvInit == LockInit => LockInv
<1> SUFFICES ASSUME LockInit PROVE LockInv
  OBVIOUS
<1>1. {t \in Threads : Counted(t)} = {}
  BY DEF LockInit, Counted
<1>2. refCount = Cardinality({t \in Threads : Counted(t)})
  BY <1>1, FS_EmptySet DEF LockInit
<1>3. QED
  BY <1>2 DEF LockInit, LockInv, Flagged

(* One step per action; in each the flag part and the counter part.        *)
LEMMA LockInvStep ==
  LockTypes /\ LockInv /\ [LockNext]_lockVars => LockInv'
<1> SUFFICES ASSUME LockTypes, LockInv, [LockNext]_lockVars PROVE LockInv'
  OBVIOUS
<1> DEFINE SameCounted == CountedSet' = CountedSet /\ refCount' = refCount
<1>0. refCount = Cardinality(CountedSet)
  BY DEF LockInv, CountedSet
<1>a. (\A t \in Threads : Counted(t) => refCount # 0)
  BY <1>0, CountedFinite, FS_EmptySet DEF CountedSet
<1>b. ASSUME SameCounted PROVE refCount' = Cardinality(CountedSet')
  BY <1>0, <1>b
<1>1. CASE UNCHANGED lockVars
  <2>1. LockInv' = LockInv
    BY <1>1 DEF LockInv, lockVars, Flagged, Counted
  <2>2. QED BY <2>1
<1>2. ASSUME NEW t \in Threads, CallExclusiveLock(t) PROVE LockInv'
  <2>1. SameCounted
    BY <1>2 DEF CallExclusiveLock, Move, CountedSet, Counted, LockTypes
  <2>2. QED
    BY <1>2, <1>b, <2>1 DEF CallExclusiveLock, Move, LockInv, Flagged,
       CountedSet, LockTypes
<1>3. ASSUME NEW t \in Threads, WinFlag(t) PROVE LockInv'
  <2>1. SameCounted
    BY <1>3 DEF WinFlag, Move, CountedSet, Counted, LockTypes
  <2>2. QED
    BY <1>3, <1>b, <2>1 DEF WinFlag, Move, LockInv, Flagged, CountedSet,
       LockTypes
<1>4. ASSUME NEW t \in Threads, ReadersGone(t) PROVE LockInv'
  <2>1. SameCounted
    BY <1>4 DEF ReadersGone, Move, CountedSet, Counted, LockTypes
  <2>2. \A s \in Threads : lpc[s] # "shared"
    BY <1>4, <1>a DEF ReadersGone, Counted
  <2>3. QED
    BY <1>4, <1>b, <2>1, <2>2 DEF ReadersGone, Move, LockInv, Flagged,
       CountedSet, LockTypes
<1>5. ASSUME NEW t \in Threads, ExclusiveRelease(t) PROVE LockInv'
  <2>1. SameCounted
    BY <1>5 DEF ExclusiveRelease, Move, CountedSet, Counted, LockTypes
  <2>2. QED
    BY <1>5, <1>b, <2>1 DEF ExclusiveRelease, Move, LockInv, Flagged,
       CountedSet, LockTypes
<1>6. ASSUME NEW t \in Threads, CallSharedLock(t) \/ SeeFlagClear(t)
      PROVE  LockInv'
  <2>1. SameCounted
    BY <1>6 DEF CallSharedLock, SeeFlagClear, Move, CountedSet, Counted,
       LockTypes
  <2>2. QED
    BY <1>6, <1>b, <2>1 DEF CallSharedLock, SeeFlagClear, Move, LockInv,
       Flagged, CountedSet, LockTypes
<1>7. ASSUME NEW t \in Threads, AddReference(t) PROVE LockInv'
  <2>1. CountedSet' = CountedSet \cup {t} /\ ~Counted(t)
    BY <1>7 DEF AddReference, Move, CountedSet, Counted, LockTypes
  <2>2. refCount' = Cardinality(CountedSet')
    BY <1>0, <1>7, <2>1, CountedIn DEF AddReference
  <2>3. QED
    BY <1>7, <2>2 DEF AddReference, Move, LockInv, Flagged, CountedSet,
       LockTypes
<1>8. ASSUME NEW t \in Threads, Recheck(t) PROVE LockInv'
  <2>1. SameCounted
    BY <1>8 DEF Recheck, Move, CountedSet, Counted, LockTypes
  <2>2. lpc'[t] = "shared" => \A s \in Threads : lpc[s] # "excl"
    BY <1>8 DEF Recheck, Move, LockInv, Flagged, LockTypes
  <2>3. QED
    BY <1>8, <1>b, <2>1, <2>2 DEF Recheck, Move, LockInv, Flagged,
       CountedSet, LockTypes
<1>9. ASSUME NEW t \in Threads, UndoReference(t) \/ SharedRelease(t)
      PROVE  LockInv'
  <2>1. CountedSet' = CountedSet \ {t} /\ Counted(t)
    BY <1>9 DEF UndoReference, SharedRelease, Move, CountedSet, Counted,
       LockTypes
  <2>2. refCount' = Cardinality(CountedSet')
    BY <1>0, <1>9, <2>1, CountedOut DEF UndoReference, SharedRelease
  <2>3. QED
    BY <1>9, <2>2 DEF UndoReference, SharedRelease, Move, LockInv, Flagged,
       CountedSet, LockTypes
<1>10. QED
  BY <1>1, <1>2, <1>3, <1>4, <1>5, <1>6, <1>7, <1>8, <1>9
  DEF LockNext, LockCall, LockStep, LockRelease

(* The flag is up exactly while one thread owns it and the counter counts  *)
(* the readers, for any number of threads.                                 *)
THEOREM LockInvariant == LockSpec => []LockInv
<1>1. LockSpec => []LockTypes
  BY LockTypesInvariant
<1>2. QED
  BY <1>1, LockInvInit, LockInvStep, PTL DEF LockSpec

(* Every variable keeps its type: the atomic flag, the threads' places in  *)
(* ExclusiveLock and SharedLock, and the counter, which never drops below  *)
(* zero although every release subtracts from it.                          *)
THEOREM LockTypeCorrect == LockSpec => []LockTypeOK
<1>1. LockTypes /\ LockInv => LockTypeOK
  BY CountedFinite DEF LockTypes, LockInv, LockTypeOK, CountedSet
<1>2. QED
  BY <1>1, LockTypesInvariant, LockInvariant, PTL

(* A writer is alone between ExclusiveLock and ExclusiveRelease, for any   *)
(* number of threads.                                                      *)
THEOREM LockExcludes == LockSpec => []MutualExclusion
<1>1. LockInv => MutualExclusion
  BY DEF LockInv, MutualExclusion, Holds, Flagged
<1>2. QED
  BY <1>1, LockInvariant, PTL

-----------------------------------------------------------------------------
Readers == {t \in Threads : lpc[t] = "shared"}
Writers == {t \in Threads : lpc[t] = "excl"}

(* A step of the lock is a step of the abstract lock or leaves it alone.   *)
LEMMA LockStepSimulates ==
  LockTypes /\ LockInv /\ [LockNext]_lockVars =>
    [Abstract!Next]_(Abstract!seVars)
<1> SUFFICES ASSUME LockTypes, LockInv, [LockNext]_lockVars
             PROVE  [Abstract!Next]_(Abstract!seVars)
  OBVIOUS
<1> DEFINE Same == Readers' = Readers /\ Writers' = Writers
<1>a. ASSUME Same PROVE [Abstract!Next]_(Abstract!seVars)
  BY <1>a DEF Abstract!seVars, Readers, Writers
<1>1. CASE UNCHANGED lockVars
  <2>1. Same BY <1>1 DEF lockVars, Readers, Writers
  <2>2. QED BY <2>1, <1>a
<1>2. ASSUME NEW t \in Threads,
             \/ CallExclusiveLock(t) \/ WinFlag(t) \/ CallSharedLock(t)
             \/ SeeFlagClear(t) \/ AddReference(t) \/ UndoReference(t)
      PROVE  [Abstract!Next]_(Abstract!seVars)
  <2>1. Same
    BY <1>2 DEF CallExclusiveLock, WinFlag, CallSharedLock, SeeFlagClear,
       AddReference, UndoReference, Move, LockTypes, Readers, Writers
  <2>2. QED BY <2>1, <1>a
<1>3. ASSUME NEW t \in Threads, ReadersGone(t)
      PROVE  [Abstract!Next]_(Abstract!seVars)
  <2>1. Readers = {}
    <3>1. {s \in Threads : Counted(s)} = {}
      BY <1>3, CountedFinite, FS_EmptySet DEF ReadersGone, LockInv, CountedSet
    <3>2. QED
      BY <3>1 DEF Readers, Counted
  <2>2. Writers = {}
    BY <1>3 DEF ReadersGone, Move, LockInv, Flagged, Writers
  <2>3. Writers' = {t} /\ Readers' = Readers
    BY <1>3, <2>2 DEF ReadersGone, Move, LockTypes, Writers, Readers
  <2>4. Abstract!EnterExclusive(t)
    BY <2>1, <2>2, <2>3 DEF Abstract!EnterExclusive, Readers, Writers
  <2>5. QED BY <2>4 DEF Abstract!Next
<1>4. ASSUME NEW t \in Threads, ExclusiveRelease(t)
      PROVE  [Abstract!Next]_(Abstract!seVars)
  <2>1. t \in Writers /\ Writers' = Writers \ {t} /\ Readers' = Readers
    BY <1>4 DEF ExclusiveRelease, Move, LockTypes, Writers, Readers
  <2>2. Abstract!LeaveExclusive(t)
    BY <2>1 DEF Abstract!LeaveExclusive, Readers, Writers
  <2>3. QED BY <2>2 DEF Abstract!Next
<1>5. ASSUME NEW t \in Threads, Recheck(t)
      PROVE  [Abstract!Next]_(Abstract!seVars)
  <2>1. CASE exclusive
    <3>1. Same
      BY <1>5, <2>1 DEF Recheck, Move, LockTypes, Writers, Readers
    <3>2. QED BY <3>1, <1>a
  <2>2. CASE ~exclusive
    <3>1. Writers = {}
      BY <2>2 DEF LockInv, Flagged, Writers
    <3>2. t \notin Readers /\ Readers' = Readers \cup {t} /\ Writers' = Writers
      BY <1>5, <2>2 DEF Recheck, Move, LockTypes, Writers, Readers
    <3>3. Abstract!EnterShared(t)
      BY <3>1, <3>2 DEF Abstract!EnterShared, Readers, Writers
    <3>4. QED BY <3>3 DEF Abstract!Next
  <2>3. QED BY <2>1, <2>2
<1>6. ASSUME NEW t \in Threads, SharedRelease(t)
      PROVE  [Abstract!Next]_(Abstract!seVars)
  <2>1. t \in Readers /\ Readers' = Readers \ {t} /\ Writers' = Writers
    BY <1>6 DEF SharedRelease, Move, LockTypes, Writers, Readers
  <2>2. Abstract!LeaveShared(t)
    BY <2>1 DEF Abstract!LeaveShared, Readers, Writers
  <2>3. QED BY <2>2 DEF Abstract!Next
<1>7. QED
  BY <1>1, <1>2, <1>3, <1>4, <1>5, <1>6
  DEF LockNext, LockCall, LockStep, LockRelease

(* The two atomics implement the abstract lock, any number of readers or   *)
(* one writer, for any finite set of threads.                              *)
THEOREM LockImplements == LockSpec => ImplementsSharedExclusive
<1>1. LockInit => Abstract!Init
  BY DEF LockInit, Abstract!Init
<1>2. QED
  BY <1>1, LockTypesInvariant, LockInvariant, LockStepSimulates, PTL
  DEF LockSpec, ImplementsSharedExclusive, Abstract!Spec
=============================================================================
