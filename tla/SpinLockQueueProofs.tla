------------------------- MODULE SpinLockQueueProofs -------------------------
(***************************************************************************)
(* Proofs about the ring buffer, for any finite set of threads, any values *)
(* and any capacity: the indices stay inside the buffer, Size and failures *)
(* are reported truly, and the queue implements BoundedFifo.  The lock's   *)
(* own invariant is used through its theorem.                              *)
(***************************************************************************)
EXTENDS SpinLockQueue, SpinLockProofs, SequenceTheorems

Types ==
  /\ container \in [Index -> Stored]
  /\ front \in Index /\ back \in Index /\ empty \in BOOLEAN
  /\ op \in [Threads -> Enqueues \cup Dequeues \cup {"Size", "none"}]
  /\ at \in [Threads -> {"idle", "poll", "enter", "store", "advance",
                         "measure", "leave", "again"}]
  /\ arg \in [Threads -> Stored] /\ temp \in [Threads -> Stored]
  /\ ok \in [Threads -> BOOLEAN] /\ got \in [Threads -> Stored]
  /\ count \in [Threads -> Nat]

(* Where a thread is in a method and in the lock's code.                   *)
Places(t) ==
  /\ op[t] = "none" <=> at[t] = "idle"
  /\ at[t] \in {"idle", "poll", "again"} <=> lpc[t] = "out"
  /\ at[t] \in {"store", "advance", "measure", "leave"} => Holds(t)
  /\ op[t] = "Size" =>
       lpc[t] \in {"swait", "sadd", "scheck", "sundo", "shared"}
  /\ op[t] \in Enqueues \cup Dequeues =>
       lpc[t] \in {"out", "xswap", "xwait", "excl"}
  /\ at[t] = "store" => op[t] \in Enqueues
  /\ at[t] = "advance" => op[t] \in Dequeues
  /\ at[t] = "measure" => op[t] = "Size"
  /\ op[t] \in Enqueues => arg[t] \in Values
  /\ op[t] \notin Enqueues => arg[t] = Blank

(* What a thread that holds the lock knows of the queue.                   *)
Knows(t) ==
  /\ at[t] \in {"store", "advance", "measure"} => ~empty
  /\ at[t] = "advance" => temp[t] = container[front]
  /\ op[t] = "Size" /\ at[t] = "leave" => count[t] = size
  /\ at[t] = "leave" /\ ~ok[t] =>
       /\ op[t] \in Enqueues => size = Capacity
       /\ op[t] \in Dequeues => size = 0

Ring == empty => front = back

Locked == LockTypes /\ LockInv
Structure == Types /\ \A t \in Threads : Places(t)
IInv == Structure /\ Ring /\ \A t \in Threads : Knows(t)

-----------------------------------------------------------------------------
(* The steps of the queue are steps of the lock, or leave it alone.        *)

LEMMA LockSteps == [Next]_vars => [LockNext]_lockVars
BY DEF vars, Next, Call, Body, StartEnqueue, StartDequeue, StartTryDequeue,
       StartSize, SeeNotEmpty, Retry, InLock, Leave, EnqueueClaim,
       EnqueueFull, EnqueueStore, DequeueLoad, DequeueEmpty, DequeueAdvance,
       SizeEmpty, SizeMeasure, LockNext, LockCall, lockVars

LEMMA LockedAlways == Spec => []Locked
<1>1. Locked /\ [LockNext]_lockVars => Locked'
  BY LockTypesStep, LockInvStep DEF Locked
<1>2. LockInit => Locked
  BY LockTypesInit, LockInvInit DEF Locked
<1>3. Init => LockInit
  BY DEF Init
<1>4. QED
  BY <1>1, <1>2, <1>3, LockSteps, PTL DEF Spec

(* Who is inside the exclusive lock is inside alone.                       *)
LEMMA Exclusion ==
  ASSUME Locked, NEW s \in Threads, NEW t \in Threads, s # t, lpc[s] = "excl"
  PROVE  ~Holds(t)
BY DEF Locked, LockInv, Holds, Flagged

-----------------------------------------------------------------------------
(* The ring.                                                               *)

LEMMA Increments == \A i \in Index : Increment(i) \in Index
BY CapacityAssumption DEF Increment, Index

LEMMA SizeBounds ==
  ASSUME Types
  PROVE  /\ size \in 0 .. Capacity
         /\ size = 0 <=> empty
         /\ ~empty => Slot(size) = back
BY CapacityAssumption DEF Types, size, Index, Slot

LEMMA Slots ==
  ASSUME Types
  PROVE  /\ \A i \in 1 .. Capacity : Slot(i) \in Index
         /\ \A i, j \in 1 .. Capacity : Slot(i) = Slot(j) => i = j
         /\ Slot(1) = front
BY CapacityAssumption DEF Types, Index, Slot

-----------------------------------------------------------------------------
(* Types and places.                                                       *)

LEMMA CallStructure ==
  ASSUME Structure, Locked, NEW t \in Threads, Call(t)
  PROVE  Structure'
<1> USE BlankAssumption 
    DEF Locked, LockTypes, Structure, queueVars, Go, Move, Enqueues, Dequeues
<1>1. CASE \E m \in Enqueues, v \in Values : StartEnqueue(t, m, v)
  <2>1. Types'
    BY <1>1 DEF StartEnqueue, Types, Stored
  <2>2. ASSUME NEW x \in Threads PROVE Places(x)'
    BY <1>1 DEF StartEnqueue, CallExclusiveLock, Types, Places, Holds
  <2>3. QED
    BY <2>1, <2>2
<1>2. CASE StartDequeue(t)
  <2>1. Types'
    BY <1>2 DEF StartDequeue, Types
  <2>2. ASSUME NEW x \in Threads PROVE Places(x)'
    BY <1>2 DEF StartDequeue, lockVars, Types, Places, Holds
  <2>3. QED
    BY <2>1, <2>2
<1>3. CASE StartTryDequeue(t)
  <2>1. Types'
    BY <1>3 DEF StartTryDequeue, Types
  <2>2. ASSUME NEW x \in Threads PROVE Places(x)'
    BY <1>3 DEF StartTryDequeue, CallExclusiveLock, Types, Places, Holds
  <2>3. QED
    BY <2>1, <2>2
<1>4. CASE StartSize(t)
  <2>1. Types'
    BY <1>4 DEF StartSize, Types
  <2>2. ASSUME NEW x \in Threads PROVE Places(x)'
    BY <1>4 DEF StartSize, CallSharedLock, Types, Places, Holds
  <2>3. QED
    BY <2>1, <2>2
<1>5. QED
  BY <1>1, <1>2, <1>3, <1>4 DEF Call

LEMMA InLockStructure ==
  ASSUME Structure, Locked, NEW t \in Threads, InLock(t)
  PROVE  Structure'
<1> USE DEF queueVars, callVars
<1>1. Types'
  BY DEF InLock, Structure, Types
<1>2. /\ UNCHANGED <<op, at, arg>>
      /\ \/ /\ lpc[t] \in {"xswap", "xwait"}
            /\ \E b \in {"xwait", "excl"} : lpc' = [lpc EXCEPT ![t] = b]
         \/ /\ lpc[t] \in {"swait", "sadd", "scheck", "sundo"}
            /\ \E b \in {"swait", "sadd", "scheck", "sundo", "shared"} :
                 lpc' = [lpc EXCEPT ![t] = b]
  BY DEF InLock, LockStep, WinFlag, ReadersGone, SeeFlagClear, AddReference,
         Recheck, UndoReference, Move
<1>3. ASSUME NEW x \in Threads PROVE Places(x)'
  <2>1. lpc \in [Threads -> LockPCs] /\ Places(x)
    BY DEF Structure, Locked, LockTypes
  <2>2. CASE x = t
    BY <1>2, <2>1, <2>2 DEF Places, Holds, Enqueues, Dequeues
  <2>3. CASE x # t
    BY <1>2, <2>1, <2>3 DEF Places, Holds
  <2>4. QED
    BY <2>2, <2>3
<1>4. QED
  BY <1>1, <1>3 DEF Structure

LEMMA BodyStructure ==
  ASSUME Structure, Locked, NEW t \in Threads, Body(t)
  PROVE  Structure'
<1> USE CapacityAssumption
    DEF Structure, queueVars, lockVars, Go, Move, InBody
<1>1. CASE SeeNotEmpty(t) \/ Retry(t)
  <2>1. Types'
    BY <1>1 DEF SeeNotEmpty, Retry, Types
  <2>2. ASSUME NEW x \in Threads PROVE Places(x)'
    BY <1>1 DEF SeeNotEmpty, Retry, CallExclusiveLock, Types, Places, Holds,
                Locked, LockTypes, Enqueues, Dequeues
  <2>3. QED
    BY <2>1, <2>2
<1>2. CASE InLock(t)
  BY <1>2, InLockStructure
<1>3. CASE Leave(t)
  <2>1. Types'
    BY <1>3 DEF Leave, Types, Stored
  <2>2. ASSUME NEW x \in Threads PROVE Places(x)'
    BY <1>3 DEF Leave, LockRelease, ExclusiveRelease, SharedRelease, Types,
                Places, Holds, Locked, LockTypes, Enqueues, Dequeues
  <2>3. QED
    BY <2>1, <2>2
<1>4. CASE EnqueueClaim(t)
  <2>0. back' \in Index /\ empty' \in BOOLEAN
    BY <1>4, Increments DEF EnqueueClaim, Types
  <2>1. Types'
    BY <1>4, <2>0 DEF EnqueueClaim, Types
  <2>2. ASSUME NEW x \in Threads PROVE Places(x)'
    BY <1>4 DEF EnqueueClaim, Types, Places, Holds, Enqueues, Dequeues
  <2>3. QED
    BY <2>1, <2>2
<1>5. CASE EnqueueStore(t)
  <2>1. Types'
    BY <1>5 DEF EnqueueStore, Types
  <2>2. ASSUME NEW x \in Threads PROVE Places(x)'
    BY <1>5 DEF EnqueueStore, Types, Places, Holds, Enqueues, Dequeues
  <2>3. QED
    BY <2>1, <2>2
<1>6. CASE DequeueLoad(t)
  <2>1. Types'
    BY <1>6 DEF DequeueLoad, Types
  <2>2. ASSUME NEW x \in Threads PROVE Places(x)'
    BY <1>6 DEF DequeueLoad, Types, Places, Holds, Enqueues, Dequeues
  <2>3. QED
    BY <2>1, <2>2
<1>7. CASE EnqueueFull(t) \/ DequeueEmpty(t)
  <2>1. Types'
    BY <1>7 DEF EnqueueFull, DequeueEmpty, Types
  <2>2. ASSUME NEW x \in Threads PROVE Places(x)'
    BY <1>7 DEF EnqueueFull, DequeueEmpty, Types, Places, Holds, Enqueues,
                Dequeues
  <2>3. QED
    BY <2>1, <2>2
<1>8. CASE DequeueAdvance(t)
  <2>0. front' \in Index /\ empty' \in BOOLEAN
    BY <1>8, Increments DEF DequeueAdvance, Types
  <2>1. Types'
    BY <1>8, <2>0 DEF DequeueAdvance, Types
  <2>2. ASSUME NEW x \in Threads PROVE Places(x)'
    BY <1>8 DEF DequeueAdvance, Types, Places, Holds, Enqueues, Dequeues
  <2>3. QED
    BY <2>1, <2>2
<1>9. CASE SizeEmpty(t) \/ SizeMeasure(t)
  <2>0. PICK n \in Nat : count' = [count EXCEPT ![t] = n]
    BY <1>9 DEF SizeEmpty, SizeMeasure, Types, Index
  <2>1. Types'
    BY <1>9, <2>0 DEF SizeEmpty, SizeMeasure, Types
  <2>2. ASSUME NEW x \in Threads PROVE Places(x)'
    BY <1>9 DEF SizeEmpty, SizeMeasure, Types, Places, Holds, Enqueues,
                Dequeues
  <2>3. QED
    BY <2>1, <2>2
<1>10. QED
  BY <1>1, <1>2, <1>3, <1>4, <1>5, <1>6, <1>7, <1>8, <1>9 DEF Body

LEMMA StructureStep ==
  ASSUME Structure, Locked, [Next]_vars
  PROVE  Structure'
<1>1. CASE UNCHANGED vars
  BY <1>1 DEF vars, lockVars, queueVars, callVars, Structure, Types, Places,
              Holds
<1>2. QED
  BY <1>1, CallStructure, BodyStructure DEF Next

-----------------------------------------------------------------------------
(* What a thread knows stays true: the queue changes only under the        *)
(* exclusive lock, so nobody else is inside to be wrong about it.          *)

LEMMA Others ==
  ASSUME Structure, Locked, NEW t \in Threads, Call(t) \/ Body(t),
         NEW x \in Threads, x # t
  PROVE  /\ op'[x] = op[x] /\ at'[x] = at[x] /\ temp'[x] = temp[x]
         /\ ok'[x] = ok[x] /\ count'[x] = count[x]
         /\ UNCHANGED queueVars \/ ~Holds(x)
<1> DEFINE Same == /\ op'[x] = op[x] /\ at'[x] = at[x] /\ temp'[x] = temp[x]
                   /\ ok'[x] = ok[x] /\ count'[x] = count[x]
<1> USE DEF Structure, Types, queueVars, callVars, Go
<1>1. CASE EnqueueClaim(t) \/ EnqueueStore(t) \/ DequeueAdvance(t)
  <2>1. Same
    BY <1>1 DEF EnqueueClaim, EnqueueStore, DequeueAdvance
  <2>2. lpc[t] = "excl"
    BY <1>1 DEF EnqueueClaim, EnqueueStore, DequeueAdvance, InBody, Places,
                Enqueues, Dequeues
  <2>3. QED
    BY <2>1, <2>2, Exclusion
<1>2. CASE Call(t)
  BY <1>2 DEF Call, StartEnqueue, StartDequeue, StartTryDequeue, StartSize
<1>3. CASE SeeNotEmpty(t) \/ Retry(t) \/ InLock(t) \/ Leave(t)
  BY <1>3 DEF SeeNotEmpty, Retry, InLock, Leave
<1>4. CASE \/ EnqueueFull(t) \/ DequeueLoad(t) \/ DequeueEmpty(t)
           \/ SizeEmpty(t) \/ SizeMeasure(t)
  BY <1>4 DEF EnqueueFull, DequeueLoad, DequeueEmpty, SizeEmpty, SizeMeasure
<1>5. QED
  BY <1>1, <1>2, <1>3, <1>4 DEF Body

LEMMA KnowsOwn ==
  ASSUME IInv, Locked, NEW t \in Threads, Call(t) \/ Body(t)
  PROVE  Knows(t)'
<1> USE DEF IInv, Structure, Types, queueVars, callVars, Go
<1>1. CASE Call(t) \/ SeeNotEmpty(t) \/ Retry(t)
  BY <1>1 DEF Call, StartEnqueue, StartDequeue, StartTryDequeue, StartSize,
              SeeNotEmpty, Retry, Knows
<1>2. CASE InLock(t)
  BY <1>2 DEF InLock, Knows, size
<1>3. CASE Leave(t)
  BY <1>3 DEF Leave, Knows
<1>4. CASE EnqueueClaim(t) \/ EnqueueStore(t) \/ DequeueAdvance(t)
  BY <1>4 DEF EnqueueClaim, EnqueueStore, DequeueAdvance, Knows, InBody,
              Enqueues, Dequeues
<1>5. CASE DequeueLoad(t)
  BY <1>5 DEF DequeueLoad, Knows
<1>6. CASE EnqueueFull(t) \/ DequeueEmpty(t)
  <2>1. size' = size /\ size \in 0 .. Capacity
    BY <1>6, SizeBounds DEF EnqueueFull, DequeueEmpty, size
  <2>2. /\ op' = op /\ at'[t] = "leave"
        /\ op[t] \in Enqueues => size = Capacity
        /\ op[t] \in Dequeues => size = 0
        /\ op[t] # "Size"
    BY <1>6, <2>1, CapacityAssumption, SizeBounds
    DEF EnqueueFull, DequeueEmpty, InBody, Enqueues, Dequeues
  <2>3. QED
    BY <2>1, <2>2 DEF Knows
<1>7. CASE SizeEmpty(t) \/ SizeMeasure(t)
  <2>1. /\ op' = op /\ op[t] = "Size" /\ empty' = empty /\ size' = size
        /\ at'[t] = "measure" => ~empty
        /\ at'[t] = "leave" => count'[t] = size
        /\ at'[t] \in {"measure", "leave"}
    BY <1>7 DEF SizeEmpty, SizeMeasure, InBody, Knows, size
  <2>2. QED
    BY <2>1 DEF Knows, Enqueues, Dequeues
<1>8. QED
  BY <1>1, <1>2, <1>3, <1>4, <1>5, <1>6, <1>7 DEF Body

LEMMA IInvStep ==
  ASSUME IInv, Locked, [Next]_vars
  PROVE  IInv'
<1>1. Structure'
  BY StructureStep DEF IInv
<1>2. Ring'
  BY DEF IInv, Ring, Next, vars, Call, Body, StartEnqueue, StartDequeue,
         StartTryDequeue, StartSize, SeeNotEmpty, Retry, InLock, Leave,
         EnqueueClaim, EnqueueFull, EnqueueStore, DequeueLoad, DequeueEmpty,
         DequeueAdvance, SizeEmpty, SizeMeasure, queueVars
<1>3. ASSUME NEW x \in Threads PROVE Knows(x)'
  <2>1. CASE UNCHANGED vars
    BY <2>1 DEF IInv, Knows, vars, queueVars, callVars, size
  <2>2. ASSUME NEW t \in Threads, Call(t) \/ Body(t), x = t PROVE Knows(x)'
    BY <2>2, KnowsOwn
  <2>3. ASSUME NEW t \in Threads, Call(t) \/ Body(t), x # t PROVE Knows(x)'
    <3>1. /\ op'[x] = op[x] /\ at'[x] = at[x] /\ temp'[x] = temp[x]
          /\ ok'[x] = ok[x] /\ count'[x] = count[x]
          /\ UNCHANGED queueVars \/ ~Holds(x)
      BY <2>3, Others DEF IInv
    <3>2. CASE UNCHANGED queueVars
      BY <3>1, <3>2 DEF IInv, Knows, queueVars, size
    <3>3. CASE ~Holds(x)
      BY <3>1, <3>3 DEF IInv, Structure, Places, Knows
    <3>4. QED
      BY <3>1, <3>2, <3>3
  <2>4. QED
    BY <2>1, <2>2, <2>3 DEF Next
<1>4. QED
  BY <1>1, <1>2, <1>3 DEF IInv

LEMMA IInvInit == Init => IInv
BY CapacityAssumption, BlankAssumption
DEF Init, LockInit, IInv, Structure, Types, Places, Knows, Ring, Holds, Index,
    Stored, Enqueues, Dequeues

LEMMA IInvAlways == Spec => [](IInv /\ Locked)
BY LockedAlways, IInvInit, IInvStep, PTL DEF Spec

-----------------------------------------------------------------------------
(* Both indices stay inside the buffer and the lock's counter is natural,  *)
(* for any number of threads and any capacity.                             *)
THEOREM TypesAlways == Spec => []TypeOK
<1>1. IInv /\ Locked => TypeOK
  BY CountedFinite
  DEF IInv, Structure, Types, Locked, LockTypes, LockInv, LockTypeOK, TypeOK,
      CountedSet
<1>2. QED
  BY <1>1, IInvAlways, PTL

(* The elements a caller under the lock would find.                        *)
LEMMA ContentsLength ==
  ASSUME IInv, Locked
  PROVE  /\ Claimed \in {0, 1}
         /\ size - Claimed \in 0 .. Capacity
         /\ Contents \in Seq(Stored)
         /\ Len(Contents) = size - Claimed
         /\ \A t \in Threads : at[t] = "leave" => Claimed = 0
<1>1. Claimed \in {0, 1}
  BY DEF Claimed
<1>2. Claimed = 1 => size # 0
  BY SizeBounds DEF IInv, Structure, Claimed, Knows
<1>3. size - Claimed \in 0 .. Capacity
  BY <1>1, <1>2, SizeBounds, CapacityAssumption DEF IInv, Structure
<1>4. \A i \in 1 .. size - Claimed : container[Slot(i)] \in Stored
  BY <1>3, Slots, CapacityAssumption DEF IInv, Structure, Types
<1>5. Contents \in Seq(Stored) /\ Len(Contents) = size - Claimed
  BY <1>3, <1>4 DEF Contents
<1>6. ASSUME NEW t \in Threads, at[t] = "leave", NEW s \in Threads,
             at[s] = "store"
      PROVE  FALSE
  <2>1. lpc[s] = "excl" /\ Holds(t) /\ s # t
    BY <1>6 DEF IInv, Structure, Places, Holds, Enqueues
  <2>2. QED
    BY <2>1, Exclusion
<1>7. QED
  BY <1>1, <1>3, <1>5, <1>6 DEF Claimed

(* Size returns the number of elements at one moment, whatever the other   *)
(* threads do between its three reads.                                     *)
THEOREM SizeAlwaysExact == Spec => []SizeExact
<1>1. IInv /\ Locked => SizeExact
  BY ContentsLength, SizeBounds DEF IInv, Structure, Knows, SizeExact
<1>2. QED
  BY <1>1, IInvAlways, PTL

(* A try fails only on a queue that is full, or empty, at that moment.     *)
THEOREM FailureAlwaysJustified == Spec => []FailureJustified
<1>1. IInv /\ Locked => FailureJustified
  BY ContentsLength, SizeBounds DEF IInv, Structure, Knows, FailureJustified
<1>2. QED
  BY <1>1, IInvAlways, PTL
-----------------------------------------------------------------------------
(* The refinement: a slot is claimed before it is filled, so the abstract  *)
(* element arrives with EnqueueStore and leaves with DequeueAdvance.       *)

(* While one thread is inside exclusively no other has a slot claimed.     *)
LEMMA NobodyElseStores ==
  ASSUME IInv, Locked, NEW t \in Threads, lpc[t] = "excl",
         NEW s \in Threads, s # t
  PROVE  at[s] # "store"
BY Exclusion DEF IInv, Structure, Places

LEMMA ClaimSimulates ==
  ASSUME IInv, Locked, NEW t \in Threads, EnqueueClaim(t)
  PROVE  Contents' = Contents /\ got' = got /\ Offered' = Offered
<1> USE DEF IInv, Structure
<1>1. lpc[t] = "excl"
  BY DEF EnqueueClaim, InBody, Places, Enqueues
<1>2. Claimed = 0
  BY <1>1, NobodyElseStores DEF EnqueueClaim, Go, Claimed
<1>3. Claimed' = 1
  BY DEF EnqueueClaim, Go, Claimed, Types
<1>4. size' = size + 1
  BY CapacityAssumption
  DEF EnqueueClaim, Types, Ring, size, Increment, Index
<1>5. size' - Claimed' = size - Claimed
  BY <1>2, <1>3, <1>4, SizeBounds
<1>6. container' = container /\ front' = front /\ got' = got
  BY DEF EnqueueClaim
<1>7. Offered' = Offered
  BY DEF EnqueueClaim, Go, Offered, Types
<1>8. QED
  BY <1>5, <1>6, <1>7 DEF Contents, Slot

LEMMA StoreSimulates ==
  ASSUME IInv, Locked, NEW t \in Threads, EnqueueStore(t)
  PROVE  Fifo!Put(t)
<1> USE DEF IInv, Structure
<1>1. lpc[t] = "excl" /\ ~empty /\ arg[t] \in Values
  BY DEF EnqueueStore, Go, InBody, Places, Knows, Enqueues
<1>2. Claimed = 1
  BY DEF EnqueueStore, Go, Claimed
<1>3. Claimed' = 0
  BY <1>1, NobodyElseStores DEF EnqueueStore, Go, Claimed, Types
<1>4. size' = size /\ size \in 1 .. Capacity /\ Slot(size) = back
  BY <1>1, SizeBounds, CapacityAssumption DEF EnqueueStore, size
<1>5. Contents \in Seq(Stored) /\ Len(Contents) = size - 1
  BY <1>2, ContentsLength
<1>6. Contents' = [i \in 1 .. size |-> container'[Slot(i)]]
  BY <1>3, <1>4 DEF EnqueueStore, Contents, Slot
<1>7. ASSUME NEW i \in 1 .. size
      PROVE  container'[Slot(i)] = Append(Contents, arg[t])[i]
  <2>1. Slot(i) \in Index /\ back \in Index
    BY <1>4, Slots, CapacityAssumption DEF Types
  <2>2. CASE i = size
    BY <1>4, <1>5, <2>1, <2>2 DEF EnqueueStore, Types
  <2>3. CASE i # size
    <3>1. Slot(i) # back /\ i \in 1 .. size - 1
      BY <1>4, <2>3, Slots, CapacityAssumption
    <3>2. Append(Contents, arg[t])[i] = Contents[i]
      BY <1>5, <3>1
    <3>3. Contents[i] = container[Slot(i)]
      BY <1>2, <3>1 DEF Contents
    <3>4. QED
      BY <2>1, <3>1, <3>2, <3>3 DEF EnqueueStore, Types
  <2>4. QED
    BY <2>2, <2>3
<1>8. Append(Contents, arg[t]) =
        [i \in 1 .. size |-> Append(Contents, arg[t])[i]]
  BY <1>4, <1>5
<1>9. Contents' = Append(Contents, arg[t])
  BY <1>6, <1>7, <1>8
<1>10. Len(Contents) < Capacity /\ got' = got
  BY <1>4, <1>5, CapacityAssumption DEF EnqueueStore
<1>11. /\ Offered[t] = arg[t] /\ arg[t] # Blank
       /\ Offered' = [Offered EXCEPT ![t] = Blank]
  BY <1>1, BlankAssumption DEF EnqueueStore, Go, Offered, Types
<1>12. QED
  BY <1>9, <1>10, <1>11 DEF Fifo!Put

LEMMA AdvanceSimulates ==
  ASSUME IInv, Locked, NEW t \in Threads, DequeueAdvance(t)
  PROVE  Fifo!Take(t)
<1> USE DEF IInv, Structure
<1>1. lpc[t] = "excl" /\ ~empty /\ temp[t] = container[front]
  BY DEF DequeueAdvance, Go, InBody, Places, Knows, Dequeues
<1>2. Claimed = 0
  BY <1>1, NobodyElseStores DEF DequeueAdvance, Go, Claimed
<1>3. Claimed' = 0
  BY <1>1, NobodyElseStores DEF DequeueAdvance, Go, Claimed, Types
<1>4. size \in 1 .. Capacity /\ Slot(1) = front
  BY <1>1, SizeBounds, Slots, CapacityAssumption
<1>5. Contents \in Seq(Stored) /\ Len(Contents) = size
      /\ Contents[1] = container[front]
  BY <1>2, <1>4, ContentsLength DEF Contents
<1>6. Contents # <<>> /\ Head(Contents) = container[front]
  BY <1>4, <1>5
<1>7. size' = size - 1
  BY <1>1, CapacityAssumption
  DEF DequeueAdvance, Types, size, Increment, Index
<1>8. \A i \in 1 .. size - 1 : Slot(i)' = Slot(i + 1)
  BY <1>1, <1>4, CapacityAssumption
  DEF DequeueAdvance, Types, size, Increment, Index, Slot
<1>9. Contents' = [i \in 1 .. size - 1 |-> container[Slot(i + 1)]]
  <2>1. Contents' = [i \in 1 .. size' - Claimed' |-> container'[Slot(i)']]
    BY DEF Contents
  <2>2. size' - Claimed' = size - 1 /\ container' = container
    BY <1>3, <1>4, <1>7 DEF DequeueAdvance
  <2>3. QED
    BY <2>1, <2>2, <1>8
<1>10. /\ Tail(Contents) \in Seq(Stored)
       /\ Len(Tail(Contents)) = size - 1
       /\ \A i \in 1 .. size - 1 : Tail(Contents)[i] = Contents[i + 1]
  BY <1>5, <1>6, HeadTailProperties
<1>11. \A i \in 1 .. size - 1 : Contents[i + 1] = container[Slot(i + 1)]
  BY <1>2, <1>4 DEF Contents
<1>12. Contents' = Tail(Contents)
  <2>1. \A i \in 1 .. size - 1 : container[Slot(i + 1)] \in Stored
    BY <1>4, Slots, CapacityAssumption DEF Types
  <2>2. /\ Contents' \in Seq(Stored)
        /\ Len(Contents') = size - 1
        /\ \A i \in 1 .. size - 1 : Contents'[i] = container[Slot(i + 1)]
    BY <1>4, <1>9, <2>1
  <2>3. \A i \in 1 .. Len(Contents') : Contents'[i] = Tail(Contents)[i]
    BY <1>10, <1>11, <2>2
  <2>4. QED
    BY <1>10, <2>2, <2>3, SeqEqual
<1>13. Offered' = Offered
  <2>1. arg[t] = Blank
    BY DEF DequeueAdvance, InBody, Places, Enqueues, Dequeues
  <2>2. QED
    BY <2>1 DEF DequeueAdvance, Go, Offered, Types
<1>14. QED
  BY <1>1, <1>6, <1>12, <1>13 DEF DequeueAdvance, Fifo!Take

LEMMA OthersSimulate ==
  ASSUME IInv, Locked, NEW t \in Threads,
         \/ Call(t) \/ SeeNotEmpty(t) \/ Retry(t) \/ InLock(t) \/ Leave(t)
         \/ EnqueueFull(t) \/ DequeueLoad(t) \/ DequeueEmpty(t)
         \/ SizeEmpty(t) \/ SizeMeasure(t)
  PROVE  Contents' = Contents /\ got' = got
<1>1. UNCHANGED queueVars /\ got' = got
  BY DEF Call, StartEnqueue, StartDequeue, StartTryDequeue, StartSize,
         SeeNotEmpty, Retry, InLock, Leave, EnqueueFull, DequeueLoad,
         DequeueEmpty, SizeEmpty, SizeMeasure, queueVars, callVars
<1>2. \A s \in Threads : at'[s] = "store" <=> at[s] = "store"
  BY DEF IInv, Structure, Types, Call, StartEnqueue, StartDequeue,
         StartTryDequeue, StartSize, SeeNotEmpty, Retry, InLock, Leave,
         EnqueueFull, DequeueLoad, DequeueEmpty, SizeEmpty, SizeMeasure, Go,
         callVars
<1>3. Claimed' = Claimed
  BY <1>2 DEF Claimed
<1>4. size' = size
  BY <1>1 DEF queueVars, size
<1>5. QED
  BY <1>1, <1>3, <1>4 DEF queueVars, Contents, Slot

LEMMA OffersSame ==
  ASSUME IInv, Locked, NEW t \in Threads,
         \/ StartDequeue(t) \/ StartTryDequeue(t) \/ StartSize(t)
         \/ SeeNotEmpty(t) \/ Retry(t) \/ InLock(t) \/ EnqueueFull(t)
         \/ DequeueLoad(t) \/ DequeueEmpty(t) \/ SizeEmpty(t)
         \/ SizeMeasure(t)
  PROVE  Offered' = Offered
<1> USE DEF IInv, Structure, Types, Go, Offered
<1>1. CASE \/ StartDequeue(t) \/ StartTryDequeue(t) \/ StartSize(t)
           \/ SeeNotEmpty(t) \/ Retry(t) \/ InLock(t)
  BY <1>1 DEF StartDequeue, StartTryDequeue, StartSize, SeeNotEmpty, Retry,
              InLock, callVars
<1>2. CASE EnqueueFull(t) \/ DequeueLoad(t) \/ DequeueEmpty(t)
  BY <1>2 DEF EnqueueFull, DequeueLoad, DequeueEmpty
<1>3. CASE SizeEmpty(t) \/ SizeMeasure(t)
  <2>1. arg[t] = Blank
    BY <1>3 DEF SizeEmpty, SizeMeasure, InBody, Places, Enqueues
  <2>2. QED
    BY <1>3, <2>1 DEF SizeEmpty, SizeMeasure
<1>4. QED
  BY <1>1, <1>2, <1>3

LEMMA CallSimulates ==
  ASSUME IInv, Locked, NEW t \in Threads, NEW m, NEW v \in Values,
         StartEnqueue(t, m, v), Contents' = Contents, got' = got
  PROVE  Fifo!Offer(t)
<1> USE DEF IInv, Structure, Types, Go, Offered
<1>1. Offered[t] = Blank
  BY DEF StartEnqueue, Places, Enqueues
<1>2. Offered' = [Offered EXCEPT ![t] = v]
  BY DEF StartEnqueue
<1>3. QED
  BY <1>1, <1>2 DEF Fifo!Offer

(* An enqueue that failed keeps its object or, if it was a try, gives up   *)
(* while it still has the lock, and the queue is full.                     *)
LEMMA LeaveSimulates ==
  ASSUME IInv, Locked, NEW t \in Threads, Leave(t), Contents' = Contents,
         got' = got
  PROVE  Offered' = Offered \/ Fifo!GiveUp(t)
<1> USE DEF IInv, Structure, Types, Offered
<1>1. CASE op[t] \notin Enqueues \/ ok[t] \/ op[t] = "Enqueue"
  BY <1>1 DEF Leave, Places, Enqueues
<1>2. CASE op[t] \in Enqueues /\ ~ok[t] /\ op[t] # "Enqueue"
  <2>1. op[t] = "TryEnqueue" /\ at[t] = "leave" /\ arg[t] \in Values
    BY <1>2 DEF Leave, Places, Enqueues
  <2>2. Offered[t] # Blank /\ Offered' = [Offered EXCEPT ![t] = Blank]
    BY <1>2, <2>1, BlankAssumption DEF Leave
  <2>3. Len(Contents) = Capacity
    BY <1>2, <2>1, ContentsLength, CapacityAssumption DEF Knows
  <2>4. QED
    BY <2>2, <2>3 DEF Fifo!GiveUp
<1>3. QED
  BY <1>1, <1>2

LEMMA StepSimulates ==
  ASSUME IInv, Locked, [Next]_vars
  PROVE  [Fifo!Next]_(Fifo!fifoVars)
<1>1. CASE UNCHANGED vars
  BY <1>1 DEF vars, queueVars, callVars, Contents, Slot, size, Claimed,
              Offered, Fifo!fifoVars
<1>2. ASSUME NEW t \in Threads, Call(t) \/ Body(t)
      PROVE  [Fifo!Next]_(Fifo!fifoVars)
  <2>1. CASE EnqueueClaim(t)
    BY <2>1, ClaimSimulates DEF Fifo!fifoVars
  <2>2. CASE EnqueueStore(t)
    BY <2>2, StoreSimulates DEF Fifo!Next
  <2>3. CASE DequeueAdvance(t)
    BY <2>3, AdvanceSimulates DEF Fifo!Next
  <2>4. CASE ~(EnqueueClaim(t) \/ EnqueueStore(t) \/ DequeueAdvance(t))
    <3>1. Contents' = Contents /\ got' = got
      BY <1>2, <2>4, OthersSimulate DEF Body
    <3>2. CASE \E m \in Enqueues, v \in Values : StartEnqueue(t, m, v)
      BY <3>1, <3>2, CallSimulates DEF Fifo!Next
    <3>3. CASE Leave(t)
      BY <3>1, <3>3, LeaveSimulates DEF Fifo!Next, Fifo!fifoVars
    <3>4. CASE ~Leave(t) /\ ~\E m \in Enqueues, v \in Values :
                               StartEnqueue(t, m, v)
      BY <1>2, <2>4, <3>1, <3>4, OffersSame DEF Call, Body, Fifo!fifoVars
    <3>5. QED
      BY <3>2, <3>3, <3>4
  <2>5. QED
    BY <2>1, <2>2, <2>3, <2>4
<1>3. QED
  BY <1>1, <1>2 DEF Next

LEMMA InitSimulates == Init => Fifo!Init
BY DEF Init, Fifo!Init, Contents, Claimed, Offered, size

(* The ring buffer is a bounded FIFO queue for any number of threads and   *)
(* any capacity: every completed enqueue appends its caller's object once, *)
(* and every completed dequeue returns the oldest element to one thread    *)
(* only.                                                                   *)
THEOREM QueueImplementsFifo == Spec => ImplementsFifo
BY IInvAlways, InitSimulates, StepSimulates, PTL
DEF Spec, ImplementsFifo, Fifo!Spec
=============================================================================
