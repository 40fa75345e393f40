---------------------------- MODULE SpinLockQueue ----------------------------
(***************************************************************************)
(* The bounded ring buffer over the spin lock.  The bodies of the critical *)
(* sections are split where another thread could see or disturb them if    *)
(* the lock let it in, and Dequeue's unlocked polling of m_empty is a step *)
(* of its own.                                                             *)
(***************************************************************************)
EXTENDS SpinLock, Sequences

CONSTANTS
  Values,        \* what the queue stores
  Blank,         \* a default-constructed T
  Capacity       \* m_maxCapacity

ASSUME CapacityAssumption == Capacity \in Nat \ {0}
ASSUME BlankAssumption == Blank \notin Values

VARIABLES
  container, front, back, empty,   \* m_container, m_frontIndex, ...
  op,            \* the method each thread executes, "none" between calls
  at,            \* how far it is in that method
  arg,           \* the object to enqueue
  temp,          \* TryDequeue's local copy of the front element
  ok,            \* whether the last try succeeded
  got,           \* the element the last successful dequeue returned
  count          \* Size's local result

queueVars == <<container, front, back, empty>>
callVars == <<op, at, arg, temp, ok, got, count>>
vars == <<lockVars, queueVars, callVars>>

Index == 0 .. Capacity - 1
Stored == Values \cup {Blank}

Enqueues == {"Enqueue", "TryEnqueue"}
Dequeues == {"Dequeue", "TryDequeue"}

(* Both indices stay inside m_container, and every thread is at a place of *)
(* a method of the queue.                                                  *)
TypeOK ==
  /\ LockTypeOK
  /\ container \in [Index -> Stored]
  /\ front \in Index /\ back \in Index /\ empty \in BOOLEAN
  /\ op \in [Threads -> Enqueues \cup Dequeues \cup {"Size", "none"}]
  /\ at \in [Threads -> {"idle", "poll", "enter", "store", "advance",
                         "measure", "leave", "again"}]
  /\ arg \in [Threads -> Stored] /\ temp \in [Threads -> Stored]
  /\ ok \in [Threads -> BOOLEAN] /\ got \in [Threads -> Stored]
  /\ count \in [Threads -> Nat]

Init ==
  /\ LockInit
  /\ container = [i \in Index |-> Blank]
  /\ front = 0 /\ back = 0 /\ empty = TRUE
  /\ op = [t \in Threads |-> "none"] /\ at = [t \in Threads |-> "idle"]
  /\ arg = [t \in Threads |-> Blank] /\ temp = [t \in Threads |-> Blank]
  /\ ok = [t \in Threads |-> FALSE] /\ got = [t \in Threads |-> Blank]
  /\ count = [t \in Threads |-> 0]

Go(t, from, to) == at[t] = from /\ at' = [at EXCEPT ![t] = to]

-----------------------------------------------------------------------------
(* incrementBack, incrementFront and the unlocked size().                  *)

NoWrap(i) == i + 1             \* mutant: the index runs off the ring
Increment(i) == IF i = Capacity - 1 THEN 0 ELSE i + 1

size ==
  IF empty THEN 0
  ELSE IF back < front THEN (Capacity - front) + back + 1
  ELSE back - front + 1

-----------------------------------------------------------------------------
(* Calls.                                                                  *)

StartEnqueue(t, m, v) ==
  /\ Go(t, "idle", "enter") /\ CallExclusiveLock(t)
  /\ op' = [op EXCEPT ![t] = m] /\ arg' = [arg EXCEPT ![t] = v]
  /\ UNCHANGED <<queueVars, temp, ok, got, count>>

StartDequeue(t) ==
  /\ Go(t, "idle", "poll")
  /\ op' = [op EXCEPT ![t] = "Dequeue"]
  /\ UNCHANGED <<lockVars, queueVars, arg, temp, ok, got, count>>

(* Dequeue's first loop reads the plain bool m_empty without the lock.     *)
SeeNotEmpty(t) ==
  /\ Go(t, "poll", "enter") /\ ~empty /\ CallExclusiveLock(t)
  /\ UNCHANGED <<queueVars, op, arg, temp, ok, got, count>>

StartTryDequeue(t) ==
  /\ Go(t, "idle", "enter") /\ CallExclusiveLock(t)
  /\ op' = [op EXCEPT ![t] = "TryDequeue"]
  /\ UNCHANGED <<queueVars, arg, temp, ok, got, count>>

StartSize(t) ==
  /\ Go(t, "idle", "enter") /\ CallSharedLock(t)
  /\ op' = [op EXCEPT ![t] = "Size"]
  /\ UNCHANGED <<queueVars, arg, temp, ok, got, count>>

(* Enqueue and Dequeue call the Try method again until it succeeds. *)
Retry(t) ==
  /\ Go(t, "again", "enter") /\ CallExclusiveLock(t)
  /\ UNCHANGED <<queueVars, op, arg, temp, ok, got, count>>

-----------------------------------------------------------------------------
(* TryEnqueue under the exclusive lock: claim the slot, then fill it.      *)

InBody(t, ops) == op[t] \in ops /\ lpc[t] \in {"excl", "shared"}

EnqueueClaim(t) ==
  /\ InBody(t, Enqueues) /\ size < Capacity
  /\ Go(t, "enter", "store")
  /\ empty' = FALSE
  /\ back' = IF empty THEN back ELSE Increment(back)
  /\ UNCHANGED <<lockVars, container, front, op, arg, temp, ok, got, count>>

(* Mutant: the queue counts as full one element early. *)
FullTooEarly(t) ==
  /\ InBody(t, Enqueues) /\ size >= Capacity - 1
  /\ Go(t, "enter", "leave")
  /\ ok' = [ok EXCEPT ![t] = FALSE]
  /\ UNCHANGED <<lockVars, queueVars, op, arg, temp, got, count>>

EnqueueFull(t) ==
  /\ InBody(t, Enqueues) /\ size >= Capacity
  /\ Go(t, "enter", "leave")
  /\ ok' = [ok EXCEPT ![t] = FALSE]
  /\ UNCHANGED <<lockVars, queueVars, op, arg, temp, got, count>>

EnqueueStore(t) ==
  /\ InBody(t, Enqueues) /\ Go(t, "store", "leave")
  /\ container' = [container EXCEPT ![back] = arg[t]]
  /\ ok' = [ok EXCEPT ![t] = TRUE]
  /\ UNCHANGED <<lockVars, front, back, empty, op, arg, temp, got, count>>

-----------------------------------------------------------------------------
(* TryDequeue under the exclusive lock: copy the front, then drop it.      *)

(* Mutant: the newest element is taken. *)
LoadNewest(t) ==
  /\ InBody(t, Dequeues) /\ ~empty
  /\ Go(t, "enter", "advance")
  /\ temp' = [temp EXCEPT ![t] = container[back]]
  /\ UNCHANGED <<lockVars, queueVars, op, arg, ok, got, count>>

DequeueLoad(t) ==
  /\ InBody(t, Dequeues) /\ ~empty
  /\ Go(t, "enter", "advance")
  /\ temp' = [temp EXCEPT ![t] = container[front]]
  /\ UNCHANGED <<lockVars, queueVars, op, arg, ok, got, count>>

DequeueEmpty(t) ==
  /\ InBody(t, Dequeues) /\ empty
  /\ Go(t, "enter", "leave")
  /\ ok' = [ok EXCEPT ![t] = FALSE]
  /\ UNCHANGED <<lockVars, queueVars, op, arg, temp, got, count>>

DequeueAdvance(t) ==
  /\ InBody(t, Dequeues) /\ Go(t, "advance", "leave")
  /\ IF front = back
     THEN empty' = TRUE /\ UNCHANGED front
     ELSE front' = Increment(front) /\ UNCHANGED empty
  /\ ok' = [ok EXCEPT ![t] = TRUE]
  /\ got' = [got EXCEPT ![t] = temp[t]]
  /\ UNCHANGED <<lockVars, container, back, op, arg, temp, count>>

-----------------------------------------------------------------------------
(* Size under the shared lock: m_empty first, the indices after it.        *)

SizeEmpty(t) ==
  /\ InBody(t, {"Size"})
  /\ Go(t, "enter", IF empty THEN "leave" ELSE "measure")
  /\ count' = [count EXCEPT ![t] = 0]
  /\ UNCHANGED <<lockVars, queueVars, op, arg, temp, ok, got>>

(* Mutant: a wrapped queue measures one too short. *)
MeasureOffByOne(t) ==
  /\ InBody(t, {"Size"}) /\ Go(t, "measure", "leave")
  /\ count' = [count EXCEPT ![t] =
       IF back < front THEN (Capacity - front) + back ELSE back - front + 1]
  /\ UNCHANGED <<lockVars, queueVars, op, arg, temp, ok, got>>

SizeMeasure(t) ==
  /\ InBody(t, {"Size"}) /\ Go(t, "measure", "leave")
  /\ count' = [count EXCEPT ![t] =
       IF back < front THEN (Capacity - front) + back + 1
       ELSE back - front + 1]
  /\ UNCHANGED <<lockVars, queueVars, op, arg, temp, ok, got>>

-----------------------------------------------------------------------------
(* Release and return, the locals die; a failed Enqueue or Dequeue goes    *)
(* round again with the same object.                                       *)
Leave(t) ==
  /\ at[t] = "leave" /\ LockRelease(t)
  /\ IF op[t] \in {"Enqueue", "Dequeue"} /\ ~ok[t]
     THEN at' = [at EXCEPT ![t] = "again"] /\ UNCHANGED <<op, arg>>
     ELSE /\ at' = [at EXCEPT ![t] = "idle"]
          /\ op' = [op EXCEPT ![t] = "none"]
          /\ arg' = [arg EXCEPT ![t] = Blank]
  /\ temp' = [temp EXCEPT ![t] = Blank]
  /\ ok' = [ok EXCEPT ![t] = FALSE]
  /\ count' = [count EXCEPT ![t] = 0]
  /\ UNCHANGED <<queueVars, got>>

InLock(t) == LockStep(t) /\ UNCHANGED <<queueVars, callVars>>

Call(t) ==
  \/ \E m \in Enqueues, v \in Values : StartEnqueue(t, m, v)
  \/ StartDequeue(t) \/ StartTryDequeue(t) \/ StartSize(t)

Body(t) ==
  \/ SeeNotEmpty(t) \/ Retry(t) \/ InLock(t) \/ Leave(t)
  \/ EnqueueClaim(t) \/ EnqueueFull(t) \/ EnqueueStore(t)
  \/ DequeueLoad(t) \/ DequeueEmpty(t) \/ DequeueAdvance(t)
  \/ SizeEmpty(t) \/ SizeMeasure(t)

Next == \E t \in Threads : Call(t) \/ Body(t)

Spec == Init /\ [][Next]_vars

-----------------------------------------------------------------------------
(* Properties.                                                             *)

(* The elements in the buffer, oldest first.  The slot an enqueuer has     *)
(* claimed but not filled does not count yet.                              *)
Claimed == IF \E t \in Threads : at[t] = "store" THEN 1 ELSE 0
Slot(i) ==
  IF front + i - 1 < Capacity THEN front + i - 1 ELSE front + i - 1 - Capacity
Contents == [i \in 1 .. size - Claimed |-> container[Slot(i)]]

(* The object of an Enqueue or TryEnqueue that has not been stored.        *)
Offered ==
  [t \in Threads |-> IF at[t] = "leave" /\ ok[t] THEN Blank ELSE arg[t]]

(* The ring buffer is a bounded FIFO queue: each completed enqueue appends *)
(* its caller's object, once, a try gives up only at a full queue, each    *)
(* completed dequeue returns the oldest element and no other thread gets   *)
(* the same one, whatever the other threads do and whatever the unlocked   *)
(* read of m_empty saw.                                                    *)
Fifo == INSTANCE BoundedFifo WITH
          queue <- Contents, taken <- got, offered <- Offered
ImplementsFifo == Fifo!Spec

(* Size computes, under the shared lock, the number of elements at one     *)
(* moment, although it reads m_empty and the two indices separately.       *)
SizeExact ==
  \A t \in Threads :
    op[t] = "Size" /\ at[t] = "leave" => count[t] = Len(Contents)

(* A try reports failure only of a queue that is full, or empty, while the *)
(* caller still holds the lock.                                            *)
FailureJustified ==
  \A t \in Threads : at[t] = "leave" /\ ~ok[t] =>
    /\ op[t] \in Enqueues => Len(Contents) = Capacity
    /\ op[t] \in Dequeues => Contents = <<>>
=============================================================================
