---------------------------- MODULE BoundedFifo ----------------------------
(***************************************************************************)
(* What SpinLockQueue promises: a FIFO queue of at most Capacity elements, *)
(* to which each thread adds the objects it was called with, once each.    *)
(***************************************************************************)
EXTENDS Integers, Sequences

CONSTANTS Threads, Values, Blank, Capacity

VARIABLES
  queue,        \* oldest element first
  taken,        \* the last element each thread dequeued
  offered       \* the object each thread has yet to enqueue, or Blank

fifoVars == <<queue, taken, offered>>

Init ==
  /\ queue = <<>>
  /\ taken = [t \in Threads |-> Blank]
  /\ offered = [t \in Threads |-> Blank]

(* Enqueue or TryEnqueue is called. *)
Offer(t) ==
  /\ offered[t] = Blank
  /\ \E v \in Values : offered' = [offered EXCEPT ![t] = v]
  /\ UNCHANGED <<queue, taken>>

Put(t) ==
  /\ offered[t] # Blank /\ Len(queue) < Capacity
  /\ queue' = Append(queue, offered[t])
  /\ offered' = [offered EXCEPT ![t] = Blank]
  /\ UNCHANGED taken

(* TryEnqueue fails: the queue is full. *)
GiveUp(t) ==
  /\ offered[t] # Blank /\ Len(queue) = Capacity
  /\ offered' = [offered EXCEPT ![t] = Blank]
  /\ UNCHANGED <<queue, taken>>

Take(t) ==
  /\ queue # <<>>
  /\ taken' = [taken EXCEPT ![t] = Head(queue)]
  /\ queue' = Tail(queue)
  /\ UNCHANGED offered

Next == \E t \in Threads : Offer(t) \/ Put(t) \/ GiveUp(t) \/ Take(t)

Spec == Init /\ [][Next]_fifoVars
=============================================================================
