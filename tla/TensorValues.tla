---------------------------- MODULE TensorValues ----------------------------
(***************************************************************************)
(* What tensors promise their user: each holds a value of its own, or      *)
(* nothing, and a call changes the tensors it names, as its name says, and *)
(* no other.  Where buffers live, who frees them and how rows are padded   *)
(* cannot be seen.  Of a call the code should have refused nothing is      *)
(* promised, and there is none after it.                                   *)
(***************************************************************************)
CONSTANTS Names, Values, Nothing

VARIABLES
  value,          \* value[t]: the elements of t in logical order
  did             \* the last call: [op, from, to, with]

vars == <<value, did>>

Init ==
  /\ value = [t \in Names |-> Nothing]
  /\ did.op = "none"

(* The elements of new, as far as it goes, over those of old. *)
Overlay(new, old) ==
  [i \in DOMAIN old |-> IF i \in DOMAIN new THEN new[i] ELSE old[i]]

(* A constructor or SetData: t holds what the caller gave. *)
Write(t) ==
  /\ did'.op = "write" /\ did'.to = t
  /\ value' = [value EXCEPT ![t] = did'.with]

(* The copy constructor, copy assignment and CopyTensorData. *)
Copy(s, t) ==
  /\ did'.op = "copy" /\ did'.from = s /\ did'.to = t
  /\ value[s] # Nothing
  /\ value' = [value EXCEPT ![t] =
                 IF @ = Nothing THEN value[s] ELSE Overlay(value[s], @)]

Move(s, t) ==
  /\ did'.op = "move" /\ did'.from = s /\ did'.to = t
  /\ value[s] # Nothing
  /\ value' = [value EXCEPT ![t] = value[s], ![s] = Nothing]

(* A tensor is destroyed, or fails to take the value of an empty one. *)
Keep(t) ==
  /\ did'.op = "keep" /\ did'.to = t /\ UNCHANGED value

Drop(t) ==
  /\ did'.op = "drop" /\ did'.to = t
  /\ value' = [value EXCEPT ![t] = Nothing]

(* ChangeBatchSize: whatever was there is gone. *)
Resize(t) ==
  /\ did'.op = "resize" /\ did'.to = t
  /\ \E v \in Values : value' = [value EXCEPT ![t] = v]

(* Reallocating a tensor whose data was moved away, or moving one to       *)
(* itself or to another batch size.                                        *)
Misuse(t) == did'.op = "misuse" /\ did'.to = t

Next ==
  did.op # "misuse" /\ \E s, t \in Names :
    \/ Write(t) \/ Copy(s, t) \/ Move(s, t) \/ Keep(t) \/ Drop(t) \/ Resize(t)
    \/ Misuse(t)

Spec == Init /\ [][Next]_vars
=============================================================================
