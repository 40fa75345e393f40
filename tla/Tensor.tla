------------------------------- MODULE Tensor -------------------------------
(***************************************************************************)
(* The memory of Tensor<T>: who owns which buffer, how large it is, and    *)
(* where in it the element At(idx) lies.  Rows are padded to whole vector  *)
(* registers on a CPU and not at all on a GPU, so a copy between devices   *)
(* is no copy of bytes.  All tensors have one shape of Rows times Cols;    *)
(* calls that throw before they change anything are no steps.  Moves and   *)
(* reallocations go wrong in cases the code does not check for: these are  *)
(* steps, marked "misuse", with which a behaviour ends.                    *)
(***************************************************************************)
EXTENDS Integers, FiniteSets

CONSTANTS
  Names,           \* the tensors of the program
  Buffers,         \* addresses the allocator hands out
  Null,            \* no address
  Rows, Cols,      \* the shape, TensorShape
  Pad,             \* elements per padding unit on a CPU, 32 / sizeof(T)
  Devices,         \* device types in use
  Batches,         \* batch sizes in use
  Inputs,          \* names of the vectors given to SetData
  Resizing         \* may ChangeBatchSize be given another size?

ASSUME TensorAssumption ==
  /\ Null \notin Buffers
  /\ Rows \in Nat \ {0} /\ Cols \in Nat \ {0} /\ Pad \in Nat \ {0}
  /\ Devices \subseteq {"CPU", "GPU"}
  /\ Batches \subseteq Nat \ {0} /\ Resizing \in BOOLEAN
  /\ Inputs \subseteq Nat \ {0}

VARIABLES
  live,            \* the tensors that have been constructed
  device,          \* Device, "none" in a default-constructed tensor
  batch,           \* BatchSize
  owns,            \* m_hasOwnership
  base,            \* Data.m_base
  allocated,       \* the buffers malloc has given out
  heap,            \* heap[b]: the elements of buffer b
  did              \* history: the last call of the user

vars == <<live, device, batch, owns, base, allocated, heap, did>>

(* No call yet that the code should have refused. *)
Careful == did.op # "misuse"

-----------------------------------------------------------------------------
(* Layout.                                                                 *)

PaddedColumnSize(d) ==
  CASE d = "none" -> 0
    [] d = "GPU"  -> Cols
    [] d = "CPU"  -> Pad * ((Cols + Pad - 1) \div Pad)

ElementSize(d) == Rows * PaddedColumnSize(d)

Size == Rows * Cols                        \* TensorShape.Size()

(* Where At(idx) looks for logical element idx. *)
Position(d, idx) == PaddedColumnSize(d) * (idx \div Cols) + (idx % Cols)

Indices(n) == 0 .. Size * n - 1            \* logical indices of n samples

Length(b) == Cardinality(DOMAIN heap[b])

(* Element values: what the input held at an index, zero, or whatever the  *)
(* memory held.                                                            *)
Junk == <<0, 1>>
Zero == <<0, 0>>
Written(x, n) == [i \in Indices(n) |-> IF x = 0 THEN Zero ELSE <<x, i>>]

Fresh(n) == [p \in 0 .. n - 1 |-> Junk]

(* Contents c after At(i) = v[i] for all i of v's domain. *)
Store(c, d, v) ==
  [p \in DOMAIN c |->
     LET hit == {i \in DOMAIN v : Position(d, i) = p}
     IN  IF hit = {} THEN c[p] ELSE v[CHOOSE i \in hit : TRUE]]

(* What At reads for the first n samples of tensor t. *)
Read(t, n) == [i \in Indices(n) |-> heap[base[t]][Position(device[t], i)]]

Smaller(m, n) == IF m <= n THEN m ELSE n

-----------------------------------------------------------------------------
Init ==
  /\ live = {} /\ allocated = {}
  /\ device = [t \in Names |-> "none"]
  /\ batch = [t \in Names |-> 0]
  /\ owns = [t \in Names |-> FALSE]
  /\ base = [t \in Names |-> Null]
  /\ heap = [b \in Buffers |-> <<>>]
  /\ did = [op |-> "none"]

(* The default constructor, as unordered_map::operator[] uses it. *)
Default(t) ==
  /\ t \notin live
  /\ live' = live \cup {t}
  /\ did' = [op |-> "keep", to |-> t]
  /\ UNCHANGED <<device, batch, owns, base, allocated, heap>>

(* Mutant: room for the elements, not for the padding. *)
AllocateUnpadded(t, b, d, n, v) ==
  /\ b \in Buffers \ allocated
  /\ allocated' = allocated \cup {b}
  /\ heap' = [heap EXCEPT ![b] = Store(Fresh(Size * n), d, v)]
  /\ base' = [base EXCEPT ![t] = b]
  /\ owns' = [owns EXCEPT ![t] = TRUE]

(* aligned_alloc in a constructor or in SetData: t is given buffer b of    *)
(* room for n samples, holding the elements v.                             *)
Allocate(t, b, d, n, v) ==
  /\ b \in Buffers \ allocated
  /\ allocated' = allocated \cup {b}
  /\ heap' = [heap EXCEPT ![b] = Store(Fresh(ElementSize(d) * n), d, v)]
  /\ base' = [base EXCEPT ![t] = b]
  /\ owns' = [owns EXCEPT ![t] = TRUE]

(* The constructors: elements are zeroed, or set from the vector x. *)
Construct(t, d, n, x) ==
  /\ t \notin live
  /\ live' = live \cup {t}
  /\ device' = [device EXCEPT ![t] = d]
  /\ batch' = [batch EXCEPT ![t] = n]
  /\ \E b \in Buffers : Allocate(t, b, d, n, Written(x, n))
  /\ did' = [op |-> "write", to |-> t, with |-> Written(x, n)]

CopyConstruct(s, t) ==
  /\ s \in live /\ owns[s] /\ t \notin live
  /\ live' = live \cup {t}
  /\ device' = [device EXCEPT ![t] = device[s]]
  /\ batch' = [batch EXCEPT ![t] = batch[s]]
  /\ \E b \in Buffers : Allocate(t, b, device[s], batch[s], Read(s, batch[s]))
  /\ did' = [op |-> "copy", from |-> s, to |-> t]

SetData(t, x) ==
  /\ t \in live /\ device[t] # "none"              \* the callers' part
  /\ IF owns[t]
     THEN /\ heap' = [heap EXCEPT ![base[t]] =
                        Store(@, device[t], Written(x, batch[t]))]
          /\ UNCHANGED <<owns, base, allocated>>
     ELSE \E b \in Buffers :
            Allocate(t, b, device[t], batch[t], Written(x, batch[t]))
  /\ did' = [op |-> "write", to |-> t, with |-> Written(x, batch[t])]
  /\ UNCHANGED <<live, device, batch>>

-----------------------------------------------------------------------------
(* Copying.  The code trusts its callers in two ways: an assignment keeps  *)
(* the buffer the destination owns, and a copy into a tensor without one   *)
(* allocates the source's size, whatever the destination's layout.         *)

SameRoom(s, t) == device[s] = device[t] /\ batch[s] = batch[t]

(* Mutant: a copy of bytes, as Span::DeepCopy does. *)
CopyBytes(s, t, d, n) ==
  IF owns[t]
  THEN /\ heap' = [heap EXCEPT ![base[t]] = [p \in DOMAIN @ |->
                     IF p \in DOMAIN heap[base[s]]
                     THEN heap[base[s]][p] ELSE @[p]]]
       /\ UNCHANGED <<owns, base, allocated>>
  ELSE \E b \in Buffers : Allocate(t, b, d, n, Read(s, n))

(* CopyTensorData into t, whose Device is d and BatchSize n by now. *)
CopyElements(s, t, d, n) ==
  IF owns[t]
  THEN /\ heap' = [heap EXCEPT ![base[t]] =
                     Store(@, d, Read(s, Smaller(batch[s], n)))]
       /\ UNCHANGED <<owns, base, allocated>>
  ELSE \E b \in Buffers : Allocate(t, b, d, n, Read(s, n))

CopyAssign(s, t) ==
  /\ s \in live /\ t \in live /\ s # t /\ owns[s]
  /\ owns[t] => SameRoom(s, t)                     \* the callers' part
  /\ device' = [device EXCEPT ![t] = device[s]]
  /\ batch' = [batch EXCEPT ![t] = batch[s]]
  /\ CopyElements(s, t, device[s], batch[s])
  /\ did' = [op |-> "copy", from |-> s, to |-> t]
  /\ UNCHANGED live

(* The source has lost its data: the sizes are assigned, then it throws. *)
CopyAssignThrows(s, t) ==
  /\ s \in live /\ t \in live /\ s # t /\ ~owns[s]
  /\ owns[t] => SameRoom(s, t)                     \* the callers' part
  /\ device' = [device EXCEPT ![t] = device[s]]
  /\ batch' = [batch EXCEPT ![t] = batch[s]]
  /\ did' = [op |-> "keep", to |-> t]
  /\ UNCHANGED <<live, owns, base, allocated, heap>>

(* If t holds more samples than s, At throws after the last one of s: as   *)
(* many elements are copied as both tensors have.                          *)
CopyTensorData(s, t) ==
  /\ s \in live /\ t \in live /\ owns[s] /\ device[t] # "none"
  /\ owns[t] \/ SameRoom(s, t)                     \* the callers' part
  /\ CopyElements(s, t, device[t], batch[t])
  /\ did' = [op |-> "copy", from |-> s, to |-> t]
  /\ UNCHANGED <<live, device, batch>>

-----------------------------------------------------------------------------
(* Moving.  The source keeps its pointer and loses ownership.  The code    *)
(* compares neither the tensors nor their batch sizes: a tensor moved to   *)
(* itself frees its buffer and owns no address, and a buffer of another    *)
(* batch size is not the one At expects.                                   *)

Free(B) ==
  /\ allocated' = allocated \ B
  /\ heap' = [b \in Buffers |-> IF b \in B THEN <<>> ELSE heap[b]]

Moved(s, t) ==
  /\ s \in live /\ t \in live /\ owns[s] /\ device[s] = device[t]
  /\ Free(IF owns[t] THEN {base[t]} ELSE {})
  /\ base' = [base EXCEPT ![t] = IF s = t THEN Null ELSE base[s]]
  /\ did' = IF s # t /\ SameRoom(s, t)
            THEN [op |-> "move", from |-> s, to |-> t]
            ELSE [op |-> "misuse", to |-> t]
  /\ UNCHANGED <<live, device, batch>>

(* Mutant: the source still owns. *)
MoveKeepingOwner(s, t) ==
  Moved(s, t) /\ owns' = [owns EXCEPT ![t] = TRUE]

MoveTensorData(s, t) ==
  Moved(s, t) /\ owns' = [owns EXCEPT ![s] = FALSE, ![t] = TRUE]

ForwardTensorData(s, t) ==
  IF device[s] = device[t] THEN MoveTensorData(s, t) ELSE CopyTensorData(s, t)

-----------------------------------------------------------------------------
(* ChangeBatchSize frees whatever Data points to and allocates anew;       *)
(* BatchSize keeps its value.  It does not ask who owns what Data points   *)
(* to: after a move that is the buffer of another tensor, or a freed one.  *)
ChangeBatchSize(t, n) ==
  /\ t \in live /\ device[t] # "none"
  /\ Resizing \/ n = batch[t]                      \* the callers' part
  /\ \E b \in (Buffers \ allocated) \cup ({base[t]} \cap Buffers) :
       /\ allocated' = (allocated \ {base[t]}) \cup {b}
       /\ heap' = [c \in Buffers |->
                     CASE c = b       -> Fresh(ElementSize(device[t]) * n)
                       [] c = base[t] /\ c # b -> <<>>
                       [] OTHER       -> heap[c]]
       /\ base' = [base EXCEPT ![t] = b]
  /\ owns' = [owns EXCEPT ![t] = TRUE]
  /\ did' = [op |-> IF owns[t] \/ base[t] = Null THEN "resize" ELSE "misuse",
             to |-> t]
  /\ UNCHANGED <<live, device, batch>>

(* Mutant: m_freeData forgets the flag. *)
DestroyStillOwner(t) ==
  /\ t \in live
  /\ live' = live \ {t}
  /\ Free(IF owns[t] THEN {base[t]} ELSE {})
  /\ base' = [base EXCEPT ![t] = Null]
  /\ device' = [device EXCEPT ![t] = "none"]
  /\ batch' = [batch EXCEPT ![t] = 0]
  /\ did' = [op |-> "drop", to |-> t]
  /\ UNCHANGED owns

Destroy(t) ==
  /\ t \in live
  /\ live' = live \ {t}
  /\ Free(IF owns[t] THEN {base[t]} ELSE {})
  /\ owns' = [owns EXCEPT ![t] = FALSE]
  /\ base' = [base EXCEPT ![t] = Null]
  /\ device' = [device EXCEPT ![t] = "none"]
  /\ batch' = [batch EXCEPT ![t] = 0]
  /\ did' = [op |-> "drop", to |-> t]

Next ==
  Careful /\ \E t \in Names :
    \/ Default(t) \/ Destroy(t)
    \/ \E d \in Devices, n \in Batches, x \in Inputs \cup {0} :
         Construct(t, d, n, x)
    \/ \E x \in Inputs : SetData(t, x)
    \/ \E n \in Batches : ChangeBatchSize(t, n)
    \/ \E s \in Names :
         \/ CopyConstruct(s, t) \/ CopyAssign(s, t) \/ CopyAssignThrows(s, t)
         \/ CopyTensorData(s, t) \/ MoveTensorData(s, t)
         \/ ForwardTensorData(s, t)

Spec == Init /\ [][Next]_vars

-----------------------------------------------------------------------------
(* Tensors and buffers have their types; a tensor that has not been        *)
(* constructed owns nothing.                                               *)
TypeOK ==
  /\ live \subseteq Names /\ allocated \subseteq Buffers
  /\ device \in [Names -> Devices \cup {"none"}]
  /\ batch \in [Names -> Batches \cup {0}]
  /\ owns \in [Names -> BOOLEAN] /\ base \in [Names -> Buffers \cup {Null}]
  /\ \A t \in Names \ live : ~owns[t]

(* Every buffer that is allocated has one owner, and every owner's buffer  *)
(* is allocated: through any sequence of copies, moves (which leave the    *)
(* source its pointer), reallocations and destructions nothing is freed    *)
(* twice, used after it was freed, or leaked, until somebody reallocates a *)
(* tensor whose data was moved away, or moves one to itself or to another  *)
(* batch size.                                                             *)
OwnedOnce ==
  /\ \A t \in live : owns[t] => base[t] \in allocated
  /\ \A b \in allocated :
       \E t \in live :
         /\ owns[t] /\ base[t] = b
         /\ \A s \in live : owns[s] /\ base[s] = b => s = t

OneOwner == Careful => OwnedOnce

(* "Idx exceeds allocated size": the limit At checks against, computed     *)
(* from BatchSize, is the size of the buffer, up to the first such call.   *)
AtKnowsAllocation ==
  Careful => \A t \in live :
    owns[t] => DOMAIN heap[base[t]] = 0 .. ElementSize(device[t]) * batch[t] - 1

(* Tensors behave as independent values, whatever buffers they have had    *)
(* and on whichever device they are, up to the first such call.            *)
AsValues == INSTANCE TensorValues WITH
  Values <- {[i \in Indices(n) |-> Junk] : n \in Batches},
  Nothing <- Null,
  value <- [t \in Names |-> IF owns[t] THEN Read(t, batch[t]) ELSE Null]

ImplementsValues == AsValues!Spec
=============================================================================
