---------------------------- MODULE TensorProofs ----------------------------
(***************************************************************************)
(* For any set of tensors and buffers, any shape and any batch sizes, up   *)
(* to the first misuse: each allocated buffer has exactly one owner; where *)
(* no batch is resized, an owner's buffer has the room its shape calls     *)
(* for; the places of two elements never meet, and a tensor behaves as a   *)
(* value of its own.                                                       *)
(***************************************************************************)
EXTENDS Tensor, TLAPS

(* What the calls do to ownership: nothing; t is given a new buffer; t     *)
(* gives its buffer back; t takes the buffer of s; t's buffer is replaced; *)
(* or a misuse, which leaves nothing but the types.                        *)
Unmoved(t) ==
  /\ live \subseteq live' /\ live' \subseteq live \cup {t}
  /\ t \notin live => ~owns[t]
  /\ UNCHANGED <<owns, base, allocated>>

Given(t) ==
  /\ live' = live \cup {t} /\ ~owns[t]
  /\ \E b \in Buffers \ allocated :
       /\ allocated' = allocated \cup {b}
       /\ base' = [base EXCEPT ![t] = b]
       /\ owns' = [owns EXCEPT ![t] = TRUE]

Taken(s, t) ==
  /\ s \in live /\ t \in live /\ s # t /\ owns[s] /\ live' = live
  /\ allocated' = allocated \ (IF owns[t] THEN {base[t]} ELSE {})
  /\ base' = [base EXCEPT ![t] = base[s]]
  /\ owns' = [owns EXCEPT ![s] = FALSE, ![t] = TRUE]

Replaced(t) ==
  /\ t \in live /\ owns[t] /\ live' = live
  /\ owns' = [owns EXCEPT ![t] = TRUE]
  /\ \E b \in (Buffers \ allocated) \cup ({base[t]} \cap Buffers) :
       /\ allocated' = (allocated \ {base[t]}) \cup {b}
       /\ base' = [base EXCEPT ![t] = b]

GivenBack(t) ==
  /\ t \in live /\ live' = live \ {t}
  /\ allocated' = allocated \ (IF owns[t] THEN {base[t]} ELSE {})
  /\ base' = [base EXCEPT ![t] = Null]
  /\ owns' = [owns EXCEPT ![t] = FALSE]

Misused ==
  /\ ~Careful' /\ live' = live /\ owns' \in [Names -> BOOLEAN]
  /\ allocated' \subseteq Buffers
  /\ base' \in [Names -> Buffers \cup {Null}]
  /\ \A u \in Names \ live : ~owns'[u]

-----------------------------------------------------------------------------
(* Every step is one of the six, whatever it does to the elements.         *)
LEMMA OwnershipSteps ==
  ASSUME TypeOK, Next
  PROVE  \E s, t \in Names :
           \/ Unmoved(t) \/ Given(t) \/ Taken(s, t) \/ Replaced(t)
           \/ GivenBack(t) \/ Misused
<1>1. PICK t \in Names :
        \/ Default(t) \/ Destroy(t)
        \/ \E d \in Devices, n \in Batches, x \in Inputs \cup {0} :
             Construct(t, d, n, x)
        \/ \E x \in Inputs : SetData(t, x)
        \/ \E n \in Batches : ChangeBatchSize(t, n)
        \/ \E s \in Names :
             \/ CopyConstruct(s, t) \/ CopyAssign(s, t)
             \/ CopyAssignThrows(s, t) \/ CopyTensorData(s, t)
             \/ MoveTensorData(s, t) \/ ForwardTensorData(s, t)
  BY DEF Next
<1>2. t \notin live => ~owns[t]
  BY DEF TypeOK
<1>3. CASE Default(t)
  <2>1. Unmoved(t)
    BY <1>2, <1>3 DEF Default, Unmoved
  <2> QED  BY <2>1
<1>4. CASE Destroy(t)
  <2>1. GivenBack(t)
    BY <1>4 DEF Destroy, Free, GivenBack
  <2> QED  BY <2>1
<1>5. CASE \E d \in Devices, n \in Batches, x \in Inputs \cup {0} :
             Construct(t, d, n, x)
  <2>1. Given(t)
    BY <1>2, <1>5 DEF Construct, Allocate, Given
  <2> QED  BY <2>1
<1>6. CASE \E x \in Inputs : SetData(t, x)
  <2>1. Unmoved(t) \/ Given(t)
    BY <1>6 DEF SetData, Allocate, Given, Unmoved
  <2> QED  BY <2>1
<1>7. CASE \E n \in Batches : ChangeBatchSize(t, n)
  <2>1. PICK b \in (Buffers \ allocated) \cup ({base[t]} \cap Buffers) :
          /\ allocated' = (allocated \ {base[t]}) \cup {b}
          /\ base' = [base EXCEPT ![t] = b]
    BY <1>7 DEF ChangeBatchSize
  <2>2. /\ t \in live /\ live' = live /\ owns' = [owns EXCEPT ![t] = TRUE]
        /\ did'.op = IF owns[t] \/ base[t] = Null THEN "resize" ELSE "misuse"
    BY <1>7 DEF ChangeBatchSize
  <2>3. CASE owns[t]
    BY <2>1, <2>2, <2>3 DEF Replaced
  <2>4. CASE ~owns[t] /\ base[t] = Null
    <3>1. Null \notin Buffers
      BY TensorAssumption
    <3>2. b \in Buffers \ allocated /\ allocated \ {base[t]} = allocated
      BY <2>1, <2>4, <3>1 DEF TypeOK
    <3>3. Given(t)
      BY <2>1, <2>2, <2>4, <3>2 DEF Given
    <3> QED  BY <3>3
  <2>5. CASE ~owns[t] /\ base[t] # Null
    <3>1. Misused
      BY <2>1, <2>2, <2>5 DEF Misused, Careful, TypeOK
    <3> QED  BY <3>1
  <2> QED  BY <2>3, <2>4, <2>5
<1>8. ASSUME NEW s \in Names, CopyTensorData(s, t)
      PROVE  Unmoved(t) \/ Given(t)
  BY <1>8 DEF CopyTensorData, CopyElements, Allocate, Given, Unmoved
<1>9. ASSUME NEW s \in Names, MoveTensorData(s, t)
      PROVE  Taken(s, t) \/ Misused
  <2>1. /\ s \in live /\ t \in live /\ owns[s] /\ live' = live
        /\ allocated' = allocated \ (IF owns[t] THEN {base[t]} ELSE {})
        /\ base' = [base EXCEPT ![t] = IF s = t THEN Null ELSE base[s]]
        /\ owns' = [owns EXCEPT ![s] = FALSE, ![t] = TRUE]
        /\ ~(s # t /\ SameRoom(s, t)) => did'.op = "misuse"
    BY <1>9 DEF MoveTensorData, Moved, Free
  <2>2. CASE s # t /\ SameRoom(s, t)
    BY <2>1, <2>2 DEF Taken
  <2>3. CASE ~(s # t /\ SameRoom(s, t))
    BY <2>1, <2>3 DEF Misused, Careful, TypeOK
  <2> QED  BY <2>2, <2>3
<1>10. ASSUME NEW s \in Names,
              \/ CopyConstruct(s, t) \/ CopyAssign(s, t)
              \/ CopyAssignThrows(s, t) \/ CopyTensorData(s, t)
              \/ MoveTensorData(s, t) \/ ForwardTensorData(s, t)
       PROVE  Unmoved(t) \/ Given(t) \/ Taken(s, t) \/ Misused
  <2>1. CASE CopyConstruct(s, t)
    BY <1>2, <2>1 DEF CopyConstruct, Allocate, Given
  <2>2. CASE CopyAssign(s, t)
    BY <2>2 DEF CopyAssign, CopyElements, Allocate, Given, Unmoved
  <2>3. CASE CopyAssignThrows(s, t)
    BY <2>3 DEF CopyAssignThrows, Unmoved
  <2>4. CASE ForwardTensorData(s, t)
    BY <1>8, <1>9, <2>4 DEF ForwardTensorData
  <2> QED  BY <1>8, <1>9, <1>10, <2>1, <2>2, <2>3, <2>4
<1> QED  BY <1>1, <1>3, <1>4, <1>5, <1>6, <1>7, <1>10

-----------------------------------------------------------------------------
LEMMA InitTypes == Init => TypeOK /\ OneOwner
BY DEF Init, TypeOK, OneOwner, OwnedOnce

LEMMA TypesStep ==
  TypeOK /\ [Next]_vars => TypeOK'
<1> SUFFICES ASSUME TypeOK, [Next]_vars  PROVE TypeOK'
  OBVIOUS
<1>1. CASE UNCHANGED vars
  BY <1>1 DEF TypeOK, vars
<1>2. CASE Next
  <2>1. PICK s \in Names, t \in Names :
          \/ Unmoved(t) \/ Given(t) \/ Taken(s, t) \/ Replaced(t)
          \/ GivenBack(t) \/ Misused
    BY <1>2, OwnershipSteps
  <2>2. /\ live' \subseteq Names /\ owns' \in [Names -> BOOLEAN]
        /\ allocated' \subseteq Buffers
        /\ base' \in [Names -> Buffers \cup {Null}]
        /\ \A u \in Names \ live' : ~owns'[u]
    <3>1. CASE Unmoved(t)
      BY <3>1 DEF Unmoved, TypeOK
    <3>2. CASE Given(t)
      <4>1. PICK b \in Buffers \ allocated :
              /\ allocated' = allocated \cup {b}
              /\ base' = [base EXCEPT ![t] = b]
              /\ owns' = [owns EXCEPT ![t] = TRUE]
        BY <3>2 DEF Given
      <4>2. live' = live \cup {t}
        BY <3>2 DEF Given
      <4>3. \A u \in Names \ live' : owns'[u] = owns[u]
        BY <4>1, <4>2 DEF TypeOK
      <4> QED  BY <4>1, <4>2, <4>3 DEF TypeOK
    <3>3. CASE Taken(s, t)
      BY <3>3 DEF Taken, TypeOK
    <3>4. CASE Replaced(t)
      <4>1. PICK b \in (Buffers \ allocated) \cup ({base[t]} \cap Buffers) :
              /\ allocated' = (allocated \ {base[t]}) \cup {b}
              /\ base' = [base EXCEPT ![t] = b]
        BY <3>4 DEF Replaced
      <4> QED  BY <3>4, <4>1 DEF Replaced, TypeOK
    <3>5. CASE GivenBack(t)
      BY <3>5 DEF GivenBack, TypeOK
    <3>6. CASE Misused
      BY <3>6 DEF Misused, TypeOK
    <3> QED  BY <2>1, <3>1, <3>2, <3>3, <3>4, <3>5, <3>6
  <2>3. /\ device' \in [Names -> Devices \cup {"none"}]
        /\ batch' \in [Names -> Batches \cup {0}]
    BY <1>2 DEF Next, TypeOK, Default, Destroy, Construct, CopyConstruct,
         SetData, CopyAssign, CopyAssignThrows, CopyTensorData, Moved,
         MoveTensorData, ForwardTensorData, ChangeBatchSize
  <2> QED  BY <2>2, <2>3 DEF TypeOK
<1> QED  BY <1>1, <1>2

LEMMA OwnersStep ==
  TypeOK /\ OneOwner /\ [Next]_vars => OneOwner'
<1> SUFFICES ASSUME TypeOK, OneOwner, [Next]_vars, Careful'
             PROVE  OwnedOnce'
  BY DEF OneOwner
<1>1. CASE UNCHANGED vars
  BY <1>1 DEF OneOwner, OwnedOnce, Careful, vars
<1>2. CASE Next
  <2>1. PICK s \in Names, t \in Names :
          Unmoved(t) \/ Given(t) \/ Taken(s, t) \/ Replaced(t) \/ GivenBack(t)
    BY <1>2, OwnershipSteps DEF Misused
  <2>2. OwnedOnce
    BY <1>2 DEF Next, OneOwner
  <2>3. CASE Unmoved(t)
    BY <2>2, <2>3 DEF Unmoved, TypeOK, OwnedOnce
  <2>4. CASE Given(t)
    BY <2>2, <2>4 DEF Given, TypeOK, OwnedOnce
  <2>5. CASE Taken(s, t)
    BY <2>2, <2>5 DEF Taken, TypeOK, OwnedOnce
  <2>6. CASE Replaced(t)
    BY <2>2, <2>6 DEF Replaced, TypeOK, OwnedOnce
  <2>7. CASE GivenBack(t)
    BY <2>2, <2>7 DEF GivenBack, TypeOK, OwnedOnce
  <2> QED  BY <2>1, <2>3, <2>4, <2>5, <2>6, <2>7
<1> QED  BY <1>1, <1>2

LEMMA TensorInvariant == Spec => [](TypeOK /\ OneOwner)
<1>1. Init => TypeOK /\ OneOwner
  BY InitTypes
<1>2. TypeOK /\ OneOwner /\ [Next]_vars => (TypeOK /\ OneOwner)'
  BY TypesStep, OwnersStep
<1> QED  BY <1>1, <1>2, PTL DEF Spec

(* Devices, batch sizes and ownership keep their types, and a tensor that  *)
(* has not been constructed owns nothing.                                  *)
THEOREM TensorTypeCorrect == Spec => []TypeOK
BY TensorInvariant, PTL

(* No buffer is freed twice, used after it was freed, or leaked: copies,   *)
(* moves, reallocations and destructions keep one owner for every buffer,  *)
(* until a tensor is reallocated whose data was moved away, or is moved to *)
(* itself or to another batch size, for none of which the code checks.     *)
THEOREM BuffersHaveOneOwner == Spec => []OneOwner
BY TensorInvariant, PTL

-----------------------------------------------------------------------------
(* How large the buffers are.  A step leaves a tensor's buffer its size,   *)
(* or gives the tensor one of the size its device and batch size ask for.  *)

Room(d, n) == 0 .. ElementSize(d) * n - 1
Fits(t) == owns[t] => DOMAIN heap[base[t]] = Room(device[t], batch[t])
HeapShape == heap = [b \in Buffers |-> heap[b]]
FitsAll == HeapShape /\ \A t \in live : Fits(t)

LEMMA StoreKeepsRoom ==
  \A c, d, v : DOMAIN Store(c, d, v) = DOMAIN c
BY DEF Store

(* A new buffer has room for what it was allocated for. *)
LEMMA AllocateRoom ==
  ASSUME TypeOK, OwnedOnce, HeapShape, NEW t \in Names, NEW b \in Buffers,
         NEW d, NEW n, NEW v, Allocate(t, b, d, n, v)
  PROVE  /\ HeapShape'
         /\ DOMAIN heap'[base'[t]] = Room(d, n)
         /\ \A u \in live \ {t} :
              /\ owns'[u] = owns[u] /\ base'[u] = base[u]
              /\ owns[u] => heap'[base[u]] = heap[base[u]]
<1>1. /\ b \notin allocated /\ base' = [base EXCEPT ![t] = b]
      /\ owns' = [owns EXCEPT ![t] = TRUE]
      /\ heap' = [heap EXCEPT ![b] = Store(Fresh(ElementSize(d) * n), d, v)]
  BY DEF Allocate
<1>2. DOMAIN Store(Fresh(ElementSize(d) * n), d, v) = Room(d, n)
  BY StoreKeepsRoom DEF Fresh, Room
<1>3. /\ HeapShape' /\ heap'[b] = Store(Fresh(ElementSize(d) * n), d, v)
      /\ \A c : c # b => heap'[c] = heap[c]
  BY <1>1 DEF HeapShape
<1>4. \A u \in live : owns[u] => base[u] # b
  BY <1>1 DEF OwnedOnce
<1>5. base'[t] = b
  BY <1>1 DEF TypeOK
<1>6. QED
  BY <1>1, <1>2, <1>3, <1>4, <1>5 DEF TypeOK

(* Writing elements into the buffer t owns leaves every buffer its room.   *)
LEMMA WriteRoom ==
  ASSUME OwnedOnce, HeapShape, NEW t \in Names, NEW d, NEW v,
         heap' = [heap EXCEPT ![base[t]] = Store(@, d, v)]
  PROVE  /\ HeapShape'
         /\ \A b \in Buffers : DOMAIN heap'[b] = DOMAIN heap[b]
BY StoreKeepsRoom DEF HeapShape

(* Giving a buffer back touches no other tensor's buffer.                  *)
LEMMA FreeRoom ==
  ASSUME TypeOK, OwnedOnce, HeapShape, NEW t \in live,
         Free(IF owns[t] THEN {base[t]} ELSE {})
  PROVE  /\ HeapShape'
         /\ \A u \in live \ {t} :
              owns[u] => heap'[base[u]] = heap[base[u]]
<1>1. \A u \in live \ {t} : owns[u] =>
        base[u] \in Buffers /\ (owns[t] => base[u] # base[t])
  BY DEF OwnedOnce, TypeOK
<1>2. QED
  BY <1>1 DEF Free, HeapShape

(* A step that leaves the other tensors and their buffers alone has to     *)
(* answer for t only.                                                      *)
LEMMA OnlyOne ==
  ASSUME FitsAll, HeapShape', NEW t \in Names, t \in live' => Fits(t)',
         \A u \in live' \ {t} :
           /\ u \in live /\ (owns'[u] => owns[u])
           /\ device'[u] = device[u] /\ batch'[u] = batch[u]
           /\ owns'[u] => /\ base'[u] = base[u]
                          /\ DOMAIN heap'[base[u]] = DOMAIN heap[base[u]]
  PROVE  FitsAll'
BY DEF FitsAll, Fits

LEMMA CopyFits ==
  ASSUME TypeOK, OwnedOnce, FitsAll, NEW s \in live, NEW t \in Names,
         NEW d, NEW n, t \in live, live' = live,
         owns[t] => d = device[t] /\ n = batch[t],
         device' = [device EXCEPT ![t] = d], batch' = [batch EXCEPT ![t] = n],
         CopyElements(s, t, d, n)
  PROVE  FitsAll'
<1>1. CASE owns[t]
  <2>1. UNCHANGED <<owns, base>>
    BY <1>1 DEF CopyElements
  <2>2. HeapShape' /\ \A b \in Buffers : DOMAIN heap'[b] = DOMAIN heap[b]
    BY <1>1, WriteRoom DEF CopyElements, FitsAll
  <2>3. \A u \in live : owns[u] => base[u] \in Buffers
    BY DEF OwnedOnce, TypeOK
  <2>4. UNCHANGED <<device, batch>>
    BY <1>1 DEF TypeOK
  <2>5. QED
    BY <2>1, <2>2, <2>3, <2>4 DEF FitsAll, Fits
<1>2. CASE ~owns[t]
  <2>1. PICK b \in Buffers : Allocate(t, b, d, n, Read(s, n))
    BY <1>2 DEF CopyElements, Allocate
  <2>2. /\ HeapShape' /\ DOMAIN heap'[base'[t]] = Room(d, n)
        /\ \A u \in live \ {t} :
             /\ owns'[u] = owns[u] /\ base'[u] = base[u]
             /\ owns[u] => heap'[base[u]] = heap[base[u]]
    BY <2>1, AllocateRoom DEF FitsAll
  <2>3. Fits(t)'
    BY <2>2 DEF Fits, TypeOK, Room, ElementSize, PaddedColumnSize
  <2>4. QED
    BY <2>2, <2>3, OnlyOne DEF TypeOK
<1>3. QED
  BY <1>1, <1>2

LEMMA FitsStep ==
  ASSUME TypeOK, OwnedOnce, FitsAll, ~Resizing, Next, Careful'
  PROVE  FitsAll'
<1>2. ASSUME NEW t \in Names, Default(t) \/ Destroy(t) PROVE FitsAll'
  <2>1. CASE Default(t)
    <3>1. ~owns[t]
      BY <2>1 DEF Default, TypeOK
    <3>2. QED
      BY <2>1, <3>1, OnlyOne DEF Default, Fits, FitsAll, HeapShape
  <2>2. CASE Destroy(t)
    <3>1. HeapShape' /\ \A u \in live \ {t} :
                          owns[u] => heap'[base[u]] = heap[base[u]]
      BY <2>2, FreeRoom DEF Destroy, FitsAll
    <3>2. QED
      BY <2>2, <3>1, OnlyOne DEF Destroy, TypeOK
  <2>3. QED
    BY <1>2, <2>1, <2>2
<1>3. ASSUME NEW t \in Names, NEW d \in Devices, NEW n \in Batches,
             NEW x \in Inputs \cup {0}, Construct(t, d, n, x)
      PROVE  FitsAll'
  <2>1. PICK b \in Buffers : Allocate(t, b, d, n, Written(x, n))
    BY <1>3 DEF Construct
  <2>2. /\ HeapShape' /\ DOMAIN heap'[base'[t]] = Room(d, n)
        /\ \A u \in live \ {t} :
             /\ owns'[u] = owns[u] /\ base'[u] = base[u]
             /\ owns[u] => heap'[base[u]] = heap[base[u]]
    BY <2>1, AllocateRoom DEF FitsAll
  <2>3. Fits(t)'
    BY <1>3, <2>2
    DEF Construct, Fits, TypeOK, Room, ElementSize, PaddedColumnSize
  <2>4. QED
    BY <1>3, <2>2, <2>3, OnlyOne DEF Construct, TypeOK
<1>4. ASSUME NEW s \in Names, NEW t \in Names, CopyConstruct(s, t)
      PROVE  FitsAll'
  <2>1. PICK b \in Buffers :
          Allocate(t, b, device[s], batch[s], Read(s, batch[s]))
    BY <1>4 DEF CopyConstruct
  <2>2. /\ HeapShape' /\ DOMAIN heap'[base'[t]] = Room(device[s], batch[s])
        /\ \A u \in live \ {t} :
             /\ owns'[u] = owns[u] /\ base'[u] = base[u]
             /\ owns[u] => heap'[base[u]] = heap[base[u]]
    BY <2>1, AllocateRoom DEF FitsAll
  <2>3. Fits(t)'
    BY <1>4, <2>2
    DEF CopyConstruct, Fits, TypeOK, Room, ElementSize, PaddedColumnSize
  <2>4. QED
    BY <1>4, <2>2, <2>3, OnlyOne DEF CopyConstruct, TypeOK
<1>5. ASSUME NEW t \in Names, NEW x \in Inputs, SetData(t, x)
      PROVE  FitsAll'
  <2>1. CASE owns[t]
    <3>1. HeapShape' /\ \A b \in Buffers : DOMAIN heap'[b] = DOMAIN heap[b]
      BY <1>5, <2>1, WriteRoom DEF SetData, FitsAll
    <3>2. \A u \in live : owns[u] => base[u] \in Buffers
      BY DEF OwnedOnce, TypeOK
    <3>3. QED
      BY <1>5, <2>1, <3>1, <3>2
      DEF SetData, FitsAll, Fits, Room, ElementSize, PaddedColumnSize
  <2>2. CASE ~owns[t]
    <3>1. PICK b \in Buffers :
            Allocate(t, b, device[t], batch[t], Written(x, batch[t]))
      BY <1>5, <2>2 DEF SetData
    <3>2. /\ HeapShape'
          /\ DOMAIN heap'[base'[t]] = Room(device[t], batch[t])
          /\ \A u \in live \ {t} :
               /\ owns'[u] = owns[u] /\ base'[u] = base[u]
               /\ owns[u] => heap'[base[u]] = heap[base[u]]
      BY <3>1, AllocateRoom DEF FitsAll
    <3>3. Fits(t)'
      BY <1>5, <3>2 DEF SetData, Fits, Room, ElementSize, PaddedColumnSize
    <3>4. QED
      BY <1>5, <3>2, <3>3, OnlyOne DEF SetData
  <2>3. QED
    BY <2>1, <2>2
<1>6. ASSUME NEW s \in Names, NEW t \in Names, CopyAssign(s, t)
      PROVE  FitsAll'
  BY <1>6, CopyFits DEF CopyAssign, SameRoom
<1>7. ASSUME NEW s \in Names, NEW t \in Names, CopyAssignThrows(s, t)
      PROVE  FitsAll'
  <2>1. Fits(t)'
    BY <1>7 DEF CopyAssignThrows, SameRoom, FitsAll, Fits, TypeOK, Room,
                ElementSize, PaddedColumnSize
  <2>2. QED
    BY <1>7, <2>1, OnlyOne DEF CopyAssignThrows, FitsAll, HeapShape, TypeOK
<1>8. ASSUME NEW s \in Names, NEW t \in Names, CopyTensorData(s, t)
      PROVE  FitsAll'
  <2>1. /\ device' = [device EXCEPT ![t] = device[t]]
        /\ batch' = [batch EXCEPT ![t] = batch[t]]
    BY <1>8 DEF CopyTensorData, TypeOK
  <2>2. QED
    BY <1>8, <2>1, CopyFits DEF CopyTensorData
<1>9. ASSUME NEW s \in Names, NEW t \in Names, MoveTensorData(s, t)
      PROVE  FitsAll'
  <2>1. /\ s \in live /\ t \in live /\ s # t /\ owns[s]
        /\ device[s] = device[t] /\ batch[s] = batch[t]
        /\ UNCHANGED <<live, device, batch>>
        /\ base' = [base EXCEPT ![t] = base[s]]
        /\ owns' = [owns EXCEPT ![s] = FALSE, ![t] = TRUE]
    BY <1>9 DEF MoveTensorData, Moved, SameRoom, Careful
  <2>2. HeapShape' /\ \A u \in live \ {t} :
                        owns[u] => heap'[base[u]] = heap[base[u]]
    BY <1>9, <2>1, FreeRoom DEF MoveTensorData, Moved, FitsAll
  <2>3. DOMAIN heap[base[s]] = Room(device[s], batch[s])
    BY <2>1 DEF FitsAll, Fits
  <2>4. Fits(t)'
    BY <2>1, <2>2, <2>3
    DEF Fits, TypeOK, Room, ElementSize, PaddedColumnSize
  <2>5. QED
    BY <2>1, <2>2, <2>4, OnlyOne DEF TypeOK
<1>10. ASSUME NEW t \in Names, NEW n \in Batches, ChangeBatchSize(t, n)
       PROVE  FitsAll'
  <2>1. PICK b \in (Buffers \ allocated) \cup ({base[t]} \cap Buffers) :
          /\ heap' = [c \in Buffers |->
                CASE c = b       -> Fresh(ElementSize(device[t]) * n)
                  [] c = base[t] /\ c # b -> <<>>
                  [] OTHER       -> heap[c]]
          /\ base' = [base EXCEPT ![t] = b]
    BY <1>10 DEF ChangeBatchSize
  <2>2. /\ t \in live /\ n = batch[t] /\ (owns[t] \/ base[t] = Null)
        /\ owns' = [owns EXCEPT ![t] = TRUE]
        /\ UNCHANGED <<live, device, batch>>
    BY <1>10 DEF ChangeBatchSize, Careful
  <2>3. b \in Buffers
    BY <2>1
  <2>4. /\ HeapShape'
        /\ heap'[b] = Fresh(ElementSize(device[t]) * n)
        /\ \A c \in Buffers \ {b, base[t]} : heap'[c] = heap[c]
    BY <2>1, <2>3 DEF HeapShape
  <2>5. Fits(t)'
    <3>1. DOMAIN heap'[b] = Room(device[t], batch[t])
      BY <2>2, <2>4 DEF Fresh, Room
    <3>2. QED
      BY <2>1, <2>2, <3>1
      DEF Fits, TypeOK, Room, ElementSize, PaddedColumnSize
  <2>6. ASSUME NEW u \in live \ {t}
        PROVE  /\ owns'[u] = owns[u]
               /\ owns[u] => base'[u] = base[u] /\ heap'[base[u]] = heap[base[u]]
    <3>1. owns'[u] = owns[u] /\ base'[u] = base[u]
      BY <2>1, <2>2 DEF TypeOK
    <3>2. ASSUME owns[u]
          PROVE  base[u] \in Buffers /\ base[u] # b /\ base[u] # base[t]
      <4>1. base[u] \in allocated /\ base[u] \in Buffers
        BY <3>2 DEF OwnedOnce, TypeOK
      <4>2. base[u] # base[t]
        BY <2>2, <3>2, <4>1, TensorAssumption DEF OwnedOnce
      <4>3. QED
        BY <2>1, <4>1, <4>2
    <3>3. QED
      BY <2>4, <3>1, <3>2
  <2>7. QED
    BY <2>2, <2>4, <2>5, <2>6, OnlyOne DEF TypeOK
<1>11. ASSUME NEW s \in Names, NEW t \in Names, ForwardTensorData(s, t)
       PROVE  FitsAll'
  BY <1>8, <1>9, <1>11 DEF ForwardTensorData
<1>12. QED
  BY <1>2, <1>3, <1>4, <1>5, <1>6, <1>7, <1>8, <1>9, <1>10, <1>11
  DEF Next

LEMMA FitsStutter ==
  ASSUME FitsAll, UNCHANGED vars  PROVE FitsAll'
BY DEF vars, FitsAll, HeapShape, Fits, Room, ElementSize, PaddedColumnSize

(* As long as nobody changes a batch size, the limit At checks against is  *)
(* the size of the buffer, whatever was copied, moved, reallocated or      *)
(* destroyed before, up to the first misuse: for any tensors, buffers,     *)
(* shape and batch sizes.                                                  *)
THEOREM AtAlwaysKnowsAllocation ==
  ASSUME ~Resizing
  PROVE  Spec => []AtKnowsAllocation
<1>1. Init => (Careful => FitsAll)
  BY DEF Init, FitsAll, HeapShape
<1>2. TypeOK /\ OneOwner /\ (Careful => FitsAll) /\ [Next]_vars
        => (Careful => FitsAll)'
  <2>1. ASSUME TypeOK, OneOwner, Careful => FitsAll, Next, Careful'
        PROVE  FitsAll'
    BY <2>1, FitsStep DEF Next, OneOwner
  <2>2. ASSUME Careful => FitsAll, UNCHANGED vars, Careful'
        PROVE  FitsAll'
    BY <2>2, FitsStutter DEF vars, Careful
  <2>3. QED
    BY <2>1, <2>2
<1>3. (Careful => FitsAll) => AtKnowsAllocation
  BY DEF FitsAll, Fits, AtKnowsAllocation, Room
<1>4. QED
  BY <1>1, <1>2, <1>3, TensorInvariant, PTL DEF Spec

-----------------------------------------------------------------------------
(* Where the elements lie.  A padded row is no shorter than a row, so that *)
(* two elements never meet and all of them find room.                      *)

LEMMA Scaling ==
  ASSUME NEW a \in Nat, NEW m \in Nat, NEW n \in Nat, m < n
  PROVE  a * m + a <= a * n
<1>1. n - m - 1 \in Nat /\ n = m + 1 + (n - m - 1)
  OBVIOUS
<1>2. ASSUME NEW k \in Nat
      PROVE  a * (m + 1 + k) = a * m + a + a * k /\ a * k >= 0
  OBVIOUS
<1>3. QED
  BY <1>1, <1>2

LEMMA Division ==
  ASSUME NEW i \in Nat, NEW c \in Nat \ {0}
  PROVE  /\ i \div c \in Nat /\ i % c \in 0 .. c - 1
         /\ i = c * (i \div c) + (i % c)
OBVIOUS

LEMMA PaddedAtLeast ==
  ASSUME NEW d \in Devices
  PROVE  PaddedColumnSize(d) \in Nat /\ PaddedColumnSize(d) >= Cols
<1>1. /\ d \in {"CPU", "GPU"} /\ Cols \in Nat \ {0} /\ Pad \in Nat \ {0}
  BY TensorAssumption
<1>2. CASE d = "GPU"
  BY <1>1, <1>2 DEF PaddedColumnSize
<1>3. CASE d = "CPU"
  <2> DEFINE q == (Cols + Pad - 1) \div Pad
             r == (Cols + Pad - 1) % Pad
  <2>1. Cols + Pad - 1 \in Nat
    BY <1>1
  <2>2. q \in Nat /\ r \in 0 .. Pad - 1 /\ Cols + Pad - 1 = Pad * q + r
    BY <1>1, <2>1, Division
  <2>3. PaddedColumnSize(d) = Pad * q
    BY <1>3 DEF PaddedColumnSize
  <2> HIDE DEF q, r
  <2>4. Pad * q \in Nat
    BY <1>1, <2>2
  <2>5. QED
    BY <1>1, <2>2, <2>3, <2>4
<1>4. QED
  BY <1>1, <1>2, <1>3

LEMMA PositionInjective ==
  ASSUME NEW d \in Devices, NEW i \in Nat, NEW j \in Nat,
         Position(d, i) = Position(d, j)
  PROVE  i = j
<1> DEFINE p == PaddedColumnSize(d)
<1>1. p \in Nat /\ p >= Cols /\ Cols \in Nat \ {0}
  BY PaddedAtLeast, TensorAssumption
<1>2. /\ i \div Cols \in Nat /\ i % Cols \in 0 .. Cols - 1
      /\ i = Cols * (i \div Cols) + (i % Cols)
      /\ j \div Cols \in Nat /\ j % Cols \in 0 .. Cols - 1
      /\ j = Cols * (j \div Cols) + (j % Cols)
  BY <1>1, Division
<1>3. p * (i \div Cols) + (i % Cols) = p * (j \div Cols) + (j % Cols)
  BY DEF Position
<1> HIDE DEF p
<1>4. ASSUME NEW a \in Nat, NEW b \in Nat, a < b,
             NEW r \in 0 .. Cols - 1, NEW s \in 0 .. Cols - 1
      PROVE  p * a + r # p * b + s
  <2>1. p * a + p <= p * b
    BY <1>1, <1>4, Scaling
  <2>2. p * a \in Nat /\ p * b \in Nat
    BY <1>1
  <2>3. QED
    BY <1>1, <2>1, <2>2
<1>5. i \div Cols = j \div Cols
  BY <1>2, <1>3, <1>4
<1>6. p * (i \div Cols) \in Nat
  BY <1>1, <1>2
<1>7. i % Cols = j % Cols
  BY <1>2, <1>3, <1>5, <1>6
<1>8. QED
  BY <1>2, <1>5, <1>7

LEMMA PositionRoom ==
  ASSUME NEW d \in Devices, NEW n \in Nat, NEW i \in Indices(n)
  PROVE  Position(d, i) \in 0 .. ElementSize(d) * n - 1
<1> DEFINE p == PaddedColumnSize(d)
           q == i \div Cols
           r == i % Cols
<1>1. /\ p \in Nat /\ p >= Cols /\ Cols \in Nat \ {0} /\ Rows \in Nat \ {0}
  BY PaddedAtLeast, TensorAssumption
<1>2. Rows * n \in Nat /\ Rows * Cols * n = Cols * (Rows * n)
  BY <1>1
<1>3. i \in Nat /\ i < Cols * (Rows * n)
  BY <1>1, <1>2 DEF Indices, Size
<1>4. q \in Nat /\ r \in 0 .. Cols - 1 /\ i = Cols * q + r
  BY <1>1, <1>3, Division
<1>5. Position(d, i) = p * q + r
  BY DEF Position
<1>6. ElementSize(d) * n = p * (Rows * n)
  BY <1>1 DEF ElementSize
<1> HIDE DEF p, q, r
<1>7. q < Rows * n
  <2>1. CASE Rows * n <= q
    <3>1. Cols * (Rows * n) <= Cols * q
      <4>1. CASE Rows * n < q
        BY <1>1, <1>2, <1>4, <4>1, Scaling
      <4>2. QED
        BY <1>1, <1>2, <1>4, <2>1, <4>1
    <3>2. Cols * q \in Nat /\ Cols * (Rows * n) \in Nat
      BY <1>1, <1>2, <1>4
    <3>3. QED
      BY <1>3, <1>4, <3>1, <3>2
  <2>2. QED
    BY <1>2, <1>4, <2>1
<1>8. p * q + p <= p * (Rows * n)
  BY <1>1, <1>2, <1>4, <1>7, Scaling
<1>9. p * q \in Nat /\ p * (Rows * n) \in Nat
  BY <1>1, <1>2, <1>4
<1>10. QED
  BY <1>1, <1>4, <1>5, <1>6, <1>8, <1>9

(* What At reads after it wrote: the elements of v, and the old ones where *)
(* v has none.                                                             *)
LEMMA StoreReads ==
  ASSUME NEW d \in Devices, NEW n \in Nat, NEW c, DOMAIN c = Room(d, n),
         NEW v, DOMAIN v \subseteq Indices(n), NEW i \in Indices(n)
  PROVE  Store(c, d, v)[Position(d, i)] =
           IF i \in DOMAIN v THEN v[i] ELSE c[Position(d, i)]
<1> DEFINE hit == {j \in DOMAIN v : Position(d, j) = Position(d, i)}
<1>1. \A j \in Indices(n) : j \in Nat
  BY TensorAssumption DEF Indices, Size
<1>2. \A j \in DOMAIN v : Position(d, j) = Position(d, i) => j = i
  BY <1>1, PositionInjective
<1>3. Position(d, i) \in DOMAIN c
  BY PositionRoom DEF Room
<1>4. Store(c, d, v)[Position(d, i)] =
        IF hit = {} THEN c[Position(d, i)] ELSE v[CHOOSE j \in hit : TRUE]
  BY <1>3 DEF Store
<1>5. CASE i \in DOMAIN v
  <2>1. hit = {i}
    BY <1>2, <1>5
  <2>2. (CHOOSE j \in hit : TRUE) = i
    BY <2>1
  <2>3. QED
    BY <1>4, <1>5, <2>1, <2>2
<1>6. CASE i \notin DOMAIN v
  <2>1. hit = {}
    BY <1>2, <1>6
  <2>2. QED
    BY <1>4, <1>6, <2>1
<1>7. QED
  BY <1>5, <1>6

(* A tensor that owns data is on a device, and the sizes are numbers.      *)
Placed == \A t \in Names : owns[t] => device[t] \in Devices

LEMMA PlacedStep ==
  ASSUME TypeOK, Placed, [Next]_vars
  PROVE  Placed'
<1>1. CASE UNCHANGED vars
  BY <1>1 DEF vars, Placed
<1>2. ASSUME NEW t \in Names, Default(t) \/ Destroy(t) PROVE Placed'
  BY <1>2 DEF Default, Destroy, Placed, TypeOK
<1>3. ASSUME NEW t \in Names, NEW d \in Devices, NEW n, NEW x,
             Construct(t, d, n, x)
      PROVE  Placed'
  BY <1>3 DEF Construct, Allocate, Placed, TypeOK
<1>4. ASSUME NEW t \in Names, NEW x, SetData(t, x) PROVE Placed'
  BY <1>4 DEF SetData, Allocate, Placed, TypeOK
<1>5. ASSUME NEW t \in Names, NEW n, ChangeBatchSize(t, n) PROVE Placed'
  BY <1>5 DEF ChangeBatchSize, Placed, TypeOK
<1>6. ASSUME NEW s \in Names, NEW t \in Names, CopyConstruct(s, t)
      PROVE  Placed'
  BY <1>6 DEF CopyConstruct, Allocate, Placed, TypeOK
<1>7. ASSUME NEW s \in Names, NEW t \in Names, CopyAssign(s, t)
      PROVE  Placed'
  BY <1>7 DEF CopyAssign, CopyElements, Allocate, Placed, TypeOK
<1>8. ASSUME NEW s \in Names, NEW t \in Names, CopyAssignThrows(s, t)
      PROVE  Placed'
  BY <1>8 DEF CopyAssignThrows, SameRoom, Placed, TypeOK
<1>9. ASSUME NEW s \in Names, NEW t \in Names, CopyTensorData(s, t)
      PROVE  Placed'
  BY <1>9 DEF CopyTensorData, CopyElements, Allocate, Placed, TypeOK
<1>10. ASSUME NEW s \in Names, NEW t \in Names, MoveTensorData(s, t)
       PROVE  Placed'
  BY <1>10 DEF MoveTensorData, Moved, Placed, TypeOK
<1>11. QED
  BY <1>1, <1>2, <1>3, <1>4, <1>5, <1>6, <1>7, <1>8, <1>9, <1>10
  DEF Next, ForwardTensorData

-----------------------------------------------------------------------------
(* The values of the tensors.                                              *)

Val(t) == IF owns[t] THEN Read(t, batch[t]) ELSE Null
Vals == [t \in Names |-> Val(t)]

LEMMA ValOwned ==
  ASSUME NEW t, owns'[t]
  PROVE  Val(t)' = [i \in Indices(batch'[t]) |->
                      heap'[base'[t]][Position(device'[t], i)]]
BY DEF Val, Read, Indices, Position, PaddedColumnSize, Size

LEMMA ValSame ==
  ASSUME NEW u, owns'[u] = owns[u],
         owns[u] => /\ device'[u] = device[u] /\ batch'[u] = batch[u]
                    /\ heap'[base'[u]] = heap[base[u]]
  PROVE  Val(u)' = Val(u)
BY ValOwned DEF Val, Read

LEMMA ValStep ==
  ASSUME NEW t \in Names, NEW v, Val(t)' = v,
         \A u \in Names \ {t} : Val(u)' = Val(u)
  PROVE  Vals' = [Vals EXCEPT ![t] = v]
BY DEF Vals

MemoryInv == TypeOK /\ OwnedOnce /\ FitsAll /\ Placed

LEMMA OwnerFacts ==
  ASSUME MemoryInv, NEW t \in Names, owns[t]
  PROVE  /\ t \in live /\ base[t] \in Buffers /\ base[t] \in allocated
         /\ device[t] \in Devices /\ batch[t] \in Nat
         /\ DOMAIN heap[base[t]] = Room(device[t], batch[t])
         /\ \A u \in Names \ {t} : owns[u] => base[u] # base[t]
<1>1. t \in live /\ base[t] \in allocated /\ base[t] \in Buffers
  BY DEF MemoryInv, TypeOK, OwnedOnce
<1>2. device[t] \in Devices
  BY DEF MemoryInv, Placed
<1>3. batch[t] \in Nat
  <2>1. batch[t] \in Batches \cup {0}
    BY DEF MemoryInv, TypeOK
  <2>2. \A n \in Batches \cup {0} : n \in Nat
    BY TensorAssumption
  <2>3. QED
    BY <2>1, <2>2
<1>4. DOMAIN heap[base[t]] = Room(device[t], batch[t])
  BY <1>1 DEF MemoryInv, FitsAll, Fits
<1>5. \A u \in Names \ {t} : owns[u] => base[u] # base[t]
  BY <1>1 DEF MemoryInv, TypeOK, OwnedOnce
<1>6. QED
  BY <1>1, <1>2, <1>3, <1>4, <1>5

(* A new buffer holds what it was allocated for, and nobody else's.        *)
LEMMA AllocateVal ==
  ASSUME MemoryInv, NEW t \in Names, NEW b \in Buffers, NEW d \in Devices,
         NEW n \in Nat, NEW v, v = [i \in Indices(n) |-> v[i]], ~owns[t],
         Allocate(t, b, d, n, v), device'[t] = d, batch'[t] = n,
         \A u \in Names \ {t} : /\ device'[u] = device[u]
                                /\ batch'[u] = batch[u]
  PROVE  Vals' = [Vals EXCEPT ![t] = v]
<1> DEFINE new == Fresh(ElementSize(d) * n)
<1>1. /\ b \notin allocated /\ base' = [base EXCEPT ![t] = b]
      /\ owns' = [owns EXCEPT ![t] = TRUE]
      /\ heap' = [heap EXCEPT ![b] = Store(new, d, v)]
  BY DEF Allocate
<1>2. owns'[t] /\ base'[t] = b /\ heap'[b] = Store(new, d, v)
  BY <1>1 DEF MemoryInv, TypeOK, FitsAll, HeapShape
<1>3. DOMAIN new = Room(d, n)
  BY DEF Fresh, Room
<1> HIDE DEF new
<1>4. \A i \in Indices(n) : heap'[b][Position(d, i)] = v[i]
  BY <1>2, <1>3, StoreReads
<1>5. Val(t)' = v
  <2>1. Val(t)' = [i \in Indices(n) |-> heap'[b][Position(d, i)]]
    BY <1>2, ValOwned
  <2>2. QED
    BY <1>4, <2>1
<1>6. ASSUME NEW u \in Names \ {t} PROVE Val(u)' = Val(u)
  <2>1. owns'[u] = owns[u] /\ base'[u] = base[u]
    BY <1>1 DEF MemoryInv, TypeOK
  <2>2. ASSUME owns[u] PROVE heap'[base[u]] = heap[base[u]]
    <3>1. base[u] # b
      BY <1>1, <2>2, OwnerFacts
    <3>2. QED
      BY <1>1, <3>1 DEF MemoryInv, FitsAll, HeapShape
  <2>3. QED
    BY <2>1, <2>2, ValSame
<1>7. QED
  BY <1>5, <1>6, ValStep

(* Writing into its buffer changes the elements of t that are written. *)
LEMMA WriteVal ==
  ASSUME MemoryInv, NEW t \in Names, owns[t],
         NEW v, DOMAIN v \subseteq Indices(batch[t]),
         heap' = [heap EXCEPT ![base[t]] = Store(@, device[t], v)],
         UNCHANGED <<owns, base, device, batch>>
  PROVE  Vals' = [Vals EXCEPT ![t] =
                    [i \in Indices(batch[t]) |->
                       IF i \in DOMAIN v THEN v[i] ELSE Val(t)[i]]]
<1>1. /\ base[t] \in Buffers /\ device[t] \in Devices /\ batch[t] \in Nat
      /\ DOMAIN heap[base[t]] = Room(device[t], batch[t])
      /\ \A u \in Names \ {t} : owns[u] => base[u] # base[t]
  BY OwnerFacts
<1>2. heap'[base[t]] = Store(heap[base[t]], device[t], v)
  BY <1>1 DEF MemoryInv, FitsAll, HeapShape
<1>3. \A i \in Indices(batch[t]) :
        heap'[base[t]][Position(device[t], i)] =
          IF i \in DOMAIN v THEN v[i]
          ELSE heap[base[t]][Position(device[t], i)]
  BY <1>1, <1>2, StoreReads
<1>4. \A i \in Indices(batch[t]) :
        Val(t)[i] = heap[base[t]][Position(device[t], i)]
  BY DEF Val, Read
<1>5. Val(t)' = [i \in Indices(batch[t]) |->
                   heap'[base[t]][Position(device[t], i)]]
  BY ValOwned
<1>6. Val(t)' = [i \in Indices(batch[t]) |->
                   IF i \in DOMAIN v THEN v[i] ELSE Val(t)[i]]
  BY <1>3, <1>4, <1>5
<1>7. ASSUME NEW u \in Names \ {t} PROVE Val(u)' = Val(u)
  <2>1. owns[u] => heap'[base[u]] = heap[base[u]]
    BY <1>1, OwnerFacts DEF MemoryInv, FitsAll, HeapShape
  <2>2. QED
    BY <2>1, ValSame
<1>8. QED
  BY <1>6, <1>7, ValStep

(* Null is not the value of a tensor. *)
NoValue(x) ==
  \A n \in Nat : \A f : f = [i \in Indices(n) |-> f[i]] => f # x

LEMMA ValFacts ==
  ASSUME MemoryInv, NEW t \in Names, owns[t]
  PROVE  /\ Val(t) = [i \in Indices(batch[t]) |-> Val(t)[i]]
         /\ DOMAIN Val(t) = Indices(batch[t])
         /\ Vals[t] = Val(t)
         /\ NoValue(Null) => Val(t) # Null
<1>1. batch[t] \in Nat
  BY OwnerFacts
<1>2. Val(t) = [i \in Indices(batch[t]) |->
                  heap[base[t]][Position(device[t], i)]]
  BY DEF Val, Read
<1>3. Val(t) = [i \in Indices(batch[t]) |-> Val(t)[i]]
  BY <1>2
<1>4. DOMAIN Val(t) = Indices(batch[t])
  BY <1>2
<1>5. NoValue(Null) => Val(t) # Null
  BY <1>1, <1>3 DEF NoValue
<1>6. QED
  BY <1>3, <1>4, <1>5 DEF Vals

LEMMA IndicesGrow ==
  ASSUME NEW m \in Nat, NEW n \in Nat, m <= n
  PROVE  Indices(m) \subseteq Indices(n)
<1>1. Size \in Nat
  BY TensorAssumption DEF Size
<1>2. Size * m \in Nat /\ Size * n \in Nat /\ Size * m <= Size * n
  <2>1. CASE m < n
    BY <1>1, <2>1, Scaling
  <2>2. CASE m = n
    BY <1>1, <2>2
  <2>3. QED
    BY <2>1, <2>2
<1>3. QED
  BY <1>2 DEF Indices

(* The copies: into a tensor without data, and over one that has some.     *)
Copied(s, t) ==
  [Vals EXCEPT ![t] = IF @ = Null THEN Vals[s]
                      ELSE AsValues!Overlay(Vals[s], @)]

LEMMA CopyVal ==
  ASSUME MemoryInv, NoValue(Null), NEW s \in Names, NEW t \in Names,
         NEW d, NEW n, owns[s], CopyElements(s, t, d, n),
         owns[t] => d = device[t] /\ n = batch[t],
         ~owns[t] => d = device[s] /\ n = batch[s],
         device' = [device EXCEPT ![t] = d], batch' = [batch EXCEPT ![t] = n]
  PROVE  Vals' = Copied(s, t)
<1>1. /\ Val(s) = [i \in Indices(batch[s]) |-> Val(s)[i]]
      /\ DOMAIN Val(s) = Indices(batch[s]) /\ Vals[s] = Val(s)
      /\ device[s] \in Devices /\ batch[s] \in Nat
      /\ Val(s) = Read(s, batch[s])
  BY ValFacts, OwnerFacts DEF Val
<1>2. Vals = [u \in Names |-> Val(u)]
  BY DEF Vals
<1>3. CASE ~owns[t]
  <2>1. PICK b \in Buffers : Allocate(t, b, d, n, Val(s))
    BY <1>1, <1>3 DEF CopyElements, Allocate
  <2>2. /\ device'[t] = d /\ batch'[t] = n
        /\ \A u \in Names \ {t} : /\ device'[u] = device[u]
                                  /\ batch'[u] = batch[u]
    BY DEF MemoryInv, TypeOK
  <2>3. Vals' = [Vals EXCEPT ![t] = Val(s)]
    BY <1>1, <1>3, <2>1, <2>2, AllocateVal
  <2>4. Vals[t] = Null
    BY <1>3 DEF Vals, Val
  <2>5. QED
    BY <1>1, <2>3, <2>4 DEF Copied
<1>4. CASE owns[t]
  <2> DEFINE m == Smaller(batch[s], batch[t])
  <2>1. UNCHANGED <<owns, base, device, batch>>
    BY <1>4 DEF CopyElements, MemoryInv, TypeOK
  <2>2. heap' = [heap EXCEPT ![base[t]] = Store(@, device[t], Read(s, m))]
    BY <1>4 DEF CopyElements
  <2>3. batch[t] \in Nat
    BY <1>4, OwnerFacts
  <2>4. /\ Indices(m) \subseteq Indices(batch[t])
        /\ \A i \in Indices(batch[t]) :
             i \in Indices(m) <=> i \in Indices(batch[s])
    BY <1>1, <2>3, IndicesGrow DEF Smaller
  <2>5. /\ DOMAIN Read(s, m) = Indices(m)
        /\ \A i \in Indices(m) \cap Indices(batch[s]) :
             Read(s, m)[i] = Val(s)[i]
    BY <1>1 DEF Read
  <2> HIDE DEF m
  <2>6. Vals' = [Vals EXCEPT ![t] =
                   [i \in Indices(batch[t]) |->
                      IF i \in Indices(m) THEN Read(s, m)[i] ELSE Val(t)[i]]]
    <3>1. DOMAIN Read(s, m) \subseteq Indices(batch[t])
      BY <2>4, <2>5
    <3>2. Vals' = [Vals EXCEPT ![t] =
                     [i \in Indices(batch[t]) |->
                        IF i \in DOMAIN Read(s, m) THEN Read(s, m)[i]
                        ELSE Val(t)[i]]]
      BY <1>4, <2>1, <2>2, <3>1, WriteVal
    <3>3. QED
      BY <2>5, <3>2
  <2>7. [i \in Indices(batch[t]) |->
           IF i \in Indices(m) THEN Read(s, m)[i] ELSE Val(t)[i]]
          = [i \in Indices(batch[t]) |->
               IF i \in Indices(batch[s]) THEN Val(s)[i] ELSE Val(t)[i]]
    BY <2>4, <2>5
  <2>8. /\ DOMAIN Val(t) = Indices(batch[t])
        /\ Vals[t] = Val(t) /\ Val(t) # Null
    BY <1>4, ValFacts
  <2>9. AsValues!Overlay(Val(s), Val(t)) =
          [i \in Indices(batch[t]) |->
             IF i \in Indices(batch[s]) THEN Val(s)[i] ELSE Val(t)[i]]
    BY <1>1, <2>8 DEF AsValues!Overlay
  <2>10. QED
    BY <1>1, <2>6, <2>7, <2>8, <2>9 DEF Copied
<1>5. QED
  BY <1>3, <1>4

(* What is moved arrives, and the source is left with nothing. *)
LEMMA MoveVal ==
  ASSUME MemoryInv, NEW s \in Names, NEW t \in Names, MoveTensorData(s, t),
         Careful'
  PROVE  Vals' = [Vals EXCEPT ![t] = Vals[s], ![s] = Null]
<1>1. /\ owns[s] /\ s # t /\ device[s] = device[t] /\ batch[s] = batch[t]
      /\ base' = [base EXCEPT ![t] = base[s]]
      /\ owns' = [owns EXCEPT ![s] = FALSE, ![t] = TRUE]
      /\ heap' = [b \in Buffers |->
                    IF b \in (IF owns[t] THEN {base[t]} ELSE {}) THEN <<>>
                    ELSE heap[b]]
      /\ UNCHANGED <<device, batch>>
  BY DEF MoveTensorData, Moved, Free, SameRoom, Careful
<1>2. /\ owns'[t] /\ base'[t] = base[s] /\ ~owns'[s]
      /\ \A u \in Names \ {s, t} : owns'[u] = owns[u] /\ base'[u] = base[u]
  BY <1>1 DEF MemoryInv, TypeOK
<1>3. \A u \in Names \ {t} : owns[u] => heap'[base[u]] = heap[base[u]]
  <2>1. ASSUME NEW u \in Names \ {t}, owns[u]
        PROVE  base[u] \in Buffers /\ (owns[t] => base[u] # base[t])
    BY <2>1, OwnerFacts
  <2>2. QED
    BY <1>1, <2>1
<1>4. Val(t)' = Val(s)
  <2>1. Val(t)' = [i \in Indices(batch'[t]) |->
                     heap'[base'[t]][Position(device'[t], i)]]
    BY <1>2, ValOwned
  <2>2. /\ batch'[t] = batch[s] /\ device'[t] = device[s]
        /\ heap'[base'[t]] = heap[base[s]]
    BY <1>1, <1>2, <1>3
  <2>3. Val(s) = [i \in Indices(batch[s]) |->
                    heap[base[s]][Position(device[s], i)]]
    BY <1>1 DEF Val, Read
  <2>4. QED
    BY <2>1, <2>2, <2>3
<1>5. Val(s)' = Null
  BY <1>2 DEF Val
<1>6. ASSUME NEW u \in Names \ {s, t} PROVE Val(u)' = Val(u)
  BY <1>1, <1>2, <1>3, ValSame
<1>7. QED
  BY <1>1, <1>4, <1>5, <1>6 DEF Vals

-----------------------------------------------------------------------------
(* Every step is one of TensorValues: it does to the values what did' says.*)

LEMMA AllSame ==
  ASSUME \A u \in Names : Val(u)' = Val(u)
  PROVE  Vals' = Vals
BY DEF Vals

(* A tensor that owns nothing has no value, whatever its sizes become. *)
LEMMA KeepVal ==
  ASSUME MemoryInv, NEW t \in Names, UNCHANGED <<owns, base, heap>>,
         owns[t] => device'[t] = device[t] /\ batch'[t] = batch[t],
         \A u \in Names \ {t} : /\ device'[u] = device[u]
                                /\ batch'[u] = batch[u]
  PROVE  Vals' = Vals
<1>1. ASSUME NEW u \in Names PROVE Val(u)' = Val(u)
  BY ValSame
<1>2. QED
  BY <1>1, AllSame

LEMMA WriteStep ==
  ASSUME NEW t \in Names, NEW v, Vals' = [Vals EXCEPT ![t] = v],
         did' = [op |-> "write", to |-> t, with |-> v], Careful
  PROVE  AsValues!Next
<1>1. AsValues!Write(t)
  BY DEF AsValues!Write, Vals, Val
<1>2. QED
  BY <1>1 DEF AsValues!Next, Careful

LEMMA CopyStep ==
  ASSUME MemoryInv, NoValue(Null), NEW s \in Names, NEW t \in Names, owns[s],
         Vals' = Copied(s, t), did' = [op |-> "copy", from |-> s, to |-> t], Careful
  PROVE  AsValues!Next
<1>1. Vals[s] # Null
  BY ValFacts
<1>2. AsValues!Copy(s, t)
  BY <1>1 DEF AsValues!Copy, Copied, Vals, Val
<1>3. QED
  BY <1>2 DEF AsValues!Next, Careful

LEMMA MoveStep ==
  ASSUME MemoryInv, NoValue(Null), NEW s \in Names, NEW t \in Names,
         MoveTensorData(s, t), Careful, Careful'
  PROVE  AsValues!Next
<1>1. owns[s] /\ did' = [op |-> "move", from |-> s, to |-> t]
  BY DEF MoveTensorData, Moved, Careful
<1>2. Vals[s] # Null
  BY <1>1, ValFacts
<1>3. AsValues!Move(s, t)
  BY <1>1, <1>2, MoveVal DEF AsValues!Move, Vals, Val
<1>4. QED
  BY <1>3 DEF AsValues!Next, Careful

LEMMA CopyTensorStep ==
  ASSUME MemoryInv, NoValue(Null), NEW s \in Names, NEW t \in Names,
         CopyTensorData(s, t), Careful
  PROVE  AsValues!Next
<1>1. /\ owns[s] /\ (owns[t] \/ SameRoom(s, t))
      /\ CopyElements(s, t, device[t], batch[t])
      /\ device' = [device EXCEPT ![t] = device[t]]
      /\ batch' = [batch EXCEPT ![t] = batch[t]]
      /\ did' = [op |-> "copy", from |-> s, to |-> t]
  BY DEF CopyTensorData, MemoryInv, TypeOK
<1>2. Vals' = Copied(s, t)
  BY <1>1, CopyVal DEF SameRoom
<1>3. QED
  BY <1>1, <1>2, CopyStep

LEMMA WrittenShape ==
  \A x, n : Written(x, n) = [i \in Indices(n) |-> Written(x, n)[i]]
BY DEF Written

LEMMA ConstructStep ==
  ASSUME MemoryInv, NEW t \in Names, NEW d \in Devices, NEW n \in Batches,
         NEW x, Construct(t, d, n, x), Careful
  PROVE  AsValues!Next
<1>1. PICK b \in Buffers : Allocate(t, b, d, n, Written(x, n))
  BY DEF Construct
<1>2. /\ device'[t] = d /\ batch'[t] = n /\ ~owns[t] /\ n \in Nat
      /\ \A u \in Names \ {t} : /\ device'[u] = device[u]
                                /\ batch'[u] = batch[u]
      /\ did' = [op |-> "write", to |-> t, with |-> Written(x, n)]
  BY TensorAssumption DEF Construct, MemoryInv, TypeOK
<1>3. Vals' = [Vals EXCEPT ![t] = Written(x, n)]
  BY <1>1, <1>2, WrittenShape, AllocateVal
<1>4. QED
  BY <1>2, <1>3, WriteStep

LEMMA SetDataStep ==
  ASSUME MemoryInv, NEW t \in Names, NEW x, SetData(t, x), Careful
  PROVE  AsValues!Next
<1> DEFINE v == Written(x, batch[t])
<1>1. /\ device[t] \in Devices /\ batch[t] \in Nat
      /\ UNCHANGED <<device, batch>>
      /\ did' = [op |-> "write", to |-> t, with |-> v]
  <2>1. \A n \in Batches \cup {0} : n \in Nat
    BY TensorAssumption
  <2>2. QED
    BY <2>1 DEF SetData, MemoryInv, TypeOK
<1>2. Vals' = [Vals EXCEPT ![t] = v]
  <2>1. CASE owns[t]
    <3>1. /\ heap' = [heap EXCEPT ![base[t]] = Store(@, device[t], v)]
          /\ UNCHANGED <<owns, base>>
      BY <2>1 DEF SetData
    <3>2. DOMAIN v = Indices(batch[t])
      BY DEF Written
    <3>3. v = [i \in Indices(batch[t]) |-> v[i]]
      BY WrittenShape
    <3> HIDE DEF v
    <3>4. Vals' = [Vals EXCEPT ![t] =
                     [i \in Indices(batch[t]) |->
                        IF i \in DOMAIN v THEN v[i] ELSE Val(t)[i]]]
      BY <1>1, <2>1, <3>1, <3>2, WriteVal
    <3>5. [i \in Indices(batch[t]) |->
             IF i \in DOMAIN v THEN v[i] ELSE Val(t)[i]] = v
      BY <3>2, <3>3
    <3>6. QED
      BY <3>4, <3>5
  <2>2. CASE ~owns[t]
    <3>1. PICK b \in Buffers : Allocate(t, b, device[t], batch[t], v)
      BY <2>2 DEF SetData
    <3>2. QED
      BY <1>1, <2>2, <3>1, WrittenShape, AllocateVal
  <2>3. QED
    BY <2>1, <2>2
<1>3. QED
  BY <1>1, <1>2, WriteStep

LEMMA ResizeStep ==
  ASSUME MemoryInv, ~Resizing, NEW t \in Names, NEW n \in Batches,
         ChangeBatchSize(t, n), Careful, Careful'
  PROVE  AsValues!Next
<1> DEFINE junk == [i \in Indices(n) |-> Junk]
<1>1. PICK b \in (Buffers \ allocated) \cup ({base[t]} \cap Buffers) :
        /\ heap' = [c \in Buffers |->
              CASE c = b       -> Fresh(ElementSize(device[t]) * n)
                [] c = base[t] /\ c # b -> <<>>
                [] OTHER       -> heap[c]]
        /\ base' = [base EXCEPT ![t] = b]
  BY DEF ChangeBatchSize
<1>2. /\ owns[t] \/ base[t] = Null
      /\ n = batch[t] /\ device[t] # "none"
      /\ owns' = [owns EXCEPT ![t] = TRUE] /\ UNCHANGED <<device, batch>>
      /\ did' = [op |-> "resize", to |-> t]
  BY DEF ChangeBatchSize, Careful
<1>3. device[t] \in Devices /\ n \in Nat /\ b \in Buffers
  BY <1>1, <1>2, TensorAssumption DEF MemoryInv, TypeOK
<1>4. /\ base'[t] = b /\ heap'[b] = Fresh(ElementSize(device[t]) * n)
      /\ owns'[t]
  BY <1>1, <1>2, <1>3 DEF MemoryInv, TypeOK
<1>5. \A i \in Indices(n) : heap'[b][Position(device[t], i)] = Junk
  BY <1>3, <1>4, PositionRoom DEF Fresh
<1>6. Val(t)' = junk
  <2>1. Val(t)' = [i \in Indices(batch'[t]) |->
                     heap'[base'[t]][Position(device'[t], i)]]
    BY <1>4, ValOwned
  <2>2. QED
    BY <1>2, <1>4, <1>5, <2>1
<1>7. ASSUME NEW u \in Names \ {t} PROVE Val(u)' = Val(u)
  <2>1. base'[u] = base[u] /\ owns'[u] = owns[u]
    BY <1>1, <1>2 DEF MemoryInv, TypeOK
  <2>2. ASSUME owns[u] PROVE heap'[base[u]] = heap[base[u]]
    <3>1. base[u] \in allocated /\ base[u] \in Buffers
      BY <2>2, OwnerFacts
    <3>2. base[u] # base[t]
      BY <1>2, <2>2, <3>1, OwnerFacts, TensorAssumption
    <3>3. QED
      BY <1>1, <3>1, <3>2
  <2>3. QED
    BY <1>2, <2>1, <2>2, ValSame
<1>8. Vals' = [Vals EXCEPT ![t] = junk]
  BY <1>6, <1>7, ValStep
<1>9. AsValues!Resize(t)
  BY <1>2, <1>8 DEF AsValues!Resize, Vals, Val
<1>10. QED
  BY <1>9 DEF AsValues!Next, Careful

(* Of a call the code should have refused nothing is promised.             *)
LEMMA MisuseStep ==
  ASSUME Next, ~Careful'
  PROVE  AsValues!Next
<1>1. PICK t \in Names : did'.op = "misuse" /\ did'.to = t
  <2>1. /\ \A t : Default(t) => Careful'
        /\ \A t : Destroy(t) => Careful'
        /\ \A t, d, n, x : Construct(t, d, n, x) => Careful'
        /\ \A t, x : SetData(t, x) => Careful'
        /\ \A s, t : CopyConstruct(s, t) => Careful'
        /\ \A s, t : CopyAssign(s, t) => Careful'
        /\ \A s, t : CopyAssignThrows(s, t) => Careful'
        /\ \A s, t : CopyTensorData(s, t) => Careful'
    BY DEF Default, Destroy, Construct, SetData, CopyConstruct, CopyAssign,
           CopyAssignThrows, CopyTensorData, Careful
  <2>2. /\ \A s, t : MoveTensorData(s, t) => did'.to = t
        /\ \A t, n : ChangeBatchSize(t, n) => did'.to = t
    BY DEF MoveTensorData, Moved, ChangeBatchSize
  <2>3. did'.op = "misuse"
    BY DEF Careful
  <2>4. QED
    BY <2>1, <2>2, <2>3 DEF Next, ForwardTensorData
<1>2. AsValues!Misuse(t)
  BY <1>1 DEF AsValues!Misuse
<1>3. QED
  BY <1>2 DEF AsValues!Next, Next, Careful

LEMMA StutterStep ==
  ASSUME UNCHANGED vars  PROVE UNCHANGED AsValues!vars
<1>1. UNCHANGED <<live, device, batch, owns, base, allocated, heap, did>>
  BY DEF vars
<1>2. Vals' = Vals
  BY <1>1, AllSame, ValSame
<1>3. QED
  BY <1>1, <1>2 DEF AsValues!vars, Vals, Val

LEMMA ValuesStep ==
  ASSUME MemoryInv, NoValue(Null), ~Resizing, Next, Careful'
  PROVE  AsValues!Next
<1>1. Careful
  BY DEF Next
<1>2. ASSUME NEW t \in Names, Default(t) PROVE AsValues!Next
  <2>1. Vals' = Vals
    BY <1>2, KeepVal DEF Default
  <2>2. AsValues!Keep(t)
    BY <1>2, <2>1 DEF Default, AsValues!Keep, Vals, Val
  <2>3. QED
    BY <1>1, <2>2 DEF AsValues!Next, Careful
<1>3. ASSUME NEW t \in Names, Destroy(t) PROVE AsValues!Next
  <2>1. /\ owns' = [owns EXCEPT ![t] = FALSE]
        /\ base' = [base EXCEPT ![t] = Null]
        /\ device' = [device EXCEPT ![t] = "none"]
        /\ batch' = [batch EXCEPT ![t] = 0]
        /\ heap' = [b \in Buffers |->
                      IF b \in (IF owns[t] THEN {base[t]} ELSE {})
                      THEN <<>> ELSE heap[b]]
        /\ did' = [op |-> "drop", to |-> t]
    BY <1>3 DEF Destroy, Free
  <2>2. Val(t)' = Null
    BY <2>1 DEF Val, MemoryInv, TypeOK
  <2>3. ASSUME NEW u \in Names \ {t} PROVE Val(u)' = Val(u)
    <3>1. /\ owns'[u] = owns[u] /\ base'[u] = base[u]
          /\ device'[u] = device[u] /\ batch'[u] = batch[u]
      BY <2>1 DEF MemoryInv, TypeOK
    <3>2. ASSUME owns[u] PROVE heap'[base[u]] = heap[base[u]]
      <4>1. base[u] \in Buffers /\ (owns[t] => base[u] # base[t])
        BY <3>2, OwnerFacts
      <4>2. QED
        BY <2>1, <4>1
    <3>3. QED
      BY <3>1, <3>2, ValSame
  <2>4. Vals' = [Vals EXCEPT ![t] = Null]
    BY <2>2, <2>3, ValStep
  <2>5. AsValues!Drop(t)
    BY <2>1, <2>4 DEF AsValues!Drop, Vals, Val
  <2>6. QED
    BY <1>1, <2>5 DEF AsValues!Next, Careful
<1>4. ASSUME NEW s \in Names, NEW t \in Names, CopyConstruct(s, t)
      PROVE  AsValues!Next
  <2>1. PICK b \in Buffers :
          Allocate(t, b, device[s], batch[s], Read(s, batch[s]))
    BY <1>4 DEF CopyConstruct
  <2>2. /\ owns[s] /\ ~owns[t]
        /\ device' = [device EXCEPT ![t] = device[s]]
        /\ batch' = [batch EXCEPT ![t] = batch[s]]
        /\ did' = [op |-> "copy", from |-> s, to |-> t]
    BY <1>4 DEF CopyConstruct, MemoryInv, TypeOK
  <2>3. CopyElements(s, t, device[s], batch[s])
    BY <2>1, <2>2 DEF CopyElements
  <2>4. Vals' = Copied(s, t)
    BY <2>2, <2>3, CopyVal
  <2>5. QED
    BY <1>1, <2>2, <2>4, CopyStep
<1>5. ASSUME NEW s \in Names, NEW t \in Names, CopyAssign(s, t)
      PROVE  AsValues!Next
  <2>1. Vals' = Copied(s, t)
    BY <1>5, CopyVal DEF CopyAssign, SameRoom
  <2>2. QED
    BY <1>1, <1>5, <2>1, CopyStep DEF CopyAssign
<1>6. ASSUME NEW s \in Names, NEW t \in Names, CopyAssignThrows(s, t)
      PROVE  AsValues!Next
  <2>1. Vals' = Vals
    BY <1>6, KeepVal DEF CopyAssignThrows, SameRoom, MemoryInv, TypeOK
  <2>2. AsValues!Keep(t)
    BY <1>6, <2>1 DEF CopyAssignThrows, AsValues!Keep, Vals, Val
  <2>3. QED
    BY <1>1, <2>2 DEF AsValues!Next, Careful
<1>7. ASSUME NEW s \in Names, NEW t \in Names,
             \/ CopyTensorData(s, t) \/ MoveTensorData(s, t)
             \/ ForwardTensorData(s, t)
      PROVE  AsValues!Next
  BY <1>1, <1>7, CopyTensorStep, MoveStep DEF ForwardTensorData
<1>8. QED
  BY <1>1, <1>2, <1>3, <1>4, <1>5, <1>6, <1>7, ConstructStep, SetDataStep,
     ResizeStep
  DEF Next

LEMMA ValuesInit == Init => AsValues!Init
BY DEF Init, AsValues!Init

(* Where no batch is resized, tensors behave as values that are theirs     *)
(* alone, whatever they were copied from, moved to or allocated before and *)
(* on whichever device they are, up to the first misuse: for any tensors,  *)
(* buffers, shape, padding and batch sizes (all of Tensor.hpp's memory     *)
(* functions).                                                             *)
THEOREM TensorsAreValues ==
  ASSUME ~Resizing, NoValue(Null)
  PROVE  Spec => ImplementsValues
<1>1. Init => (Careful => FitsAll /\ Placed)
  BY DEF Init, FitsAll, HeapShape, Placed
<1>2. TypeOK /\ OneOwner /\ (Careful => FitsAll /\ Placed) /\ [Next]_vars
        => (Careful => FitsAll /\ Placed)'
  <2>1. ASSUME TypeOK, OneOwner, Careful => FitsAll /\ Placed, Next, Careful'
        PROVE  FitsAll' /\ Placed'
    BY <2>1, FitsStep, PlacedStep DEF Next, OneOwner
  <2>2. ASSUME TypeOK, Careful => FitsAll /\ Placed, UNCHANGED vars, Careful'
        PROVE  FitsAll' /\ Placed'
    BY <2>2, FitsStutter, PlacedStep DEF vars, Careful
  <2>3. QED
    BY <2>1, <2>2
<1>3. TypeOK /\ OneOwner /\ (Careful => FitsAll /\ Placed) /\ [Next]_vars
        => [AsValues!Next]_(AsValues!vars)
  <2>1. ASSUME TypeOK, OneOwner, Careful => FitsAll /\ Placed, Next, Careful'
        PROVE  AsValues!Next
    BY <2>1, ValuesStep DEF MemoryInv, Next, OneOwner
  <2>2. QED
    BY <2>1, MisuseStep, StutterStep
<1>4. QED
  BY <1>1, <1>2, <1>3, ValuesInit, TensorInvariant, PTL
  DEF Spec, ImplementsValues, AsValues!Spec
=============================================================================
