--------------------------- MODULE SharedPtrProofs ---------------------------
(***************************************************************************)
(* For any finite sets of threads, pointers and objects: RefCount is never *)
(* below the number of owners and of references about to be handed out, it *)
(* is exact as long as nobody moves between owners of one object, and as   *)
(* long as no WeakPtr is locked no owner is left with a deleted object.    *)
(***************************************************************************)
EXTENDS SharedPtr, FiniteSetTheorems, TLAPS

Types ==
  /\ ptr \in [Pointers -> Objects \cup {Null}]
  /\ weak \in [Threads -> Objects \cup {Null}]
  /\ life \in [Objects -> {"unborn", "live", "deleted"}]
  /\ count \in [Objects -> Int]
  /\ used \subseteq Features
  /\ op \in [Threads -> {"none", "copy", "assign", "moveAssign", "destroy",
                         "lock"}]
  /\ at \in [Threads -> {"idle", "load", "cas", "test", "delete", "sub",
                         "set"}]
  /\ dst \in [Threads -> Pointers \cup {Null}]
  /\ src \in [Threads -> Pointers \cup {Null}]
  /\ old \in [Threads -> Int]

(* Where a thread can be in each member function, and what it points at.   *)
Places(t) ==
  /\ op[t] = "none" <=> at[t] = "idle"
  /\ op[t] = "none" => dst[t] = Null /\ src[t] = Null
  /\ op[t] # "none" => dst[t] \in Pointers
  /\ op[t] \in {"copy", "assign", "moveAssign"} =>
       src[t] \in Pointers /\ src[t] # dst[t]
  /\ op[t] \in {"destroy", "lock"} => src[t] = Null
  /\ op[t] \in {"copy", "lock"} =>
       at[t] \in {"load", "cas", "set"} /\ ptr[dst[t]] = Null
  /\ op[t] \in {"moveAssign", "destroy"} =>
       at[t] \in {"test", "delete", "sub", "set"}
  /\ op[t] \in {"copy", "assign"} => ptr[src[t]] \in Objects
  /\ op[t] = "lock" => weak[t] \in Objects /\ "weak" \in used
  /\ at[t] \in {"test", "delete", "sub"} => ptr[dst[t]] \in Objects

(* No two threads meet at a variable one of them writes.                   *)
Apart(t, u) ==
  op[t] # "none" =>
    /\ dst[t] # dst[u] /\ dst[t] # src[u]
    /\ op[t] = "moveAssign" => src[t] # src[u]

(* Nothing leads to an object that has not been made.                      *)
Untouched(o) ==
  life[o] = "unborn" =>
    /\ count[o] = 0
    /\ \A p \in Pointers : ptr[p] # o
    /\ \A t \in Threads : weak[t] # o

Structure ==
  /\ Types
  /\ \A t \in Threads : Places(t)
  /\ \A t, u \in Threads : t # u => Apart(t, u)
  /\ \A o \in Objects : Untouched(o)

References(o) == Cardinality(Owners(o)) + Cardinality(Pending(o))

Counted(o) ==
  life[o] = "live" =>
    /\ count[o] >= References(o)
    /\ "alias" \notin used => count[o] = References(o)

(* Without WeakPtr::Lock: references to an object keep it alive, and a     *)
(* thread that has seen RefCount 1 holds the only one.                     *)
Kept(o) ==
  "weak" \notin used /\ Owners(o) \cup Pending(o) # {} => life[o] = "live"

Alone(t) ==
  "weak" \notin used /\ at[t] = "delete" =>
    /\ Owners(ptr[dst[t]]) = {dst[t]}
    /\ Pending(ptr[dst[t]]) = {}

Positive(o) == used = {} => count[o] >= 0

IInv ==
  /\ Structure
  /\ \A o \in Objects : Counted(o) /\ Kept(o) /\ Positive(o)
  /\ \A t \in Threads : Alone(t)

-----------------------------------------------------------------------------
(* The structure is kept, action by action.                                *)

LEMMA StructureMake ==
  ASSUME Structure, NEW t \in Threads, NEW d \in Pointers, NEW o \in Objects,
         Make(t, d, o)
  PROVE  Structure'
<1> USE PoolAssumption DEF Structure, Make, heap, call
<1>1. Types'
  BY DEF Types, Places
<1>2. ASSUME NEW x \in Threads PROVE Places(x)'
  BY DEF Types, Places, MayWrite, MayRead, Written, Untouched, Apart
<1>3. ASSUME NEW x \in Threads, NEW y \in Threads, x # y PROVE Apart(x, y)'
  BY <1>3 DEF Types, Places, Apart, MayWrite, MayRead, Written
<1>4. ASSUME NEW x \in Objects PROVE Untouched(x)'
  BY DEF Types, Places, Untouched
<1>5. QED
  BY <1>1, <1>2, <1>3, <1>4

LEMMA StructureMoveConstruct ==
  ASSUME Structure, NEW t \in Threads, NEW d \in Pointers, NEW s \in Pointers,
         MoveConstruct(t, d, s)
  PROVE  Structure'
<1> USE PoolAssumption DEF Structure, MoveConstruct, heap, call
<1>1. Types'
  BY DEF Types, Places
<1>2. ASSUME NEW x \in Threads PROVE Places(x)'
  BY DEF Types, Places, MayWrite, MayRead, Written, Apart
<1>3. ASSUME NEW x \in Threads, NEW y \in Threads, x # y PROVE Apart(x, y)'
  BY <1>3 DEF Types, Places, Apart, MayWrite, MayRead, Written
<1>4. ASSUME NEW x \in Objects PROVE Untouched(x)'
  BY DEF Types, Places, Untouched
<1>5. QED
  BY <1>1, <1>2, <1>3, <1>4

LEMMA StructureMoveAlias ==
  ASSUME Structure, NEW t \in Threads, NEW d \in Pointers, NEW s \in Pointers,
         MoveAlias(t, d, s)
  PROVE  Structure'
<1> USE PoolAssumption DEF Structure, MoveAlias, heap, call
<1>1. Types'
  BY DEF Types, Places
<1>2. ASSUME NEW x \in Threads PROVE Places(x)'
  BY DEF Types, Places, MayWrite, MayRead, Written, Apart
<1>3. ASSUME NEW x \in Threads, NEW y \in Threads, x # y PROVE Apart(x, y)'
  BY <1>3 DEF Types, Places, Apart, MayWrite, MayRead, Written
<1>4. ASSUME NEW x \in Objects PROVE Untouched(x)'
  BY DEF Types, Places, Untouched
<1>5. QED
  BY <1>1, <1>2, <1>3, <1>4

LEMMA StructureMakeWeak ==
  ASSUME Structure, NEW t \in Threads, NEW s \in Pointers, MakeWeak(t, s)
  PROVE  Structure'
<1> USE PoolAssumption DEF Structure, MakeWeak, heap, call
<1>1. Types'
  BY DEF Types, Places
<1>2. ASSUME NEW x \in Threads PROVE Places(x)'
  BY DEF Types, Places, MayWrite, MayRead, Written, Apart
<1>3. ASSUME NEW x \in Threads, NEW y \in Threads, x # y PROVE Apart(x, y)'
  BY <1>3 DEF Types, Places, Apart, MayWrite, MayRead, Written
<1>4. ASSUME NEW x \in Objects PROVE Untouched(x)'
  BY DEF Types, Places, Untouched
<1>5. QED
  BY <1>1, <1>2, <1>3, <1>4

LEMMA StructureCopyWeak ==
  ASSUME Structure, NEW t \in Threads, NEW u \in Threads, CopyWeak(t, u)
  PROVE  Structure'
<1> USE PoolAssumption DEF Structure, CopyWeak, heap, call
<1>1. Types'
  BY DEF Types, Places
<1>2. ASSUME NEW x \in Threads PROVE Places(x)'
  BY DEF Types, Places, MayWrite, MayRead, Written, Apart
<1>3. ASSUME NEW x \in Threads, NEW y \in Threads, x # y PROVE Apart(x, y)'
  BY <1>3 DEF Types, Places, Apart, MayWrite, MayRead, Written
<1>4. ASSUME NEW x \in Objects PROVE Untouched(x)'
  BY DEF Types, Places, Untouched
<1>5. QED
  BY <1>1, <1>2, <1>3, <1>4

LEMMA StructureMoveWeak ==
  ASSUME Structure, NEW t \in Threads, NEW u \in Threads, MoveWeak(t, u)
  PROVE  Structure'
<1> USE PoolAssumption DEF Structure, MoveWeak, heap, call
<1>1. Types'
  BY DEF Types, Places
<1>2. ASSUME NEW x \in Threads PROVE Places(x)'
  BY DEF Types, Places, MayWrite, MayRead, Written, Apart
<1>3. ASSUME NEW x \in Threads, NEW y \in Threads, x # y PROVE Apart(x, y)'
  BY <1>3 DEF Types, Places, Apart, MayWrite, MayRead, Written
<1>4. ASSUME NEW x \in Objects PROVE Untouched(x)'
  BY DEF Types, Places, Untouched
<1>5. QED
  BY <1>1, <1>2, <1>3, <1>4

LEMMA StructureCopyConstruct ==
  ASSUME Structure, NEW t \in Threads, NEW d \in Pointers, NEW s \in Pointers,
         CopyConstruct(t, d, s)
  PROVE  Structure'
<1> USE PoolAssumption DEF Structure, CopyConstruct, Begin, heap, call
<1>1. Types'
  BY DEF Types, Places
<1>2. ASSUME NEW x \in Threads PROVE Places(x)'
  BY DEF Types, Places, MayWrite, MayRead, Written, Apart
<1>3. ASSUME NEW x \in Threads, NEW y \in Threads, x # y PROVE Apart(x, y)'
  BY <1>3 DEF Types, Places, Apart, MayWrite, MayRead, Written
<1>4. ASSUME NEW x \in Objects PROVE Untouched(x)'
  BY DEF Types, Places, Untouched
<1>5. QED
  BY <1>1, <1>2, <1>3, <1>4

LEMMA StructureCopyAssign ==
  ASSUME Structure, NEW t \in Threads, NEW d \in Pointers, NEW s \in Pointers,
         CopyAssign(t, d, s)
  PROVE  Structure'
<1> USE PoolAssumption DEF Structure, CopyAssign, Begin, heap, call
<1>1. Types'
  BY DEF Types, Places
<1>2. ASSUME NEW x \in Threads PROVE Places(x)'
  BY DEF Types, Places, MayWrite, MayRead, Written, Apart
<1>3. ASSUME NEW x \in Threads, NEW y \in Threads, x # y PROVE Apart(x, y)'
  BY <1>3 DEF Types, Places, Apart, MayWrite, MayRead, Written
<1>4. ASSUME NEW x \in Objects PROVE Untouched(x)'
  BY DEF Types, Places, Untouched
<1>5. QED
  BY <1>1, <1>2, <1>3, <1>4

LEMMA StructureMoveAssign ==
  ASSUME Structure, NEW t \in Threads, NEW d \in Pointers, NEW s \in Pointers,
         MoveAssign(t, d, s)
  PROVE  Structure'
<1> USE PoolAssumption DEF Structure, MoveAssign, Begin, heap, call
<1>1. Types'
  BY DEF Types, Places
<1>2. ASSUME NEW x \in Threads PROVE Places(x)'
  BY DEF Types, Places, MayWrite, MayRead, Written, Apart
<1>3. ASSUME NEW x \in Threads, NEW y \in Threads, x # y PROVE Apart(x, y)'
  BY <1>3 DEF Types, Places, Apart, MayWrite, MayRead, Written
<1>4. ASSUME NEW x \in Objects PROVE Untouched(x)'
  BY DEF Types, Places, Untouched
<1>5. QED
  BY <1>1, <1>2, <1>3, <1>4

LEMMA StructureDestroy ==
  ASSUME Structure, NEW t \in Threads, NEW d \in Pointers, Destroy(t, d)
  PROVE  Structure'
<1> USE PoolAssumption DEF Structure, Destroy, Begin, heap, call
<1>1. Types'
  BY DEF Types, Places
<1>2. ASSUME NEW x \in Threads PROVE Places(x)'
  BY DEF Types, Places, MayWrite, MayRead, Written, Apart
<1>3. ASSUME NEW x \in Threads, NEW y \in Threads, x # y PROVE Apart(x, y)'
  BY <1>3 DEF Types, Places, Apart, MayWrite, MayRead, Written
<1>4. ASSUME NEW x \in Objects PROVE Untouched(x)'
  BY DEF Types, Places, Untouched
<1>5. QED
  BY <1>1, <1>2, <1>3, <1>4

LEMMA StructureLock ==
  ASSUME Structure, NEW t \in Threads, NEW d \in Pointers, Lock(t, d)
  PROVE  Structure'
<1> USE PoolAssumption DEF Structure, Lock, Begin, heap, call
<1>1. Types'
  BY DEF Types, Places
<1>2. ASSUME NEW x \in Threads PROVE Places(x)'
  BY DEF Types, Places, MayWrite, MayRead, Written, Apart
<1>3. ASSUME NEW x \in Threads, NEW y \in Threads, x # y PROVE Apart(x, y)'
  BY <1>3 DEF Types, Places, Apart, MayWrite, MayRead, Written
<1>4. ASSUME NEW x \in Objects PROVE Untouched(x)'
  BY DEF Types, Places, Untouched
<1>5. QED
  BY <1>1, <1>2, <1>3, <1>4

LEMMA StructureLoadCount ==
  ASSUME Structure, NEW t \in Threads, LoadCount(t)
  PROVE  Structure'
<1> USE PoolAssumption DEF Structure, LoadCount, Step, heap, call
<1>1. Types'
  <2>1. Target(t) \in Objects
    BY DEF Types, Places, Target
  <2>2. Reads(Target(t)) \subseteq Int
    BY <2>1 DEF Types, Reads
  <2>3. QED
    BY <2>2 DEF Types
<1>2. ASSUME NEW x \in Threads PROVE Places(x)'
  BY DEF Types, Places, Apart
<1>3. ASSUME NEW x \in Threads, NEW y \in Threads, x # y PROVE Apart(x, y)'
  BY <1>3 DEF Types, Places, Apart
<1>4. ASSUME NEW x \in Objects PROVE Untouched(x)'
  BY DEF Types, Places, Untouched
<1>5. QED
  BY <1>1, <1>2, <1>3, <1>4

LEMMA StructureExchangeSucceeds ==
  ASSUME Structure, NEW t \in Threads, ExchangeSucceeds(t)
  PROVE  Structure'
<1> USE PoolAssumption DEF Structure, ExchangeSucceeds, Step, Reads, Target, heap, call
<1>1. Types'
  BY DEF Types, Places
<1>2. ASSUME NEW x \in Threads PROVE Places(x)'
  BY DEF Types, Places, Apart
<1>3. ASSUME NEW x \in Threads, NEW y \in Threads, x # y PROVE Apart(x, y)'
  BY <1>3 DEF Types, Places, Apart
<1>4. ASSUME NEW x \in Objects PROVE Untouched(x)'
  BY DEF Types, Places, Untouched
<1>5. QED
  BY <1>1, <1>2, <1>3, <1>4

LEMMA StructureExchangeFails ==
  ASSUME Structure, NEW t \in Threads, ExchangeFails(t)
  PROVE  Structure'
<1> USE PoolAssumption DEF Structure, ExchangeFails, Reads, Target, heap, call
<1>1. Types'
  BY DEF Types, Places
<1>2. ASSUME NEW x \in Threads PROVE Places(x)'
  BY DEF Types, Places, Apart
<1>3. ASSUME NEW x \in Threads, NEW y \in Threads, x # y PROVE Apart(x, y)'
  BY <1>3 DEF Types, Places, Apart
<1>4. ASSUME NEW x \in Objects PROVE Untouched(x)'
  BY DEF Types, Places, Untouched
<1>5. QED
  BY <1>1, <1>2, <1>3, <1>4

LEMMA StructureTestLast ==
  ASSUME Structure, NEW t \in Threads, TestLast(t)
  PROVE  Structure'
<1> USE PoolAssumption DEF Structure, TestLast, Step, heap, call
<1>1. Types'
  BY DEF Types, Places
<1>2. ASSUME NEW x \in Threads PROVE Places(x)'
  BY DEF Types, Places, Apart
<1>3. ASSUME NEW x \in Threads, NEW y \in Threads, x # y PROVE Apart(x, y)'
  BY <1>3 DEF Types, Places, Apart
<1>4. ASSUME NEW x \in Objects PROVE Untouched(x)'
  BY DEF Types, Places, Untouched
<1>5. QED
  BY <1>1, <1>2, <1>3, <1>4

LEMMA StructureDelete ==
  ASSUME Structure, NEW t \in Threads, Delete(t)
  PROVE  Structure'
<1> USE PoolAssumption DEF Structure, Delete, Step, heap, call
<1>1. Types'
  BY DEF Types, Places
<1>2. ASSUME NEW x \in Threads PROVE Places(x)'
  BY DEF Types, Places, Apart
<1>3. ASSUME NEW x \in Threads, NEW y \in Threads, x # y PROVE Apart(x, y)'
  BY <1>3 DEF Types, Places, Apart
<1>4. ASSUME NEW x \in Objects PROVE Untouched(x)'
  BY DEF Types, Places, Untouched
<1>5. QED
  BY <1>1, <1>2, <1>3, <1>4

LEMMA StructureCountDown ==
  ASSUME Structure, NEW t \in Threads, CountDown(t)
  PROVE  Structure'
<1> USE PoolAssumption DEF Structure, CountDown, Step, heap, call
<1>1. Types'
  BY DEF Types, Places
<1>2. ASSUME NEW x \in Threads PROVE Places(x)'
  BY DEF Types, Places, Apart
<1>3. ASSUME NEW x \in Threads, NEW y \in Threads, x # y PROVE Apart(x, y)'
  BY <1>3 DEF Types, Places, Apart
<1>4. ASSUME NEW x \in Objects PROVE Untouched(x)'
  BY DEF Types, Places, Untouched
<1>5. QED
  BY <1>1, <1>2, <1>3, <1>4

LEMMA StructureSetPointers ==
  ASSUME Structure, NEW t \in Threads, SetPointers(t)
  PROVE  Structure'
<1> USE PoolAssumption DEF Structure, SetPointers, Step, Target, heap, call
<1>1. Types'
  BY DEF Types, Places
<1>2. ASSUME NEW x \in Threads PROVE Places(x)'
  BY DEF Types, Places, Apart
<1>3. ASSUME NEW x \in Threads, NEW y \in Threads, x # y PROVE Apart(x, y)'
  BY <1>3 DEF Types, Places, Apart
<1>4. ASSUME NEW x \in Objects PROVE Untouched(x)'
  BY DEF Types, Places, Untouched
<1>5. QED
  BY <1>1, <1>2, <1>3, <1>4

-----------------------------------------------------------------------------
(* What the actions do to the owners of an object and to the references    *)
(* that are counted but not handed out yet.                                *)

Quiet(t) ==
  \/ \E s \in Pointers : MakeWeak(t, s)
  \/ \E u \in Threads : CopyWeak(t, u) \/ MoveWeak(t, u)
  \/ \E d, s \in Pointers :
       \/ CopyConstruct(t, d, s) \/ CopyAssign(t, d, s) \/ MoveAssign(t, d, s)
       \/ Destroy(t, d) \/ Lock(t, d)
  \/ LoadCount(t) \/ ExchangeFails(t) \/ TestLast(t)

LEMMA QuietReferences ==
  ASSUME Structure, NEW t \in Threads, Quiet(t), NEW o \in Objects
  PROVE  /\ Owners(o)' = Owners(o) /\ Pending(o)' = Pending(o)
         /\ count' = count /\ life' = life /\ used \subseteq used'
<1> USE PoolAssumption DEF Structure, heap, call, Owners, Pending, Released,
                           Target
<1>1. CASE \E s \in Pointers : MakeWeak(t, s)
  BY <1>1 DEF MakeWeak, Types, Places
<1>2. CASE \E u \in Threads : CopyWeak(t, u) \/ MoveWeak(t, u)
  BY <1>2 DEF CopyWeak, MoveWeak, Types, Places
<1>3. CASE \E d, s \in Pointers : CopyConstruct(t, d, s)
  BY <1>3 DEF CopyConstruct, Begin, Types, Places
<1>4. CASE \E d, s \in Pointers : CopyAssign(t, d, s)
  BY <1>4 DEF CopyAssign, Begin, Types, Places
<1>5. CASE \E d, s \in Pointers : MoveAssign(t, d, s)
  BY <1>5 DEF MoveAssign, Begin, Types, Places
<1>6. CASE \E d \in Pointers : Destroy(t, d)
  BY <1>6 DEF Destroy, Begin, Types, Places
<1>7. CASE \E d \in Pointers : Lock(t, d)
  BY <1>7 DEF Lock, Begin, Types, Places
<1>8. CASE LoadCount(t)
  BY <1>8 DEF LoadCount, Step, Types, Places
<1>9. CASE ExchangeFails(t)
  BY <1>9 DEF ExchangeFails, Types, Places
<1>10. CASE TestLast(t)
  BY <1>10 DEF TestLast, Step, Types, Places
<1>11. QED
  BY <1>1, <1>2, <1>3, <1>4, <1>5, <1>6, <1>7, <1>8, <1>9, <1>10 DEF Quiet

LEMMA MakeReferences ==
  ASSUME Structure, NEW t \in Threads, NEW d \in Pointers, NEW o \in Objects,
         Make(t, d, o), NEW x \in Objects
  PROVE  /\ Pending(x)' = Pending(x)
         /\ x = o => Owners(x) = {} /\ Pending(x) = {} /\ Owners(x)' = {d}
         /\ x # o => Owners(x)' = Owners(x)
<1> USE PoolAssumption DEF Structure, Make, heap, call, MayWrite, Written,
                           Types, Places, Untouched, Target
<1>1. Pending(x)' = Pending(x)
  BY DEF Pending
<1>2. Owners(x)' = IF x = o THEN {d} ELSE Owners(x)
  BY DEF Owners, Released
<1>3. x = o => Owners(x) = {} /\ Pending(x) = {}
  BY DEF Owners, Pending
<1>4. QED
  BY <1>1, <1>2, <1>3

LEMMA MoveConstructReferences ==
  ASSUME Structure, NEW t \in Threads, NEW d \in Pointers,
         NEW s \in Pointers, MoveConstruct(t, d, s), NEW x \in Objects
  PROVE  /\ Pending(x)' = Pending(x) /\ d \notin Owners(x)
         /\ x = ptr[s] => s \in Owners(x) /\ Owners(x)' = (Owners(x) \ {s}) \cup {d}
         /\ x # ptr[s] => Owners(x)' = Owners(x)
<1> USE PoolAssumption DEF Structure, MoveConstruct, heap, call, MayWrite,
                           Written, Types, Places, Target
<1>1. Pending(x)' = Pending(x)
  BY DEF Pending
<1>2. QED
  BY <1>1 DEF Owners, Released

LEMMA MoveAliasReferences ==
  ASSUME Structure, NEW t \in Threads, NEW d \in Pointers,
         NEW s \in Pointers, MoveAlias(t, d, s), NEW x \in Objects
  PROVE  /\ Pending(x)' = Pending(x)
         /\ x = ptr[s] => s \in Owners(x) /\ Owners(x)' = Owners(x) \ {s}
         /\ x # ptr[s] => Owners(x)' = Owners(x)
<1> USE PoolAssumption DEF Structure, MoveAlias, heap, call, MayWrite,
                           Written, Types, Places, Target
<1>1. Pending(x)' = Pending(x)
  BY DEF Pending
<1>2. QED
  BY <1>1 DEF Owners, Released

LEMMA ExchangeReferences ==
  ASSUME Structure, NEW t \in Threads, ExchangeSucceeds(t), NEW x \in Objects
  PROVE  /\ Target(t) \in Objects /\ Owners(x)' = Owners(x)
         /\ x = Target(t) => t \notin Pending(x) /\ Pending(x)' = Pending(x) \cup {t}
         /\ x # Target(t) => Pending(x)' = Pending(x)
<1> USE PoolAssumption DEF Structure, ExchangeSucceeds, Step, heap, call,
                           Types, Places, Target
<1>1. Owners(x)' = Owners(x)
  BY DEF Owners, Released
<1>2. QED
  BY <1>1 DEF Pending

(* m_delete gives up what its variable owned, in either way.               *)
LEMMA ReleaseReferences ==
  ASSUME Structure, NEW t \in Threads, Delete(t) \/ CountDown(t),
         NEW x \in Objects
  PROVE  /\ ptr[dst[t]] \in Objects /\ dst[t] \in Pointers
         /\ Pending(x)' = Pending(x)
         /\ x = ptr[dst[t]] =>
              dst[t] \in Owners(x) /\ Owners(x)' = Owners(x) \ {dst[t]}
         /\ x # ptr[dst[t]] => Owners(x)' = Owners(x)
<1> USE PoolAssumption DEF Structure, Delete, CountDown, Step, heap, call,
                           Types, Places, Target
<1>1. Pending(x)' = Pending(x)
  BY DEF Pending
<1>2. QED
  BY <1>1 DEF Owners, Released, Apart

(* A counted reference becomes an owner; a move passes the source's on.    *)
LEMMA SetPointersReferences ==
  ASSUME Structure, NEW t \in Threads, SetPointers(t), NEW x \in Objects
  PROVE  /\ dst[t] \in Pointers /\ dst[t] \notin Owners(x)
         /\ CASE t \in Pending(x) ->
                   /\ Owners(x)' = Owners(x) \cup {dst[t]}
                   /\ Pending(x)' = Pending(x) \ {t}
              [] op[t] = "moveAssign" /\ ptr[src[t]] = x ->
                   /\ src[t] \in Owners(x) /\ Pending(x)' = Pending(x)
                   /\ Owners(x)' = (Owners(x) \ {src[t]}) \cup {dst[t]}
              [] OTHER ->
                   Owners(x)' = Owners(x) /\ Pending(x)' = Pending(x)
<1> USE PoolAssumption DEF Structure, SetPointers, Step, heap, call,
                           Types, Places, Apart, Target
<1>1. dst[t] \in Pointers /\ dst[t] \notin Owners(x)
  BY DEF Owners, Released
<1>2. Pending(x)' = Pending(x) \ {t}
  BY DEF Pending
<1>3. ptr'[dst[t]] = x /\ op[t] # "moveAssign" <=> t \in Pending(x)
  BY DEF Pending
<1>4. CASE t \in Pending(x)
  BY <1>1, <1>2, <1>3, <1>4 DEF Owners, Released
<1>5. CASE t \notin Pending(x) /\ op[t] = "moveAssign" /\ ptr[src[t]] = x
  BY <1>1, <1>2, <1>3, <1>5 DEF Owners, Released
<1>6. CASE t \notin Pending(x) /\ ~(op[t] = "moveAssign" /\ ptr[src[t]] = x)
  BY <1>1, <1>2, <1>3, <1>6 DEF Owners, Released
<1>7. QED
  BY <1>1, <1>4, <1>5, <1>6 DEF Pending

-----------------------------------------------------------------------------
(* Counting.                                                               *)

LEMMA FiniteReferences ==
  ASSUME Structure, NEW o \in Objects
  PROVE  /\ IsFiniteSet(Owners(o)) /\ Cardinality(Owners(o)) \in Nat
         /\ IsFiniteSet(Pending(o)) /\ Cardinality(Pending(o)) \in Nat
<1>1. Owners(o) \subseteq Pointers /\ Pending(o) \subseteq Threads
  BY DEF Owners, Pending
<1>2. QED
  BY <1>1, PoolAssumption, FS_Subset, FS_CardinalityType

(* A set with at most one element has no other than the one it has.        *)
LEMMA OnlyMember ==
  ASSUME NEW S, IsFiniteSet(S), NEW x \in S, Cardinality(S) <= 1
  PROVE  S = {x}
<1>1. Cardinality(S \ {x}) = Cardinality(S) - 1 /\ IsFiniteSet(S \ {x})
  BY FS_RemoveElement
<1>2. Cardinality(S) \in Nat /\ Cardinality(S \ {x}) \in Nat
  BY <1>1, FS_CardinalityType
<1>3. S \ {x} = {}
  BY <1>1, <1>2, FS_EmptySet
<1>4. QED
  BY <1>3

(* Giving one member for another leaves the number of members.             *)
LEMMA SwapMember ==
  ASSUME NEW S, IsFiniteSet(S), NEW x \in S, NEW y, y \notin S
  PROVE  Cardinality((S \ {x}) \cup {y}) = Cardinality(S)
<1>1. Cardinality(S \ {x}) = Cardinality(S) - 1 /\ IsFiniteSet(S \ {x})
  BY FS_RemoveElement
<1>2. Cardinality((S \ {x}) \cup {y}) = Cardinality(S \ {x}) + 1
  BY <1>1, FS_AddElement
<1>3. QED
  BY <1>1, <1>2, FS_CardinalityType

(* Who reads RefCount 1 in m_delete while no WeakPtr was locked holds the  *)
(* last reference.                                                         *)
LEMMA LastReference ==
  ASSUME IInv, "weak" \notin used, NEW t \in Threads, at[t] = "test",
         1 \in Reads(ptr[dst[t]])
  PROVE  Owners(ptr[dst[t]]) = {dst[t]} /\ Pending(ptr[dst[t]]) = {}
<1> DEFINE o == ptr[dst[t]]
<1>1. o \in Objects /\ dst[t] \in Owners(o)
  BY PoolAssumption DEF IInv, Structure, Types, Places, Apart, Owners, Released
<1>2. life[o] = "live" /\ count[o] = 1
  BY <1>1 DEF IInv, Kept, Reads
<1>3. References(o) <= 1
  BY <1>1, <1>2, FiniteReferences DEF IInv, Counted, References
<1>4. /\ IsFiniteSet(Owners(o)) /\ Cardinality(Owners(o)) \in Nat
      /\ IsFiniteSet(Pending(o)) /\ Cardinality(Pending(o)) \in Nat
  BY <1>1, FiniteReferences DEF IInv
<1>5. Cardinality(Owners(o)) # 0
  BY <1>1, <1>4, FS_EmptySet
<1>6. Cardinality(Owners(o)) <= 1 /\ Cardinality(Pending(o)) = 0
  BY <1>3, <1>4, <1>5 DEF References
<1>7. QED
  BY <1>1, <1>4, <1>6, OnlyMember, FS_EmptySet

Invariants(x, y) == Counted(x) /\ Kept(x) /\ Positive(x) /\ Alone(y)

(* Where nothing is gained or given up the invariants stay as they are.    *)
LEMMA UnchangedInvariants ==
  ASSUME IInv, NEW x \in Objects, count'[x] = count[x], life'[x] = life[x],
         used \subseteq used', Owners(x)' = Owners(x), Pending(x)' = Pending(x)
  PROVE  Counted(x)' /\ Kept(x)' /\ Positive(x)'
<1>1. References(x)' = References(x)
  BY DEF References
<1>2. QED
  BY <1>1 DEF IInv, Counted, Kept, Positive

(* A thread about to delete is disturbed by no other.                      *)
LEMMA StillAlone ==
  ASSUME IInv, Structure', NEW y \in Threads, used \subseteq used',
         at'[y] = "delete" =>
           /\ at[y] = "delete" /\ dst'[y] = dst[y]
           /\ ptr'[dst[y]] = ptr[dst[y]]
           /\ LET o == ptr[dst[y]]
              IN  Owners(o)' # Owners(o) \/ Pending(o)' # Pending(o) =>
                    ~(Owners(o) = {dst[y]} /\ Pending(o) = {})
  PROVE  Alone(y)'
<1> SUFFICES ASSUME "weak" \notin used', at'[y] = "delete"
             PROVE  (/\ Owners(ptr[dst[y]]) = {dst[y]}
                     /\ Pending(ptr[dst[y]]) = {})'
  BY DEF Alone
<1>1. Owners(ptr[dst[y]]) = {dst[y]} /\ Pending(ptr[dst[y]]) = {}
  BY DEF IInv, Alone
<1>2. Owners(ptr[dst[y]])' = {dst[y]} /\ Pending(ptr[dst[y]])' = {}
  BY <1>1
<1>3. QED
  BY <1>2

LEMMA QuietInvariants ==
  ASSUME IInv, Structure', NEW t \in Threads, Quiet(t), NEW x \in Objects,
         NEW y \in Threads
  PROVE  Invariants(x, y)'
<1> USE DEF IInv
<1>1. /\ count' = count /\ life' = life /\ used \subseteq used'
      /\ \A o \in Objects : Owners(o)' = Owners(o) /\ Pending(o)' = Pending(o)
  BY QuietReferences
<1>2. Counted(x)' /\ Kept(x)' /\ Positive(x)'
  BY <1>1, UnchangedInvariants
<1>3. ptr' = ptr
  BY DEF Quiet, MakeWeak, CopyWeak, MoveWeak, CopyConstruct, CopyAssign,
         MoveAssign, Destroy, Lock, Begin, LoadCount, ExchangeFails, TestLast,
         heap
<1>4. Alone(y)'
  <2>1. CASE at[y] = "test" /\ at'[y] = "delete"
    <3>1. y = t /\ TestLast(t)
      BY <2>1 DEF Quiet, MakeWeak, CopyWeak, MoveWeak, CopyConstruct,
           CopyAssign, MoveAssign, Destroy, Lock, Begin, LoadCount,
           ExchangeFails, TestLast, Step, Structure, Types
    <3>2. 1 \in Reads(ptr[dst[t]]) /\ dst' = dst /\ used' = used
      BY <2>1, <3>1 DEF TestLast, Step, heap, call, Structure, Types
    <3>3. CASE "weak" \notin used
      <4>1. Owners(ptr[dst[t]]) = {dst[t]} /\ Pending(ptr[dst[t]]) = {}
        BY <2>1, <3>1, <3>2, <3>3, LastReference
      <4>2. ptr[dst[t]] \in Objects
        BY <2>1, <3>1 DEF Structure, Places
      <4>3. QED
        BY <1>1, <1>3, <3>1, <3>2, <4>1, <4>2
           DEF Alone, Owners, Pending, Released, Target
    <3>4. QED
      BY <3>2, <3>3 DEF Alone
  <2>2. CASE ~(at[y] = "test" /\ at'[y] = "delete")
    <3>1. at'[y] = "delete" => at[y] = "delete" /\ dst'[y] = dst[y]
      BY <2>2 DEF Quiet, MakeWeak, CopyWeak, MoveWeak, CopyConstruct,
           CopyAssign, MoveAssign, Destroy, Lock, Begin, LoadCount,
           ExchangeFails, TestLast, Step, Structure, Types, call, heap
    <3>2. at[y] = "delete" => ptr[dst[y]] \in Objects
      BY DEF Structure, Places
    <3>3. QED
      BY <1>1, <1>3, <3>1, <3>2, StillAlone
  <2>3. QED
    BY <2>1, <2>2
<1>5. QED
  BY <1>2, <1>4 DEF Invariants

LEMMA MakeInvariants ==
  ASSUME IInv, Structure', NEW t \in Threads, NEW d \in Pointers,
         NEW o \in Objects, Make(t, d, o), NEW x \in Objects, NEW y \in Threads
  PROVE  Invariants(x, y)'
<1> USE DEF IInv
<1>1. \A z \in Objects :
        /\ Pending(z)' = Pending(z)
        /\ z = o => Owners(z) = {} /\ Pending(z) = {} /\ Owners(z)' = {d}
        /\ z # o => Owners(z)' = Owners(z)
  BY MakeReferences
<1>2. ASSUME x = o PROVE Counted(x)' /\ Kept(x)' /\ Positive(x)'
  <2>1. life'[o] = "live" /\ count'[o] = 1
    BY DEF Make, Structure, Types
  <2>2. References(o)' = 1
    <3>1. Owners(o)' = {d} /\ Pending(o)' = {}
      BY <1>1
    <3>2. Cardinality({d}) = 1 /\ Cardinality({}) = 0
      BY FS_Singleton, FS_EmptySet
    <3>3. QED
      BY <3>1, <3>2 DEF References
  <2>3. QED
    BY <1>2, <2>1, <2>2 DEF Counted, Kept, Positive
<1>3. ASSUME x # o PROVE Counted(x)' /\ Kept(x)' /\ Positive(x)'
  BY <1>1, <1>3, UnchangedInvariants DEF Make, Structure, Types
<1>4. Alone(y)'
  <2>1. used' = used /\ at' = at /\ dst' = dst
    BY DEF Make, call
  <2>2. at[y] = "delete" =>
          /\ ptr[dst[y]] \in Objects \ {o} /\ ptr'[dst[y]] = ptr[dst[y]]
    BY PoolAssumption
       DEF Make, Structure, Types, Places, MayWrite, Written, Untouched
  <2>3. QED
    BY <1>1, <2>1, <2>2, StillAlone
<1>5. QED
  BY <1>2, <1>3, <1>4 DEF Invariants

LEMMA MoveConstructInvariants ==
  ASSUME IInv, Structure', NEW t \in Threads, NEW d \in Pointers,
         NEW s \in Pointers, MoveConstruct(t, d, s), NEW x \in Objects,
         NEW y \in Threads
  PROVE  Invariants(x, y)'
<1> USE DEF IInv
<1>1. \A z \in Objects :
        /\ Pending(z)' = Pending(z) /\ d \notin Owners(z)
        /\ z = ptr[s] =>
             s \in Owners(z) /\ Owners(z)' = (Owners(z) \ {s}) \cup {d}
        /\ z # ptr[s] => Owners(z)' = Owners(z)
  BY MoveConstructReferences
<1>2. count' = count /\ life' = life /\ used' = used
  BY DEF MoveConstruct
<1>3. ASSUME x = ptr[s] PROVE Counted(x)' /\ Kept(x)' /\ Positive(x)'
  <2>1. Cardinality(Owners(x)') = Cardinality(Owners(x))
    BY <1>1, <1>3, FiniteReferences, SwapMember
  <2>2. References(x)' = References(x)
    BY <1>1, <2>1 DEF References
  <2>3. Owners(x) # {}
    BY <1>1, <1>3
  <2>4. QED
    BY <1>2, <2>2, <2>3 DEF Counted, Kept, Positive
<1>4. ASSUME x # ptr[s] PROVE Counted(x)' /\ Kept(x)' /\ Positive(x)'
  BY <1>1, <1>2, <1>4, UnchangedInvariants
<1>5. Alone(y)'
  <2>1. at' = at /\ dst' = dst
    BY DEF MoveConstruct, call
  <2>2. at[y] = "delete" =>
          /\ ptr[dst[y]] \in Objects /\ ptr'[dst[y]] = ptr[dst[y]]
          /\ s # dst[y]
    BY PoolAssumption
       DEF MoveConstruct, Structure, Types, Places, MayWrite, Written
  <2>3. QED
    BY <1>1, <1>2, <2>1, <2>2, StillAlone
<1>6. QED
  BY <1>3, <1>4, <1>5 DEF Invariants

LEMMA MoveAliasInvariants ==
  ASSUME IInv, Structure', NEW t \in Threads, NEW d \in Pointers,
         NEW s \in Pointers, MoveAlias(t, d, s), NEW x \in Objects,
         NEW y \in Threads
  PROVE  Invariants(x, y)'
<1> USE DEF IInv
<1>1. \A z \in Objects :
        /\ Pending(z)' = Pending(z)
        /\ z = ptr[s] => s \in Owners(z) /\ Owners(z)' = Owners(z) \ {s}
        /\ z # ptr[s] => Owners(z)' = Owners(z)
  BY MoveAliasReferences
<1>2. count' = count /\ life' = life /\ used' = used \cup {"alias"}
  BY DEF MoveAlias
<1>3. ASSUME x = ptr[s] PROVE Counted(x)' /\ Kept(x)' /\ Positive(x)'
  <2>1. Cardinality(Owners(x)') = Cardinality(Owners(x)) - 1
    BY <1>1, <1>3, FiniteReferences, FS_RemoveElement
  <2>2. References(x)' = References(x) - 1 /\ References(x) \in Nat
    BY <1>1, <2>1, FiniteReferences DEF References
  <2>3. Owners(x) # {} /\ count[x] \in Int
    BY <1>1, <1>3 DEF Structure, Types
  <2>4. QED
    BY <1>2, <2>2, <2>3 DEF Counted, Kept, Positive
<1>4. ASSUME x # ptr[s] PROVE Counted(x)' /\ Kept(x)' /\ Positive(x)'
  BY <1>1, <1>2, <1>4, UnchangedInvariants
<1>5. Alone(y)'
  <2>1. at' = at /\ dst' = dst
    BY DEF MoveAlias, call
  <2>2. at[y] = "delete" =>
          /\ ptr[dst[y]] \in Objects /\ ptr'[dst[y]] = ptr[dst[y]]
          /\ s # dst[y]
    BY PoolAssumption
       DEF MoveAlias, Structure, Types, Places, MayWrite, Written
  <2>3. QED
    BY <1>1, <1>2, <2>1, <2>2, StillAlone
<1>6. QED
  BY <1>3, <1>4, <1>5 DEF Invariants

LEMMA ExchangeInvariants ==
  ASSUME IInv, Structure', NEW t \in Threads, ExchangeSucceeds(t),
         NEW x \in Objects, NEW y \in Threads
  PROVE  Invariants(x, y)'
<1> USE DEF IInv
<1> DEFINE o == Target(t)
<1>1. /\ o \in Objects
      /\ \A z \in Objects :
           /\ Owners(z)' = Owners(z)
           /\ z = o => t \notin Pending(z) /\ Pending(z)' = Pending(z) \cup {t}
           /\ z # o => Pending(z)' = Pending(z)
  BY ExchangeReferences
<1>2. /\ life' = life /\ used' = used /\ ptr' = ptr /\ dst' = dst
      /\ count' = [count EXCEPT ![o] = old[t] + 1]
      /\ at[t] = "cas" /\ at'[t] \in {"test", "set"}
      /\ \A z \in Threads \ {t} : at'[z] = at[z]
  BY DEF ExchangeSucceeds, Step, call, Structure, Types
(* Copies are made from an owner, so the object they share is alive. *)
<1>3. "weak" \notin used => src[t] \in Owners(o) /\ life[o] = "live"
  <2>1. "weak" \notin used =>
          op[t] \in {"copy", "assign"} /\ src[t] \in Pointers /\ ptr[src[t]] = o
    BY <1>2 DEF Structure, Types, Places, Target
  <2>2. "weak" \notin used => ~Released(src[t])
    BY <1>2, <2>1 DEF Structure, Types, Places, Apart, Released
  <2>3. "weak" \notin used => src[t] \in Owners(o)
    BY <2>1, <2>2 DEF Owners
  <2>4. QED
    BY <1>1, <2>3 DEF Kept
<1>4. life[o] = "live" => old[t] = count[o]
  BY DEF ExchangeSucceeds, Reads
<1>5. ASSUME x = o PROVE Counted(x)' /\ Kept(x)' /\ Positive(x)'
  <2>1. Cardinality(Pending(x)') = Cardinality(Pending(x)) + 1
    BY <1>1, <1>5, FiniteReferences, FS_AddElement
  <2>2. References(x)' = References(x) + 1 /\ References(x) \in Nat
    BY <1>1, <2>1, FiniteReferences DEF References
  <2>3. count'[x] = old[t] + 1 /\ count[x] \in Int
    BY <1>1, <1>2, <1>5 DEF Structure, Types
  <2>4. Counted(x)'
    BY <1>2, <1>4, <1>5, <2>2, <2>3 DEF Counted
  <2>5. Kept(x)'
    BY <1>2, <1>3, <1>5 DEF Kept
  <2>6. Positive(x)'
    BY <1>2, <1>3, <1>4, <1>5, <2>3 DEF Positive
  <2>7. QED
    BY <2>4, <2>5, <2>6
<1>6. ASSUME x # o PROVE Counted(x)' /\ Kept(x)' /\ Positive(x)'
  <2>1. count'[x] = count[x]
    BY <1>2, <1>6 DEF Structure, Types
  <2>2. QED
    BY <1>1, <1>2, <1>6, <2>1, UnchangedInvariants
<1>7. Alone(y)'
  <2>1. at'[y] = "delete" => y # t /\ at[y] = "delete"
    BY <1>2
  <2>2. at[y] = "delete" => ptr[dst[y]] \in Objects /\ op[y] # "none"
    BY DEF Structure, Types, Places
  <2>3. y # t /\ at[y] = "delete" => src[t] # dst[y]
    BY <2>2 DEF Structure, Apart
  <2>4. "weak" \notin used /\ y # t /\ at[y] = "delete" =>
          (ptr[dst[y]] = o => Owners(o) # {dst[y]})
    BY <1>3, <2>3
  <2>5. QED
    BY <1>1, <1>2, <2>1, <2>2, <2>4, StillAlone DEF Alone
<1>8. QED
  BY <1>5, <1>6, <1>7 DEF Invariants

LEMMA DeleteInvariants ==
  ASSUME IInv, Structure', NEW t \in Threads, Delete(t), NEW x \in Objects,
         NEW y \in Threads
  PROVE  Invariants(x, y)'
<1> USE DEF IInv
<1> DEFINE o == ptr[dst[t]]
<1>1. /\ o \in Objects /\ dst[t] \in Pointers
      /\ \A z \in Objects :
           /\ Pending(z)' = Pending(z)
           /\ z = o => dst[t] \in Owners(z) /\ Owners(z)' = Owners(z) \ {dst[t]}
           /\ z # o => Owners(z)' = Owners(z)
  BY ReleaseReferences
<1>2. /\ life' = [life EXCEPT ![o] = "deleted"] /\ count' = count
      /\ used' = used /\ ptr' = ptr /\ dst' = dst
      /\ at[t] = "delete" /\ at'[t] = "set"
      /\ \A z \in Threads \ {t} : at'[z] = at[z]
  BY DEF Delete, Step, call, Structure, Types
<1>3. ASSUME x = o PROVE Counted(x)' /\ Kept(x)' /\ Positive(x)'
  <2>1. life'[x] = "deleted"
    BY <1>1, <1>2, <1>3 DEF Structure, Types
  <2>2. "weak" \notin used => Owners(x) = {dst[t]} /\ Pending(x) = {}
    BY <1>2, <1>3 DEF Alone
  <2>3. "weak" \notin used => Owners(x)' = {} /\ Pending(x)' = {}
    BY <1>1, <1>3, <2>2
  <2>4. QED
    BY <1>2, <2>1, <2>3 DEF Counted, Kept, Positive
<1>4. ASSUME x # o PROVE Counted(x)' /\ Kept(x)' /\ Positive(x)'
  <2>1. life'[x] = life[x]
    BY <1>2, <1>4 DEF Structure, Types
  <2>2. QED
    BY <1>1, <1>2, <1>4, <2>1, UnchangedInvariants
<1>5. Alone(y)'
  <2>1. at'[y] = "delete" => y # t /\ at[y] = "delete"
    BY <1>2
  <2>2. at[y] = "delete" => ptr[dst[y]] \in Objects /\ op[y] # "none"
    BY DEF Structure, Types, Places
  <2>3. y # t /\ at[y] = "delete" => dst[t] # dst[y]
    BY <2>2 DEF Structure, Apart
  <2>4. QED
    BY <1>1, <1>2, <2>1, <2>2, <2>3, StillAlone
<1>6. QED
  BY <1>3, <1>4, <1>5 DEF Invariants

LEMMA CountDownInvariants ==
  ASSUME IInv, Structure', NEW t \in Threads, CountDown(t), NEW x \in Objects,
         NEW y \in Threads
  PROVE  Invariants(x, y)'
<1> USE DEF IInv
<1> DEFINE o == ptr[dst[t]]
<1>1. /\ o \in Objects /\ dst[t] \in Pointers
      /\ \A z \in Objects :
           /\ Pending(z)' = Pending(z)
           /\ z = o => dst[t] \in Owners(z) /\ Owners(z)' = Owners(z) \ {dst[t]}
           /\ z # o => Owners(z)' = Owners(z)
  BY ReleaseReferences
<1>2. /\ life' = life /\ count' = [count EXCEPT ![o] = @ - 1]
      /\ used' = used /\ ptr' = ptr /\ dst' = dst
      /\ at[t] = "sub" /\ at'[t] = "set"
      /\ \A z \in Threads \ {t} : at'[z] = at[z]
  BY DEF CountDown, Step, call, Structure, Types
<1>3. ASSUME x = o PROVE Counted(x)' /\ Kept(x)' /\ Positive(x)'
  <2>1. Cardinality(Owners(x)') = Cardinality(Owners(x)) - 1
    BY <1>1, <1>3, FiniteReferences, FS_RemoveElement
  <2>2. /\ References(x)' = References(x) - 1 /\ References(x) \in Nat
        /\ References(x)' \in Nat
    <3>1. Owners(x)' = Owners(x) \ {dst[t]} /\ Pending(x)' = Pending(x)
      BY <1>1, <1>3
    <3>2. IsFiniteSet(Owners(x)') /\ Cardinality(Owners(x)') \in Nat
      <4>1. IsFiniteSet(Owners(x)) /\ Owners(x)' \subseteq Owners(x)
        BY <3>1, FiniteReferences
      <4>2. QED
        BY <4>1, FS_Subset, FS_CardinalityType
    <3>3. QED
      BY <2>1, <3>1, <3>2, FiniteReferences DEF References
  <2>3. count'[x] = count[x] - 1 /\ count[x] \in Int
    BY <1>1, <1>2, <1>3 DEF Structure, Types
  <2>4. Counted(x)'
    BY <1>2, <2>2, <2>3 DEF Counted
  <2>5. Kept(x)'
    BY <1>1, <1>2, <1>3 DEF Kept
  <2>6. Positive(x)'
    <3>1. used = {} => life[x] = "live"
      BY <1>1, <1>3 DEF Kept
    <3>2. used = {} => count[x] >= References(x) /\ References(x) >= 1
      BY <2>2, <3>1 DEF Counted
    <3>3. QED
      BY <1>2, <2>2, <2>3, <3>2 DEF Positive
  <2>7. QED
    BY <2>4, <2>5, <2>6
<1>4. ASSUME x # o PROVE Counted(x)' /\ Kept(x)' /\ Positive(x)'
  <2>1. count'[x] = count[x]
    BY <1>2, <1>4 DEF Structure, Types
  <2>2. QED
    BY <1>1, <1>2, <1>4, <2>1, UnchangedInvariants
<1>5. Alone(y)'
  <2>1. at'[y] = "delete" => y # t /\ at[y] = "delete"
    BY <1>2
  <2>2. at[y] = "delete" => ptr[dst[y]] \in Objects /\ op[y] # "none"
    BY DEF Structure, Types, Places
  <2>3. y # t /\ at[y] = "delete" => dst[t] # dst[y]
    BY <2>2 DEF Structure, Apart
  <2>4. QED
    BY <1>1, <1>2, <2>1, <2>2, <2>3, StillAlone
<1>6. QED
  BY <1>3, <1>4, <1>5 DEF Invariants

LEMMA SetPointersInvariants ==
  ASSUME IInv, Structure', NEW t \in Threads, SetPointers(t),
         NEW x \in Objects, NEW y \in Threads
  PROVE  Invariants(x, y)'
<1> USE DEF IInv
<1> DEFINE Gains(z) == t \in Pending(z)
           Moves(z) == op[t] = "moveAssign" /\ ptr[src[t]] = z
<1>1. /\ dst[t] \in Pointers
      /\ \A z \in Objects :
           /\ dst[t] \notin Owners(z)
           /\ Gains(z) => /\ Owners(z)' = Owners(z) \cup {dst[t]}
                          /\ Pending(z)' = Pending(z) \ {t}
           /\ ~Gains(z) /\ Moves(z) =>
                /\ src[t] \in Owners(z) /\ Pending(z)' = Pending(z)
                /\ Owners(z)' = (Owners(z) \ {src[t]}) \cup {dst[t]}
           /\ ~Gains(z) /\ ~Moves(z) =>
                Owners(z)' = Owners(z) /\ Pending(z)' = Pending(z)
  BY SetPointersReferences DEF Pending
<1>2. /\ life' = life /\ count' = count /\ used' = used
      /\ at[t] = "set" /\ at'[t] = "idle"
      /\ \A z \in Threads \ {t} : at'[z] = at[z] /\ dst'[z] = dst[z]
  BY DEF SetPointers, Step, Structure, Types
<1>3. Counted(x)' /\ Kept(x)' /\ Positive(x)'
  <2>1. References(x)' = References(x)
    <3>1. CASE Gains(x)
      <4>1. Cardinality(Owners(x)') = Cardinality(Owners(x)) + 1
        BY <1>1, <3>1, FiniteReferences, FS_AddElement
      <4>2. Cardinality(Pending(x)') = Cardinality(Pending(x)) - 1
        BY <1>1, <3>1, FiniteReferences, FS_RemoveElement
      <4>3. QED
        BY <4>1, <4>2, FiniteReferences DEF References
    <3>2. CASE ~Gains(x) /\ Moves(x)
      <4>1. Cardinality(Owners(x)') = Cardinality(Owners(x))
        BY <1>1, <3>2, FiniteReferences, SwapMember
      <4>2. QED
        BY <1>1, <3>2, <4>1 DEF References
    <3>3. CASE ~Gains(x) /\ ~Moves(x)
      BY <1>1, <3>3 DEF References
    <3>4. QED
      BY <3>1, <3>2, <3>3
  <2>2. Owners(x)' \cup Pending(x)' # {} => Owners(x) \cup Pending(x) # {}
    BY <1>1
  <2>3. QED
    BY <1>2, <2>1, <2>2 DEF Counted, Kept, Positive
<1>4. Alone(y)'
  <2>1. at'[y] = "delete" => y # t /\ at[y] = "delete"
    BY <1>2
  <2>2. at[y] = "delete" => ptr[dst[y]] \in Objects /\ op[y] # "none"
    BY DEF Structure, Types, Places
  <2>3. y # t /\ at[y] = "delete" => dst[t] # dst[y] /\ src[t] # dst[y]
    BY <2>2 DEF Structure, Apart
  <2>4. y # t /\ at[y] = "delete" => ptr'[dst[y]] = ptr[dst[y]]
    BY <2>2, <2>3, PoolAssumption DEF SetPointers, Structure, Types, Places
  <2>5. QED
    BY <1>1, <1>2, <2>1, <2>2, <2>3, <2>4, StillAlone
<1>5. QED
  BY <1>3, <1>4 DEF Invariants

LEMMA StutterInvariants ==
  ASSUME IInv, UNCHANGED vars
  PROVE  IInv'
<1> USE DEF IInv, vars, heap, call
<1>1. Structure'
  BY DEF Structure, Types, Places, Apart, Untouched
<1>2. \A o \in Objects : Owners(o)' = Owners(o) /\ Pending(o)' = Pending(o)
  BY DEF Owners, Pending, Released, Target
<1>3. ASSUME NEW x \in Objects PROVE Counted(x)' /\ Kept(x)' /\ Positive(x)'
  BY <1>2, UnchangedInvariants
<1>4. ASSUME NEW y \in Threads PROVE Alone(y)'
  <2>1. at[y] = "delete" => ptr[dst[y]] \in Objects
    BY DEF Structure, Places
  <2>2. QED
    BY <1>1, <1>2, <2>1, StillAlone
<1>5. QED
  BY <1>1, <1>3, <1>4

LEMMA Gather ==
  ASSUME Structure', NEW t \in Threads,
         \A x \in Objects, y \in Threads : Invariants(x, y)'
  PROVE  IInv'
<1>1. \A x \in Objects : Counted(x)' /\ Kept(x)' /\ Positive(x)'
  BY DEF Invariants
<1>2. ASSUME NEW y \in Threads PROVE Alone(y)'
  <2>1. at'[y] = "delete" => ptr'[dst'[y]] \in Objects
    BY DEF Structure, Places
  <2>2. Objects # {} => Alone(y)'
    BY DEF Invariants
  <2>3. QED
    BY <2>1, <2>2 DEF Alone
<1>3. QED
  BY <1>1, <1>2 DEF IInv

LEMMA InductiveStep ==
  ASSUME IInv, [Next]_vars
  PROVE  IInv'
<1>1. ASSUME NEW t \in Threads, Quiet(t), Structure' PROVE IInv'
  BY <1>1, QuietInvariants, Gather DEF IInv
<1>2. CASE UNCHANGED vars
  BY <1>2, StutterInvariants
<1>3. ASSUME NEW t \in Threads, NEW d \in Pointers, NEW o \in Objects,
             Make(t, d, o)
      PROVE  IInv'
  BY <1>3, StructureMake, MakeInvariants, Gather DEF IInv
<1>4. ASSUME NEW t \in Threads, NEW d \in Pointers, NEW s \in Pointers,
             MoveConstruct(t, d, s)
      PROVE  IInv'
  BY <1>4, StructureMoveConstruct, MoveConstructInvariants, Gather DEF IInv
<1>5. ASSUME NEW t \in Threads, NEW d \in Pointers, NEW s \in Pointers,
             MoveAlias(t, d, s)
      PROVE  IInv'
  BY <1>5, StructureMoveAlias, MoveAliasInvariants, Gather DEF IInv
<1>6. ASSUME NEW t \in Threads, NEW d \in Pointers, NEW s \in Pointers,
             CopyConstruct(t, d, s) \/ CopyAssign(t, d, s)
               \/ MoveAssign(t, d, s)
      PROVE  IInv'
  BY <1>1, <1>6, StructureCopyConstruct, StructureCopyAssign,
     StructureMoveAssign DEF IInv, Quiet
<1>7. ASSUME NEW t \in Threads, NEW d \in Pointers,
             Destroy(t, d) \/ Lock(t, d)
      PROVE  IInv'
  BY <1>1, <1>7, StructureDestroy, StructureLock DEF IInv, Quiet
<1>8. ASSUME NEW t \in Threads, NEW s \in Pointers, MakeWeak(t, s)
      PROVE  IInv'
  BY <1>1, <1>8, StructureMakeWeak DEF IInv, Quiet
<1>9. ASSUME NEW t \in Threads, NEW u \in Threads,
             CopyWeak(t, u) \/ MoveWeak(t, u)
      PROVE  IInv'
  BY <1>1, <1>9, StructureCopyWeak, StructureMoveWeak DEF IInv, Quiet
<1>10. ASSUME NEW t \in Threads, LoadCount(t) \/ ExchangeFails(t) \/ TestLast(t)
       PROVE  IInv'
  BY <1>1, <1>10, StructureLoadCount, StructureExchangeFails,
     StructureTestLast DEF IInv, Quiet
<1>11. ASSUME NEW t \in Threads, ExchangeSucceeds(t) PROVE IInv'
  BY <1>11, StructureExchangeSucceeds, ExchangeInvariants, Gather DEF IInv
<1>12. ASSUME NEW t \in Threads, Delete(t) PROVE IInv'
  BY <1>12, StructureDelete, DeleteInvariants, Gather DEF IInv
<1>13. ASSUME NEW t \in Threads, CountDown(t) PROVE IInv'
  BY <1>13, StructureCountDown, CountDownInvariants, Gather DEF IInv
<1>14. ASSUME NEW t \in Threads, SetPointers(t) PROVE IInv'
  BY <1>14, StructureSetPointers, SetPointersInvariants, Gather DEF IInv
<1>15. ASSUME NEW t \in Threads, StartFunction(t) PROVE IInv'
  BY <1>15, <1>3, <1>4, <1>5, <1>6, <1>7 DEF StartFunction, Own
<1>16. ASSUME NEW t \in Threads, Continue(t) PROVE IInv'
  BY <1>16, <1>10, <1>11, <1>12, <1>13, <1>14 DEF Continue
<1>17. QED
  BY <1>2, <1>8, <1>9, <1>15, <1>16 DEF Next

LEMMA InitialInvariants == Init => IInv
<1> SUFFICES ASSUME Init PROVE IInv
  OBVIOUS
<1> USE PoolAssumption DEF Init
<1>1. Structure
  BY DEF Structure, Types, Places, Apart, Untouched
<1>2. ASSUME NEW o \in Objects PROVE Counted(o) /\ Kept(o) /\ Positive(o)
  BY DEF Counted, Kept, Positive, Owners, Pending
<1>3. ASSUME NEW t \in Threads PROVE Alone(t)
  BY DEF Alone
<1>4. QED
  BY <1>1, <1>2, <1>3 DEF IInv

(* The inductive invariant: places, distances, counts and owners together. *)
THEOREM InvariantAlways == Spec => []IInv
<1>1. IInv /\ [Next]_vars => IInv'
  BY InductiveStep
<1>2. QED
  BY InitialInvariants, <1>1, PTL DEF Spec

-----------------------------------------------------------------------------
(* Pointers and counters keep their types, and RefCount never wraps below  *)
(* zero while callers use neither aliasing moves nor WeakPtr.              *)
THEOREM TypesAlways == Spec => []TypeOK
<1>1. IInv => TypeOK
  BY DEF IInv, Structure, Types, Positive, TypeOK
<1>2. QED
  BY InvariantAlways, <1>1, PTL

(* No owner is left with a deleted object by the load and the delete of    *)
(* m_delete, which are two steps.                                          *)
THEOREM NoDanglingAlways == Spec => []NoDangling
<1>1. IInv => NoDangling
  BY DEF IInv, Kept, NoDangling
<1>2. QED
  BY InvariantAlways, <1>1, PTL

(* The compare-exchange loops and the decrements keep RefCount exact.      *)
THEOREM CountExactAlways == Spec => []CountExact
<1>1. IInv => CountExact
  BY DEF IInv, Counted, References, CountExact
<1>2. QED
  BY InvariantAlways, <1>1, PTL

(* RefCount is never too low, moves between owners of one object included. *)
THEOREM NeverUndercountedAlways == Spec => []NeverUndercounted
<1>1. IInv => NeverUndercounted
  BY DEF IInv, Counted, References, NeverUndercounted
<1>2. QED
  BY InvariantAlways, <1>1, PTL
=============================================================================
