------------------------------ MODULE SharedPtr ------------------------------
(***************************************************************************)
(* The hand-written reference counting of SharedPtr and WeakPtr.  Threads  *)
(* own SharedPtr variables and may copy from each other's; a step is one   *)
(* access to the shared RefCount, so the compare-exchange loops and the    *)
(* separate load and decrement of m_delete interleave as they do in the    *)
(* code.  A SharedPtr variable itself is no atomic: as for any C++ object, *)
(* the callers never write one while another thread uses it.               *)
(***************************************************************************)
EXTENDS Integers, FiniteSets

CONSTANTS
  Threads,
  Objects,        \* the objects that may be made
  Pointers,       \* the SharedPtr variables, each of one thread
  Null,           \* the null pointer
  Features,       \* which of "alias" (moves between owners of one object)
                  \* and "weak" (WeakPtr and its Lock) the callers use
  MaxCount,       \* bound: RefCount up to which callers copy
  MaxGarbage      \* bound: what a deleted RefCount may read as

ASSUME PoolAssumption ==
  /\ IsFiniteSet(Threads) /\ IsFiniteSet(Objects)
  /\ IsFiniteSet(Pointers) /\ Pointers \subseteq Threads \X Nat
  /\ Null \notin Objects \cup Pointers
  /\ Features \subseteq {"alias", "weak"}
  /\ MaxCount \in Nat /\ MaxGarbage \in Nat

VARIABLES
  ptr,       \* the object each SharedPtr points to
  weak,      \* the object each thread's WeakPtr points to
  life,      \* of the object and its SharedObjectInfo: they die together
  count,     \* RefCount
  op,        \* the member function each thread executes
  at,        \* how far it is
  dst, src,  \* this and the parameter
  old,       \* oldRefCount
  used       \* history: "alias" once such a move, "weak" once Lock was called

heap == <<ptr, weak, life, count, used>>
call == <<op, dst, src>>
vars == <<heap, call, at, old>>

(* Pointers, places and counters keep their types, and RefCount is never   *)
(* negative as long as callers use neither aliasing moves nor WeakPtr.     *)
TypeOK ==
  /\ ptr \in [Pointers -> Objects \cup {Null}]
  /\ weak \in [Threads -> Objects \cup {Null}]
  /\ life \in [Objects -> {"unborn", "live", "deleted"}]
  /\ count \in [Objects -> Int]
  /\ used \subseteq Features /\ (used = {} => \A o \in Objects : count[o] >= 0)
  /\ op \in [Threads -> {"none", "copy", "assign", "moveAssign", "destroy",
                         "lock"}]
  /\ at \in [Threads -> {"idle", "load", "cas", "test", "delete", "sub",
                         "set"}]
  /\ dst \in [Threads -> Pointers \cup {Null}]
  /\ src \in [Threads -> Pointers \cup {Null}]
  /\ old \in [Threads -> Int]

Init ==
  /\ ptr = [p \in Pointers |-> Null] /\ weak = [t \in Threads |-> Null]
  /\ life = [o \in Objects |-> "unborn"] /\ count = [o \in Objects |-> 0]
  /\ op = [t \in Threads |-> "none"] /\ at = [t \in Threads |-> "idle"]
  /\ dst = [t \in Threads |-> Null] /\ src = [t \in Threads |-> Null]
  /\ old = [t \in Threads |-> 0] /\ used = {}

-----------------------------------------------------------------------------
(* What the callers may do.                                                *)

Own(t) == {p \in Pointers : p[1] = t}

(* Variables a running member function writes, and those it reads. *)
Written(t) ==
  {dst[t]} \cup (IF op[t] = "moveAssign" THEN {src[t]} ELSE {})
MayRead(p) == \A t \in Threads : p \notin Written(t)
MayWrite(p) == \A t \in Threads : p \notin Written(t) \cup {src[t]}

Begin(t, f, d, s, first) ==
  /\ op' = [op EXCEPT ![t] = f] /\ at' = [at EXCEPT ![t] = first]
  /\ dst' = [dst EXCEPT ![t] = d] /\ src' = [src EXCEPT ![t] = s]
  /\ used' = used \cup (IF f = "lock" THEN {"weak"} ELSE {})
  /\ UNCHANGED <<ptr, weak, life, count, old>>

Step(t, from, to) == at[t] = from /\ at' = [at EXCEPT ![t] = to]

-----------------------------------------------------------------------------
(* Member functions that run without touching a RefCount anyone shares.    *)

Make(t, d, o) ==
  /\ at[t] = "idle" /\ MayWrite(d)
  /\ ptr[d] = Null /\ life[o] = "unborn"
  /\ ptr' = [ptr EXCEPT ![d] = o]
  /\ life' = [life EXCEPT ![o] = "live"] /\ count' = [count EXCEPT ![o] = 1]
  /\ UNCHANGED <<weak, used, call, at, old>>

(* The move constructor. *)
MoveConstruct(t, d, s) ==
  /\ at[t] = "idle" /\ MayWrite(d) /\ MayWrite(s)
  /\ ptr[d] = Null /\ ptr[s] # Null
  /\ ptr' = [ptr EXCEPT ![d] = ptr[s], ![s] = Null]
  /\ UNCHANGED <<weak, life, count, used, call, at, old>>

(* Move assignment between variables that compare equal, the same variable *)
(* included: m_delete is skipped, the source is cleared all the same.      *)
MoveAlias(t, d, s) ==
  /\ "alias" \in Features /\ at[t] = "idle" /\ MayWrite(d) /\ MayWrite(s)
  /\ ptr[s] # Null /\ ptr[d] = ptr[s]
  /\ ptr' = [ptr EXCEPT ![s] = Null]
  /\ used' = used \cup {"alias"}
  /\ UNCHANGED <<weak, life, count, call, at, old>>

(* WeakPtr(const SharedPtr&): copies the two pointers and counts nothing.  *)
MakeWeak(t, s) ==
  /\ "weak" \in Features /\ at[t] = "idle" /\ MayRead(s)
  /\ weak' = [weak EXCEPT ![t] = ptr[s]]
  /\ UNCHANGED <<ptr, life, count, used, call, at, old>>

(* Copying and moving a WeakPtr pass the two pointers on, counted nowhere, *)
(* whether the object is still there or not.                               *)
CopyWeak(t, u) ==
  /\ "weak" \in Features /\ at[t] = "idle" /\ t # u
  /\ weak' = [weak EXCEPT ![t] = weak[u]]
  /\ UNCHANGED <<ptr, life, count, used, call, at, old>>

MoveWeak(t, u) ==
  /\ "weak" \in Features /\ at[t] = "idle" /\ t # u /\ op[u] # "lock"
  /\ weak[t] = Null
  /\ weak' = [weak EXCEPT ![t] = weak[u], ![u] = Null]
  /\ UNCHANGED <<ptr, life, count, used, call, at, old>>

-----------------------------------------------------------------------------
(* Member functions of several steps.  Assigning from an empty SharedPtr   *)
(* dereferences null in the code: callers do not.                          *)

CopyConstruct(t, d, s) ==
  /\ at[t] = "idle" /\ MayWrite(d) /\ MayRead(s) /\ d # s
  /\ ptr[d] = Null /\ ptr[s] # Null /\ count[ptr[s]] < MaxCount
  /\ Begin(t, "copy", d, s, "load")

CopyAssign(t, d, s) ==
  /\ at[t] = "idle" /\ MayWrite(d) /\ MayRead(s) /\ d # s
  /\ ptr[s] # Null /\ count[ptr[s]] < MaxCount
  /\ Begin(t, "assign", d, s, "load")

MoveAssign(t, d, s) ==
  /\ at[t] = "idle" /\ MayWrite(d) /\ MayWrite(s)
  /\ ptr[d] # ptr[s]
  /\ Begin(t, "moveAssign", d, s, IF ptr[d] = Null THEN "set" ELSE "test")

Destroy(t, d) ==
  /\ at[t] = "idle" /\ MayWrite(d) /\ ptr[d] # Null
  /\ Begin(t, "destroy", d, Null, "test")

(* WeakPtr::Lock, whose result initialises d. *)
Lock(t, d) ==
  /\ "weak" \in Features /\ at[t] = "idle" /\ MayWrite(d)
  /\ ptr[d] = Null /\ weak[t] # Null
  /\ count[weak[t]] < MaxCount
  /\ Begin(t, "lock", d, Null, "load")

-----------------------------------------------------------------------------
(* Counting up: the load and the compare-exchange loop.                    *)

Target(t) == IF op[t] = "lock" THEN weak[t] ELSE ptr[src[t]]

(* What RefCount reads as; the memory of a deleted one may hold anything.  *)
Reads(o) == IF life[o] = "deleted" THEN 0 .. MaxGarbage ELSE {count[o]}

LoadCount(t) ==
  /\ Step(t, "load", "cas")
  /\ \E c \in Reads(Target(t)) : old' = [old EXCEPT ![t] = c]
  /\ UNCHANGED <<heap, call>>

(* Mutant: a plain store instead of the compare-exchange. *)
StoreWithoutCompare(t) ==
  /\ Step(t, "cas", IF op[t] = "assign" /\ ptr[dst[t]] # Null
                    THEN "test" ELSE "set")
  /\ count' = [count EXCEPT ![Target(t)] = old[t] + 1]
  /\ UNCHANGED <<ptr, weak, life, used, call, old>>

(* m_delete is due next if assignment replaces a non-null pointer. *)
ExchangeSucceeds(t) ==
  /\ at[t] = "cas" /\ old[t] \in Reads(Target(t))
  /\ Step(t, "cas", IF op[t] = "assign" /\ ptr[dst[t]] # Null
                    THEN "test" ELSE "set")
  /\ count' = [count EXCEPT ![Target(t)] = old[t] + 1]
  /\ UNCHANGED <<ptr, weak, life, used, call, old>>

ExchangeFails(t) ==
  /\ at[t] = "cas"
  /\ \E c \in Reads(Target(t)) \ {old[t]} : old' = [old EXCEPT ![t] = c]
  /\ UNCHANGED <<heap, call, at>>

-----------------------------------------------------------------------------
(* m_delete: look at RefCount, then delete or count down.                  *)

(* Mutant: two owners count as the last one. *)
TestLastTwo(t) ==
  /\ at[t] = "test"
  /\ \E c \in Reads(ptr[dst[t]]) :
       Step(t, "test", IF c \in {1, 2} THEN "delete" ELSE "sub")
  /\ UNCHANGED <<heap, call, old>>

TestLast(t) ==
  /\ at[t] = "test"
  /\ \E c \in Reads(ptr[dst[t]]) :
       Step(t, "test", IF c = 1 THEN "delete" ELSE "sub")
  /\ UNCHANGED <<heap, call, old>>

Delete(t) ==
  /\ Step(t, "delete", "set")
  /\ life' = [life EXCEPT ![ptr[dst[t]]] = "deleted"]
  /\ UNCHANGED <<ptr, weak, count, used, call, old>>

(* Mutant: one owner too many is counted out. *)
CountDownTwice(t) ==
  /\ Step(t, "sub", "set")
  /\ count' = [count EXCEPT ![ptr[dst[t]]] = @ - 2]
  /\ UNCHANGED <<ptr, weak, life, used, call, old>>

CountDown(t) ==
  /\ Step(t, "sub", "set")
  /\ count' = [count EXCEPT ![ptr[dst[t]]] = @ - 1]
  /\ UNCHANGED <<ptr, weak, life, used, call, old>>

(* The pointer members are written last, and the function returns. *)
SetPointers(t) ==
  /\ Step(t, "set", "idle")
  /\ ptr' = [p \in Pointers |->
       CASE p = dst[t] -> IF op[t] = "destroy" THEN Null ELSE Target(t)
         [] op[t] = "moveAssign" /\ p = src[t] -> Null
         [] OTHER -> ptr[p]]
  /\ op' = [op EXCEPT ![t] = "none"]
  /\ dst' = [dst EXCEPT ![t] = Null] /\ src' = [src EXCEPT ![t] = Null]
  /\ old' = [old EXCEPT ![t] = 0]
  /\ UNCHANGED <<weak, life, count, used>>

-----------------------------------------------------------------------------
StartFunction(t) ==
  \E d \in Own(t) :
    \/ \E o \in Objects : Make(t, d, o)
    \/ \E s \in Own(t) :
         \/ MoveConstruct(t, d, s) \/ MoveAlias(t, d, s)
         \/ MoveAssign(t, d, s)
    \/ \E s \in Pointers : CopyConstruct(t, d, s) \/ CopyAssign(t, d, s)
    \/ Destroy(t, d) \/ Lock(t, d)

Continue(t) ==
  \/ LoadCount(t) \/ ExchangeSucceeds(t) \/ ExchangeFails(t)
  \/ TestLast(t) \/ Delete(t) \/ CountDown(t) \/ SetPointers(t)

Next ==
  \E t \in Threads :
    \/ StartFunction(t) \/ Continue(t)
    \/ \E s \in Pointers : MakeWeak(t, s)
    \/ \E u \in Threads : CopyWeak(t, u) \/ MoveWeak(t, u)

Spec == Init /\ [][Next]_vars

-----------------------------------------------------------------------------
(* Properties.                                                             *)

(* m_delete is through with p's old object, p is about to be rewritten. *)
Released(p) ==
  \E t \in Threads : /\ dst[t] = p /\ at[t] = "set"
                     /\ op[t] \in {"assign", "moveAssign", "destroy"}

Owners(o) == {p \in Pointers : ptr[p] = o /\ ~Released(p)}

(* References counted for a pointer that is not written yet. *)
Pending(o) ==
  {t \in Threads : /\ op[t] \in {"copy", "assign", "lock"}
                   /\ at[t] \in {"test", "delete", "sub", "set"}
                   /\ Target(t) = o}

(* No SharedPtr is left pointing to a deleted object: between the load of  *)
(* RefCount in m_delete and the delete itself nobody gains a reference,    *)
(* as long as no WeakPtr was locked.                                       *)
NoDangling == "weak" \notin used =>
  \A o \in Objects : Owners(o) \cup Pending(o) # {} => life[o] = "live"

(* The test suite counts on RefCount being the number of SharedPtrs, after *)
(* any number of concurrent copies and destructions.  Here a live object's *)
(* RefCount is exact at every step, until callers move between owners of   *)
(* one object: such a move clears the source without counting it out.      *)
CountExact == "alias" \notin used =>
  \A o \in Objects : life[o] = "live" =>
    count[o] = Cardinality(Owners(o)) + Cardinality(Pending(o))

(* Even with moves between owners of one object RefCount is never too low, *)
(* so such moves can leak an object but never free one in use.             *)
NeverUndercounted ==
  \A o \in Objects : life[o] = "live" =>
    count[o] >= Cardinality(Owners(o)) + Cardinality(Pending(o))

(* m_delete's comment: the object is deleted if this is the last SharedPtr *)
(* owning it, so an object nobody owns any more is gone.                   *)
LastOwnerDeletes ==
  \A o \in Objects : life[o] = "live" => Owners(o) \cup Pending(o) # {}

(* WeakPtr::Lock's comment: an expired ownership gives an empty SharedPtr, *)
(* so what Lock is about to return is alive.                               *)
LockedIsAlive ==
  \A t \in Threads :
    op[t] = "lock" /\ at[t] = "set" => life[weak[t]] = "live"
=============================================================================
