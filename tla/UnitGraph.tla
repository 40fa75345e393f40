------------------------------ MODULE UnitGraph ------------------------------
(***************************************************************************)
(* The computation graph a Model builds: units numbered in the order the   *)
(* front end creates them (Model::m_id), the keys of each unit's           *)
(* ForwardInputMap and BackwardOutputMap, and the consumers recorded in    *)
(* UnitMetaData::OutputUnitVector.  Only pure operators over a graph g.    *)
(***************************************************************************)
EXTENDS Integers, FiniteSets

CONSTANT N            \* the number of units appended to the model

ASSUME NAssumption == N \in Nat \ {0}

Unit == 0 .. N - 1

Kinds == {"Fetcher", "Constant", "Hidden", "Loss"}

(***************************************************************************)
(* The fields of a graph.  kind[u] is the UnitBaseType; input[u] the keys  *)
(* of ForwardInputMap; grad[u] the keys of BackwardOutputMap.  A unit only *)
(* names units created before it, and callers do not consume a loss (which *)
(* the front end does not check).                                          *)
(***************************************************************************)
IsUnitGraph(g) ==
  /\ g.kind \in [Unit -> Kinds]
  /\ g.input \in [Unit -> SUBSET Unit]
  /\ g.grad \in [Unit -> SUBSET Unit]
  /\ \A u \in Unit :
       /\ \A v \in g.input[u] : v < u /\ g.kind[v] # "Loss"
       /\ g.kind[u] \in {"Fetcher", "Constant"} <=> g.input[u] = {}
       /\ g.kind[u] = "Hidden" =>
            (\E v \in Unit : g.input[u] = {v}) /\ g.grad[u] = g.input[u]
       /\ g.kind[u] = "Loss" =>
            \E p, l \in Unit : g.input[u] = {p, l} /\ g.grad[u] = {p}
       /\ g.kind[u] \in {"Fetcher", "Constant"} => g.grad[u] = {}

Fetchers(g) == {u \in Unit : g.kind[u] = "Fetcher"}

(* The units whose input maps hold a tensor keyed by u. *)
Consumers(g, u) == {v \in Unit : u \in g.input[v]}

(* Keys of BackwardInputMap: only hidden units allocate one gradient       *)
(* tensor per consumer; sources and losses have none.                      *)
GradientsOf(g, u) ==
  IF g.kind[u] = "Hidden" THEN Consumers(g, u) ELSE {}

(* Units that own a gradient tensor u's backward output is copied into.    *)
GradTargets(g, u) == {w \in g.grad[u] : g.kind[w] = "Hidden"}

NoStateBump(g, u) == 0     \* mutant: the copy forgets State += 1

(* A loss given one unit as prediction and label: it stands twice in that  *)
(* unit's OutputUnitVector, but its maps have a single entry.              *)
TwiceConsumed(g, u) == g.kind[u] = "Loss" /\ g.input[u] = g.grad[u]

CopiesInto(g, u) == IF TwiceConsumed(g, u) THEN 2 ELSE 1

(* Units that nothing consumes although they are no loss. *)
Dangling(g) ==
  {u \in Unit : g.kind[u] # "Loss" /\ Consumers(g, u) = {}}

(***************************************************************************)
(* The graphs the engine can run to completion: every non-loss unit is     *)
(* consumed, and no loss has one unit as prediction and label.             *)
(***************************************************************************)
IsRunnable(g) ==
  /\ Dangling(g) = {}
  /\ \A u \in Unit : ~TwiceConsumed(g, u)

(***************************************************************************)
(* TrainedMap(g)[u]: does back propagation reach u?  A loss always does; a *)
(* hidden unit does when every consumer both is reached and sends its      *)
(* gradient to u.  Evaluated from the last unit created to the first.      *)
(***************************************************************************)
TrainedMap(g) ==
  LET reached[k \in 0 .. N] ==
        IF k = 0 THEN {}
        ELSE LET u == N - k
             IN  reached[k - 1] \cup
                   (IF \/ g.kind[u] = "Loss"
                       \/ /\ g.kind[u] = "Hidden"
                          /\ Consumers(g, u) # {}
                          /\ \A v \in Consumers(g, u) :
                               v \in reached[k - 1] /\ u \in g.grad[v]
                    THEN {u} ELSE {})
  IN  [u \in Unit |-> u \in reached[N]]
=============================================================================
