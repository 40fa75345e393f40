------------------------------ MODULE Dataflow ------------------------------
(***************************************************************************)
(* What the engine promises, with no counters, sweeps or orders: in one    *)
(* call every unit fires at most once, after the units it depends on; a    *)
(* pass ends when all that can fire has fired; what fired stays fired      *)
(* until a call that resets.                                               *)
(***************************************************************************)
EXTENDS UnitGraph

CONSTANT Graphs

VARIABLES
  graph,    \* the compiled graph, fixed
  mode,     \* "idle", "forward", "backward"
  fwd,      \* the units whose Forward ran since the last reset
  bwd       \* the units whose Backward ran since the last reset

vars == <<graph, mode, fwd, bwd>>

Init ==
  /\ graph \in Graphs
  /\ mode = "idle" /\ fwd = {} /\ bwd = {}

Call ==
  /\ mode = "idle" /\ mode' = "forward"
  /\ UNCHANGED <<graph, fwd, bwd>>

FireForward(u) ==
  /\ mode = "forward"
  /\ u \notin fwd /\ graph.input[u] \subseteq fwd
  /\ fwd' = fwd \cup {u}
  /\ UNCHANGED <<graph, mode, bwd>>

(* A loader failed: the call ends where it is. *)
Abort ==
  /\ mode = "forward" /\ mode' = "idle"
  /\ UNCHANGED <<graph, fwd, bwd>>

ForwardDone ==
  /\ mode = "forward" /\ fwd = Unit
  /\ \/ mode' = "backward" /\ UNCHANGED <<fwd, bwd>>
     \/ mode' = "idle" /\ fwd' = {} /\ bwd' = {}
     \/ mode' = "idle" /\ UNCHANGED <<fwd, bwd>>
  /\ UNCHANGED graph

(* u has its gradient from every consumer. *)
CanFireBackward(u) ==
  /\ u \notin bwd /\ graph.grad[u] # {}
  /\ \A v \in GradientsOf(graph, u) : v \in bwd /\ u \in graph.grad[v]

FireBackward(u) ==
  /\ mode = "backward" /\ CanFireBackward(u)
  /\ bwd' = bwd \cup {u}
  /\ UNCHANGED <<graph, mode, fwd>>

BackwardDone ==
  /\ mode = "backward" /\ \A u \in Unit : ~CanFireBackward(u)
  /\ mode' = "idle" /\ fwd' = {} /\ bwd' = {}
  /\ UNCHANGED graph

Next ==
  \/ Call \/ Abort \/ ForwardDone \/ BackwardDone
  \/ \E u \in Unit : FireForward(u) \/ FireBackward(u)

Spec == Init /\ [][Next]_vars
=============================================================================
