--------------------------- MODULE MCUnitManager ---------------------------
(***************************************************************************)
(* Instances of UnitManager for TLC: the graphs of N units, over every     *)
(* iteration order of the unit map.                                        *)
(***************************************************************************)
EXTENDS UnitManager

CONSTANTS
  MCShape,     \* which set of graphs a run explores
  MCFills      \* which loaders its calls give data to

(* A unit as the front end appends it: kind, inputs, gradient keys.  To    *)
(* bound the number of graphs, only the second unit may be a constant.     *)
Declarations(u) ==
  LET row(k, i, g) == [kind |-> k, input |-> i, grad |-> g]
  IN  {row("Fetcher", {}, {})}
        \cup (IF u = 1 THEN {row("Constant", {}, {})} ELSE {})
        \cup {row("Hidden", {v}, {v}) : v \in 0 .. u - 1}
        \cup {row("Loss", {p, l}, {p}) : p, l \in 0 .. u - 1}

ToGraph(rows) ==
  [kind |-> [u \in Unit |-> rows[u].kind],
   input |-> [u \in Unit |-> rows[u].input],
   grad |-> [u \in Unit |-> rows[u].grad]]

(* Every sequence of N front-end calls; no loss is consumed and there is   *)
(* at least one.                                                           *)
AllGraphs(n) ==
  LET rows == {r \in [0 .. n - 1 -> UNION {Declarations(u) : u \in Unit}] :
                 /\ \A u \in Unit : r[u] \in Declarations(u)
                 /\ \E u \in Unit : r[u].kind = "Loss"
                 /\ \A u \in Unit : \A v \in r[u].input : r[v].kind # "Loss"}
  IN  {ToGraph(r) : r \in rows}

MCGraphs ==
  CASE MCShape = "all"      -> AllGraphs(N)
    [] MCShape = "runnable" -> {g \in AllGraphs(N) : IsRunnable(g)}
    [] MCShape = "dangling" -> {g \in AllGraphs(N) : Dangling(g) # {}}

(* A call gives data to every loader; or to that of the first unit alone   *)
(* ("one"), or, as Train(), Predict() and Fit do, to none ("none").        *)
MCFillSets ==
  CASE MCFills = "every" -> {Unit}
    [] MCFills = "one"   -> {Unit, {0}}
    [] MCFills = "none"  -> {Unit, {}}
=============================================================================
