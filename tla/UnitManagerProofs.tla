-------------------------- MODULE UnitManagerProofs --------------------------
(***************************************************************************)
(* Proofs about the execution engine, for every set of unit graphs, every  *)
(* iteration order and any number of calls: everything keeps its type, the *)
(* sweeps stop only at a fixpoint, and a fixpoint of the forward sweep has *)
(* run everything.                                                         *)
(***************************************************************************)
EXTENDS UnitManager, WellFoundedInduction, TLAPS

(* What IsUnitGraph says of the compiled graph, unit by unit.              *)
LEMMA GraphFacts ==
  ASSUME IsUnitGraph(graph), NEW u \in Unit
  PROVE  /\ graph.input[u] \subseteq Unit /\ graph.grad[u] \subseteq Unit
         /\ graph.kind[u] \in Kinds
         /\ \A v \in graph.input[u] : v < u /\ graph.kind[v] # "Loss"
         /\ graph.kind[u] \in {"Fetcher", "Constant"} <=> graph.input[u] = {}
         /\ graph.grad[u] \subseteq graph.input[u]
         /\ \A v, w \in graph.grad[u] : v = w
<1>1. IsUnitGraph(graph)
  OBVIOUS
<1>2. /\ graph.input[u] \subseteq Unit /\ graph.grad[u] \subseteq Unit
      /\ graph.kind[u] \in Kinds
  BY <1>1 DEF IsUnitGraph
<1>3. /\ \A v \in graph.input[u] : v < u /\ graph.kind[v] # "Loss"
      /\ graph.kind[u] \in {"Fetcher", "Constant"} <=> graph.input[u] = {}
  BY <1>1 DEF IsUnitGraph
<1>4. graph.grad[u] \subseteq graph.input[u] /\ \A v, w \in graph.grad[u] : v = w
  <2>1. CASE graph.kind[u] = "Hidden"
    BY <1>1, <2>1 DEF IsUnitGraph
  <2>2. CASE graph.kind[u] = "Loss"
    BY <1>1, <2>2 DEF IsUnitGraph
  <2>3. CASE graph.kind[u] \in {"Fetcher", "Constant"}
    BY <1>1, <2>3 DEF IsUnitGraph
  <2>4. QED BY <1>2, <2>1, <2>2, <2>3 DEF Kinds
<1>5. QED BY <1>2, <1>3, <1>4

-----------------------------------------------------------------------------
(* What a unit computes from names only vectors that were really read.     *)
LEMMA DataTypes ==
  ASSUME TypeOK, NEW u \in Unit
  PROVE  /\ ForwardData(u) \subseteq Vectors
         /\ BackwardData(u) \subseteq Vectors
<1>1. /\ \A v \in Unit : data.fin[u][v] \subseteq Vectors
      /\ \A v \in Unit : data.bin[u][v] \subseteq Vectors
      /\ data.fout[u] \subseteq Vectors
  BY DEF TypeOK, DataType
<1>2. graph.input[u] \subseteq Unit
  BY GraphFacts DEF TypeOK
<1>3. GradientsOf(graph, u) \subseteq Unit
  BY DEF GradientsOf, Consumers
<1>4. Loaded(u) \in Vectors
  BY DEF Loaded, Vectors, TypeOK
<1>5. ForwardData(u) \subseteq Vectors
  BY <1>1, <1>2, <1>4 DEF ForwardData
<1>6. BackwardData(u) \subseteq Vectors
  BY <1>1, <1>2, <1>3 DEF BackwardData
<1>7. QED BY <1>5, <1>6

(* ResetState and StartSweep leave well-typed values. *)
LEMMA ResetTypes ==
  ASSUME TypeOK, ResetState
  PROVE  /\ fin' \in [Unit -> [Unit -> Nat]] /\ bin' \in [Unit -> [Unit -> Nat]]
         /\ fout' \in [Unit -> Nat] /\ bout' \in [Unit -> [Unit -> Nat]]
         /\ ran' \in [Unit -> [fwd : Nat, bwd : Nat]]
         /\ epoch' \in 1 .. MaxCalls + 1
BY CallsAssumption DEF ResetState, NoState, TypeOK, Batches

LEMMA TypeInit == Init => TypeOK
<1> SUFFICES ASSUME Init PROVE TypeOK
  OBVIOUS
<1>1. /\ fin \in [Unit -> [Unit -> Nat]] /\ bin \in [Unit -> [Unit -> Nat]]
      /\ fout \in [Unit -> Nat] /\ bout \in [Unit -> [Unit -> Nat]]
      /\ ran \in [Unit -> [fwd : Nat, bwd : Nat]]
  BY DEF Init, NoState
<1>2. 0 \in Batches /\ Fresh \in Vectors
  BY CallsAssumption, NAssumption DEF Batches, Fresh, Vectors, Unit
<1>3. data \in DataType(Vectors)
  BY <1>2 DEF Init, NoData, DataType
<1>4. IsUnitGraph(graph)
  BY GraphsAssumption DEF Init
<1>5. QED
  BY <1>1, <1>2, <1>3, <1>4, CallsAssumption, NAssumption
  DEF Init, TypeOK, Phases, AllCalls

LoopType == pos \in 0 .. N /\ stage \in {"run", "copy"} /\ done \in BOOLEAN

(* The loop variables, whichever step moves them on.                       *)
LEMMA LoopTypes ==
  /\ \A p \in Phases : StartSweep(p) => LoopType' /\ phase' \in Phases
  /\ LoopType /\ pos < N /\ done' \in {FALSE, done} /\ (AfterRun \/ AfterCopy)
       => LoopType'
<1>1. ASSUME NEW p \in Phases, StartSweep(p) PROVE LoopType' /\ phase' \in Phases
  BY <1>1, NAssumption DEF StartSweep, LoopType
<1>2. ASSUME LoopType, pos < N, done' \in {FALSE, done}, AfterRun \/ AfterCopy
      PROVE  LoopType'
  <2>1. pos' \in 0 .. N /\ stage' \in {"run", "copy"}
    BY <1>2, NAssumption DEF LoopType, AfterRun, AfterCopy
  <2>2. done' \in BOOLEAN
    BY <1>2, Zenon DEF LoopType
  <2>3. QED BY <2>1, <2>2 DEF LoopType
<1>3. QED BY <1>1, <1>2

LEMMA TypeStep == TypeOK /\ [Next]_vars => TypeOK'
<1> SUFFICES ASSUME TypeOK, [Next]_vars PROVE TypeOK'
  OBVIOUS
<1>0. LoopType
  BY DEF TypeOK, LoopType
<1>1. CASE UNCHANGED vars
  BY <1>1 DEF TypeOK, vars, states, loop
<1>2. ASSUME NEW c \in Calls, StartCall(c) PROVE TypeOK'
  <2>1. LoopType' /\ phase' \in Phases
    BY <1>2, LoopTypes DEF StartCall, Phases
  <2>2. call' \in AllCalls /\ batch' \in Batches /\ batch + 1 \in Batches
    BY <1>2, CallsAssumption DEF StartCall, TypeOK, Batches
  <2>3. held' \in [Unit -> Batches] /\ bad' \subseteq Unit
    BY <1>2, <2>2 DEF StartCall, TypeOK, Fetchers
  <2>4. QED BY <1>2, <2>1, <2>2, <2>3 DEF StartCall, TypeOK, LoopType, states
<1>3. ASSUME NEW u \in Unit, RunForward(u) PROVE TypeOK'
  <2>1. fout' \in [Unit -> Nat]
    BY <1>3 DEF RunForward, TypeOK
  <2>2. ran' \in [Unit -> [fwd : Nat, bwd : Nat]]
    <3>0. \A r \in [fwd : Nat, bwd : Nat] :
            [r EXCEPT !.fwd = @ + 1] \in [fwd : Nat, bwd : Nat]
      OBVIOUS
    <3>1. [ran[u] EXCEPT !.fwd = @ + 1] \in [fwd : Nat, bwd : Nat]
      BY <3>0 DEF TypeOK
    <3>2. ran' = [ran EXCEPT ![u] = [ran[u] EXCEPT !.fwd = @ + 1]]
      BY <1>3 DEF RunForward, TypeOK
    <3>3. QED BY <3>1, <3>2 DEF TypeOK
  <2>3. data' \in DataType(Vectors)
    BY <1>3, DataTypes DEF RunForward, TypeOK, DataType
  <2>4. LoopType'
    BY <1>3, <1>0, LoopTypes DEF RunForward, Current
  <2>5. QED BY <1>3, <2>1, <2>2, <2>3, <2>4 DEF RunForward, TypeOK, LoopType
<1>4. ASSUME NEW u \in Unit, ForwardThrows(u) PROVE TypeOK'
  <2>1. LoopType' /\ phase' \in Phases
    BY <1>4, LoopTypes DEF ForwardThrows, Phases
  <2>2. QED BY <1>4, <2>1 DEF ForwardThrows, TypeOK, LoopType, states
<1>5. ASSUME NEW u \in Unit,
             \/ SkipForward(u) \/ SkipForwardCopy(u)
             \/ SkipBackward(u) \/ SkipBackwardCopy(u)
      PROVE  TypeOK'
  <2>1. LoopType'
    BY <1>5, <1>0, LoopTypes DEF SkipForward, SkipForwardCopy, SkipBackward,
       SkipBackwardCopy, Current
  <2>2. QED BY <1>5, <2>1 DEF SkipForward, SkipForwardCopy, SkipBackward,
       SkipBackwardCopy, TypeOK, LoopType, states
<1>6. ASSUME NEW u \in Unit, ForwardCopy(u) PROVE TypeOK'
  <2>1. fin' \in [Unit -> [Unit -> Nat]]
    BY <1>6 DEF ForwardCopy, TypeOK, CopiesInto
  <2> DEFINE new == [v \in Unit |-> [w \in Unit |->
                       IF w = u /\ v \in Consumers(graph, u)
                       THEN data.fout[u] ELSE data.fin[v][w]]]
  <2>2. new \in [Unit -> [Unit -> SUBSET Vectors]]
    BY DEF TypeOK, DataType
  <2>3. data' \in DataType(Vectors)
    <3>1. data' = [data EXCEPT !.fin = new]
      BY <1>6 DEF ForwardCopy, TypeOK, DataType
    <3> HIDE DEF new
    <3>2. QED BY <2>2, <3>1 DEF TypeOK, DataType
  <2>4. LoopType'
    BY <1>6, <1>0, LoopTypes DEF ForwardCopy, Current
  <2>5. QED BY <1>6, <2>1, <2>3, <2>4 DEF ForwardCopy, TypeOK, LoopType
<1>7. ASSUME NextSweep PROVE TypeOK'
  <2>1. LoopType' /\ phase' \in Phases
    BY <1>7, LoopTypes DEF NextSweep, TypeOK
  <2>2. QED BY <1>7, <2>1 DEF NextSweep, TypeOK, LoopType, states
<1>8. ASSUME ForwardReturns PROVE TypeOK'
  <2>0. LoopType' /\ phase' \in Phases
    BY <1>8, LoopTypes DEF ForwardReturns, Phases
  <2>1. CASE ResetState
    BY <1>8, <2>0, <2>1, ResetTypes DEF ForwardReturns, TypeOK, LoopType
  <2>2. CASE UNCHANGED <<states, epoch>>
    BY <1>8, <2>0, <2>2 DEF ForwardReturns, TypeOK, LoopType, states
  <2>3. QED BY <1>8, <2>1, <2>2 DEF ForwardReturns
<1>9. ASSUME NEW u \in Unit, RunBackward(u) PROVE TypeOK'
  <2>1. bout' \in [Unit -> [Unit -> Nat]]
    <3>1. [w \in Unit |-> IF w \in graph.grad[u] THEN bout[u][w] + 1
                          ELSE bout[u][w]] \in [Unit -> Nat]
      BY DEF TypeOK
    <3>2. QED BY <1>9, <3>1 DEF RunBackward, TypeOK
  <2>2. ran' \in [Unit -> [fwd : Nat, bwd : Nat]]
    <3>0. \A r \in [fwd : Nat, bwd : Nat] :
            [r EXCEPT !.bwd = @ + 1] \in [fwd : Nat, bwd : Nat]
      OBVIOUS
    <3>1. [ran[u] EXCEPT !.bwd = @ + 1] \in [fwd : Nat, bwd : Nat]
      BY <3>0 DEF TypeOK
    <3>2. ran' = [ran EXCEPT ![u] = [ran[u] EXCEPT !.bwd = @ + 1]]
      BY <1>9 DEF RunBackward, TypeOK
    <3>3. QED BY <3>1, <3>2 DEF TypeOK
  <2>3. data' \in DataType(Vectors)
    BY <1>9, DataTypes DEF RunBackward, TypeOK, DataType
  <2>4. LoopType'
    BY <1>9, <1>0, LoopTypes DEF RunBackward, Current
  <2>5. QED BY <1>9, <2>1, <2>2, <2>3, <2>4 DEF RunBackward, TypeOK, LoopType
<1>10. ASSUME NEW u \in Unit, BackwardCopy(u) PROVE TypeOK'
  <2>1. bin' \in [Unit -> [Unit -> Nat]]
    BY <1>10 DEF BackwardCopy, TypeOK
  <2> DEFINE new == [w \in Unit |-> [v \in Unit |->
                       IF v = u /\ w \in GradTargets(graph, u)
                       THEN data.bout[u] ELSE data.bin[w][v]]]
  <2>2. new \in [Unit -> [Unit -> SUBSET Vectors]]
    BY DEF TypeOK, DataType
  <2>3. data' \in DataType(Vectors)
    <3>1. data' = [data EXCEPT !.bin = new]
      BY <1>10 DEF BackwardCopy, TypeOK, DataType
    <3> HIDE DEF new
    <3>2. QED BY <2>2, <3>1 DEF TypeOK, DataType
  <2>4. LoopType'
    BY <1>10, <1>0, LoopTypes DEF BackwardCopy, Current
  <2>5. QED BY <1>10, <2>1, <2>3, <2>4 DEF BackwardCopy, TypeOK, LoopType
<1>11. ASSUME BackwardReturns PROVE TypeOK'
  <2>1. LoopType' /\ phase' \in Phases
    BY <1>11, LoopTypes DEF BackwardReturns, Phases
  <2>2. QED BY <1>11, <2>1, ResetTypes DEF BackwardReturns, TypeOK, LoopType
<1>12. QED
  BY <1>1, <1>2, <1>3, <1>4, <1>5, <1>6, <1>7, <1>8, <1>9, <1>10, <1>11
  DEF Next, Engine

(* Every counter, tensor and loop variable keeps its type.                 *)
THEOREM TypeCorrect == Spec => []TypeOK
BY TypeInit, TypeStep, PTL DEF Spec

-----------------------------------------------------------------------------
(* The sweeps.                                                             *)

ForwardQuiet(u) == ~IsForwardReady(u) /\ ~isForwardCopyReady(u)
BackwardQuiet(u) == ~IsBackwardReady(u) /\ ~isBackwardCopyReady(u)

(* FixpointReached made inductive.  As long as done is set, everything the *)
(* sweep has passed was quiet when passed, and nothing changed since.      *)
SweepInv ==
  /\ stage = "copy" => pos < N
  /\ phase = "forward" /\ done =>
       /\ \A i \in 0 .. pos - 1 : ForwardQuiet(order[i])
       /\ stage = "copy" => ~IsForwardReady(order[pos])
  /\ phase = "backward" => \A u \in Unit : ForwardQuiet(u)
  /\ phase = "backward" /\ done =>
       /\ \A i \in 0 .. pos - 1 : BackwardQuiet(order[i])
       /\ stage = "copy" => ~IsBackwardReady(order[pos])

(* The tests read nothing but the graph and the counters of their pass.    *)
LEMMA ForwardFrame ==
  ASSUME UNCHANGED <<graph, fin, fout>>, NEW u
  PROVE  /\ IsForwardReady(u)' <=> IsForwardReady(u)
         /\ ForwardQuiet(u)' <=> ForwardQuiet(u)
BY DEF IsForwardReady, isForwardCopyReady, ForwardQuiet, Consumers

LEMMA BackwardFrame ==
  ASSUME UNCHANGED <<graph, bin, bout>>, NEW u
  PROVE  /\ IsBackwardReady(u)' <=> IsBackwardReady(u)
         /\ BackwardQuiet(u)' <=> BackwardQuiet(u)
BY DEF IsBackwardReady, isBackwardCopyReady, BackwardQuiet, GradientsOf,
   GradTargets, Consumers

(* The iteration visits every unit. *)
LEMMA OrderCovers ==
  ASSUME TypeOK, NEW u \in Unit
  PROVE  \E i \in 0 .. N - 1 : order[i] = u
BY DEF TypeOK, Orders, Unit

LEMMA SweepInit == Init => SweepInv
BY DEF Init, SweepInv

LEMMA SweepStep == TypeOK /\ SweepInv /\ [Next]_vars => SweepInv'
<1> SUFFICES ASSUME TypeOK, SweepInv, [Next]_vars PROVE SweepInv'
  OBVIOUS
<1>0. N \in Nat /\ pos \in 0 .. N
  BY NAssumption DEF TypeOK
<1>1. CASE UNCHANGED vars
  BY <1>1, ForwardFrame, BackwardFrame DEF SweepInv, vars, states, loop
<1>2. ASSUME NEW c \in Calls, StartCall(c) PROVE SweepInv'
  BY <1>2 DEF StartCall, StartSweep, SweepInv
<1>3. ASSUME NEW u \in Unit, RunForward(u) PROVE SweepInv'
  BY <1>3 DEF RunForward, Current, AfterRun, SweepInv
<1>4. ASSUME NEW u \in Unit, ForwardThrows(u) PROVE SweepInv'
  BY <1>4 DEF ForwardThrows, StartSweep, SweepInv
<1>5. ASSUME NEW u \in Unit, SkipForward(u) PROVE SweepInv'
  BY <1>5, ForwardFrame DEF SkipForward, Current, AfterRun, SweepInv, states
<1>6. ASSUME NEW u \in Unit, ForwardCopy(u) PROVE SweepInv'
  BY <1>6 DEF ForwardCopy, Current, AfterCopy, SweepInv
<1>7. ASSUME NEW u \in Unit, SkipForwardCopy(u) PROVE SweepInv'
  <2>1. UNCHANGED <<graph, order, fin, fout, phase, done>> /\ phase = "forward"
        /\ pos' = pos + 1 /\ stage' = "run" /\ stage = "copy" /\ order[pos] = u
    BY <1>7 DEF SkipForwardCopy, Current, AfterCopy, states
  <2>2. ASSUME done PROVE \A i \in 0 .. pos : ForwardQuiet(order[i])
    <3>1. ForwardQuiet(u)
      BY <1>7, <2>1, <2>2
      DEF SkipForwardCopy, Current, SweepInv, ForwardQuiet
    <3>2. QED BY <1>0, <2>1, <2>2, <3>1 DEF SweepInv
  <2>3. QED BY <1>0, <2>1, <2>2, ForwardFrame DEF SweepInv
<1>8. ASSUME NextSweep PROVE SweepInv'
  BY <1>8, ForwardFrame DEF NextSweep, StartSweep, SweepInv, states
<1>9. ASSUME ForwardReturns PROVE SweepInv'
  <2>1. \A u \in Unit : ForwardQuiet(u)
    BY <1>9, OrderCovers DEF LoopEnds, ForwardReturns, SweepInv
  <2>2. CASE call = "Train"
    BY <1>9, <2>1, <2>2, ForwardFrame
    DEF ForwardReturns, StartSweep, SweepInv, states
  <2>3. CASE call # "Train"
    BY <1>9, <2>3 DEF ForwardReturns, StartSweep, SweepInv
  <2>4. QED BY <2>2, <2>3
<1>10. ASSUME NEW u \in Unit, RunBackward(u) PROVE SweepInv'
  BY <1>10, ForwardFrame DEF RunBackward, Current, AfterRun, SweepInv
<1>11. ASSUME NEW u \in Unit, SkipBackward(u) PROVE SweepInv'
  BY <1>11, ForwardFrame, BackwardFrame
  DEF SkipBackward, Current, AfterRun, SweepInv, states
<1>12. ASSUME NEW u \in Unit, BackwardCopy(u) PROVE SweepInv'
  BY <1>12, ForwardFrame DEF BackwardCopy, Current, AfterCopy, SweepInv
<1>13. ASSUME NEW u \in Unit, SkipBackwardCopy(u) PROVE SweepInv'
  <2>1. UNCHANGED <<graph, order, states, phase, done>> /\ phase = "backward"
        /\ pos' = pos + 1 /\ stage' = "run" /\ stage = "copy" /\ order[pos] = u
    BY <1>13 DEF SkipBackwardCopy, Current, AfterCopy
  <2>2. ASSUME done PROVE \A i \in 0 .. pos : BackwardQuiet(order[i])
    <3>1. BackwardQuiet(u)
      BY <1>13, <2>1, <2>2
      DEF SkipBackwardCopy, Current, SweepInv, BackwardQuiet
    <3>2. QED BY <1>0, <2>1, <2>2, <3>1 DEF SweepInv
  <2>3. QED
    BY <1>0, <2>1, <2>2, ForwardFrame, BackwardFrame DEF SweepInv, states
<1>14. ASSUME BackwardReturns PROVE SweepInv'
  BY <1>14 DEF BackwardReturns, StartSweep, SweepInv
<1>15. QED
  BY <1>1, <1>2, <1>3, <1>4, <1>5, <1>6, <1>7, <1>8, <1>9, <1>10, <1>11,
     <1>12, <1>13, <1>14 DEF Next, Engine

LEMMA SweepInvariant == Spec => []SweepInv
BY TypeCorrect, SweepInit, SweepStep, PTL DEF Spec

(* The while loops of UnitManager::Forward and Backward end only when no   *)
(* unit and no copy is ready, whatever the order of the unit map.          *)
THEOREM SweepsEndAtFixpoint == Spec => []FixpointReached
<1>1. TypeOK /\ SweepInv => FixpointReached
  BY OrderCovers
  DEF SweepInv, FixpointReached, Returning, ForwardQuiet, BackwardQuiet
<1>2. QED
  BY <1>1, TypeCorrect, SweepInvariant, PTL

-----------------------------------------------------------------------------
(* What the counters of the forward pass say: a unit runs at most once     *)
(* between resets, its output is copied to all of its consumers together,  *)
(* and only after it ran.                                                  *)
FlowInv ==
  \A u \in Unit :
    /\ fout[u] \in {0, 1} /\ ran[u].fwd = fout[u]
    /\ TwiceConsumed(graph, u) => fout[u] = 0
    /\ \A v \in graph.input[u] :
         /\ fin[u][v] \in {0, CopiesInto(graph, u)}
         /\ fin[u][v] # 0 => fout[v] = 1
         /\ \A w \in Consumers(graph, v) : fin[u][v] = 0 <=> fin[w][v] = 0

LEMMA FlowInit == Init => FlowInv
<1> SUFFICES ASSUME Init, NEW u \in Unit PROVE FlowInv!(u)
  BY DEF FlowInv
<1>1. graph.input[u] \subseteq Unit
  BY GraphFacts, GraphsAssumption DEF Init
<1>2. QED
  BY <1>1 DEF Init, NoState, CopiesInto, Consumers

LEMMA FlowReset ==
  ASSUME TypeOK, ResetState, UNCHANGED graph
  PROVE  FlowInv'
<1> SUFFICES ASSUME NEW u \in Unit PROVE FlowInv!(u)'
  BY DEF FlowInv
<1>1. graph.input[u] \subseteq Unit
  BY GraphFacts DEF TypeOK
<1>2. QED
  BY <1>1 DEF ResetState, NoState, CopiesInto, Consumers

LEMMA FlowFrame ==
  ASSUME FlowInv, UNCHANGED <<graph, fin, fout>>,
         \A u \in Unit : ran'[u].fwd = ran[u].fwd
  PROVE  FlowInv'
BY DEF FlowInv, TwiceConsumed, CopiesInto, Consumers

LEMMA FlowStep == TypeOK /\ FlowInv /\ [Next]_vars => FlowInv'
<1> SUFFICES ASSUME TypeOK, FlowInv, [Next]_vars PROVE FlowInv'
  OBVIOUS
<1>1. CASE UNCHANGED vars
  BY <1>1, FlowFrame DEF vars, states
<1>2. ASSUME NEW c \in Calls, StartCall(c) PROVE FlowInv'
  BY <1>2, FlowFrame DEF StartCall, states
<1>3. ASSUME NEW u \in Unit, RunForward(u) PROVE FlowInv'
  <2>1. fout[u] = 0 /\ UNCHANGED <<graph, fin>>
        /\ fout' = [fout EXCEPT ![u] = 1]
    BY <1>3 DEF RunForward, IsForwardReady, TypeOK
  <2>2. \A x \in Unit : ran'[x].fwd = IF x = u THEN 1 ELSE ran[x].fwd
    <3>1. ran[u].fwd = 0
      BY <2>1 DEF FlowInv
    <3>2. ran' = [ran EXCEPT ![u] = [ran[u] EXCEPT !.fwd = @ + 1]]
      BY <1>3 DEF RunForward, TypeOK
    <3>3. QED BY <3>1, <3>2 DEF TypeOK
  <2>3. ~TwiceConsumed(graph, u)
    <3>1. ASSUME TwiceConsumed(graph, u) PROVE FALSE
      <4>1. PICK v \in graph.input[u] : TRUE
        BY <3>1, GraphFacts DEF TwiceConsumed, TypeOK
      <4>2. fin[u][v] = 1
        BY <1>3 DEF RunForward, IsForwardReady
      <4>3. QED BY <3>1, <4>2 DEF FlowInv, CopiesInto
    <3>2. QED BY <3>1
  <2>4. SUFFICES ASSUME NEW x \in Unit PROVE FlowInv!(x)'
    BY DEF FlowInv
  <2>5. fout'[x] \in {0, 1} /\ ran'[x].fwd = fout'[x]
        /\ (TwiceConsumed(graph, x)' => fout'[x] = 0)
    BY <2>1, <2>2, <2>3 DEF FlowInv, TypeOK, TwiceConsumed
  <2>6. ASSUME NEW v \in graph.input[x]
        PROVE  /\ fin[x][v] \in {0, CopiesInto(graph, x)}
               /\ fin[x][v] # 0 => fout'[v] = 1
               /\ \A w \in Consumers(graph, v) : fin[x][v] = 0 <=> fin[w][v] = 0
    <3>1. v \in Unit
      BY GraphFacts DEF TypeOK
    <3>2. QED BY <2>1, <3>1 DEF FlowInv, TypeOK
  <2>7. QED BY <2>1, <2>5, <2>6 DEF CopiesInto, TwiceConsumed, Consumers
<1>4. ASSUME NEW u \in Unit, ForwardThrows(u) PROVE FlowInv'
  BY <1>4, FlowFrame DEF ForwardThrows, states
<1>5. ASSUME NEW u \in Unit,
             \/ SkipForward(u) \/ SkipForwardCopy(u)
             \/ SkipBackward(u) \/ SkipBackwardCopy(u)
      PROVE  FlowInv'
  BY <1>5, FlowFrame DEF SkipForward, SkipForwardCopy, SkipBackward,
     SkipBackwardCopy, states
<1>6. ASSUME NEW u \in Unit, ForwardCopy(u) PROVE FlowInv'
  <2>1. UNCHANGED <<graph, fout, ran>>
    BY <1>6 DEF ForwardCopy
  <2>2. \A x, v \in Unit :
          fin'[x][v] = IF v = u /\ x \in Consumers(graph, u)
                       THEN fin[x][v] + CopiesInto(graph, x) ELSE fin[x][v]
    BY <1>6 DEF ForwardCopy
  <2>3. \A x \in Consumers(graph, u) : fin[x][u] = 0 /\ fout[u] = 1
    <3>1. \A x \in Consumers(graph, u) : fout[u] = fin[x][u] + 1
      BY <1>6 DEF ForwardCopy, isForwardCopyReady
    <3>2. \A x \in Consumers(graph, u) : fin[x][u] \in Nat
      BY DEF TypeOK, Consumers
    <3>3. QED BY <3>1, <3>2 DEF FlowInv
  <2>4. SUFFICES ASSUME NEW x \in Unit PROVE FlowInv!(x)'
    BY DEF FlowInv
  <2>5. ASSUME NEW v \in graph.input[x]
        PROVE  /\ fin'[x][v] \in {0, CopiesInto(graph, x)}
               /\ fin'[x][v] # 0 => fout[v] = 1
               /\ \A w \in Consumers(graph, v) : fin'[x][v] = 0 <=> fin'[w][v] = 0
    <3>1. v \in Unit /\ x \in Consumers(graph, v)
      BY GraphFacts DEF TypeOK, Consumers
    <3>2. CASE v = u
      BY <2>2, <2>3, <3>1, <3>2 DEF CopiesInto, Consumers
    <3>3. CASE v # u
      BY <2>2, <3>1, <3>3 DEF FlowInv, Consumers
    <3>4. QED BY <3>2, <3>3
  <2>6. QED
    BY <2>1, <2>5 DEF FlowInv, CopiesInto, TwiceConsumed, Consumers
<1>7. ASSUME NextSweep PROVE FlowInv'
  BY <1>7, FlowFrame DEF NextSweep, states
<1>8. ASSUME ForwardReturns PROVE FlowInv'
  BY <1>8, FlowFrame, FlowReset DEF ForwardReturns, states
<1>9. ASSUME NEW u \in Unit, RunBackward(u) PROVE FlowInv'
  <2>1. \A x \in Unit : ran'[x].fwd = ran[x].fwd
    BY <1>9 DEF RunBackward, TypeOK
  <2>2. QED BY <1>9, <2>1, FlowFrame DEF RunBackward
<1>10. ASSUME NEW u \in Unit, BackwardCopy(u) PROVE FlowInv'
  BY <1>10, FlowFrame DEF BackwardCopy
<1>11. ASSUME BackwardReturns PROVE FlowInv'
  BY <1>11, FlowReset DEF BackwardReturns
<1>12. QED
  BY <1>1, <1>2, <1>3, <1>4, <1>5, <1>6, <1>7, <1>8, <1>9, <1>10, <1>11
  DEF Next, Engine

LEMMA FlowInvariant == Spec => []FlowInv
BY TypeCorrect, FlowInit, FlowStep, PTL DEF Spec

-----------------------------------------------------------------------------
(* Every non-empty set of numbers has a first one: the induction of the    *)
(* proofs below.                                                           *)
LEMMA FirstNumber ==
  ASSUME NEW S \in SUBSET Nat, S # {}
  PROVE  \E n \in S : \A m \in S : n <= m
<1>1. PICK n \in S : \A m \in S : ~(<<m, n>> \in OpToRel(<, Nat))
  BY NatLessThanWellFounded, WFMin
<1>2. \A m \in S : m < n => <<m, n>> \in OpToRel(<, Nat)
  BY DEF OpToRel
<1>3. \A m \in S : ~(m < n)
  BY <1>1, <1>2
<1>4. \A m \in S : m \in Nat
  OBVIOUS
<1>5. QED BY <1>3, <1>4

(* Every non-empty set of units has a first and a last one. *)
LEMMA FirstUnit ==
  ASSUME NEW S \in SUBSET Unit, S # {}
  PROVE  \E u \in S : \A v \in S : ~(v < u)
<1>1. S \subseteq Nat
  BY NAssumption DEF Unit
<1>2. QED BY <1>1, FirstNumber

LEMMA LastUnit ==
  ASSUME NEW S \in SUBSET Unit, S # {}
  PROVE  \E u \in S : \A v \in S : v <= u
<1> DEFINE Back == {N - u : u \in S}
<1>1. \A u \in S : u \in Int /\ N - u \in Nat
  BY NAssumption DEF Unit
<1>2. PICK b \in Back : \A c \in Back : b <= c
  <2>1. Back \in SUBSET Nat /\ Back # {}
    BY <1>1
  <2> HIDE DEF Back
  <2>2. QED BY <2>1, FirstNumber
<1>3. PICK u \in S : b = N - u
  BY <1>2
<1>4. \A v \in S : N - u <= N - v
  BY <1>2, <1>3
<1>5. QED BY <1>1, <1>4, NAssumption

Expected(u) == IF TwiceConsumed(graph, u) THEN 0 ELSE 1
Completed(u) ==
  /\ ran[u].fwd = Expected(u)
  /\ \A v \in graph.input[u] : fin[u][v] = CopiesInto(graph, u)

(* At a fixpoint of the forward sweep nothing is left: the first unit not  *)
(* completed would have an input to be copied or be ready itself.          *)
LEMMA QuietMeansComplete ==
  ASSUME TypeOK, FlowInv, \A u \in Unit : ForwardQuiet(u)
  PROVE  \A u \in Unit : Completed(u)
<1> DEFINE Rest == {u \in Unit : ~Completed(u)}
<1>1. ASSUME Rest # {} PROVE FALSE
  <2>1. PICK u \in Rest : \A v \in Rest : ~(v < u)
    BY <1>1, FirstUnit
  <2>2. \A v \in graph.input[u] :
          /\ v \in Unit /\ Completed(v) /\ graph.kind[v] # "Loss"
    BY <2>1, GraphFacts DEF TypeOK
  <2>3. \A v \in graph.input[u] : fin[u][v] = CopiesInto(graph, u)
    <3>1. SUFFICES ASSUME NEW v \in graph.input[u], fin[u][v] = 0 PROVE FALSE
      BY <2>1 DEF FlowInv
    <3>2. fout[v] = 1
      BY <2>2 DEF Completed, Expected, TwiceConsumed, FlowInv
    <3>3. \A w \in Consumers(graph, v) : fin[w][v] = 0
      BY <2>1, <3>1 DEF FlowInv
    <3>4. isForwardCopyReady(v)
      BY <2>2, <3>2, <3>3 DEF isForwardCopyReady
    <3>5. QED BY <2>2, <3>4 DEF ForwardQuiet
  <2>4. ~TwiceConsumed(graph, u) /\ fout[u] = 0
    BY <2>1, <2>3 DEF Completed, Expected, FlowInv
  <2>5. IsForwardReady(u)
    BY <2>3, <2>4 DEF IsForwardReady, CopiesInto
  <2>6. QED BY <2>1, <2>5 DEF ForwardQuiet
<1>2. QED BY <1>1

(* Backward starts only when every unit ran exactly once since the last    *)
(* reset and every input holds its producer's output (UnitManager::Forward *)
(* in Model::Train), whatever the order of the unit map.                   *)
THEOREM ForwardRunsEverything == Spec => []ForwardComplete
<1>1. TypeOK /\ SweepInv /\ FlowInv => ForwardComplete
  <2> SUFFICES ASSUME TypeOK, SweepInv, FlowInv, phase = "backward"
               PROVE  ForwardComplete
    BY DEF ForwardComplete
  <2>1. \A u \in Unit : Completed(u)
    BY QuietMeansComplete DEF SweepInv
  <2>2. QED BY <2>1 DEF ForwardComplete, Completed, Expected
<1>2. QED
  BY <1>1, TypeCorrect, SweepInvariant, FlowInvariant, PTL

-----------------------------------------------------------------------------
(* An unconsumed unit is always ready to copy, so Forward never returns.   *)
StuckInv ==
  ~BadLoads => /\ bad = {}
               /\ Dangling(graph) # {} => (batch > 0 <=> phase = "forward")

(* The first call on a model with an unconsumed unit never leaves          *)
(* UnitManager::Forward.                                                   *)
THEOREM UnconsumedUnitBlocks == Spec => []DanglingNeverReturns
<1>1. Init => StuckInv
  BY DEF Init, StuckInv
<1>2. TypeOK /\ SweepInv /\ StuckInv /\ [Next]_vars => StuckInv'
  <2> SUFFICES ASSUME TypeOK, SweepInv, StuckInv, [Next]_vars, ~BadLoads
               PROVE  StuckInv'
    BY DEF StuckInv
  <2>0. batch \in Nat
    BY CallsAssumption DEF TypeOK, Batches
  <2>1. CASE UNCHANGED vars
    BY <2>1 DEF StuckInv, vars, Dangling, Consumers
  <2>2. ASSUME NEW c \in Calls, StartCall(c) PROVE StuckInv'
    BY <2>0, <2>2 DEF StartCall, StartSweep, StuckInv
  <2>3. ASSUME UNCHANGED <<graph, phase, batch, bad>> PROVE StuckInv'
    BY <2>3 DEF StuckInv, Dangling, Consumers
  <2>4. ASSUME NEW u \in Unit, ForwardThrows(u) PROVE StuckInv'
    BY <2>4 DEF ForwardThrows, StuckInv
  <2>5. ASSUME ForwardReturns PROVE StuckInv'
    <3>1. \A u \in Unit : ~isForwardCopyReady(u)
      BY <2>5, OrderCovers DEF LoopEnds, ForwardReturns, SweepInv, ForwardQuiet
    <3>2. Dangling(graph) = {}
      BY <3>1 DEF isForwardCopyReady, Dangling
    <3>3. QED BY <2>5, <3>2 DEF ForwardReturns, StuckInv, Dangling, Consumers
  <2>6. ASSUME BackwardReturns PROVE StuckInv'
    <3>1. \A u \in Unit : ~isForwardCopyReady(u)
      BY <2>6 DEF BackwardReturns, SweepInv, ForwardQuiet
    <3>2. Dangling(graph) = {}
      BY <3>1 DEF isForwardCopyReady, Dangling
    <3>3. QED BY <2>6, <3>2 DEF BackwardReturns, StuckInv, Dangling, Consumers
  <2>7. QED
    <3>1. ASSUME NextSweep PROVE StuckInv'
      BY <3>1, <2>3 DEF NextSweep, StartSweep
    <3>2. ASSUME NEW u \in Unit,
                 \/ RunForward(u) \/ SkipForward(u)
                 \/ ForwardCopy(u) \/ SkipForwardCopy(u)
                 \/ RunBackward(u) \/ SkipBackward(u)
                 \/ BackwardCopy(u) \/ SkipBackwardCopy(u)
          PROVE  StuckInv'
      <4>1. UNCHANGED <<graph, phase, batch, bad>>
        BY <3>2 DEF RunForward, SkipForward, ForwardCopy, SkipForwardCopy,
           RunBackward, SkipBackward, BackwardCopy, SkipBackwardCopy
      <4>2. QED BY <2>3, <4>1
    <3>3. QED BY <2>1, <2>2, <2>4, <2>5, <2>6, <3>1, <3>2 DEF Next, Engine
<1>3. StuckInv => DanglingNeverReturns
  BY DEF StuckInv, DanglingNeverReturns
<1>4. QED
  BY <1>1, <1>2, <1>3, TypeCorrect, SweepInvariant, PTL DEF Spec
=============================================================================
