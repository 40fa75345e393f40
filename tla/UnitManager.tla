---------------------------- MODULE UnitManager ----------------------------
(***************************************************************************)
(* The execution engine: UnitManager::Forward and Backward sweep the unit  *)
(* map until a whole sweep changes nothing, guided only by the State       *)
(* counters of the tensors, and the Model calls (Train, Predict) that run  *)
(* them.  One thread executes all of it; a step is one test-and-act of the *)
(* sweep.                                                                  *)
(*                                                                         *)
(* A tensor is its State counter and the set of loaded vectors its data    *)
(* was computed from; the numbers inside are left out.                     *)
(***************************************************************************)
EXTENDS UnitGraph

CONSTANTS
  Graphs,          \* the graphs a compiled model may have
  Calls,           \* the Model calls the user makes
  MaxCalls,        \* bound: how many calls a behaviour makes
  Fills,           \* the sets of loaders a call may give data to
  BadLoads         \* may a loader return a vector of the wrong size?

AllCalls == {"Train", "Predict", "PredictData"}

ASSUME GraphsAssumption == \A g \in Graphs : IsUnitGraph(g)
ASSUME CallsAssumption ==
  /\ Calls \subseteq AllCalls /\ MaxCalls \in Nat
  /\ Fills \subseteq SUBSET Unit /\ BadLoads \in BOOLEAN

VARIABLES
  graph,           \* the compiled graph, fixed
  order,           \* iteration order of the unordered m_unitMap, fixed
  fin,             \* fin[u][v]: ForwardInputMap[v].State of unit u
  fout,            \* fout[u]: ForwardOutput.State
  bin,             \* bin[u][v]: BackwardInputMap[v].State of unit u
  bout,            \* bout[u][v]: BackwardOutputMap[v].State of unit u
  ran,             \* ran[u]: m_unitState, [fwd, bwd] executions
  data,            \* the loaded vectors each tensor's contents come from
  phase,           \* what the calling thread executes
  pos,             \* loop position in m_unitMap
  stage,           \* "run": first test of the loop body; "copy": second
  done,            \* the flag that ends the while loop
  call,            \* the Model call being served
  batch,           \* its number
  held,            \* the call in which each fetcher's loader got its m_data
  bad,             \* fetchers whose loader returns a wrong-sized vector
  epoch            \* history: number of the first call since ResetState

states == <<fin, fout, bin, bout, ran>>
loop == <<pos, stage, done>>
vars ==
  <<graph, order, states, data, phase, loop, call, batch, held, bad, epoch>>

Batches == 0 .. MaxCalls        \* 0: before any call

(* A vector that fetcher of returned in call read: its loader has held it  *)
(* since call loaded.                                                      *)
Vectors == [of : Unit, loaded : Batches, read : Batches]
Fresh == [of |-> 0, loaded |-> 0, read |-> 0]    \* an allocated tensor's

Phases == {"idle", "forward", "backward"}

Orders ==
  {o \in [Unit -> Unit] : \A u \in Unit : \E i \in Unit : o[i] = u}

NoState == [u \in Unit |-> [v \in Unit |-> 0]]
NoData == [u \in Unit |-> [v \in Unit |-> {Fresh}]]

(* The data of all tensors, each a set of the vectors in V. *)
DataType(V) == [fin : [Unit -> [Unit -> SUBSET V]],
                fout : [Unit -> SUBSET V],
                bin : [Unit -> [Unit -> SUBSET V]],
                bout : [Unit -> SUBSET V]]

(* The State counters are natural numbers, the loop stays inside the unit  *)
(* map and data never names a call that was not made.                      *)
TypeOK ==
  /\ IsUnitGraph(graph) /\ order \in Orders
  /\ fin \in [Unit -> [Unit -> Nat]] /\ bin \in [Unit -> [Unit -> Nat]]
  /\ fout \in [Unit -> Nat] /\ bout \in [Unit -> [Unit -> Nat]]
  /\ ran \in [Unit -> [fwd : Nat, bwd : Nat]]
  /\ data \in DataType(Vectors)
  /\ phase \in Phases /\ call \in AllCalls
  /\ pos \in 0 .. N /\ stage \in {"run", "copy"} /\ done \in BOOLEAN
  /\ batch \in Batches /\ epoch \in 1 .. MaxCalls + 1
  /\ held \in [Unit -> Batches] /\ bad \subseteq Unit

-----------------------------------------------------------------------------
(* What Compile leaves behind: every State is 0, the loaders hold the      *)
(* zeros they were made with, and constants hold data that nobody loaded.  *)
Init ==
  /\ graph \in Graphs /\ order \in Orders
  /\ fin = NoState /\ bin = NoState /\ bout = NoState
  /\ fout = [u \in Unit |-> 0]
  /\ ran = [u \in Unit |-> [fwd |-> 0, bwd |-> 0]]
  /\ data = [fin |-> NoData, bin |-> NoData,
             fout |-> [u \in Unit |->
                         IF graph.kind[u] = "Constant" THEN {} ELSE {Fresh}],
             bout |-> [u \in Unit |-> {Fresh}]]
  /\ phase = "idle" /\ call = "Train"
  /\ pos = 0 /\ stage = "run" /\ done = TRUE
  /\ batch = 0 /\ held = [u \in Unit |-> 0] /\ bad = {} /\ epoch = 1

-----------------------------------------------------------------------------
(* The tests of the sweep.                                                 *)

(* Mutant: one input is enough. *)
ReadyOnAnyInput(u) ==
  /\ graph.input[u] = {} \/ \E v \in graph.input[u] : fin[u][v] = 1
  /\ fout[u] = 0

IsForwardReady(u) ==
  /\ \A v \in graph.input[u] : fin[u][v] = 1
  /\ fout[u] = 0

IsBackwardReady(u) ==
  /\ graph.grad[u] # {}
  /\ \A v \in GradientsOf(graph, u) : bin[u][v] = 1
  /\ \A w \in graph.grad[u] : bout[u][w] = 0

(* Mutants: an off-by-one; a test that notices missing consumers. *)
CopyReadyOffByOne(u) ==
  /\ graph.kind[u] # "Loss"
  /\ \A v \in Consumers(graph, u) : fout[u] = fin[v][u]

CopyReadyIfConsumed(u) ==
  /\ graph.kind[u] # "Loss" /\ Consumers(graph, u) # {}
  /\ \A v \in Consumers(graph, u) : fout[u] = fin[v][u] + 1

(* Vacuously true of a unit without consumers. *)
isForwardCopyReady(u) ==
  /\ graph.kind[u] # "Loss"
  /\ \A v \in Consumers(graph, u) : fout[u] = fin[v][u] + 1

(* Mutant: an off-by-one. *)
BackwardCopyOffByOne(u) ==
  /\ graph.kind[u] # "Fetcher"
  /\ GradTargets(graph, u) # {}
  /\ \A w \in GradTargets(graph, u) : bout[u][w] = bin[w][u]

isBackwardCopyReady(u) ==
  /\ graph.kind[u] # "Fetcher"
  /\ GradTargets(graph, u) # {}
  /\ \A w \in GradTargets(graph, u) : bout[u][w] = bin[w][u] + 1

-----------------------------------------------------------------------------
(* What a unit computes, as the vectors its operands come from.            *)

(* What fetcher u's loader returns in this call: whatever it holds.        *)
Loaded(u) == [of |-> u, loaded |-> held[u], read |-> batch]

(* Mutants: the loaders have already moved on to the next call's data; a   *)
(* fetcher whose loader got nothing new keeps its output as it is.         *)
ForwardDataPrefetched(u) ==
  CASE graph.kind[u] = "Fetcher"  -> {[Loaded(u) EXCEPT !.loaded = batch + 1]}
    [] graph.kind[u] = "Constant" -> data.fout[u]
    [] OTHER -> UNION {data.fin[u][v] : v \in graph.input[u]}

ForwardDataKept(u) ==
  CASE graph.kind[u] = "Fetcher" ->
         IF held[u] = batch THEN {Loaded(u)} ELSE data.fout[u]
    [] graph.kind[u] = "Constant" -> data.fout[u]
    [] OTHER -> UNION {data.fin[u][v] : v \in graph.input[u]}

ForwardData(u) ==
  CASE graph.kind[u] = "Fetcher"  -> {Loaded(u)}
    [] graph.kind[u] = "Constant" -> data.fout[u]
    [] OTHER -> UNION {data.fin[u][v] : v \in graph.input[u]}

BackwardData(u) ==
  UNION ({data.fin[u][v] : v \in graph.input[u]} \cup
         {data.bin[u][v] : v \in GradientsOf(graph, u)})

-----------------------------------------------------------------------------
(* Mutant: the input tensors are forgotten. *)
ResetStateKeepsInputs ==
  /\ fin' = fin /\ bin' = NoState /\ bout' = NoState
  /\ fout' = [u \in Unit |-> 0]
  /\ ran' = [u \in Unit |-> [fwd |-> 0, bwd |-> 0]]
  /\ epoch' = batch + 1

(* ResetState of every unit; the tensors keep their data.                  *)
ResetState ==
  /\ fin' = NoState /\ bin' = NoState /\ bout' = NoState
  /\ fout' = [u \in Unit |-> 0]
  /\ ran' = [u \in Unit |-> [fwd |-> 0, bwd |-> 0]]
  /\ epoch' = batch + 1

StartSweep(p) ==
  /\ phase' = p /\ pos' = 0 /\ stage' = "run" /\ done' = TRUE

Current(u, p, s) ==
  phase = p /\ pos < N /\ stage = s /\ order[pos] = u

AfterRun == stage' = "copy" /\ UNCHANGED pos
AfterCopy == stage' = "run" /\ pos' = pos + 1

(* Train, Predict and their overloads, from the caller's side.  The        *)
(* loaders in S are given data for this call, by SetData or, where a user  *)
(* derived one from Loader, by its own operator(); the others keep what    *)
(* they hold, be it of the right size or not.  Train(), Predict() and Fit  *)
(* call no SetData.                                                        *)
StartCall(c) ==
  /\ phase = "idle" /\ batch < MaxCalls
  /\ call' = c /\ batch' = batch + 1
  /\ \E S \in Fills :
       LET given == S \cap Fetchers(graph)
       IN  /\ held' = [u \in Unit |->
                         IF u \in given THEN batch + 1 ELSE held[u]]
           /\ \E B \in IF BadLoads THEN SUBSET given ELSE {{}} :
                bad' = (bad \ given) \cup B
  /\ StartSweep("forward")
  /\ UNCHANGED <<graph, order, states, data, epoch>>

-----------------------------------------------------------------------------
(* The forward sweep.                                                      *)

RunForward(u) ==
  /\ Current(u, "forward", "run") /\ IsForwardReady(u) /\ u \notin bad
  /\ data' = [data EXCEPT !.fout[u] = ForwardData(u)]
  /\ fout' = [fout EXCEPT ![u] = @ + 1]
  /\ ran' = [ran EXCEPT ![u].fwd = @ + 1]
  /\ done' = FALSE /\ AfterRun
  /\ UNCHANGED <<graph, order, fin, bin, bout, phase, call, batch, held, bad,
                 epoch>>

(* PlaceHolder::Forward throws; nothing between it and the user catches.   *)
ForwardThrows(u) ==
  /\ Current(u, "forward", "run") /\ IsForwardReady(u) /\ u \in bad
  /\ StartSweep("idle")
  /\ UNCHANGED <<graph, order, states, data, call, batch, held, bad, epoch>>

SkipForward(u) ==
  /\ Current(u, "forward", "run") /\ ~IsForwardReady(u)
  /\ AfterRun
  /\ UNCHANGED <<graph, order, states, data, phase, done, call, batch, held,
                 bad, epoch>>

ForwardCopy(u) ==
  /\ Current(u, "forward", "copy") /\ isForwardCopyReady(u)
  /\ fin' = [v \in Unit |-> [w \in Unit |->
               IF w = u /\ v \in Consumers(graph, u)
               THEN fin[v][w] + CopiesInto(graph, v) ELSE fin[v][w]]]
  /\ data' = [data EXCEPT !.fin = [v \in Unit |-> [w \in Unit |->
               IF w = u /\ v \in Consumers(graph, u)
               THEN data.fout[u] ELSE @[v][w]]]]
  /\ done' = FALSE /\ AfterCopy
  /\ UNCHANGED <<graph, order, fout, bin, bout, ran, phase, call, batch, held,
                 bad, epoch>>

SkipForwardCopy(u) ==
  /\ Current(u, "forward", "copy") /\ ~isForwardCopyReady(u)
  /\ AfterCopy
  /\ UNCHANGED <<graph, order, states, data, phase, done, call, batch, held,
                 bad, epoch>>

(* The while loop ends after a sweep that cleared no flag. *)
EndsAfterOneSweep == pos = N       \* mutant: no loop around the sweep
LoopEnds == pos = N /\ done

(* Another sweep of the while loop, in either phase. *)
NextSweep ==
  /\ phase # "idle" /\ pos = N /\ ~done
  /\ StartSweep(phase)
  /\ UNCHANGED <<graph, order, states, data, call, batch, held, bad, epoch>>

(* Forward returns: Train goes on to Backward, Predict with data resets,   *)
(* Predict() returns as it is.                                             *)
ForwardReturns ==
  /\ phase = "forward" /\ LoopEnds
  /\ \/ /\ call = "Train"
        /\ StartSweep("backward")
        /\ UNCHANGED <<states, epoch>>
     \/ /\ call = "PredictData"
        /\ StartSweep("idle") /\ ResetState
     \/ /\ call = "Predict"
        /\ StartSweep("idle") /\ UNCHANGED <<states, epoch>>
  /\ UNCHANGED <<graph, order, data, call, batch, held, bad>>

-----------------------------------------------------------------------------
(* The backward sweep.                                                     *)

RunBackward(u) ==
  /\ Current(u, "backward", "run") /\ IsBackwardReady(u)
  /\ data' = [data EXCEPT !.bout[u] = BackwardData(u)]
  /\ bout' = [bout EXCEPT ![u] = [w \in Unit |->
                IF w \in graph.grad[u] THEN @[w] + 1 ELSE @[w]]]
  /\ ran' = [ran EXCEPT ![u].bwd = @ + 1]
  /\ done' = FALSE /\ AfterRun
  /\ UNCHANGED <<graph, order, fin, fout, bin, phase, call, batch, held, bad,
                 epoch>>

SkipBackward(u) ==
  /\ Current(u, "backward", "run") /\ ~IsBackwardReady(u)
  /\ AfterRun
  /\ UNCHANGED <<graph, order, states, data, phase, done, call, batch, held,
                 bad, epoch>>

BackwardCopy(u) ==
  /\ Current(u, "backward", "copy") /\ isBackwardCopyReady(u)
  /\ bin' = [w \in Unit |-> [v \in Unit |->
               IF v = u /\ w \in GradTargets(graph, u)
               THEN bin[w][v] + 1 ELSE bin[w][v]]]
  /\ data' = [data EXCEPT !.bin = [w \in Unit |-> [v \in Unit |->
               IF v = u /\ w \in GradTargets(graph, u)
               THEN data.bout[u] ELSE @[w][v]]]]
  /\ done' = FALSE /\ AfterCopy
  /\ UNCHANGED <<graph, order, fin, fout, bout, ran, phase, call, batch, held,
                 bad, epoch>>

SkipBackwardCopy(u) ==
  /\ Current(u, "backward", "copy") /\ ~isBackwardCopyReady(u)
  /\ AfterCopy
  /\ UNCHANGED <<graph, order, states, data, phase, done, call, batch, held,
                 bad, epoch>>

BackwardReturns ==
  /\ phase = "backward" /\ LoopEnds
  /\ StartSweep("idle") /\ ResetState
  /\ UNCHANGED <<graph, order, data, call, batch, held, bad>>

-----------------------------------------------------------------------------
Engine ==
  \/ \E u \in Unit :
       \/ RunForward(u)  \/ ForwardThrows(u) \/ SkipForward(u)
       \/ ForwardCopy(u) \/ SkipForwardCopy(u)
       \/ RunBackward(u) \/ SkipBackward(u)
       \/ BackwardCopy(u) \/ SkipBackwardCopy(u)
  \/ NextSweep \/ ForwardReturns \/ BackwardReturns

Next == (\E c \in Calls : StartCall(c)) \/ Engine

(* The thread inside a call keeps executing; the user may never call.      *)
Spec == Init /\ [][Next]_vars /\ WF_vars(Engine)

-----------------------------------------------------------------------------
(* Safety.                                                                 *)

Returning == pos = N /\ done       \* the while loop is about to end

(* A sweep loop ends only at a fixpoint: when Forward has returned, no unit *)
(* and no copy of the forward pass is ready, and the same for Backward,     *)
(* although the flag was last cleared anywhere in the previous sweep        *)
(* (UnitManager::Forward, Backward).                                        *)
FixpointReached ==
  /\ phase = "backward" =>
       \A u \in Unit : ~IsForwardReady(u) /\ ~isForwardCopyReady(u)
  /\ phase = "backward" /\ Returning =>
       \A u \in Unit : ~IsBackwardReady(u) /\ ~isBackwardCopyReady(u)

(* Whatever the iteration order of the unordered map, Backward starts only *)
(* when each unit's Forward ran exactly once since the last ResetState and *)
(* every input holds its producer's output.  The exception is a loss whose *)
(* prediction and label are one unit: it never runs.                       *)
ForwardComplete ==
  phase = "backward" =>
    \A u \in Unit :
      /\ ran[u].fwd = IF TwiceConsumed(graph, u) THEN 0 ELSE 1
      /\ \A v \in graph.input[u] : fin[u][v] = CopiesInto(graph, u)

(* No value flows across ResetState: whatever a tensor marked as written   *)
(* holds was computed from vectors read since the last reset, in the       *)
(* forward and in the backward maps, though ResetState clears counters     *)
(* only and every tensor keeps its old contents.                           *)
ReadThisEpoch(V) == \A d \in V : d.read \in epoch .. batch

DataOfThisEpoch ==
  \A u, v \in Unit :
    /\ fout[u] > 0 => ReadThisEpoch(data.fout[u])
    /\ fin[u][v] > 0 => ReadThisEpoch(data.fin[u][v])
    /\ bout[u][v] > 0 => ReadThisEpoch(data.bout[u])
    /\ bin[u][v] > 0 => ReadThisEpoch(data.bin[u][v])

(* A caller that never uses Predict() and whose loaders never fail gets    *)
(* outputs and gradients computed in this call from what the loaders hold  *)
(* in this call, each output from all its unit's inputs.  What a loader    *)
(* holds is as old as the last call that gave it data: a call that fills   *)
(* some loaders only computes with the others' old vectors.                *)
Holdings == {Loaded(f) : f \in Fetchers(graph)}

DataOfThisCall ==
  "Predict" \notin Calls /\ ~BadLoads =>
    \A u \in Unit :
      /\ fout[u] > 0 =>
           /\ data.fout[u] \subseteq Holdings
           /\ u \in Fetchers(graph) => data.fout[u] = {Loaded(u)}
           /\ graph.input[u] # {} =>
                data.fout[u] = UNION {data.fout[v] : v \in graph.input[u]}
      /\ \A v \in Unit : bout[u][v] > 0 => data.bout[u] \subseteq Holdings

(* When Backward returns, exactly the units that back propagation can      *)
(* reach ran it, once each: in particular a hidden unit that also serves   *)
(* as a label, and everything above it, is left out.                       *)
TrainedOnce ==
  phase = "backward" /\ Returning =>
    \A u \in Unit : ran[u].bwd = IF TrainedMap(graph)[u] THEN 1 ELSE 0

(* With a unit nobody consumes the forward copy test is vacuously true, so *)
(* the first call never gets out of Forward.                               *)
DanglingNeverReturns ==
  Dangling(graph) # {} /\ ~BadLoads => (batch > 0 <=> phase = "forward")

(* code_structure.md: tensors not connected to a final operation are not   *)
(* executed.                                                               *)
UnconnectedNotExecuted ==
  \A u \in Dangling(graph) : ran[u].fwd = 0

(* Forward and Backward implement the order-free dataflow reading of the   *)
(* graph: each unit fires once, after its inputs (or all its gradients),   *)
(* and a pass ends only when all that can fire has fired.                  *)
Abstract == INSTANCE Dataflow WITH
  mode <- phase,
  fwd <- {u \in Unit : fout[u] = 1},
  bwd <- {u \in Unit : ran[u].bwd = 1}

ImplementsDataflow == Abstract!Spec

(* Liveness: unless some unit is left unconsumed, every call comes back.   *)
CallReturns == Dangling(graph) = {} => (phase # "idle" ~> phase = "idle")
=============================================================================
