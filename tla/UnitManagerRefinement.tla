------------------------ MODULE UnitManagerRefinement ------------------------
(***************************************************************************)
(* The engine implements Dataflow; Backward runs exactly the units that    *)
(* back propagation can reach; no tensor marked as written holds data read *)
(* before the last ResetState, and with callers that reset it was computed *)
(* from what the loaders hold in this call: proved for every set of unit   *)
(* graphs, every iteration order and any number of calls.                  *)
(***************************************************************************)
EXTENDS UnitManagerProofs

(* What the counters of the backward pass say: a unit runs Backward at     *)
(* most once between resets, a gradient is copied once and after it was    *)
(* computed, and nobody sends a gradient to a label.                       *)
BackInv ==
  \A u \in Unit :
    /\ ran[u].bwd \in {0, 1}
    /\ graph.grad[u] = {} => ran[u].bwd = 0
    /\ \A w \in graph.grad[u] :
         /\ bout[u][w] = ran[u].bwd
         /\ w \in GradTargets(graph, u) =>
              bin[w][u] \in {0, 1} /\ (bin[w][u] = 1 => ran[u].bwd = 1)
    /\ \A v \in GradientsOf(graph, u) : u \notin graph.grad[v] => bin[u][v] = 0

LEMMA BackInit == Init => BackInv
<1> SUFFICES ASSUME Init, NEW u \in Unit PROVE BackInv!(u)
  BY DEF BackInv
<1>1. graph.grad[u] \subseteq Unit
  BY GraphFacts, GraphsAssumption DEF Init
<1>2. QED
  BY <1>1 DEF Init, NoState, GradTargets, GradientsOf, Consumers

LEMMA BackReset ==
  ASSUME TypeOK, ResetState, UNCHANGED graph
  PROVE  BackInv'
<1> SUFFICES ASSUME NEW u \in Unit PROVE BackInv!(u)'
  BY DEF BackInv
<1>1. graph.grad[u] \subseteq Unit
  BY GraphFacts DEF TypeOK
<1>2. QED
  BY <1>1 DEF ResetState, NoState, GradTargets, GradientsOf, Consumers

LEMMA BackFrame ==
  ASSUME BackInv, UNCHANGED <<graph, bin, bout>>,
         \A u \in Unit : ran'[u].bwd = ran[u].bwd
  PROVE  BackInv'
BY DEF BackInv, GradTargets, GradientsOf, Consumers

LEMMA BackStep == TypeOK /\ BackInv /\ [Next]_vars => BackInv'
<1> SUFFICES ASSUME TypeOK, BackInv, [Next]_vars PROVE BackInv'
  OBVIOUS
<1>1. CASE UNCHANGED vars
  BY <1>1, BackFrame DEF vars, states
<1>2. ASSUME NEW c \in Calls, StartCall(c) PROVE BackInv'
  BY <1>2, BackFrame DEF StartCall, states
<1>3. ASSUME NEW u \in Unit, RunForward(u) PROVE BackInv'
  <2>1. \A x \in Unit : ran'[x].bwd = ran[x].bwd
    BY <1>3 DEF RunForward, TypeOK
  <2>2. QED BY <1>3, <2>1, BackFrame DEF RunForward
<1>4. ASSUME NEW u \in Unit, ForwardThrows(u) PROVE BackInv'
  BY <1>4, BackFrame DEF ForwardThrows, states
<1>5. ASSUME NEW u \in Unit,
             \/ SkipForward(u) \/ SkipForwardCopy(u)
             \/ SkipBackward(u) \/ SkipBackwardCopy(u)
      PROVE  BackInv'
  BY <1>5, BackFrame DEF SkipForward, SkipForwardCopy, SkipBackward,
     SkipBackwardCopy, states
<1>6. ASSUME NEW u \in Unit, ForwardCopy(u) PROVE BackInv'
  BY <1>6, BackFrame DEF ForwardCopy
<1>7. ASSUME NextSweep PROVE BackInv'
  BY <1>7, BackFrame DEF NextSweep, states
<1>8. ASSUME ForwardReturns PROVE BackInv'
  BY <1>8, BackFrame, BackReset DEF ForwardReturns, states
<1>9. ASSUME NEW u \in Unit, RunBackward(u) PROVE BackInv'
  <2>1. UNCHANGED <<graph, bin>> /\ graph.grad[u] # {}
    BY <1>9 DEF RunBackward, IsBackwardReady
  <2>2. \A x, w \in Unit :
          bout'[x][w] = IF x = u /\ w \in graph.grad[u]
                        THEN bout[x][w] + 1 ELSE bout[x][w]
    BY <1>9 DEF RunBackward, TypeOK
  <2>3. ran[u].bwd = 0 /\ \A w \in graph.grad[u] : bout[u][w] = 0
    BY <1>9, <2>1 DEF RunBackward, IsBackwardReady, BackInv
  <2>4. \A x \in Unit : ran'[x].bwd = IF x = u THEN 1 ELSE ran[x].bwd
    <3>1. ran' = [ran EXCEPT ![u] = [ran[u] EXCEPT !.bwd = @ + 1]]
      BY <1>9 DEF RunBackward, TypeOK
    <3>2. QED BY <2>3, <3>1 DEF TypeOK
  <2>5. SUFFICES ASSUME NEW x \in Unit PROVE BackInv!(x)'
    BY DEF BackInv
  <2>6. graph.grad[x] \subseteq Unit
    BY GraphFacts DEF TypeOK
  <2>7. \A w \in graph.grad[x] : bout'[x][w] = ran'[x].bwd
    BY <2>2, <2>3, <2>4, <2>6 DEF BackInv
  <2>8. QED
    BY <2>1, <2>4, <2>6, <2>7 DEF BackInv, GradTargets, GradientsOf, Consumers
<1>10. ASSUME NEW u \in Unit, BackwardCopy(u) PROVE BackInv'
  <2>1. UNCHANGED <<graph, bout, ran>>
    BY <1>10 DEF BackwardCopy
  <2>2. \A w, v \in Unit :
          bin'[w][v] = IF v = u /\ w \in GradTargets(graph, u)
                       THEN bin[w][v] + 1 ELSE bin[w][v]
    BY <1>10 DEF BackwardCopy
  <2>3. \A w \in GradTargets(graph, u) : bin[w][u] = 0 /\ ran[u].bwd = 1
    <3>1. \A w \in GradTargets(graph, u) :
            bout[u][w] = bin[w][u] + 1 /\ w \in graph.grad[u]
      BY <1>10 DEF BackwardCopy, isBackwardCopyReady, GradTargets
    <3>2. QED BY <3>1 DEF BackInv
  <2>4. SUFFICES ASSUME NEW x \in Unit PROVE BackInv!(x)'
    BY DEF BackInv
  <2>5. graph.grad[x] \subseteq Unit /\ GradientsOf(graph, x) \subseteq Unit
    BY GraphFacts DEF TypeOK, GradientsOf, Consumers
  <2>6. ASSUME NEW w \in GradTargets(graph, x)
        PROVE  bin'[w][x] \in {0, 1} /\ (bin'[w][x] = 1 => ran[x].bwd = 1)
    <3>1. w \in graph.grad[x] /\ w \in Unit
      BY <2>5 DEF GradTargets
    <3>2. CASE x = u
      BY <2>2, <2>3, <3>1, <3>2
    <3>3. CASE x # u
      BY <2>2, <3>1, <3>3 DEF BackInv
    <3>4. QED BY <3>2, <3>3
  <2>7. ASSUME NEW v \in GradientsOf(graph, x), x \notin graph.grad[v]
        PROVE  bin'[x][v] = 0
    <3>1. v \in Unit /\ ~(v = u /\ x \in GradTargets(graph, u))
      BY <2>5, <2>7 DEF GradTargets
    <3>2. QED BY <2>2, <2>7, <3>1 DEF BackInv
  <2>8. QED
    BY <2>1, <2>6, <2>7 DEF BackInv, GradTargets, GradientsOf, Consumers
<1>11. ASSUME BackwardReturns PROVE BackInv'
  BY <1>11, BackReset DEF BackwardReturns
<1>12. QED
  BY <1>1, <1>2, <1>3, <1>4, <1>5, <1>6, <1>7, <1>8, <1>9, <1>10, <1>11
  DEF Next, Engine

LEMMA BackInvariant == Spec => []BackInv
BY TypeCorrect, BackInit, BackStep, PTL DEF Spec

-----------------------------------------------------------------------------
(* The simulation of Dataflow.                                             *)

Fired == {u \in Unit : fout[u] = 1}
FiredBack == {u \in Unit : ran[u].bwd = 1}

LEMMA SameGraphOperators ==
  /\ Abstract!Unit = Unit
  /\ \A u : Abstract!GradientsOf(graph, u) = GradientsOf(graph, u)
BY DEF Abstract!Unit, Unit, Abstract!GradientsOf, GradientsOf,
   Abstract!Consumers, Consumers

LEMMA Stutters ==
  ASSUME UNCHANGED <<graph, phase, fout>>,
         \A u \in Unit : ran'[u].bwd = ran[u].bwd
  PROVE  UNCHANGED Abstract!vars
BY DEF Abstract!vars

LEMMA RunForwardFires ==
  ASSUME TypeOK, FlowInv, NEW u \in Unit, RunForward(u)
  PROVE  Abstract!FireForward(u)
<1>1. fout[u] = 0 /\ fout' = [fout EXCEPT ![u] = 1]
  BY DEF RunForward, IsForwardReady, TypeOK
<1>2. \A v \in graph.input[u] : v \in Unit /\ fout[v] = 1
  <2>1. \A v \in graph.input[u] : v \in Unit /\ fin[u][v] = 1
    BY GraphFacts DEF RunForward, IsForwardReady, TypeOK
  <2>2. QED BY <2>1 DEF FlowInv
<1>3. Fired' = Fired \cup {u} /\ u \notin Fired
  BY <1>1 DEF Fired, TypeOK
<1>4. FiredBack' = FiredBack
  <2>1. \A x \in Unit : ran'[x].bwd = ran[x].bwd
    BY DEF RunForward, TypeOK
  <2>2. QED BY <2>1 DEF FiredBack
<1>5. QED
  BY <1>2, <1>3, <1>4
  DEF Abstract!FireForward, RunForward, Current, Fired, FiredBack

LEMMA RunBackwardFires ==
  ASSUME TypeOK, BackInv, NEW u \in Unit, RunBackward(u)
  PROVE  Abstract!FireBackward(u)
<1>1. graph.grad[u] # {} /\ ran[u].bwd = 0
  BY DEF RunBackward, IsBackwardReady, BackInv
<1>2. ASSUME NEW v \in GradientsOf(graph, u)
      PROVE  v \in FiredBack /\ u \in graph.grad[v]
  <2>1. v \in Unit /\ bin[u][v] = 1 /\ graph.kind[u] = "Hidden"
    BY DEF RunBackward, IsBackwardReady, GradientsOf, Consumers
  <2>2. u \in graph.grad[v]
    BY <2>1 DEF BackInv
  <2>3. u \in GradTargets(graph, v)
    BY <2>1, <2>2 DEF GradTargets
  <2>4. QED BY <2>1, <2>2, <2>3 DEF BackInv, FiredBack
<1>3. FiredBack' = FiredBack \cup {u} /\ u \notin FiredBack
  <2>1. ran' = [ran EXCEPT ![u] = [ran[u] EXCEPT !.bwd = @ + 1]]
    BY DEF RunBackward, TypeOK
  <2>2. \A x \in Unit : ran'[x].bwd = IF x = u THEN 1 ELSE ran[x].bwd
    BY <1>1, <2>1 DEF TypeOK
  <2>3. QED BY <1>1, <2>2 DEF FiredBack
<1>4. Abstract!CanFireBackward(u)
  BY <1>1, <1>2, <1>3, SameGraphOperators DEF Abstract!CanFireBackward, FiredBack
<1>5. QED
  BY <1>3, <1>4 DEF Abstract!FireBackward, RunBackward, Current, FiredBack

(* When the forward sweep ends every unit has fired.                       *)
LEMMA ForwardReturnsDone ==
  ASSUME \A u \in Unit : ~TwiceConsumed(graph, u),
         TypeOK, SweepInv, FlowInv, ForwardReturns
  PROVE  Abstract!ForwardDone
<1>1. \A u \in Unit : ForwardQuiet(u)
  BY OrderCovers DEF LoopEnds, ForwardReturns, SweepInv
<1>2. Fired = Unit
  <2>1. \A u \in Unit : ran[u].fwd = 1
    BY <1>1, QuietMeansComplete DEF Completed, Expected, TypeOK
  <2>2. QED BY <2>1 DEF Fired, FlowInv
<1>3. ASSUME ResetState PROVE Fired' = {} /\ FiredBack' = {}
  BY <1>3 DEF ResetState, Fired, FiredBack
<1>4. ASSUME UNCHANGED states PROVE Fired' = Fired /\ FiredBack' = FiredBack
  BY <1>4 DEF states, Fired, FiredBack
<1>5. QED
  BY <1>2, <1>3, <1>4, SameGraphOperators
  DEF Abstract!ForwardDone, ForwardReturns, StartSweep, Fired, FiredBack

(* A quiet backward sweep leaves no unit waiting that has its gradients.   *)
LEMMA QuietCannotFire ==
  ASSUME TypeOK, BackInv, \A x \in Unit : BackwardQuiet(x),
         NEW u \in Unit, Abstract!CanFireBackward(u)
  PROVE  FALSE
<1>1. /\ ran[u].bwd = 0 /\ graph.grad[u] # {}
      /\ \A v \in GradientsOf(graph, u) : ran[v].bwd = 1 /\ u \in graph.grad[v]
  BY SameGraphOperators DEF Abstract!CanFireBackward, BackInv
<1>2. ASSUME NEW v \in GradientsOf(graph, u) PROVE bin[u][v] = 1
  <2>1. SUFFICES ASSUME bin[u][v] # 1 PROVE FALSE
    OBVIOUS
  <2>2. v \in Unit /\ u \in GradTargets(graph, v) /\ graph.kind[v] # "Fetcher"
    BY <1>1, GraphFacts DEF GradientsOf, Consumers, GradTargets, TypeOK
  <2>3. \A w \in GradTargets(graph, v) : w = u
    BY <1>1, <2>2, GraphFacts DEF GradTargets, TypeOK
  <2>4. bin[u][v] = 0 /\ bout[v][u] = 1
    BY <1>1, <2>1, <2>2 DEF BackInv
  <2>5. isBackwardCopyReady(v)
    BY <2>2, <2>3, <2>4 DEF isBackwardCopyReady
  <2>6. QED BY <2>2, <2>5 DEF BackwardQuiet
<1>3. \A w \in graph.grad[u] : bout[u][w] = 0
  BY <1>1 DEF BackInv
<1>4. IsBackwardReady(u)
  BY <1>1, <1>2, <1>3 DEF IsBackwardReady
<1>5. QED BY <1>4 DEF BackwardQuiet

(* When the backward sweep ends no unit has all its gradients and waits.   *)
LEMMA BackwardReturnsDone ==
  ASSUME TypeOK, SweepInv, BackInv, BackwardReturns
  PROVE  Abstract!BackwardDone
<1>1. \A u \in Unit : BackwardQuiet(u)
  BY OrderCovers DEF LoopEnds, BackwardReturns, SweepInv
<1>2. ASSUME NEW u \in Unit, Abstract!CanFireBackward(u) PROVE FALSE
  BY <1>1, <1>2, QuietCannotFire
<1>3. Fired' = {} /\ FiredBack' = {}
  BY DEF BackwardReturns, ResetState, Fired, FiredBack
<1>4. QED
  BY <1>2, <1>3, SameGraphOperators
  DEF Abstract!BackwardDone, BackwardReturns, StartSweep, Fired, FiredBack

LEMMA StepSimulates ==
  ASSUME \A u \in Unit : ~TwiceConsumed(graph, u),
         TypeOK, SweepInv, FlowInv, BackInv, [Next]_vars
  PROVE  [Abstract!Next]_(Abstract!vars)
<1>1. CASE UNCHANGED vars
  BY <1>1, Stutters DEF vars, states
<1>2. ASSUME NEW c \in Calls, StartCall(c) PROVE Abstract!Next
  <2>1. Abstract!Call
    BY <1>2 DEF StartCall, StartSweep, states, Abstract!Call
  <2>2. QED BY <2>1 DEF Abstract!Next
<1>3. ASSUME NEW u \in Unit, RunForward(u) PROVE Abstract!Next
  BY <1>3, RunForwardFires, SameGraphOperators DEF Abstract!Next
<1>4. ASSUME NEW u \in Unit, ForwardThrows(u) PROVE Abstract!Next
  <2>1. Abstract!Abort
    BY <1>4 DEF ForwardThrows, Current, StartSweep, states, Abstract!Abort
  <2>2. QED BY <2>1 DEF Abstract!Next
<1>5. ASSUME NEW u \in Unit,
             \/ SkipForward(u) \/ ForwardCopy(u) \/ SkipForwardCopy(u)
             \/ SkipBackward(u) \/ BackwardCopy(u) \/ SkipBackwardCopy(u)
      PROVE  UNCHANGED Abstract!vars
  <2>1. UNCHANGED <<graph, phase, fout, ran>>
    BY <1>5 DEF SkipForward, ForwardCopy, SkipForwardCopy, SkipBackward,
       BackwardCopy, SkipBackwardCopy, states
  <2>2. QED BY <2>1, Stutters
<1>6. ASSUME NextSweep PROVE UNCHANGED Abstract!vars
  BY <1>6, Stutters DEF NextSweep, StartSweep, states
<1>7. ASSUME ForwardReturns PROVE Abstract!Next
  BY <1>7, ForwardReturnsDone DEF Abstract!Next
<1>8. ASSUME NEW u \in Unit, RunBackward(u) PROVE Abstract!Next
  BY <1>8, RunBackwardFires, SameGraphOperators DEF Abstract!Next
<1>9. ASSUME BackwardReturns PROVE Abstract!Next
  BY <1>9, BackwardReturnsDone DEF Abstract!Next
<1>10. QED
  BY <1>1, <1>2, <1>3, <1>4, <1>5, <1>6, <1>7, <1>8, <1>9 DEF Next, Engine

(* The compiled graph never changes. *)
LEMMA GraphFixed == Spec => [](graph \in Graphs)
<1>1. Init => graph \in Graphs
  BY DEF Init
<1>2. graph \in Graphs /\ [Next]_vars => (graph \in Graphs)'
  BY DEF Next, Engine, vars, StartCall, RunForward, ForwardThrows, SkipForward,
     ForwardCopy, SkipForwardCopy, NextSweep, ForwardReturns, RunBackward,
     SkipBackward, BackwardCopy, SkipBackwardCopy, BackwardReturns
<1>3. QED BY <1>1, <1>2, PTL DEF Spec

(* Forward and Backward implement the dataflow reading of the graph, each  *)
(* unit once and after what it depends on, provided no loss takes one unit *)
(* as prediction and label (UnitManager, Model::Train and Predict).        *)
THEOREM EngineImplementsDataflow ==
  ASSUME \A g \in Graphs, u \in Unit : ~TwiceConsumed(g, u)
  PROVE  Spec => ImplementsDataflow
<1>1. Init => Abstract!Init
  BY DEF Init, Abstract!Init
<1>2. TypeOK /\ SweepInv /\ FlowInv /\ BackInv /\ graph \in Graphs /\ [Next]_vars =>
        [Abstract!Next]_(Abstract!vars)
  BY StepSimulates
<1>3. QED
  BY <1>1, <1>2, GraphFixed, TypeCorrect, SweepInvariant, FlowInvariant,
     BackInvariant, PTL
  DEF Spec, ImplementsDataflow, Abstract!Spec

-----------------------------------------------------------------------------
(* What makes back propagation reach u, given the units R it reached       *)
(* before; and the sets the sweep of TrainedMap passes through.            *)
Receives(u, R) ==
  \/ graph.kind[u] = "Loss"
  \/ /\ graph.kind[u] = "Hidden"
     /\ Consumers(graph, u) # {}
     /\ \A v \in Consumers(graph, u) : v \in R /\ u \in graph.grad[v]

Reaches(f, n) ==
  f = [k \in 0 .. n |->
         IF k = 0 THEN {}
         ELSE f[k - 1] \cup
                (IF Receives(N - k, f[k - 1]) THEN {N - k} ELSE {})]

LEMMA ReachesExists == \A n \in Nat : \E f : Reaches(f, n)
<1> DEFINE Lacking == {n \in Nat : \A f : ~Reaches(f, n)}
<1> SUFFICES ASSUME Lacking # {} PROVE FALSE
  OBVIOUS
<1>1. PICK n \in Lacking : \A m \in Lacking : n <= m
  BY FirstNumber
<1>2. n # 0
  <2> DEFINE f == [k \in 0 .. 0 |-> {}]
  <2>1. Reaches(f, 0)
    BY DEF Reaches
  <2> HIDE DEF f
  <2>2. QED BY <2>1
<1>3. n - 1 \in Nat /\ n - 1 \notin Lacking
  BY <1>1, <1>2
<1>4. PICK f : Reaches(f, n - 1)
  BY <1>3
<1> DEFINE g == [k \in 0 .. n |->
                   IF k = n
                   THEN f[n - 1] \cup
                     (IF Receives(N - n, f[n - 1]) THEN {N - n} ELSE {})
                   ELSE f[k]]
<1>5. ASSUME NEW k \in 0 .. n
      PROVE  g[k] = IF k = 0 THEN {}
                    ELSE g[k - 1] \cup
                      (IF Receives(N - k, g[k - 1]) THEN {N - k} ELSE {})
  <2>1. CASE k = n
    <3>1. g[n - 1] = f[n - 1] /\ k # 0
      BY <1>2, <1>3, <2>1
    <3>2. QED BY <2>1, <3>1
  <2>2. CASE k # n
    <3>1. k \in 0 .. n - 1 /\ g[k] = f[k]
      BY <2>2
    <3>2. k # 0 => k - 1 \in 0 .. n /\ k - 1 # n /\ g[k - 1] = f[k - 1]
      BY <2>2
    <3> HIDE DEF g
    <3>3. QED BY <1>4, <3>1, <3>2 DEF Reaches
  <2>3. QED BY <2>1, <2>2
<1>6. Reaches(g, n)
  <2>1. g = [k \in 0 .. n |-> g[k]]
    OBVIOUS
  <2> HIDE DEF g
  <2>2. QED BY <1>5, <2>1 DEF Reaches
<1> HIDE DEF g
<1>7. QED BY <1>1, <1>6

(* TrainedMap reaches u exactly if all that consume it are reached and     *)
(* send it their gradient: no later step of its sweep takes a unit back.   *)
LEMMA TrainedUnfolds ==
  ASSUME IsUnitGraph(graph)
  PROVE  \A u \in Unit :
           TrainedMap(graph)[u] <=>
             Receives(u, {v \in Unit : TrainedMap(graph)[v]})
<1>0. N \in Nat
  BY NAssumption
<1> DEFINE reached == CHOOSE f : Reaches(f, N)
<1>1. TrainedMap(graph) = [u \in Unit |-> u \in reached[N]]
  BY DEF TrainedMap, Reaches, Receives
<1>2. Reaches(reached, N)
  BY <1>0, ReachesExists
<1> HIDE DEF reached
<1>3. /\ reached[0] = {}
      /\ \A k \in 1 .. N :
           reached[k] = reached[k - 1] \cup
             (IF Receives(N - k, reached[k - 1]) THEN {N - k} ELSE {})
  <2>1. \A k \in 0 .. N :
          reached[k] = IF k = 0 THEN {}
                       ELSE reached[k - 1] \cup
                         (IF Receives(N - k, reached[k - 1])
                          THEN {N - k} ELSE {})
    BY <1>2 DEF Reaches
  <2>2. 0 \in 0 .. N /\ \A k \in 1 .. N : k \in 0 .. N /\ k # 0
    BY <1>0
  <2>3. QED BY <2>1, <2>2
<1>4. ASSUME NEW u \in Unit
      PROVE  \A k \in 0 .. N :
               u \in reached[k] <=>
                 k >= N - u /\ Receives(u, reached[N - u - 1])
  <2> DEFINE Wrong == {k \in 0 .. N :
                         ~(u \in reached[k] <=>
                             k >= N - u /\ Receives(u, reached[N - u - 1]))}
  <2> SUFFICES ASSUME Wrong # {} PROVE FALSE
    OBVIOUS
  <2>1. u \in 0 .. N - 1
    BY DEF Unit
  <2>2. PICK k \in Wrong : \A j \in Wrong : k <= j
    <3>1. Wrong \in SUBSET Nat
      BY <1>0
    <3> HIDE DEF Wrong
    <3>2. QED BY <3>1, FirstNumber
  <2>3. k # 0
    BY <1>0, <1>3, <2>1
  <2>4. k - 1 \in 0 .. N /\ k - 1 \notin Wrong
    BY <1>0, <2>2, <2>3
  <2>5. u \in reached[k - 1] <=>
          k - 1 >= N - u /\ Receives(u, reached[N - u - 1])
    BY <2>4
  <2>6. k \in 1 .. N
    BY <1>0, <2>3
  <2>7. reached[k] = reached[k - 1] \cup
             (IF Receives(N - k, reached[k - 1]) THEN {N - k} ELSE {})
    BY <1>3, <2>6
  <2>8. CASE k = N - u
    <3>1. N - k = u /\ N - u - 1 = k - 1
      BY <1>0, <2>1, <2>8
    <3>2. QED BY <1>0, <2>1, <2>5, <2>6, <2>7, <2>8, <3>1
  <2>9. CASE k # N - u
    <3>1. u # N - k /\ (k >= N - u <=> k - 1 >= N - u)
      BY <1>0, <2>1, <2>6, <2>9
    <3>2. u \in reached[k] <=> u \in reached[k - 1]
      BY <2>7, <3>1
    <3>3. QED BY <2>5, <3>1, <3>2
  <2>10. QED BY <2>8, <2>9
<1>5. SUFFICES ASSUME NEW u \in Unit
      PROVE  u \in reached[N] <=> Receives(u, {v \in Unit : v \in reached[N]})
  BY <1>1
<1>6. u \in 0 .. N - 1
  BY DEF Unit
<1>7. u \in reached[N] <=> Receives(u, reached[N - u - 1])
  BY <1>0, <1>4, <1>6
<1>8. ASSUME NEW v \in Consumers(graph, u)
      PROVE  v \in Unit /\ (v \in reached[N - u - 1] <=> v \in reached[N])
  <2>1. v \in Unit /\ u < v
    BY GraphFacts DEF Consumers
  <2>2. v \in 0 .. N - 1 /\ N - u - 1 >= N - v /\ N - u - 1 \in 0 .. N
    BY <1>0, <1>6, <2>1 DEF Unit
  <2>3. QED BY <1>0, <1>4, <2>1, <2>2
<1>9. QED BY <1>7, <1>8 DEF Receives

-----------------------------------------------------------------------------
(* No unit runs Backward before all its consumers did and sent it their    *)
(* gradient.                                                               *)
SentInv ==
  \A u \in Unit :
    ran[u].bwd = 1 => \A v \in GradientsOf(graph, u) :
                        ran[v].bwd = 1 /\ u \in graph.grad[v]

LEMMA SentStep == TypeOK /\ BackInv /\ SentInv /\ [Next]_vars => SentInv'
<1> SUFFICES ASSUME TypeOK, BackInv, SentInv, [Next]_vars PROVE SentInv'
  OBVIOUS
<1>1. ASSUME UNCHANGED graph, \A x \in Unit : ran'[x].bwd = ran[x].bwd
      PROVE  SentInv'
  BY <1>1 DEF SentInv, GradientsOf, Consumers
<1>2. ASSUME UNCHANGED <<graph, ran>> PROVE SentInv'
  BY <1>1, <1>2
<1>3. CASE UNCHANGED vars
  BY <1>2, <1>3 DEF vars, states
<1>4. ASSUME NEW c \in Calls, StartCall(c) PROVE SentInv'
  BY <1>2, <1>4 DEF StartCall, states
<1>5. ASSUME NEW u \in Unit, RunForward(u) PROVE SentInv'
  <2>1. \A x \in Unit : ran'[x].bwd = ran[x].bwd
    BY <1>5 DEF RunForward, TypeOK
  <2>2. QED BY <1>1, <1>5, <2>1 DEF RunForward
<1>6. ASSUME NEW u \in Unit,
             \/ ForwardThrows(u) \/ SkipForward(u) \/ ForwardCopy(u)
             \/ SkipForwardCopy(u) \/ SkipBackward(u) \/ BackwardCopy(u)
             \/ SkipBackwardCopy(u)
      PROVE  SentInv'
  <2>1. UNCHANGED <<graph, ran>>
    BY <1>6 DEF ForwardThrows, SkipForward, ForwardCopy, SkipForwardCopy,
       SkipBackward, BackwardCopy, SkipBackwardCopy, states
  <2>2. QED BY <1>2, <2>1
<1>7. ASSUME NextSweep PROVE SentInv'
  BY <1>2, <1>7 DEF NextSweep, states
<1>8. ASSUME ResetState, UNCHANGED graph PROVE SentInv'
  BY <1>8 DEF ResetState, SentInv
<1>9. ASSUME ForwardReturns PROVE SentInv'
  BY <1>2, <1>8, <1>9 DEF ForwardReturns, states
<1>10. ASSUME NEW u \in Unit, RunBackward(u) PROVE SentInv'
  <2>1. Abstract!FireBackward(u)
    BY <1>10, RunBackwardFires
  <2>2. \A v \in GradientsOf(graph, u) : ran[v].bwd = 1 /\ u \in graph.grad[v]
    BY <2>1, SameGraphOperators
    DEF Abstract!FireBackward, Abstract!CanFireBackward
  <2>3. ran[u].bwd = 0
    BY <1>10 DEF RunBackward, IsBackwardReady, BackInv
  <2>4. \A x \in Unit : ran'[x].bwd = IF x = u THEN 1 ELSE ran[x].bwd
    <3>1. ran' = [ran EXCEPT ![u] = [ran[u] EXCEPT !.bwd = @ + 1]]
      BY <1>10 DEF RunBackward, TypeOK
    <3>2. QED BY <2>3, <3>1 DEF TypeOK
  <2>5. UNCHANGED graph /\ \A x : GradientsOf(graph, x) \subseteq Unit
    BY <1>10 DEF RunBackward, GradientsOf, Consumers
  <2>6. QED BY <2>2, <2>4, <2>5 DEF SentInv, GradientsOf, Consumers
<1>11. ASSUME BackwardReturns PROVE SentInv'
  BY <1>8, <1>11 DEF BackwardReturns
<1>12. QED
  BY <1>3, <1>4, <1>5, <1>6, <1>7, <1>9, <1>10, <1>11 DEF Next, Engine

(* At a fixpoint of the backward sweep a unit ran Backward exactly if all  *)
(* its consumers did and sent it their gradient.                           *)
LEMMA QuietUnitsReceived ==
  ASSUME TypeOK, BackInv, SentInv, \A u \in Unit : ForwardQuiet(u),
         \A u \in Unit : BackwardQuiet(u), NEW u \in Unit
  PROVE  ran[u].bwd = 1 <=> Receives(u, {v \in Unit : ran[v].bwd = 1})
<1>1. /\ graph.kind[u] \in {"Fetcher", "Constant"} <=> graph.grad[u] = {}
      /\ graph.kind[u] \in Kinds
  BY DEF TypeOK, IsUnitGraph, Kinds
<1>2. graph.kind[u] # "Loss" => Consumers(graph, u) # {}
  BY DEF ForwardQuiet, isForwardCopyReady
<1>3. ran[u].bwd = 1 <=> Abstract!CanFireBackward(u) \/ ran[u].bwd = 1
  BY QuietCannotFire
<1>4. ran[u].bwd \in {0, 1} /\ (graph.grad[u] = {} => ran[u].bwd = 0)
  BY DEF BackInv
<1>5. ran[u].bwd = 1 <=>
        /\ graph.grad[u] # {}
        /\ \A v \in GradientsOf(graph, u) :
             ran[v].bwd = 1 /\ u \in graph.grad[v]
  BY <1>3, <1>4, SameGraphOperators
  DEF Abstract!CanFireBackward, SentInv, GradientsOf, Consumers
<1>6. Consumers(graph, u) \subseteq Unit
  BY DEF Consumers
<1>7. QED
  BY <1>1, <1>2, <1>5, <1>6 DEF Receives, GradientsOf, Kinds

(* When Backward returns exactly the units that back propagation can reach *)
(* have run it, once each, whatever the order of the unit map.             *)
THEOREM TrainsExactlyReached == Spec => []TrainedOnce
<1>1. Spec => []SentInv
  <2>1. Init => SentInv
    BY DEF Init, SentInv
  <2>2. QED
    BY <2>1, SentStep, TypeCorrect, BackInvariant, PTL DEF Spec
<1>2. TypeOK /\ SweepInv /\ BackInv /\ SentInv => TrainedOnce
  <2> SUFFICES ASSUME TypeOK, SweepInv, BackInv, SentInv,
                      phase = "backward", Returning
               PROVE  \A u \in Unit :
                        ran[u].bwd = IF TrainedMap(graph)[u] THEN 1 ELSE 0
    BY DEF TrainedOnce
  <2> DEFINE Wrong == {u \in Unit : ~(ran[u].bwd = 1 <=>
                                        TrainedMap(graph)[u])}
  <2>1. /\ \A u \in Unit : ForwardQuiet(u)
        /\ \A u \in Unit : BackwardQuiet(u)
    BY OrderCovers DEF SweepInv, Returning
  <2>2. ASSUME Wrong # {} PROVE FALSE
    <3>1. PICK u \in Wrong : \A v \in Wrong : v <= u
      BY <2>2, LastUnit
    <3>2. \A v \in Consumers(graph, u) :
            v \in Unit /\ (ran[v].bwd = 1 <=> TrainedMap(graph)[v])
      <4>1. SUFFICES ASSUME NEW v \in Consumers(graph, u)
                     PROVE  v \in Unit /\ v \notin Wrong
        OBVIOUS
      <4>2. v \in Unit /\ u < v /\ u \in Int /\ v \in Int
        BY GraphFacts DEF Consumers, TypeOK, Unit
      <4>3. QED BY <3>1, <4>2
    <3>3. ran[u].bwd = 1 <=> Receives(u, {v \in Unit : ran[v].bwd = 1})
      BY <2>1, QuietUnitsReceived
    <3>4. TrainedMap(graph)[u] <=>
            Receives(u, {v \in Unit : TrainedMap(graph)[v]})
      BY TrainedUnfolds DEF TypeOK
    <3>5. QED BY <3>1, <3>2, <3>3, <3>4 DEF Receives
  <2>3. QED BY <2>2 DEF BackInv
<1>3. QED
  BY <1>1, <1>2, TypeCorrect, SweepInvariant, BackInvariant, PTL

-----------------------------------------------------------------------------
(* How data spreads, whatever set H of vectors is looked at: as long as the *)
(* fetchers read vectors of H, the steps of a call keep all that is marked  *)
(* as written inside H.                                                     *)
MarkedIn(H) ==
  \A u, v \in Unit :
    /\ fout[u] > 0 => data.fout[u] \subseteq H
    /\ fin[u][v] > 0 => data.fin[u][v] \subseteq H
    /\ bout[u][v] > 0 => data.bout[u] \subseteq H
    /\ bin[u][v] > 0 => data.bin[u][v] \subseteq H

NobodysConstants ==
  \A u \in Unit : graph.kind[u] = "Constant" => data.fout[u] = {}

(* The steps that compute or copy data. *)
Moves(u) ==
  RunForward(u) \/ ForwardCopy(u) \/ RunBackward(u) \/ BackwardCopy(u)

LEMMA Spread ==
  ASSUME TypeOK, SweepInv, FlowInv, NobodysConstants, NEW H, MarkedIn(H),
         NEW u \in Unit, Moves(u),
         graph.kind[u] = "Fetcher" => Loaded(u) \in H
  PROVE  MarkedIn(H)' /\ NobodysConstants'
<1>1. ASSUME RunForward(u) PROVE MarkedIn(H)' /\ NobodysConstants'
  <2>1. ForwardData(u) \subseteq H
    <3>1. CASE graph.kind[u] \in {"Fetcher", "Constant"}
      BY <3>1 DEF ForwardData, NobodysConstants
    <3>2. CASE graph.kind[u] \notin {"Fetcher", "Constant"}
      <4>1. \A v \in graph.input[u] : v \in Unit /\ fin[u][v] > 0
        BY <1>1, GraphFacts DEF RunForward, IsForwardReady, TypeOK
      <4>2. \A v \in graph.input[u] : data.fin[u][v] \subseteq H
        BY <4>1 DEF MarkedIn
      <4>3. QED BY <3>2, <4>2 DEF ForwardData
    <3>3. QED BY <3>1, <3>2
  <2>2. /\ \A x \in Unit : data'.fout[x] =
              IF x = u THEN ForwardData(u) ELSE data.fout[x]
        /\ data'.fin = data.fin /\ data'.bin = data.bin
        /\ data'.bout = data.bout
    BY <1>1 DEF RunForward, TypeOK, DataType
  <2>3. \A x \in Unit : x # u => fout'[x] = fout[x]
    BY <1>1 DEF RunForward, TypeOK
  <2>4. graph.kind[u] = "Constant" => ForwardData(u) = {}
    BY DEF ForwardData, NobodysConstants
  <2>5. UNCHANGED <<graph, fin, bin, bout>>
    BY <1>1 DEF RunForward
  <2>6. QED
    BY <2>1, <2>2, <2>3, <2>4, <2>5 DEF MarkedIn, NobodysConstants
<1>2. ASSUME ForwardCopy(u) PROVE MarkedIn(H)' /\ NobodysConstants'
  <2>1. UNCHANGED <<graph, fout, bin, bout>>
    BY <1>2 DEF ForwardCopy
  <2>2. /\ data'.fout = data.fout /\ data'.bin = data.bin
        /\ data'.bout = data.bout
        /\ \A v, w \in Unit :
             data'.fin[v][w] = IF w = u /\ v \in Consumers(graph, u)
                               THEN data.fout[u] ELSE data.fin[v][w]
    BY <1>2 DEF ForwardCopy, TypeOK, DataType
  <2>3. \A v, w \in Unit :
          ~(w = u /\ v \in Consumers(graph, u)) => fin'[v][w] = fin[v][w]
    BY <1>2 DEF ForwardCopy
  <2>4. Consumers(graph, u) # {} => data.fout[u] \subseteq H
    <3>1. \A v \in Consumers(graph, u) : fout[u] = fin[v][u] + 1
                                         /\ fin[v][u] \in Nat
      BY <1>2 DEF ForwardCopy, isForwardCopyReady, TypeOK, Consumers
    <3>2. Consumers(graph, u) # {} => fout[u] > 0
      BY <3>1
    <3>3. QED BY <3>2 DEF MarkedIn
  <2>5. QED
    BY <2>1, <2>2, <2>3, <2>4 DEF MarkedIn, NobodysConstants
<1>3. ASSUME RunBackward(u) PROVE MarkedIn(H)' /\ NobodysConstants'
  <2>1. UNCHANGED <<graph, fin, fout, bin>> /\ phase = "backward"
    BY <1>3 DEF RunBackward, Current
  <2>2. BackwardData(u) \subseteq H
    <3>1. \A v \in graph.input[u] : v \in Unit /\ fin[u][v] > 0
      <4>1. Completed(u)
        BY <2>1, QuietMeansComplete DEF SweepInv
      <4>2. graph.input[u] \subseteq Unit
        BY GraphFacts DEF TypeOK
      <4>3. CopiesInto(graph, u) > 0
        BY DEF CopiesInto
      <4>4. \A v \in graph.input[u] : fin[u][v] = CopiesInto(graph, u)
        BY <4>1 DEF Completed
      <4>5. QED BY <4>2, <4>3, <4>4
    <3>2. \A v \in GradientsOf(graph, u) : v \in Unit /\ bin[u][v] > 0
      BY <1>3 DEF RunBackward, IsBackwardReady, GradientsOf, Consumers
    <3>3. /\ \A v \in graph.input[u] : data.fin[u][v] \subseteq H
          /\ \A v \in GradientsOf(graph, u) : data.bin[u][v] \subseteq H
      BY <3>1, <3>2 DEF MarkedIn
    <3>4. QED BY <3>3 DEF BackwardData
  <2>3. /\ data'.fout = data.fout /\ data'.bin = data.bin
        /\ data'.fin = data.fin
        /\ \A x \in Unit : data'.bout[x] =
              IF x = u THEN BackwardData(u) ELSE data.bout[x]
    BY <1>3 DEF RunBackward, TypeOK, DataType
  <2>4. \A x, w \in Unit : x # u => bout'[x][w] = bout[x][w]
    BY <1>3 DEF RunBackward, TypeOK
  <2>5. QED
    BY <2>1, <2>2, <2>3, <2>4 DEF MarkedIn, NobodysConstants
<1>4. ASSUME BackwardCopy(u) PROVE MarkedIn(H)' /\ NobodysConstants'
  <2>1. UNCHANGED <<graph, fin, fout, bout>>
    BY <1>4 DEF BackwardCopy
  <2>2. /\ data'.fout = data.fout /\ data'.fin = data.fin
        /\ data'.bout = data.bout
        /\ \A w, v \in Unit :
             data'.bin[w][v] = IF v = u /\ w \in GradTargets(graph, u)
                               THEN data.bout[u] ELSE data.bin[w][v]
    BY <1>4 DEF BackwardCopy, TypeOK, DataType
  <2>3. \A w, v \in Unit :
          ~(v = u /\ w \in GradTargets(graph, u)) => bin'[w][v] = bin[w][v]
    BY <1>4 DEF BackwardCopy
  <2>4. GradTargets(graph, u) # {} => data.bout[u] \subseteq H
    <3>1. \A w \in GradTargets(graph, u) :
            w \in Unit /\ bout[u][w] = bin[w][u] + 1
      BY <1>4, GraphFacts
      DEF BackwardCopy, isBackwardCopyReady, TypeOK, GradTargets
    <3>2. \A w \in GradTargets(graph, u) : bout[u][w] > 0
      BY <3>1 DEF TypeOK
    <3>3. QED BY <3>1, <3>2 DEF MarkedIn
  <2>5. QED
    BY <2>1, <2>2, <2>3, <2>4 DEF MarkedIn, NobodysConstants
<1>5. QED BY <1>1, <1>2, <1>3, <1>4 DEF Moves

(* What the steps of the sweep leave alone. *)
LEMMA SweepFrame ==
  /\ \A u \in Unit : Moves(u) =>
       /\ UNCHANGED <<graph, phase, call, batch, held, bad, epoch>>
       /\ phase # "idle"
  /\ \A u \in Unit :
       \/ SkipForward(u) \/ SkipForwardCopy(u)
       \/ SkipBackward(u) \/ SkipBackwardCopy(u)
       => /\ UNCHANGED <<graph, states, data, phase, call, batch, held, bad,
                         epoch>>
          /\ phase # "idle"
BY DEF Moves, RunForward, ForwardCopy, RunBackward, BackwardCopy, SkipForward,
   SkipForwardCopy, SkipBackward, SkipBackwardCopy, Current

-----------------------------------------------------------------------------
(* DataOfThisEpoch made inductive: constants hold no loaded vector, and    *)
(* inside a call the epoch has begun.                                      *)
EpochInv ==
  /\ epoch <= batch + 1 /\ (phase # "idle" => epoch <= batch)
  /\ NobodysConstants
  /\ DataOfThisEpoch

LEMMA EpochInit == Init => EpochInv
BY DEF Init, EpochInv, NobodysConstants, DataOfThisEpoch, NoState

LEMMA EpochFrame ==
  ASSUME EpochInv, UNCHANGED <<graph, states, data, epoch>>,
         batch \in Nat, batch' \in Nat, epoch \in Nat, batch <= batch',
         phase' # "idle" => epoch <= batch'
  PROVE  EpochInv'
<1>1. epoch .. batch \subseteq epoch .. batch'
  OBVIOUS
<1>2. \A V : ReadThisEpoch(V) => \A d \in V : d.read \in epoch .. batch'
  BY <1>1 DEF ReadThisEpoch
<1>3. QED
  BY <1>2 DEF EpochInv, NobodysConstants, DataOfThisEpoch, ReadThisEpoch, states

LEMMA EpochReset ==
  ASSUME TypeOK, EpochInv, ResetState, UNCHANGED <<graph, data, batch>>,
         phase' = "idle"
  PROVE  EpochInv'
<1>1. batch \in Nat
  BY CallsAssumption DEF TypeOK, Batches
<1>2. QED
  BY <1>1 DEF EpochInv, NobodysConstants, DataOfThisEpoch, ResetState, NoState

LEMMA EpochStep ==
  TypeOK /\ SweepInv /\ FlowInv /\ EpochInv /\ [Next]_vars => EpochInv'
<1> SUFFICES ASSUME TypeOK, SweepInv, FlowInv, EpochInv, [Next]_vars
             PROVE  EpochInv'
  OBVIOUS
<1>0. batch \in Nat /\ epoch \in Nat
  BY CallsAssumption DEF TypeOK, Batches
<1>1. CASE UNCHANGED vars
  BY <1>0, <1>1, EpochFrame DEF vars, EpochInv
<1>2. ASSUME NEW c \in Calls, StartCall(c) PROVE EpochInv'
  BY <1>0, <1>2, EpochFrame DEF StartCall, EpochInv
<1>3. ASSUME NEW u \in Unit, Moves(u) PROVE EpochInv'
  <2>1. UNCHANGED <<phase, batch, epoch>> /\ phase # "idle"
    BY <1>3, SweepFrame
  <2>2. PICK H : H = {d \in Vectors : d.read \in epoch .. batch}
    OBVIOUS
  <2>3. MarkedIn(H)
    BY <2>2 DEF MarkedIn, EpochInv, DataOfThisEpoch, ReadThisEpoch, TypeOK,
       DataType
  <2>4. Loaded(u) \in H
    BY <1>0, <2>1, <2>2 DEF Loaded, Vectors, TypeOK, EpochInv
  <2>5. MarkedIn(H)' /\ NobodysConstants'
    BY <1>3, <2>3, <2>4, Spread DEF EpochInv
  <2>6. DataOfThisEpoch'
    BY <2>1, <2>2, <2>5 DEF MarkedIn, DataOfThisEpoch, ReadThisEpoch
  <2>7. QED BY <2>1, <2>5, <2>6 DEF EpochInv
<1>4. ASSUME NEW u \in Unit, ForwardThrows(u) PROVE EpochInv'
  BY <1>0, <1>4, EpochFrame DEF ForwardThrows, StartSweep
<1>5. ASSUME NEW u \in Unit,
             \/ SkipForward(u) \/ SkipForwardCopy(u)
             \/ SkipBackward(u) \/ SkipBackwardCopy(u)
      PROVE  EpochInv'
  BY <1>0, <1>5, EpochFrame, SweepFrame DEF EpochInv
<1>6. ASSUME NextSweep PROVE EpochInv'
  BY <1>0, <1>6, EpochFrame DEF NextSweep, StartSweep, EpochInv
<1>7. ASSUME ForwardReturns PROVE EpochInv'
  <2>1. CASE UNCHANGED <<states, epoch>>
    BY <1>0, <1>7, <2>1, EpochFrame DEF ForwardReturns, StartSweep, EpochInv
  <2>2. CASE ResetState /\ phase' = "idle"
    BY <1>7, <2>2, EpochReset DEF ForwardReturns
  <2>3. QED BY <1>7, <2>1, <2>2 DEF ForwardReturns, StartSweep
<1>8. ASSUME BackwardReturns PROVE EpochInv'
  BY <1>8, EpochReset DEF BackwardReturns, StartSweep
<1>9. QED
  BY <1>1, <1>2, <1>3, <1>4, <1>5, <1>6, <1>7, <1>8 DEF Next, Engine, Moves

LEMMA EpochInvariant == Spec => []EpochInv
BY TypeCorrect, SweepInvariant, FlowInvariant, EpochInit, EpochStep, PTL
DEF Spec

(* Nothing crosses ResetState: a tensor marked as written holds only       *)
(* vectors read since the last reset (UnitManager::ResetState clears the   *)
(* counters and no contents).                                              *)
THEOREM NothingCrossesReset == Spec => []DataOfThisEpoch
<1>1. EpochInv => DataOfThisEpoch
  BY DEF EpochInv
<1>2. QED BY <1>1, EpochInvariant, PTL

-----------------------------------------------------------------------------
(* A marked tensor of the forward pass is exactly what its unit's inputs,  *)
(* as they are now, make it: no output changes after it was copied.        *)
CoherentInv ==
  \A u \in Unit :
    /\ \A v \in graph.input[u] : fin[u][v] > 0 => data.fin[u][v] = data.fout[v]
    /\ fout[u] > 0 => \A v \in graph.input[u] : fin[u][v] > 0
    /\ fout[u] > 0 /\ graph.input[u] # {} =>
         data.fout[u] = UNION {data.fout[v] : v \in graph.input[u]}

LEMMA CoherentInit == Init => CoherentInv
<1> SUFFICES ASSUME Init, NEW u \in Unit PROVE CoherentInv!(u)
  BY DEF CoherentInv
<1>1. graph.input[u] \subseteq Unit
  BY GraphFacts, GraphsAssumption DEF Init
<1>2. QED BY <1>1 DEF Init, NoState

LEMMA CoherentFrame ==
  ASSUME CoherentInv, UNCHANGED <<graph, fin, fout>>,
         data'.fin = data.fin, data'.fout = data.fout
  PROVE  CoherentInv'
BY DEF CoherentInv

LEMMA CoherentReset ==
  ASSUME TypeOK, ResetState, UNCHANGED graph
  PROVE  CoherentInv'
<1> SUFFICES ASSUME NEW u \in Unit PROVE CoherentInv!(u)'
  BY DEF CoherentInv
<1>1. graph.input[u] \subseteq Unit
  BY GraphFacts DEF TypeOK
<1>2. QED BY <1>1 DEF ResetState, NoState

LEMMA CoherentStep ==
  TypeOK /\ FlowInv /\ CoherentInv /\ [Next]_vars => CoherentInv'
<1> SUFFICES ASSUME TypeOK, FlowInv, CoherentInv, [Next]_vars
             PROVE  CoherentInv'
  OBVIOUS
<1>1. CASE UNCHANGED vars
  BY <1>1, CoherentFrame DEF vars, states
<1>2. ASSUME NEW c \in Calls, StartCall(c) PROVE CoherentInv'
  BY <1>2, CoherentFrame DEF StartCall, states
<1>3. ASSUME NEW u \in Unit, RunForward(u) PROVE CoherentInv'
  <2>1. fout[u] = 0 /\ UNCHANGED <<graph, fin>>
        /\ fout' = [fout EXCEPT ![u] = 1]
    BY <1>3 DEF RunForward, IsForwardReady, TypeOK
  <2>2. /\ \A x \in Unit : data'.fout[x] =
              IF x = u THEN ForwardData(u) ELSE data.fout[x]
        /\ data'.fin = data.fin
    BY <1>3 DEF RunForward, TypeOK, DataType
  <2>3. SUFFICES ASSUME NEW x \in Unit PROVE CoherentInv!(x)'
    BY DEF CoherentInv
  <2>4. graph.input[x] \subseteq Unit
        /\ \A v \in graph.input[x] : v # x
    BY GraphFacts DEF TypeOK, Unit
  <2>5. ASSUME NEW v \in graph.input[x], fin[x][v] > 0
        PROVE  v # u /\ data'.fout[v] = data.fout[v]
               /\ data.fin[x][v] = data.fout[v]
    BY <2>1, <2>2, <2>4, <2>5 DEF FlowInv, CoherentInv
  <2>6. ASSUME fout'[x] > 0, graph.input[x] # {}
        PROVE  data'.fout[x] = UNION {data'.fout[v] : v \in graph.input[x]}
    <3>1. \A v \in graph.input[x] : fin[x][v] > 0
      <4>1. CASE x = u
        BY <1>3, <4>1 DEF RunForward, IsForwardReady
      <4>2. CASE x # u
        <5>1. fout[x] > 0
          BY <2>1, <2>6, <4>2 DEF TypeOK
        <5>2. QED BY <5>1 DEF CoherentInv
      <4>3. QED BY <4>1, <4>2
    <3>2. \A v \in graph.input[x] : data'.fout[v] = data.fout[v]
                                    /\ data.fin[x][v] = data.fout[v]
      BY <2>5, <3>1
    <3>3. CASE x = u
      <4>1. graph.kind[u] \notin {"Fetcher", "Constant"}
        BY <2>6, <3>3, GraphFacts DEF TypeOK
      <4>2. data'.fout[u] = UNION {data.fin[u][v] : v \in graph.input[u]}
        BY <2>2, <4>1 DEF ForwardData
      <4>3. QED BY <3>2, <3>3, <4>2
    <3>4. CASE x # u
      <4>1. data'.fout[x] = UNION {data.fout[v] : v \in graph.input[x]}
        BY <2>1, <2>2, <2>6, <3>4 DEF CoherentInv, TypeOK
      <4>2. QED BY <3>2, <4>1
    <3>5. QED BY <3>3, <3>4
  <2>7. ASSUME fout'[x] > 0 PROVE \A v \in graph.input[x] : fin[x][v] > 0
    <3>1. CASE x = u
      BY <1>3, <3>1 DEF RunForward, IsForwardReady
    <3>2. CASE x # u
      BY <2>1, <2>7, <3>2 DEF CoherentInv, TypeOK
    <3>3. QED BY <3>1, <3>2
  <2>8. QED BY <2>1, <2>2, <2>5, <2>6, <2>7
<1>4. ASSUME NEW u \in Unit, ForwardCopy(u) PROVE CoherentInv'
  <2>1. UNCHANGED <<graph, fout>>
    BY <1>4 DEF ForwardCopy
  <2>2. /\ data'.fout = data.fout
        /\ \A v, w \in Unit :
             data'.fin[v][w] = IF w = u /\ v \in Consumers(graph, u)
                               THEN data.fout[u] ELSE data.fin[v][w]
    BY <1>4 DEF ForwardCopy, TypeOK, DataType
  <2>3. \A v, w \in Unit :
          fin'[v][w] = IF w = u /\ v \in Consumers(graph, u)
                       THEN fin[v][w] + CopiesInto(graph, v) ELSE fin[v][w]
    BY <1>4 DEF ForwardCopy
  <2>4. SUFFICES ASSUME NEW x \in Unit PROVE CoherentInv!(x)'
    BY DEF CoherentInv
  <2>5. graph.input[x] \subseteq Unit
    BY GraphFacts DEF TypeOK
  <2>6. ASSUME NEW v \in graph.input[x]
        PROVE  /\ fin[x][v] > 0 => fin'[x][v] > 0
               /\ fin'[x][v] > 0 => data'.fin[x][v] = data.fout[v]
    <3>1. v \in Unit /\ fin[x][v] \in Nat /\ CopiesInto(graph, x) \in Nat
      BY <2>5 DEF TypeOK, CopiesInto
    <3>2. x \in Consumers(graph, v)
      BY DEF Consumers
    <3>3. CASE v = u
      BY <2>2, <2>3, <3>1, <3>2, <3>3
    <3>4. CASE v # u
      BY <2>2, <2>3, <3>1, <3>4 DEF CoherentInv
    <3>5. QED BY <3>3, <3>4
  <2>7. QED BY <2>1, <2>2, <2>6 DEF CoherentInv
<1>5. ASSUME NEW u \in Unit,
             \/ SkipForward(u) \/ SkipForwardCopy(u)
             \/ SkipBackward(u) \/ SkipBackwardCopy(u)
      PROVE  CoherentInv'
  BY <1>5, SweepFrame, CoherentFrame DEF states
<1>6. ASSUME NEW u \in Unit, RunBackward(u) \/ BackwardCopy(u)
      PROVE  CoherentInv'
  <2>1. data'.fin = data.fin /\ data'.fout = data.fout
    BY <1>6 DEF RunBackward, BackwardCopy, TypeOK, DataType
  <2>2. UNCHANGED <<graph, fin, fout>>
    BY <1>6 DEF RunBackward, BackwardCopy
  <2>3. QED BY <2>1, <2>2, CoherentFrame
<1>7. ASSUME NEW u \in Unit, ForwardThrows(u) PROVE CoherentInv'
  BY <1>7, CoherentFrame DEF ForwardThrows, states
<1>8. ASSUME NextSweep PROVE CoherentInv'
  BY <1>8, CoherentFrame DEF NextSweep, states
<1>9. ASSUME ForwardReturns PROVE CoherentInv'
  BY <1>9, CoherentFrame, CoherentReset DEF ForwardReturns, states
<1>10. ASSUME BackwardReturns PROVE CoherentInv'
  BY <1>10, CoherentReset DEF BackwardReturns
<1>11. QED
  BY <1>1, <1>2, <1>3, <1>4, <1>5, <1>6, <1>7, <1>8, <1>9, <1>10
  DEF Next, Engine

LEMMA CoherentInvariant == Spec => []CoherentInv
BY TypeCorrect, FlowInvariant, CoherentInit, CoherentStep, PTL DEF Spec

-----------------------------------------------------------------------------
(* DataOfThisCall made inductive.  When no call leaves without a reset all *)
(* counters are zero between calls, so that nothing is marked when the     *)
(* next call gives the loaders data.  Needs that the running call is one   *)
(* the user makes and that no loader can fail.                             *)
Unmarked ==
  \A u, v \in Unit :
    fout[u] = 0 /\ fin[u][v] = 0 /\ bout[u][v] = 0 /\ bin[u][v] = 0

OwnVectors ==
  \A f \in Fetchers(graph) : fout[f] > 0 => data.fout[f] = {Loaded(f)}

CallInv ==
  "Predict" \notin Calls /\ ~BadLoads =>
    /\ bad = {}
    /\ phase # "idle" => call \in Calls
    /\ phase = "idle" => Unmarked
    /\ MarkedIn(Holdings) /\ OwnVectors

LEMMA UnmarkedInv ==
  ASSUME Unmarked PROVE MarkedIn(Holdings) /\ OwnVectors
BY DEF Unmarked, MarkedIn, OwnVectors, Fetchers

LEMMA CallInit == Init => CallInv
<1> SUFFICES ASSUME Init PROVE CallInv
  OBVIOUS
<1>1. Unmarked
  BY DEF Init, NoState, Unmarked
<1>2. QED BY <1>1, UnmarkedInv DEF Init, CallInv

LEMMA CallFrame ==
  ASSUME UNCHANGED <<graph, states, data, batch, held>>
  PROVE  /\ Unmarked => Unmarked'
         /\ MarkedIn(Holdings) /\ OwnVectors =>
              MarkedIn(Holdings)' /\ OwnVectors'
BY DEF Unmarked, MarkedIn, Holdings, OwnVectors, Loaded, Fetchers, states

LEMMA CallReset ==
  ASSUME ResetState
  PROVE  Unmarked' /\ MarkedIn(Holdings)' /\ OwnVectors'
<1>1. Unmarked'
  BY DEF ResetState, NoState, Unmarked
<1>2. QED
  BY <1>1 DEF Unmarked, MarkedIn, OwnVectors, Fetchers

LEMMA CallStep ==
  TypeOK /\ SweepInv /\ FlowInv /\ EpochInv /\ CallInv /\ [Next]_vars =>
    CallInv'
<1> SUFFICES ASSUME TypeOK, SweepInv, FlowInv, EpochInv, CallInv,
                    [Next]_vars, "Predict" \notin Calls, ~BadLoads
             PROVE  CallInv'
  BY DEF CallInv
<1>0. /\ bad = {} /\ MarkedIn(Holdings) /\ OwnVectors
      /\ phase # "idle" => call \in Calls
      /\ phase = "idle" => Unmarked
  BY DEF CallInv
<1>1. CASE UNCHANGED vars
  BY <1>0, <1>1, CallFrame DEF vars, CallInv
<1>2. ASSUME NEW c \in Calls, StartCall(c) PROVE CallInv'
  <2>1. bad' = {} /\ call' \in Calls /\ phase' = "forward"
    BY <1>0, <1>2 DEF StartCall, StartSweep
  <2>2. Unmarked'
    BY <1>0, <1>2 DEF StartCall, Unmarked, states
  <2>3. MarkedIn(Holdings)' /\ OwnVectors'
    BY <2>2 DEF Unmarked, MarkedIn, OwnVectors, Fetchers
  <2>4. QED BY <2>1, <2>3 DEF CallInv
<1>3. ASSUME NEW u \in Unit, Moves(u) PROVE CallInv'
  <2>1. UNCHANGED <<graph, phase, call, batch, held, bad>> /\ phase # "idle"
    BY <1>3, SweepFrame
  <2>2. PICK H : H = Holdings
    OBVIOUS
  <2>3. graph.kind[u] = "Fetcher" => Loaded(u) \in H
    BY <2>2 DEF Holdings, Fetchers
  <2>4. MarkedIn(H)'
    BY <1>0, <1>3, <2>2, <2>3, Spread DEF EpochInv
  <2>5. Holdings' = H
    BY <2>1, <2>2 DEF Holdings, Loaded, Fetchers
  <2>6. MarkedIn(Holdings)'
    BY <2>4, <2>5 DEF MarkedIn
  <2>7. OwnVectors'
    <3>1. SUFFICES ASSUME NEW f \in Fetchers(graph), fout'[f] > 0
                   PROVE  data'.fout[f] = {Loaded(f)}
      BY <2>1 DEF OwnVectors, Loaded, Fetchers
    <3>2. CASE RunForward(u)
      <4>1. /\ data'.fout[f] = IF f = u THEN ForwardData(u) ELSE data.fout[f]
            /\ f # u => fout'[f] = fout[f]
        BY <3>2 DEF RunForward, TypeOK, DataType, Fetchers
      <4>2. QED BY <1>0, <3>1, <4>1 DEF ForwardData, OwnVectors, Fetchers
    <3>3. CASE ForwardCopy(u) \/ RunBackward(u) \/ BackwardCopy(u)
      <4>1. data'.fout = data.fout /\ fout' = fout
        BY <3>3 DEF ForwardCopy, RunBackward, BackwardCopy, TypeOK, DataType
      <4>2. QED BY <1>0, <3>1, <4>1 DEF OwnVectors
    <3>4. QED BY <1>3, <3>2, <3>3 DEF Moves
  <2>8. QED BY <1>0, <2>1, <2>6, <2>7 DEF CallInv
<1>4. ASSUME NEW u \in Unit, ForwardThrows(u) PROVE CallInv'
  BY <1>0, <1>4 DEF ForwardThrows
<1>5. ASSUME NEW u \in Unit,
             \/ SkipForward(u) \/ SkipForwardCopy(u)
             \/ SkipBackward(u) \/ SkipBackwardCopy(u)
      PROVE  CallInv'
  BY <1>0, <1>5, SweepFrame, CallFrame DEF CallInv
<1>6. ASSUME NextSweep PROVE CallInv'
  BY <1>0, <1>6, CallFrame DEF NextSweep, StartSweep, CallInv
<1>7. ASSUME ForwardReturns PROVE CallInv'
  <2>1. bad = {} /\ call # "Predict" /\ call \in Calls
    BY <1>0, <1>7 DEF ForwardReturns
  <2>2. CASE ResetState /\ phase' = "idle"
    BY <1>7, <2>1, <2>2, CallReset DEF ForwardReturns, CallInv
  <2>3. CASE UNCHANGED states /\ phase' = "backward"
    BY <1>0, <1>7, <2>1, <2>3, CallFrame DEF ForwardReturns, CallInv
  <2>4. QED BY <1>7, <2>1, <2>2, <2>3 DEF ForwardReturns, StartSweep
<1>8. ASSUME BackwardReturns PROVE CallInv'
  BY <1>0, <1>8, CallReset DEF BackwardReturns, StartSweep, CallInv
<1>9. QED
  BY <1>1, <1>2, <1>3, <1>4, <1>5, <1>6, <1>7, <1>8 DEF Next, Engine, Moves

(* A caller of Train and the Predict overloads with data whose loaders     *)
(* never fail gets outputs and gradients computed in this call, from what  *)
(* the loaders hold in this call (Loader::operator(), ResetState at the    *)
(* end of those calls), which need not be data given in this call.         *)
THEOREM ResultsComeFromTheLoaders == Spec => []DataOfThisCall
<1>1. Spec => []CallInv
  BY TypeCorrect, SweepInvariant, FlowInvariant, EpochInvariant, CallInit,
     CallStep, PTL DEF Spec
<1>2. CallInv /\ CoherentInv => DataOfThisCall
  BY DEF CallInv, CoherentInv, MarkedIn, OwnVectors, DataOfThisCall, Fetchers
<1>3. QED
  BY <1>1, <1>2, CoherentInvariant, PTL
=============================================================================
