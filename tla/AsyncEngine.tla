------------------------------ MODULE AsyncEngine ------------------------------
(***************************************************************************)
(* UnitManager::AsyncForward and AsyncBackward on the units Compile made.  *)
(* A call looks at each unit once, runs those that are ready and then      *)
(* copies the results of just these.  The units fulfil their promise       *)
(* before they return, so one thread does it all; and since no run touches *)
(* a State, neither the order of the runs nor that of the copies matters:  *)
(* a call is one step.  A tensor's data is the set of the calls whose      *)
(* loads it was computed from.                                             *)
(***************************************************************************)
EXTENDS ModelBuilder

CONSTANTS
  MaxCalls,        \* bound: how many calls a behaviour makes
  Cycles           \* the cycle numbers callers give

ASSUME AsyncAssumption == MaxCalls \in Nat /\ Cycles \subseteq Nat

VARIABLES
  fin, fout,       \* State of ForwardInputMap's tensors and ForwardOutput
  gradients,       \* the keys of each unit's BackwardInputMap
  bin, bout,       \* State of the tensors of the two backward maps
  input, output,   \* data of ForwardInputMap's tensors and ForwardOutput
  calls,           \* how many calls were made; data are named by them
  first,           \* history: first AsyncForward to return since ResetState
  ran,             \* history: units AsyncForward ran since ResetState
  trained          \* history: how often AsyncBackward ran each unit since then

forward == <<fin, fout, input, output>>
backward == <<gradients, bin, bout>>
history == <<first, ran, trained>>
vars == <<builder, forward, backward, calls, history>>

Call == 0 .. MaxCalls       \* 0: contents from before any call
NoState == [u \in Id |-> [v \in Id |-> 0]]

(* Everything keeps its type, and no tensor names a call that was not made.*)
TypeOK ==
  /\ BuilderTypeOK
  /\ fin \in [Id -> [Id -> Nat]] /\ bin \in [Id -> [Id -> Nat]]
  /\ fout \in [Id -> Nat] /\ bout \in [Id -> Nat]
  /\ gradients \in [Id -> SUBSET Id]
  /\ input \in [Id -> [Id -> SUBSET (0 .. calls)]]
  /\ output \in [Id -> SUBSET (0 .. calls)]
  /\ calls \in Call /\ first \in 0 .. calls /\ ran \subseteq Units
  /\ trained \in [Id -> 0 .. calls]

Init ==
  /\ BuilderInit
  /\ fin = NoState /\ bin = NoState /\ gradients = [u \in Id |-> {}]
  /\ fout = [u \in Id |-> 0] /\ bout = [u \in Id |-> 0]
  /\ input = [u \in Id |-> [v \in Id |-> {0}]]
  /\ output = [u \in Id |-> {0}]
  /\ calls = 0 /\ first = 0 /\ ran = {} /\ trained = [u \in Id |-> 0]

(* CreateUnit makes new tensors, in hidden units one for the gradient of   *)
(* each consumer known by now.                                             *)
CompileModel(optimizer) ==
  \E units \in SUBSET Units :
    /\ Compile(optimizer, units)
    /\ output' = [u \in Id |->
                    IF u \in units /\ meta[u].type = "Constant" THEN {}
                    ELSE output[u]]
    /\ gradients' = [u \in Id |->
                       IF u \in units \cap Hidden
                       THEN {outs[u][k] : k \in DOMAIN outs[u]}
                       ELSE gradients[u]]
    /\ UNCHANGED <<fin, fout, input, bin, bout, calls, history>>

(* From here on callers make passes only. *)
StartRunning ==
  /\ phase = "build" /\ unitMap # {}
  /\ phase' = "run"
  /\ UNCHANGED <<metadata, compiled, forward, backward, calls, history>>

NextCall == phase = "run" /\ calls < MaxCalls /\ calls' = calls + 1

-----------------------------------------------------------------------------
(* AsyncForward.                                                           *)

(* Mutant: inputs may have been copied more than once. *)
ForwardReadyAgain(u, cycle) ==
  /\ \A v \in Inputs(u) : fin[u][v] >= cycle + 1
  /\ fout[u] = cycle

IsForwardReady(u, cycle) ==
  /\ \A v \in Inputs(u) : fin[u][v] = cycle + 1
  /\ fout[u] = cycle

Ready(cycle) == {u \in unitMap : IsForwardReady(u, cycle)}

(* Mutant: the loaders have already moved on to the next call's data. *)
ComputedPrefetched(u) ==
  CASE meta[u].type = "Fetcher"  -> {calls + 2}
    [] meta[u].type = "Constant" -> output[u]
    [] OTHER -> UNION {input[u][v] : v \in Inputs(u)}

(* What a unit computes, as the calls its operands come from. *)
Computed(u) ==
  CASE meta[u].type = "Fetcher"  -> {calls + 1}
    [] meta[u].type = "Constant" -> output[u]
    [] OTHER -> UNION {input[u][v] : v \in Inputs(u)}

Run(units) ==
  output' = [u \in Id |-> IF u \in units THEN Computed(u) ELSE output[u]]

(* m_forwardCopy, of each unit that ran. *)
CopyForward(units) ==
  /\ fin' = [v \in Id |-> [u \in Id |->
       IF u \in units /\ v \in Units THEN fin[v][u] + Times(v, outs[u])
       ELSE fin[v][u]]]
  /\ input' = [v \in Id |-> [u \in Id |->
       IF u \in units /\ v \in Units /\ Times(v, outs[u]) > 0
       THEN output'[u] ELSE input[v][u]]]

NullLoader(units) ==
  \E u \in units : meta[u].type = "Fetcher" /\ u \notin holding

(* m_unitMap[] makes a null unit for a consumer it does not hold. *)
NullConsumer(units) ==
  \E u \in units : \E k \in DOMAIN outs[u] : outs[u][k] \notin unitMap

Crashes(units) == NullLoader(units) \/ NullConsumer(units)

(* Mutant: the State of the outputs is kept up. *)
AsyncForwardUpdating(cycle) ==
  LET ready == Ready(cycle)
  IN  /\ NextCall /\ ~Crashes(ready)
      /\ Run(ready) /\ CopyForward(ready)
      /\ fout' = [u \in Id |-> IF u \in ready THEN fout[u] + 1 ELSE fout[u]]
      /\ first' = IF first = 0 /\ ready # {} THEN calls + 1 ELSE first
      /\ ran' = ran \cup ready
      /\ UNCHANGED <<builder, backward, trained>>

AsyncForward(cycle) ==
  LET ready == Ready(cycle)
  IN  /\ NextCall /\ ~Crashes(ready)
      /\ Run(ready) /\ CopyForward(ready)
      /\ first' = IF first = 0 /\ ready # {} THEN calls + 1 ELSE first
      /\ ran' = ran \cup ready
      /\ UNCHANGED <<builder, fout, backward, trained>>

(* A loader returns a vector of the wrong size; some of the other units    *)
(* have run by then, nothing is copied.                                    *)
AsyncForwardThrows(cycle) ==
  /\ NextCall
  /\ \E f \in holding \cap Ready(cycle) :
       \E units \in SUBSET (Ready(cycle) \ {f}) :
         /\ ~NullLoader(units) /\ Run(units)
         /\ ran' = ran \cup units
  /\ UNCHANGED <<builder, fin, fout, input, backward, first, trained>>

AsyncForwardCrashes(cycle) ==
  /\ NextCall /\ Crashes(Ready(cycle))
  /\ phase' = "crashed"
  /\ UNCHANGED <<metadata, compiled, forward, backward, history>>

-----------------------------------------------------------------------------
(* AsyncBackward.                                                          *)

(* The one key of BackwardOutputMap. *)
Target(u) == meta[u].input[1]

(* Mutant: gradients may have been copied more than once. *)
BackwardReadyAgain(u, cycle) ==
  /\ u \notin Sources
  /\ \A v \in gradients[u] : bin[u][v] >= cycle + 1
  /\ bout[u] = cycle

IsBackwardReady(u, cycle) ==
  /\ u \notin Sources
  /\ \A v \in gradients[u] : bin[u][v] = cycle + 1
  /\ bout[u] = cycle

CopyBackward(units) ==
  bin' = [w \in Id |-> [u \in Id |->
    IF u \in units /\ w = Target(u) /\ u \in gradients[w]
    THEN bin[w][u] + 1 ELSE bin[w][u]]]

CountTrained(units) ==
  trained' = [u \in Id |-> IF u \in units THEN trained[u] + 1 ELSE trained[u]]

AsyncBackward(cycle) ==
  LET ready == {u \in unitMap : IsBackwardReady(u, cycle)}
  IN  /\ NextCall
      /\ \A u \in ready : Target(u) \in unitMap
      /\ CopyBackward(ready) /\ CountTrained(ready)
      /\ UNCHANGED <<builder, forward, gradients, bout, first, ran>>

(* m_unitMap.at finds no unit to hand a gradient to; some copies are made. *)
AsyncBackwardThrows(cycle) ==
  LET ready == {u \in unitMap : IsBackwardReady(u, cycle)}
      whole == {u \in ready : Target(u) \in unitMap}
  IN  /\ NextCall /\ whole # ready
      /\ \E units \in SUBSET whole : CopyBackward(units)
      /\ CountTrained(ready)
      /\ UNCHANGED <<builder, forward, gradients, bout, first, ran>>

-----------------------------------------------------------------------------
(* Every State of the units made; all others are 0 anyway. *)
ResetState ==
  /\ NextCall
  /\ fin' = NoState /\ bin' = NoState
  /\ fout' = [u \in Id |-> 0] /\ bout' = [u \in Id |-> 0]
  /\ first' = 0 /\ ran' = {} /\ trained' = [u \in Id |-> 0]
  /\ UNCHANGED <<builder, input, output, gradients>>

Next ==
  \/ Build /\ UNCHANGED <<forward, backward, calls, history>>
  \/ \E optimizer \in Optimizers : CompileModel(optimizer)
  \/ StartRunning
  \/ \E cycle \in Cycles :
       \/ AsyncForward(cycle) \/ AsyncForwardThrows(cycle)
       \/ AsyncForwardCrashes(cycle)
       \/ AsyncBackward(cycle) \/ AsyncBackwardThrows(cycle)
  \/ ResetState

Spec == Init /\ [][Next]_vars

-----------------------------------------------------------------------------
(* Properties.                                                             *)

(* AsyncForward never advances the State of an output, so a source runs    *)
(* and is copied in every call, while what hangs on it sees State 1 only   *)
(* once.  A loss with a fetched label and a computed prediction, that is   *)
(* any model one would train, therefore never runs, however often it is    *)
(* called.                                                                 *)
FetchedLabelIdle ==
  \A l \in Losses \cap ran :
    meta[l].input[1] \in Sources <=> meta[l].input[2] \in Sources

(* And whatever a hidden unit or a loss puts out comes from the first call *)
(* since ResetState that returned, though each call loads new data.        *)
FirstDataOnly ==
  \A u \in ran \ Sources : output[u] \subseteq {first}

(* However often AsyncBackward is called, in a model compiled whole a      *)
(* hidden unit that feeds losses only is trained once between two          *)
(* ResetStates: each loss copies into it in every call, and only the first *)
(* of these copies leaves State at 1.                                      *)
OneGradient ==
  unitMap = Units =>
    \A u \in Hidden :
      gradients[u] # {} /\ gradients[u] \subseteq Losses => trained[u] <= 1

(* AsyncForward never follows a null pointer in a model whose builder      *)
(* calls all returned and that was compiled whole, once.  The only ways to *)
(* get there: a Dense that threw after it was linked, a second Compile,    *)
(* a Compile that threw or was never made after the last unit was added.   *)
CrashOnlyAfterFailure ==
  phase = "crashed" =>
    \/ Ghosts # {} \/ compiles > 1
    \/ \E u \in Units : u \notin unitMap
=============================================================================
