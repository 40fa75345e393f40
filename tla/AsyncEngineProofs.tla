-------------------------- MODULE AsyncEngineProofs --------------------------
(***************************************************************************)
(* Proofs about the front end and the asynchronous engine, for any number  *)
(* of units, calls and compilations: everything keeps its type; a loader   *)
(* is handed over once; the tensors of the units made fit one another;     *)
(* what it takes to follow a null pointer; and what the States allow       *)
(* AsyncForward and AsyncBackward to do between two ResetStates.           *)
(***************************************************************************)
EXTENDS AsyncEngine, FiniteSetTheorems, SequenceTheorems, TLAPS

(* Units are numbered in the order of the builder calls, and a unit links  *)
(* to ids handed out before.                                               *)
Numbered ==
  /\ nextId \in 0 .. MaxUnits /\ Units \subseteq 0 .. nextId - 1
  /\ outs \in [Id -> Seq(0 .. nextId - 1)]

(* Every loader is in one place: with the front end until its unit is made *)
(* first, in that unit until it is made again, nowhere from then on.       *)
Handed ==
  /\ unitMap \subseteq Units /\ loaderMap \subseteq Units
  /\ holding \subseteq unitMap
  /\ made \in [Id -> Nat] /\ compiles \in 0 .. MaxCompiles
  /\ \A u \in Id : made[u] <= compiles /\ (u \in unitMap <=> made[u] > 0)
  /\ \A u \in Units : meta[u].type = "Fetcher" =>
       /\ u \in loaderMap <=> made[u] = 0
       /\ u \in holding <=> made[u] = 1

BuilderInv == Numbered /\ Handed

-----------------------------------------------------------------------------
(* How often u is among the elements of s. *)
LEMMA TimesCounts ==
  ASSUME NEW u, NEW S, NEW s \in Seq(S)
  PROVE  /\ Times(u, s) \in Nat
         /\ Times(u, s) > 0 <=> \E k \in DOMAIN s : s[k] = u
<1> DEFINE At == {k \in DOMAIN s : s[k] = u}
<1>1. IsFiniteSet(At)
  <2>1. IsFiniteSet(1 .. Len(s))
    BY FS_Interval
  <2>2. QED
    BY <2>1, FS_Subset
<1>2. Cardinality(At) \in Nat /\ (Cardinality(At) = 0 <=> At = {})
  BY <1>1, FS_CardinalityType, FS_EmptySet
<1>3. QED
  BY <1>2 DEF Times

LEMMA LinkNumbers ==
  ASSUME Numbered, NEW S, NEW producers \in Seq(S), Link(producers)
  PROVE  /\ nextId \in Id /\ nextId' = nextId + 1 /\ nextId' \in 0 .. MaxUnits
         /\ outs' \in [Id -> Seq(0 .. nextId' - 1)]
         /\ \A u \in Id :
              /\ \A j \in DOMAIN outs[u] :
                   j \in DOMAIN outs'[u] /\ outs'[u][j] = outs[u][j]
              /\ (\E k \in DOMAIN producers : producers[k] = u) =>
                   \E j \in DOMAIN outs'[u] : outs'[u][j] = nextId
<1>1. /\ nextId \in Id /\ nextId' = nextId + 1 /\ nextId' \in 0 .. MaxUnits
  BY BuilderAssumption DEF Numbered, Link, Id
<1>2. ASSUME NEW u \in Id
      PROVE  /\ outs'[u] \in Seq(0 .. nextId' - 1)
             /\ \A j \in DOMAIN outs[u] :
                  j \in DOMAIN outs'[u] /\ outs'[u][j] = outs[u][j]
             /\ (\E k \in DOMAIN producers : producers[k] = u) =>
                  \E j \in DOMAIN outs'[u] : outs'[u][j] = nextId
  <2> DEFINE added == [k \in 1 .. Times(u, producers) |-> nextId]
  <2>1. /\ Times(u, producers) \in Nat
        /\ Times(u, producers) > 0 <=>
             \E k \in DOMAIN producers : producers[k] = u
    BY TimesCounts
  <2>2. /\ added \in Seq(0 .. nextId' - 1)
        /\ Len(added) = Times(u, producers)
        /\ \A k \in 1 .. Len(added) : added[k] = nextId
    BY <1>1, <2>1 DEF Id
  <2>3. outs[u] \in Seq(0 .. nextId' - 1)
    <3>1. outs[u] \in Seq(0 .. nextId - 1)
      BY DEF Numbered
    <3>2. 0 .. nextId - 1 \subseteq 0 .. nextId' - 1
      BY <1>1 DEF Id
    <3>3. QED
      BY <3>1, <3>2, SeqMonotonic
  <2>4. outs'[u] = outs[u] \o added
    BY DEF Link
  <2>5. /\ outs'[u] \in Seq(0 .. nextId' - 1)
        /\ Len(outs'[u]) = Len(outs[u]) + Len(added)
        /\ \A j \in 1 .. Len(outs[u]) : outs'[u][j] = outs[u][j]
        /\ Len(added) > 0 => outs'[u][Len(outs[u]) + 1] = nextId
    <3> HIDE DEF added
    <3>1. outs[u] \o added \in Seq(0 .. nextId' - 1)
      BY <2>2, <2>3, ConcatProperties
    <3>2. Len(outs[u] \o added) = Len(outs[u]) + Len(added)
      BY <2>2, <2>3, ConcatProperties
    <3>3. \A j \in 1 .. Len(outs[u]) + Len(added) :
            (outs[u] \o added)[j] = IF j <= Len(outs[u]) THEN outs[u][j]
                                    ELSE added[j - Len(outs[u])]
      BY <2>2, <2>3, ConcatProperties
    <3>4. Len(outs[u]) \in Nat /\ Len(added) \in Nat
      BY <2>2, <2>3, LenProperties
    <3>5. ASSUME Len(added) > 0
          PROVE  (outs[u] \o added)[Len(outs[u]) + 1] = nextId
      <4>1. Len(outs[u]) + 1 \in 1 .. Len(outs[u]) + Len(added)
        BY <3>4, <3>5
      <4>2. (outs[u] \o added)[Len(outs[u]) + 1] = added[1]
        BY <3>3, <3>4, <4>1
      <4>3. 1 \in 1 .. Len(added)
        BY <3>4, <3>5
      <4>4. QED
        BY <2>2, <4>2, <4>3
    <3>6. \A j \in 1 .. Len(outs[u]) : (outs[u] \o added)[j] = outs[u][j]
      BY <3>3, <3>4
    <3>7. QED
      BY <2>4, <3>1, <3>2, <3>5, <3>6
  <2>6. /\ Len(outs[u]) \in Nat /\ DOMAIN outs[u] = 1 .. Len(outs[u])
        /\ DOMAIN outs'[u] = 1 .. Len(outs'[u])
        /\ Len(outs'[u]) \in Nat /\ Len(added) \in Nat
    <3> HIDE DEF added
    <3>1. QED
      BY <2>2, <2>3, <2>5, LenProperties
  <2>7. QED
    <3> HIDE DEF added
    <3>1. \A j \in DOMAIN outs[u] :
            j \in DOMAIN outs'[u] /\ outs'[u][j] = outs[u][j]
      BY <2>5, <2>6
    <3>2. ASSUME \E k \in DOMAIN producers : producers[k] = u
          PROVE  \E j \in DOMAIN outs'[u] : outs'[u][j] = nextId
      <4>1. Len(added) > 0
        BY <2>1, <2>2, <3>2
      <4>2. Len(outs[u]) + 1 \in DOMAIN outs'[u]
        BY <2>5, <2>6, <4>1
      <4>3. QED
        BY <2>5, <4>1, <4>2
    <3>3. QED
      BY <2>5, <3>1, <3>2
<1>3. outs' = [u \in Id |-> outs'[u]]
  BY DEF Link
<1>4. QED
  BY <1>1, <1>2, <1>3

(* Build touches nothing of Compile's, except that Fetcher adds a loader.  *)
LEMMA AppendNumbers ==
  ASSUME BuilderInv, NEW S, NEW producers \in Seq(S), Link(producers),
         NEW type, NEW shape, NEW weight,
         AppendUnit(type, producers, shape, weight),
         UNCHANGED <<unitMap, holding, made, compiles>>,
         loaderMap' = IF type = "Fetcher" THEN loaderMap \cup {nextId}
                                          ELSE loaderMap
  PROVE  BuilderInv'
<1>1. /\ nextId \in Id /\ nextId' = nextId + 1 /\ nextId' \in 0 .. MaxUnits
      /\ outs' \in [Id -> Seq(0 .. nextId' - 1)]
  BY LinkNumbers DEF BuilderInv
<1>2. /\ Units' = Units \cup {nextId} /\ meta'[nextId].type = type
      /\ \A u \in Units : u # nextId => meta'[u] = meta[u]
  BY DEF AppendUnit, Units
<1>3. nextId \notin Units
  BY <1>1 DEF BuilderInv, Numbered, Id
<1>4. Numbered'
  BY <1>1, <1>2 DEF BuilderInv, Numbered, Id
<1>5. nextId \notin unitMap /\ made[nextId] = 0
  BY <1>1, <1>3 DEF BuilderInv, Handed
<1>6. Handed'
  BY <1>2, <1>3, <1>5 DEF BuilderInv, Handed
<1>7. QED
  BY <1>4, <1>6 DEF BuilderInv

LEMMA BuildStep ==
  ASSUME BuilderInv, Build
  PROVE  BuilderInv'
<1> USE DEF compiled
<1>1. ASSUME NEW s, Fetcher(s) PROVE BuilderInv'
  <2>1. <<>> \in Seq(Id)
    OBVIOUS
  <2>2. QED
    BY <1>1, <2>1, AppendNumbers DEF Fetcher
<1>2. ASSUME NEW s, Constant(s) PROVE BuilderInv'
  <2>1. <<>> \in Seq(Id)
    OBVIOUS
  <2>2. QED
    BY <1>2, <2>1, AppendNumbers DEF Constant
<1>3. ASSUME NEW src \in Units, NEW n, Dense(src, n) PROVE BuilderInv'
  <2>1. <<src>> \in Seq(Units)
    OBVIOUS
  <2>2. QED
    BY <1>3, <2>1, AppendNumbers DEF Dense
<1>4. ASSUME NEW src \in Units, DenseThrows(src) PROVE BuilderInv'
  <2>1. <<src>> \in Seq(Units)
    OBVIOUS
  <2>2. /\ nextId' = nextId + 1 /\ nextId' \in 0 .. MaxUnits
        /\ outs' \in [Id -> Seq(0 .. nextId' - 1)]
    BY <1>4, <2>1, LinkNumbers DEF DenseThrows, BuilderInv
  <2>3. UNCHANGED <<meta, compiled>>
    BY <1>4 DEF DenseThrows
  <2>4. Numbered'
    BY <2>2, <2>3 DEF BuilderInv, Numbered, Units
  <2>5. QED
    BY <2>3, <2>4 DEF BuilderInv, Handed, Units
<1>5. ASSUME NEW src \in Units, Activation(src) PROVE BuilderInv'
  <2>1. <<src>> \in Seq(Units)
    OBVIOUS
  <2>2. QED
    BY <1>5, <2>1, AppendNumbers DEF Activation
<1>6. ASSUME NEW p \in Units, NEW l \in Units, Loss(p, l) PROVE BuilderInv'
  <2>1. <<p, l>> \in Seq(Units)
    OBVIOUS
  <2>2. QED
    BY <1>6, <2>1, AppendNumbers DEF Loss
<1>7. QED
  BY <1>1, <1>2, <1>3, <1>4, <1>5, <1>6 DEF Build

LEMMA CompileStep ==
  ASSUME BuilderInv, NEW units \in SUBSET Units, MakeUnits(units)
  PROVE  BuilderInv'
<1>1. UNCHANGED <<meta, outs, nextId>>
  BY DEF MakeUnits, metadata
<1>2. Numbered'
  BY <1>1 DEF BuilderInv, Numbered, Units
<1>3. units \subseteq Id
  BY BuilderAssumption DEF BuilderInv, Numbered, Id
<1>4. \A u \in Id : made'[u] = IF u \in units THEN made[u] + 1 ELSE made[u]
  BY DEF MakeUnits
<1>5. made' \in [Id -> Nat] /\ compiles' \in 0 .. MaxCompiles
  BY BuilderAssumption DEF MakeUnits, BuilderInv, Handed
<1>6. \A u \in Id : /\ made'[u] <= compiles'
                    /\ u \in unitMap' <=> made'[u] > 0
  BY <1>4 DEF MakeUnits, BuilderInv, Handed
<1>7. ASSUME NEW u \in Units, meta[u].type = "Fetcher"
      PROVE  /\ u \in loaderMap' <=> made'[u] = 0
             /\ u \in holding' <=> made'[u] = 1
  <2>1. u \in Id /\ made[u] \in Nat
    BY BuilderAssumption DEF BuilderInv, Numbered, Handed, Id
  <2>2. QED
    BY <1>4, <1>7, <2>1 DEF MakeUnits, HandOver, BuilderInv, Handed
<1>8. QED
  BY <1>1, <1>2, <1>5, <1>6, <1>7
  DEF MakeUnits, HandOver, BuilderInv, Handed, Units

-----------------------------------------------------------------------------
(* The passes leave the front end's state alone.                           *)
Passes ==
  \/ StartRunning \/ ResetState
  \/ \E cycle \in Cycles :
       \/ AsyncForward(cycle) \/ AsyncForwardThrows(cycle)
       \/ AsyncForwardCrashes(cycle)
       \/ AsyncBackward(cycle) \/ AsyncBackwardThrows(cycle)

LEMMA PassesBuildNothing == Passes => UNCHANGED <<metadata, compiled>>
BY DEF Passes, StartRunning, ResetState, AsyncForward, AsyncForwardThrows,
       AsyncForwardCrashes, AsyncBackward, AsyncBackwardThrows, builder

LEMMA BuilderFrame ==
  ASSUME BuilderInv, UNCHANGED <<metadata, compiled>>
  PROVE  BuilderInv'
BY DEF BuilderInv, Numbered, Handed, Units, metadata, compiled

LEMMA BuilderStep == BuilderInv /\ [Next]_vars => BuilderInv'
<1> SUFFICES ASSUME BuilderInv, [Next]_vars PROVE BuilderInv'
  OBVIOUS
<1>1. CASE UNCHANGED vars
  BY <1>1, BuilderFrame DEF vars, builder
<1>2. CASE Build
  BY <1>2, BuildStep
<1>3. ASSUME NEW optimizer, CompileModel(optimizer) PROVE BuilderInv'
  BY <1>3, CompileStep DEF CompileModel, Compile
<1>4. CASE Passes
  BY <1>4, PassesBuildNothing, BuilderFrame
<1>5. QED
  BY <1>1, <1>2, <1>3, <1>4 DEF Next, Passes

LEMMA BuilderStart == Init => BuilderInv
<1> SUFFICES ASSUME Init PROVE BuilderInv
  OBVIOUS
<1>1. Units = {}
  BY DEF Init, BuilderInit, Units
<1>2. Numbered
  BY <1>1, BuilderAssumption DEF Init, BuilderInit, Numbered
<1>3. Handed
  BY <1>1, BuilderAssumption DEF Init, BuilderInit, Handed
<1>4. QED
  BY <1>2, <1>3 DEF BuilderInv

LEMMA BuilderAlways == Spec => []BuilderInv
BY BuilderStart, BuilderStep, PTL DEF Spec

(* A loader dies with the first PlaceHolder made for its unit: whatever    *)
(* was built, and however often Compile was called and threw               *)
(* (UnitManager::Compile moves it out of m_loaderMap).                     *)
THEOREM LoadersAlwaysOnce == Spec => []LoadersOnce
<1>1. BuilderInv => LoadersOnce
  BY DEF BuilderInv, Handed, LoadersOnce
<1>2. QED
  BY <1>1, BuilderAlways, PTL

(* A model built without a failure and compiled whole, once, holds a       *)
(* loader in every PlaceHolder and every consumer it will look up.         *)
LEMMA SoundModelRuns ==
  ASSUME BuilderInv, Ghosts = {}, compiles <= 1, Units \subseteq unitMap,
         NEW units \in SUBSET unitMap
  PROVE  ~Crashes(units)
<1>1. ASSUME NEW u \in units, meta[u].type = "Fetcher" PROVE u \in holding
  <2>1. u \in Id /\ u \in Units /\ made[u] > 0 /\ made[u] <= compiles
    BY BuilderAssumption DEF BuilderInv, Numbered, Handed, Id
  <2>2. made[u] = 1
    BY <2>1 DEF BuilderInv, Handed
  <2>3. QED
    BY <1>1, <2>1, <2>2 DEF BuilderInv, Handed
<1>2. ASSUME NEW u \in units, NEW k \in DOMAIN outs[u]
      PROVE  outs[u][k] \in unitMap
  <2>1. u \in Id
    BY BuilderAssumption DEF BuilderInv, Numbered, Handed, Id
  <2>2. outs[u][k] \in 0 .. nextId - 1
    BY <2>1, ElementOfSeq DEF BuilderInv, Numbered
  <2>3. QED
    BY <2>2 DEF Ghosts
<1>3. QED
  BY <1>1, <1>2 DEF Crashes, NullLoader, NullConsumer

LEMMA CrashStep ==
  BuilderInv /\ CrashOnlyAfterFailure /\ [Next]_vars => CrashOnlyAfterFailure'
<1> SUFFICES ASSUME BuilderInv, CrashOnlyAfterFailure, [Next]_vars,
                    phase' = "crashed"
             PROVE  CrashOnlyAfterFailure'
  BY DEF CrashOnlyAfterFailure
<1>1. CASE phase = "crashed"
  <2>1. UNCHANGED <<metadata, compiled>>
    BY <1>1 DEF Next, vars, builder, Build, Fetcher, Constant, Dense,
       DenseThrows, Activation, Loss, Link, CompileModel, Compile, MakeUnits,
       StartRunning, NextCall, AsyncForward, AsyncForwardThrows,
       AsyncForwardCrashes, AsyncBackward, AsyncBackwardThrows, ResetState
  <2>2. QED
    BY <1>1, <2>1
    DEF CrashOnlyAfterFailure, Ghosts, Units, metadata, compiled
<1>2. ASSUME NEW cycle, AsyncForwardCrashes(cycle)
      PROVE  CrashOnlyAfterFailure'
  <2>1. Crashes(Ready(cycle)) /\ Ready(cycle) \subseteq unitMap
    BY <1>2 DEF AsyncForwardCrashes, Ready
  <2>2. Ghosts # {} \/ ~(compiles <= 1) \/ ~(Units \subseteq unitMap)
    BY <2>1, SoundModelRuns
  <2>3. UNCHANGED <<metadata, compiled>>
    BY <1>2 DEF AsyncForwardCrashes
  <2>4. compiles \in Nat
    BY DEF BuilderInv, Handed
  <2>5. QED
    BY <2>2, <2>3, <2>4
    DEF CrashOnlyAfterFailure, Ghosts, Units, metadata, compiled
<1>3. ASSUME phase # "crashed", phase' = "crashed"
      PROVE  \E cycle \in Cycles : AsyncForwardCrashes(cycle)
  BY <1>3 DEF Next, vars, builder, Build, Fetcher, Constant, Dense,
     DenseThrows, Activation, Loss, Link, CompileModel, Compile, MakeUnits,
     StartRunning, AsyncForward, AsyncForwardThrows, AsyncBackward,
     AsyncBackwardThrows, ResetState
<1>4. QED
  BY <1>1, <1>2, <1>3

(* AsyncForward follows a null pointer only in a model that was not built  *)
(* whole, or not compiled whole and once, whatever its graph and however   *)
(* often the passes were called.                                           *)
THEOREM CrashesOnlyAfterFailure == Spec => []CrashOnlyAfterFailure
<1>1. Init => CrashOnlyAfterFailure
  BY DEF Init, BuilderInit, CrashOnlyAfterFailure
<1>2. QED
  BY <1>1, BuilderAlways, CrashStep, PTL DEF Spec

-----------------------------------------------------------------------------
(* Rows: what the builder calls write down about a unit.                   *)

Rows ==
  /\ meta \in [Units -> Row]
  /\ \A u \in Units :
       /\ u \in Sources <=> Inputs(u) = {}
       /\ u \in Losses => DOMAIN meta[u].input = 1 .. 2
       /\ u \notin Sources => 1 \in DOMAIN meta[u].input
       /\ u \notin Losses => meta[u].shape # <<>>
       /\ \A v \in Inputs(u) :
            v \in Units /\ \E k \in DOMAIN outs[v] : outs[v][k] = u

Arity(type) ==
  CASE type \in {"Fetcher", "Constant"} -> 0
    [] type \in {"Dense", "Activation"} -> 1
    [] type = "Loss"                    -> 2

Types == {"Fetcher", "Constant", "Dense", "Activation", "Loss"}

LEMMA AppendRows ==
  ASSUME BuilderInv, Rows, NEW producers \in Seq(Units), Link(producers),
         NEW type \in Types, Len(producers) = Arity(type),
         NEW shape \in Seq(Nat \ {0}), NEW weight \in Seq(Nat \ {0}),
         type # "Loss" => shape # <<>>,
         AppendUnit(type, producers, shape, weight)
  PROVE  Rows'
<1>1. /\ nextId \in Id
      /\ \A u \in Id :
           /\ \A j \in DOMAIN outs[u] :
                j \in DOMAIN outs'[u] /\ outs'[u][j] = outs[u][j]
           /\ (\E k \in DOMAIN producers : producers[k] = u) =>
                \E j \in DOMAIN outs'[u] : outs'[u][j] = nextId
  BY LinkNumbers DEF BuilderInv
<1>a. PICK id \in Id : id = nextId
  BY <1>1
<1>2. Units \subseteq Id /\ id \notin Units
  BY <1>a, BuilderAssumption DEF BuilderInv, Numbered, Id
<1>3. /\ Units' = Units \cup {id}
      /\ \A u \in Units : meta'[u] = meta[u]
      /\ meta'[id] = [type |-> type, input |-> producers,
                          shape |-> shape, weight |-> weight]
      /\ meta' = [u \in Units' |-> meta'[u]]
  BY <1>a, <1>2 DEF AppendUnit, Units
<1>4. /\ Len(producers) \in 0 .. 2 /\ DOMAIN producers = 1 .. Len(producers)
      /\ producers \in UNION {[1 .. k -> Id] : k \in 0 .. 2}
  <2>1. Len(producers) \in 0 .. 2
    BY DEF Arity, Types
  <2>2. /\ DOMAIN producers = 1 .. Len(producers)
        /\ producers \in [1 .. Len(producers) -> Id]
    BY <1>2
  <2>3. QED
    BY <2>1, <2>2
<1>5. meta'[id] \in Row
  BY <1>3, <1>4 DEF Row, Types
<1>6. meta' \in [Units' -> Row]
  BY <1>3, <1>5 DEF Rows
<1>7. ASSUME NEW u \in Units
      PROVE  /\ u \in Sources' <=> u \in Sources
             /\ u \in Losses' <=> u \in Losses
             /\ Inputs(u)' = Inputs(u)
  BY <1>3 DEF Sources, Losses, Inputs
<1>8. /\ id \in Sources' <=> type \in {"Fetcher", "Constant"}
      /\ id \in Losses' <=> type = "Loss"
      /\ Inputs(id)' = {producers[k] : k \in DOMAIN producers}
  BY <1>3 DEF Sources, Losses, Inputs
<1>9. ASSUME NEW u \in Units'
      PROVE  /\ u \in Sources' <=> Inputs(u)' = {}
             /\ u \in Losses' => DOMAIN meta'[u].input = 1 .. 2
             /\ u \notin Sources' => 1 \in DOMAIN meta'[u].input
             /\ u \notin Losses' => meta'[u].shape # <<>>
  <2>1. CASE u \in Units
    BY <1>3, <1>7, <2>1 DEF Rows
  <2>2. CASE u = id
    <3>1. /\ type \in {"Fetcher", "Constant"} <=> Len(producers) = 0
          /\ type = "Loss" <=> Len(producers) = 2
          /\ type \notin {"Fetcher", "Constant"} => Len(producers) \in 1 .. 2
      BY DEF Arity, Types
    <3>0. DOMAIN producers = 1 .. Len(producers) /\ Len(producers) \in 0 .. 2
      BY <1>4
    <3>2. Inputs(u)' = {} <=> Len(producers) = 0
      <4>1. Inputs(u)' = {} <=> DOMAIN producers = {}
        BY <1>8, <2>2
      <4>2. QED
        BY <3>0, <4>1
    <3>3. meta'[u].input = producers /\ meta'[u].shape = shape
      BY <1>3, <2>2
    <3>4. /\ u \in Sources' <=> type \in {"Fetcher", "Constant"}
          /\ u \in Losses' <=> type = "Loss"
      BY <1>8, <2>2
    <3>5. QED
      BY <3>0, <3>1, <3>2, <3>3, <3>4
  <2>3. QED
    BY <1>3, <2>1, <2>2
<1>10. ASSUME NEW u \in Units', NEW v \in Inputs(u)'
       PROVE  v \in Units' /\ \E k \in DOMAIN outs'[v] : outs'[v][k] = u
  <2>1. CASE u \in Units
    <3>1. v \in Units /\ \E k \in DOMAIN outs[v] : outs[v][k] = u
      BY <1>7, <2>1 DEF Rows
    <3>2. QED
      BY <1>1, <1>2, <1>3, <3>1
  <2>2. CASE u = id
    <3>1. \E k \in DOMAIN producers : producers[k] = v
      BY <1>8, <2>2
    <3>2. v \in Units
      BY <3>1
    <3>3. QED
      BY <1>1, <1>a, <1>2, <1>3, <2>2, <3>1, <3>2
  <2>3. QED
    BY <1>3, <2>1, <2>2
<1>11. QED
  BY <1>6, <1>9, <1>10 DEF Rows

(* A failed Dense links an id, which changes no row. *)
LEMMA RowsFrame ==
  ASSUME BuilderInv, Rows, meta' = meta,
         \A u \in Id : \A j \in DOMAIN outs[u] :
           j \in DOMAIN outs'[u] /\ outs'[u][j] = outs[u][j]
  PROVE  Rows'
<1>1. Units \subseteq Id
  BY BuilderAssumption DEF BuilderInv, Numbered, Id
<1>2. Units' = Units /\ Sources' = Sources /\ Losses' = Losses
      /\ \A u \in Units : Inputs(u)' = Inputs(u)
  BY DEF Units, Sources, Losses, Inputs
<1>3. ASSUME NEW u \in Units, NEW v \in Inputs(u)
      PROVE  v \in Units /\ \E k \in DOMAIN outs'[v] : outs'[v][k] = u
  <2>1. v \in Units /\ \E k \in DOMAIN outs[v] : outs[v][k] = u
    BY DEF Rows
  <2>2. QED
    BY <1>1, <2>1
<1>4. QED
  BY <1>2, <1>3 DEF Rows

LEMMA BuildRows ==
  ASSUME BuilderInv, Rows, Build
  PROVE  Rows'
<1>0. <<>> \in Seq(Units) /\ <<>> \in Seq(Nat \ {0})
  OBVIOUS
<1>1. ASSUME NEW s \in FetcherShapes, Fetcher(s) \/ Constant(s) PROVE Rows'
  <2>1. s \in Seq(Nat \ {0}) /\ s # <<>>
    BY BuilderAssumption DEF IsShape
  <2>2. Len(<<>>) = Arity("Fetcher") /\ Len(<<>>) = Arity("Constant")
    BY DEF Arity
  <2>3. QED
    BY <1>0, <1>1, <2>1, <2>2, AppendRows DEF Fetcher, Constant, Types
<1>2. ASSUME NEW src \in Units \ Losses, NEW n \in NumUnits, Dense(src, n)
      PROVE  Rows'
  <2>1. meta[src].shape \in Seq(Nat \ {0}) /\ meta[src].shape # <<>>
    BY DEF Rows, Row
  <2>2. NumCol(meta[src].shape) \in Nat \ {0}
    BY <2>1 DEF NumCol
  <2>3. n \in Nat \ {0}
    BY <1>2, BuilderAssumption DEF Dense
  <2>4. /\ <<n>> \in Seq(Nat \ {0}) /\ <<n>> # <<>>
        /\ <<NumCol(meta[src].shape), n>> \in Seq(Nat \ {0})
    BY <2>2, <2>3
  <2>5. <<src>> \in Seq(Units) /\ Len(<<src>>) = Arity("Dense")
    BY DEF Arity
  <2>6. QED
    BY <1>2, <2>4, <2>5, AppendRows DEF Dense, Types
<1>3. ASSUME NEW src \in Units \ Losses, DenseThrows(src) PROVE Rows'
  <2>1. <<src>> \in Seq(Units)
    OBVIOUS
  <2>2. QED
    BY <1>3, <2>1, LinkNumbers, RowsFrame DEF DenseThrows, BuilderInv
<1>4. ASSUME NEW src \in Units \ Losses, Activation(src) PROVE Rows'
  <2>1. meta[src].shape \in Seq(Nat \ {0}) /\ meta[src].shape # <<>>
    BY DEF Rows, Row
  <2>2. <<src>> \in Seq(Units) /\ Len(<<src>>) = Arity("Activation")
    BY DEF Arity
  <2>3. QED
    BY <1>0, <1>4, <2>1, <2>2, AppendRows DEF Activation, Types
<1>5. ASSUME NEW p \in Units, NEW l \in Units, Loss(p, l) PROVE Rows'
  <2>1. <<p, l>> \in Seq(Units) /\ Len(<<p, l>>) = Arity("Loss")
    BY DEF Arity
  <2>2. QED
    BY <1>0, <1>5, <2>1, AppendRows DEF Loss, Types
<1>6. QED
  BY <1>1, <1>2, <1>3, <1>4, <1>5 DEF Build

LEMMA RowsStep == BuilderInv /\ Rows /\ [Next]_vars => Rows'
<1> SUFFICES ASSUME BuilderInv, Rows, [Next]_vars PROVE Rows'
  OBVIOUS
<1>1. ASSUME UNCHANGED <<meta, outs>> PROVE Rows'
  BY <1>1, RowsFrame
<1>2. CASE Build
  BY <1>2, BuildRows
<1>3. CASE ~Build
  <2>1. UNCHANGED <<meta, outs>>
    BY <1>3, PassesBuildNothing
    DEF Next, Passes, vars, builder, metadata, CompileModel, Compile, MakeUnits
  <2>2. QED
    BY <1>1, <2>1
<1>4. QED
  BY <1>2, <1>3

LEMMA RowsStart == Init => Rows
<1> SUFFICES ASSUME Init PROVE Rows
  OBVIOUS
<1>1. Units = {} /\ meta = [u \in Units |-> meta[u]]
  BY DEF Init, BuilderInit, Units
<1>2. QED
  BY <1>1 DEF Rows

-----------------------------------------------------------------------------
(* The engine's variables keep their types; no output's State ever moves.  *)

EngineTypes ==
  /\ fin \in [Id -> [Id -> Nat]] /\ bin \in [Id -> [Id -> Nat]]
  /\ fout = [u \in Id |-> 0] /\ bout = [u \in Id |-> 0]
  /\ gradients \in [Id -> SUBSET Id]
  /\ input \in [Id -> [Id -> SUBSET (0 .. calls)]]
  /\ output \in [Id -> SUBSET (0 .. calls)]
  /\ calls \in Call /\ first \in 0 .. calls /\ ran \subseteq Units
  /\ trained \in [Id -> 0 .. calls]

LEMMA UnitsAreIds ==
  BuilderInv => Units \subseteq Id /\ unitMap \subseteq Units
BY BuilderAssumption DEF BuilderInv, Numbered, Handed, Id

LEMMA OutsTimes ==
  ASSUME BuilderInv, NEW u \in Id, NEW v
  PROVE  /\ Times(v, outs[u]) \in Nat
         /\ Times(v, outs[u]) > 0 <=> \E k \in DOMAIN outs[u] : outs[u][k] = v
BY TimesCounts DEF BuilderInv, Numbered

(* What a call has computed names that call or calls made before.          *)
LEMMA ComputedTypes ==
  ASSUME BuilderInv, Rows, EngineTypes, NEW u \in Units
  PROVE  Computed(u) \subseteq 0 .. calls + 1
<1>1. calls \in Nat
  BY AsyncAssumption DEF EngineTypes, Call
<1>2. u \in Id /\ Inputs(u) \subseteq Id
  BY UnitsAreIds DEF Rows
<1>3. /\ output[u] \subseteq 0 .. calls
      /\ \A v \in Inputs(u) : input[u][v] \subseteq 0 .. calls
  BY <1>2 DEF EngineTypes
<1>4. 0 .. calls \subseteq 0 .. calls + 1 /\ calls + 1 \in 0 .. calls + 1
  BY <1>1
<1>5. UNION {input[u][v] : v \in Inputs(u)} \subseteq 0 .. calls + 1
  BY <1>3, <1>4
<1>6. QED
  BY <1>3, <1>4, <1>5 DEF Computed

LEMMA RunTypes ==
  ASSUME BuilderInv, Rows, EngineTypes, NEW units \in SUBSET Units,
         NextCall, Run(units)
  PROVE  output' \in [Id -> SUBSET (0 .. calls')]
<1>1. calls \in Nat /\ calls' = calls + 1
  BY AsyncAssumption DEF EngineTypes, Call, NextCall
<1>2. ASSUME NEW u \in Id
      PROVE  (IF u \in units THEN Computed(u) ELSE output[u])
               \subseteq 0 .. calls'
  <2>1. output[u] \subseteq 0 .. calls /\ 0 .. calls \subseteq 0 .. calls'
    BY <1>1 DEF EngineTypes
  <2>2. QED
    BY <1>1, <2>1, ComputedTypes
<1>3. QED
  BY <1>2 DEF Run

(* The types that a step which makes a call, and no backward pass, keeps.  *)
LEMMA CallTypes ==
  ASSUME EngineTypes, NextCall
  PROVE  /\ calls' \in Call /\ calls' = calls + 1 /\ calls \in Nat
         /\ 0 .. calls \subseteq 0 .. calls'
         /\ input \in [Id -> [Id -> SUBSET (0 .. calls')]]
         /\ output \in [Id -> SUBSET (0 .. calls')]
         /\ first \in 0 .. calls' /\ trained \in [Id -> 0 .. calls']
<1>1. calls' \in Call /\ calls' = calls + 1 /\ calls \in Nat
  BY AsyncAssumption DEF EngineTypes, Call, NextCall
<1>2. 0 .. calls \subseteq 0 .. calls'
  BY <1>1
<1>3. QED
  BY <1>1, <1>2 DEF EngineTypes

LEMMA ForwardTypes ==
  ASSUME BuilderInv, Rows, EngineTypes, NEW cycle, AsyncForward(cycle)
  PROVE  EngineTypes'
<1>1. UNCHANGED <<metadata, compiled>>
  BY DEF AsyncForward, builder
<1>2. Ready(cycle) \subseteq Units /\ Units' = Units
  BY <1>1, UnitsAreIds DEF Ready, Units, metadata
<1>3. output' \in [Id -> SUBSET (0 .. calls')]
  BY <1>2, RunTypes DEF AsyncForward
<1>4. /\ calls' \in Call /\ calls' = calls + 1 /\ calls \in Nat
      /\ input \in [Id -> [Id -> SUBSET (0 .. calls')]]
      /\ first \in 0 .. calls' /\ trained \in [Id -> 0 .. calls']
  BY CallTypes DEF AsyncForward
<1>5. \A u, v \in Id : Times(v, outs[u]) \in Nat /\ fin[v][u] \in Nat
  BY OutsTimes DEF EngineTypes
<1>6. fin' \in [Id -> [Id -> Nat]]
  <2>1. fin' = [v \in Id |-> [u \in Id |->
          IF u \in Ready(cycle) /\ v \in Units
          THEN fin[v][u] + Times(v, outs[u]) ELSE fin[v][u]]]
    BY DEF AsyncForward, CopyForward
  <2>2. \A u, v \in Id : fin[v][u] + Times(v, outs[u]) \in Nat
    BY <1>5
  <2>3. QED
    BY <1>5, <2>1, <2>2
<1>7. input' \in [Id -> [Id -> SUBSET (0 .. calls')]]
  BY <1>3, <1>4 DEF AsyncForward, CopyForward
<1>8. first' \in 0 .. calls'
  BY <1>4 DEF AsyncForward
<1>9. QED
  BY <1>2, <1>3, <1>4, <1>6, <1>7, <1>8
  DEF AsyncForward, EngineTypes, backward

LEMMA ThrowTypes ==
  ASSUME BuilderInv, Rows, EngineTypes, NEW cycle, AsyncForwardThrows(cycle)
  PROVE  EngineTypes'
<1>1. PICK units \in SUBSET Ready(cycle) : Run(units) /\ ran' = ran \cup units
  BY DEF AsyncForwardThrows
<1>2. UNCHANGED <<metadata, compiled>>
  BY DEF AsyncForwardThrows, builder
<1>3. units \subseteq Units /\ Units' = Units
  BY <1>1, <1>2, UnitsAreIds DEF Ready, Units, metadata
<1>4. output' \in [Id -> SUBSET (0 .. calls')]
  BY <1>1, <1>3, RunTypes DEF AsyncForwardThrows
<1>5. QED
  BY <1>1, <1>3, <1>4, CallTypes DEF AsyncForwardThrows, EngineTypes, backward

LEMMA BackwardTypes ==
  ASSUME EngineTypes, UNCHANGED builder, NextCall, NEW copied, NEW counted,
         CopyBackward(copied), CountTrained(counted),
         UNCHANGED <<forward, gradients, bout, first, ran>>
  PROVE  EngineTypes'
<1>1. bin' \in [Id -> [Id -> Nat]]
  BY DEF CopyBackward, EngineTypes
<1>2. trained' \in [Id -> 0 .. calls']
  BY CallTypes DEF CountTrained, EngineTypes
<1>3. Units' = Units
  BY DEF Units, builder, metadata
<1>4. QED
  BY <1>1, <1>2, <1>3, CallTypes DEF EngineTypes, forward

LEMMA TypesFrame ==
  ASSUME EngineTypes, Units \subseteq Units',
         UNCHANGED <<forward, backward, calls, history>>
  PROVE  EngineTypes'
BY DEF EngineTypes, forward, backward, history

LEMMA TypesStep ==
  BuilderInv /\ Rows /\ EngineTypes /\ [Next]_vars => EngineTypes'
<1> SUFFICES ASSUME BuilderInv, Rows, EngineTypes, [Next]_vars
             PROVE  EngineTypes'
  OBVIOUS
<1>1. CASE UNCHANGED vars
  BY <1>1, TypesFrame DEF vars, builder, metadata, Units
<1>2. CASE Build /\ UNCHANGED <<forward, backward, calls, history>>
  <2>1. Units \subseteq Units'
    BY <1>2 DEF Build, Fetcher, Constant, Dense, DenseThrows, Activation,
       Loss, AppendUnit, Units
  <2>2. QED
    BY <1>2, <2>1, TypesFrame
<1>3. ASSUME NEW optimizer, CompileModel(optimizer) PROVE EngineTypes'
  <2>1. PICK units \in SUBSET Units :
          /\ Compile(optimizer, units)
          /\ output' = [u \in Id |->
                IF u \in units /\ meta[u].type = "Constant" THEN {}
                ELSE output[u]]
          /\ gradients' = [u \in Id |->
                IF u \in units \cap Hidden
                THEN {outs[u][k] : k \in DOMAIN outs[u]}
                ELSE gradients[u]]
          /\ UNCHANGED <<fin, fout, input, bin, bout, calls, history>>
    BY <1>3 DEF CompileModel
  <2>2. Units' = Units
    BY <2>1 DEF Compile, MakeUnits, metadata, Units
  <2>3. \A u \in Id : {outs[u][k] : k \in DOMAIN outs[u]} \subseteq Id
    BY BuilderAssumption DEF BuilderInv, Numbered, Id
  <2>4. QED
    BY <2>1, <2>2, <2>3 DEF EngineTypes, history
<1>4. CASE StartRunning
  BY <1>4, TypesFrame DEF StartRunning, metadata, Units
<1>5. ASSUME NEW cycle, AsyncForward(cycle) \/ AsyncForwardThrows(cycle)
      PROVE  EngineTypes'
  BY <1>5, ForwardTypes, ThrowTypes
<1>6. ASSUME NEW cycle, AsyncForwardCrashes(cycle) PROVE EngineTypes'
  <2>1. Units' = Units
    BY <1>6 DEF AsyncForwardCrashes, metadata, Units
  <2>2. QED
    BY <1>6, <2>1, CallTypes
    DEF AsyncForwardCrashes, EngineTypes, forward, backward, history
<1>7. ASSUME NEW cycle, AsyncBackward(cycle) \/ AsyncBackwardThrows(cycle)
      PROVE  EngineTypes'
  BY <1>7, BackwardTypes DEF AsyncBackward, AsyncBackwardThrows
<1>8. CASE ResetState
  <2>1. Units' = Units
    BY <1>8 DEF ResetState, builder, metadata, Units
  <2>2. QED
    BY <1>8, <2>1, CallTypes DEF ResetState, EngineTypes, NoState
<1>9. QED
  BY <1>1, <1>2, <1>3, <1>4, <1>5, <1>6, <1>7, <1>8 DEF Next

LEMMA TypesStart == Init => EngineTypes
BY AsyncAssumption DEF Init, EngineTypes, NoState, Call

-----------------------------------------------------------------------------
(* What the States say about AsyncForward.  A source runs in every call    *)
(* that runs anything, a unit above it in the second at the earliest; so   *)
(* where a State is 1 the data is that of the first call, and above a      *)
(* computed unit the copies of every source are past 1.                    *)

Copied(s, n) ==
  \A v \in Units : Times(v, outs[s]) > 0 => fin[v][s] >= n

Blank ==
  first = 0 => ran \subseteq Sources /\ \A v, u \in Id : fin[v][u] = 0

Fed ==
  /\ \A v \in Units, u \in Id : fin[v][u] > 0 => u \in unitMap
  /\ first # 0 => \A s \in Sources \cap unitMap : Copied(s, 1)
  /\ \A h \in Units \ Sources, v \in Units :
       fin[v][h] > 0 => \A s \in Sources \cap unitMap : Copied(s, 2)

Old ==
  /\ \A u \in unitMap : meta[u].type = "Constant" => output[u] = {}
  /\ \A v \in Units : \A u \in Inputs(v) :
       fin[v][u] = 1 => input[v][u] \subseteq {first}

Flow ==
  /\ phase \in {"build", "run", "crashed"}
  /\ phase = "build" => first = 0 /\ ran = {}
  /\ Blank /\ Fed /\ Old /\ FirstDataOnly /\ FetchedLabelIdle

LEMMA FlowBlank ==
  ASSUME first' = 0, ran' = {}, fin' = NoState, Units' \subseteq Id,
         Rows', phase' \in {"build", "run", "crashed"},
         \A u \in unitMap' : meta'[u].type = "Constant" => output'[u] = {}
  PROVE  Flow'
<1>1. \A v, u \in Id : fin'[v][u] = 0
  BY DEF NoState
<1>2. Blank'
  BY <1>1 DEF Blank
<1>3. Fed'
  BY <1>1 DEF Fed
<1>4. Old'
  BY <1>1 DEF Old, Rows
<1>5. QED
  BY <1>2, <1>3, <1>4 DEF Flow, FirstDataOnly, FetchedLabelIdle

LEMMA FlowFrame ==
  ASSUME Flow, UNCHANGED <<metadata, compiled, forward, first, ran>>,
         phase' = phase \/ phase' = "crashed"
  PROVE  Flow'
<1>1. /\ Units' = Units /\ Sources' = Sources /\ Losses' = Losses
      /\ \A v : Inputs(v)' = Inputs(v)
  BY DEF metadata, Units, Sources, Losses, Inputs
<1>2. Blank'
  BY <1>1 DEF Flow, Blank, forward
<1>3. Fed'
  BY <1>1 DEF Flow, Fed, Copied, forward, metadata, compiled
<1>4. Old'
  BY <1>1 DEF Flow, Old, forward, metadata, compiled
<1>5. FirstDataOnly' /\ FetchedLabelIdle'
  BY <1>1 DEF Flow, FirstDataOnly, FetchedLabelIdle, forward, metadata
<1>6. QED
  BY <1>2, <1>3, <1>4, <1>5 DEF Flow

LEMMA ReadyFacts ==
  ASSUME BuilderInv, Rows, EngineTypes, Flow, NEW cycle,
         NEW u \in Ready(cycle)
  PROVE  /\ u \in unitMap /\ u \in Units /\ u \in Id
         /\ Sources \cap unitMap \subseteq Ready(cycle)
         /\ u \notin Sources => first # 0 /\ Computed(u) \subseteq {first}
         /\ u \in Losses => (meta[u].input[1] \in Sources <=>
                              meta[u].input[2] \in Sources)
<1>1. u \in unitMap /\ u \in Units /\ u \in Id
  BY UnitsAreIds DEF Ready
<1>2. cycle = 0 /\ \A v \in Inputs(u) : fin[u][v] = 1
  BY <1>1 DEF Ready, IsForwardReady, EngineTypes
<1>3. Sources \cap unitMap \subseteq Ready(cycle)
  BY <1>2, UnitsAreIds DEF Rows, Ready, IsForwardReady, EngineTypes
<1>4. \A v \in Inputs(u) :
        /\ v \in Units /\ v \in Id /\ v \in unitMap /\ fin[u][v] = 1
        /\ Times(u, outs[v]) > 0
  <2>1. ASSUME NEW v \in Inputs(u)
        PROVE  v \in Units /\ v \in Id /\ Times(u, outs[v]) > 0
    BY <1>1, UnitsAreIds, OutsTimes DEF Rows
  <2>2. QED
    BY <1>1, <1>2, <2>1 DEF Flow, Fed
<1>5. ASSUME u \notin Sources
      PROVE  first # 0 /\ Computed(u) \subseteq {first}
  <2>1. PICK v : v \in Inputs(u)
    BY <1>1, <1>5 DEF Rows
  <2>2. first # 0
    BY <1>1, <1>4, <2>1 DEF Flow, Blank
  <2>3. \A w \in Inputs(u) : input[u][w] \subseteq {first}
    BY <1>1, <1>4 DEF Flow, Old
  <2>4. Computed(u) = UNION {input[u][w] : w \in Inputs(u)}
    BY <1>1, <1>5 DEF Computed, Sources
  <2>5. QED
    BY <2>2, <2>3, <2>4
<1>6. ASSUME u \in Losses
      PROVE  meta[u].input[1] \in Sources <=> meta[u].input[2] \in Sources
  <2>1. meta[u].input[1] \in Inputs(u) /\ meta[u].input[2] \in Inputs(u)
    BY <1>1, <1>6 DEF Rows, Inputs
  <2>2. ASSUME NEW s \in Inputs(u), NEW h \in Inputs(u),
               s \in Sources, h \notin Sources
        PROVE  FALSE
    <3>1. Copied(s, 2)
      BY <1>1, <1>4, <2>2 DEF Flow, Fed
    <3>2. QED
      BY <1>1, <1>4, <3>1 DEF Copied
  <2>3. QED
    BY <2>1, <2>2
<1>7. QED
  BY <1>1, <1>3, <1>5, <1>6

LEMMA ForwardFlow ==
  ASSUME BuilderInv, Rows, EngineTypes, Flow, NEW cycle, AsyncForward(cycle)
  PROVE  Flow'
<1> DEFINE R == Ready(cycle)
<1>1. /\ Units' = Units /\ Sources' = Sources /\ Losses' = Losses
      /\ \A v : Inputs(v)' = Inputs(v)
      /\ UNCHANGED <<meta, outs, unitMap>> /\ phase' = "run"
  BY DEF AsyncForward, NextCall, builder, metadata, compiled, Units, Sources,
         Losses, Inputs
<1>2. /\ \A u \in Id :
           output'[u] = IF u \in R THEN Computed(u) ELSE output[u]
      /\ \A v, u \in Id : fin'[v][u] =
           IF u \in R /\ v \in Units THEN fin[v][u] + Times(v, outs[u])
           ELSE fin[v][u]
      /\ \A v, u \in Id : input'[v][u] =
           IF u \in R /\ v \in Units /\ Times(v, outs[u]) > 0
           THEN output'[u] ELSE input[v][u]
      /\ first' = IF first = 0 /\ R # {} THEN calls + 1 ELSE first
      /\ ran' = ran \cup R
  BY DEF AsyncForward, Run, CopyForward
<1>3. \A u \in R :
        /\ u \in unitMap /\ u \in Units /\ u \in Id
        /\ Sources \cap unitMap \subseteq R
        /\ u \notin Sources => first # 0 /\ Computed(u) \subseteq {first}
        /\ u \in Losses => (meta[u].input[1] \in Sources <=>
                             meta[u].input[2] \in Sources)
  BY ReadyFacts
<1> HIDE DEF R
<1>4. /\ Units \subseteq Id /\ unitMap \subseteq Units /\ calls + 1 # 0
      /\ \A v, u \in Id : fin[v][u] \in Nat /\ Times(v, outs[u]) \in Nat
  <2>1. calls + 1 # 0
    BY CallTypes DEF AsyncForward
  <2>2. \A v, u \in Id : fin[v][u] \in Nat
    BY DEF EngineTypes
  <2>3. \A v, u \in Id : Times(v, outs[u]) \in Nat
    BY OutsTimes
  <2>4. QED
    BY <2>1, <2>2, <2>3, UnitsAreIds
<1>5. \A v, u \in Id : fin'[v][u] \in Nat /\ fin'[v][u] >= fin[v][u]
  BY <1>2, <1>4
<1>6. Blank'
  BY <1>1, <1>2, <1>3, <1>4 DEF Flow, Blank
<1>7. Fed'
  <2>1. ASSUME NEW v \in Units, NEW u \in Id, fin'[v][u] > 0
        PROVE  u \in unitMap
    BY <1>2, <1>3, <1>4, <2>1 DEF Flow, Fed
  <2>2. ASSUME NEW s \in Sources \cap unitMap, NEW v \in Units,
               Times(v, outs[s]) > 0, first' # 0
        PROVE  fin'[v][s] >= 1
    <3>1. CASE R = {}
      <4>1. first # 0
        BY <1>2, <2>2, <3>1
      <4>2. v \in Id /\ s \in Id /\ fin[v][s] >= 1
        BY <1>4, <2>2, <4>1 DEF Flow, Fed, Copied
      <4>3. fin[v][s] \in Nat /\ fin'[v][s] \in Nat /\ fin'[v][s] >= fin[v][s]
        BY <1>4, <1>5, <4>2
      <4>4. QED
        BY <4>2, <4>3
    <3>2. CASE R # {}
      <4>1. s \in R
        BY <1>3, <3>2
      <4>2. QED
        BY <1>2, <1>4, <2>2, <4>1
    <3>3. QED
      BY <3>1, <3>2
  <2>3. ASSUME NEW h \in Units \ Sources, NEW x \in Units, fin'[x][h] > 0,
               NEW s \in Sources \cap unitMap, NEW v \in Units,
               Times(v, outs[s]) > 0
        PROVE  fin'[v][s] >= 2
    <3>1. CASE fin[x][h] > 0
      <4>1. v \in Id /\ s \in Id /\ fin[v][s] >= 2
        BY <1>4, <2>3, <3>1 DEF Flow, Fed, Copied
      <4>2. fin[v][s] \in Nat /\ fin'[v][s] \in Nat /\ fin'[v][s] >= fin[v][s]
        BY <1>4, <1>5, <4>1
      <4>3. QED
        BY <4>1, <4>2
    <3>2. CASE ~(fin[x][h] > 0)
      <4>1. h \in R
        BY <1>2, <1>4, <2>3, <3>2
      <4>2. first # 0 /\ s \in R
        BY <1>3, <4>1
      <4>3. fin[v][s] >= 1
        BY <2>3, <4>2 DEF Flow, Fed, Copied
      <4>4. QED
        BY <1>2, <1>4, <2>3, <4>2, <4>3
    <3>3. QED
      BY <3>1, <3>2
  <2>4. QED
    BY <1>1, <2>1, <2>2, <2>3 DEF Fed, Copied
<1>8. Old'
  <2>1. ASSUME NEW u \in unitMap, meta[u].type = "Constant"
        PROVE  output'[u] = {}
    BY <1>2, <1>4, <2>1 DEF Flow, Old, Computed
  <2>2. ASSUME NEW v \in Units, NEW u \in Inputs(v), fin'[v][u] = 1
        PROVE  input'[v][u] \subseteq {first'}
    <3>1. u \in Id /\ v \in Id /\ Times(v, outs[u]) > 0
      BY <1>4, OutsTimes DEF Rows
    <3>2. CASE u \notin R
      <4>1. fin[v][u] = 1 /\ input'[v][u] = input[v][u]
        BY <1>2, <2>2, <3>1, <3>2
      <4>2. first # 0
        BY <3>1, <4>1 DEF Flow, Blank
      <4>3. QED
        BY <1>2, <4>1, <4>2 DEF Flow, Old
    <3>3. CASE u \in R
      <4>1. input'[v][u] = Computed(u)
        BY <1>2, <3>1, <3>3
      <4>2. CASE u \notin Sources
        BY <1>2, <1>3, <3>3, <4>1, <4>2
      <4>3. CASE u \in Sources
        <5>1. first = 0
          <6>1. ASSUME first # 0 PROVE FALSE
            <7>1. fin[v][u] >= 1
              BY <1>3, <3>1, <3>3, <4>3, <6>1 DEF Flow, Fed, Copied
            <7>2. fin'[v][u] >= 2
              BY <1>2, <1>4, <3>1, <3>3, <7>1
            <7>3. QED
              BY <2>2, <7>2
          <6>2. QED
            BY <6>1
        <5>2. first' = calls + 1
          BY <1>2, <3>3, <5>1
        <5>3. Computed(u) \subseteq {calls + 1}
          <6>1. CASE meta[u].type = "Fetcher"
            BY <6>1 DEF Computed
          <6>2. CASE meta[u].type = "Constant"
            BY <1>3, <3>3, <6>2 DEF Computed, Flow, Old
          <6>3. QED
            BY <4>3, <6>1, <6>2 DEF Sources
        <5>4. QED
          BY <4>1, <5>2, <5>3
      <4>4. QED
        BY <4>2, <4>3
    <3>4. QED
      BY <3>2, <3>3
  <2>3. QED
    BY <1>1, <2>1, <2>2 DEF Old
<1>9. FirstDataOnly'
  <2>1. ASSUME NEW u \in ran' \ Sources PROVE output'[u] \subseteq {first'}
    <3>1. CASE u \in R
      BY <1>2, <1>3, <2>1, <3>1
    <3>2. CASE u \notin R
      <4>1. u \in ran \ Sources /\ u \in Id
        BY <1>2, <1>4, <2>1, <3>2 DEF EngineTypes
      <4>2. first # 0
        BY <4>1 DEF Flow, Blank
      <4>3. QED
        BY <1>2, <3>2, <4>1, <4>2 DEF Flow, FirstDataOnly
    <3>3. QED
      BY <3>1, <3>2
  <2>2. QED
    BY <1>1, <2>1 DEF FirstDataOnly
<1>10. FetchedLabelIdle'
  BY <1>1, <1>2, <1>3 DEF Flow, FetchedLabelIdle
<1>11. QED
  BY <1>1, <1>6, <1>7, <1>8, <1>9, <1>10 DEF Flow

LEMMA ThrowFlow ==
  ASSUME BuilderInv, Rows, EngineTypes, Flow, NEW cycle,
         AsyncForwardThrows(cycle)
  PROVE  Flow'
<1>1. PICK units \in SUBSET Ready(cycle) : Run(units) /\ ran' = ran \cup units
  BY DEF AsyncForwardThrows
<1>2. /\ Units' = Units /\ Sources' = Sources /\ Losses' = Losses
      /\ \A v : Inputs(v)' = Inputs(v)
      /\ UNCHANGED <<meta, outs, unitMap, fin, input, first>>
      /\ phase' = "run"
  BY DEF AsyncForwardThrows, NextCall, builder, metadata, compiled, Units,
         Sources, Losses, Inputs
<1>3. \A u \in units :
        /\ u \in unitMap /\ u \in Units /\ u \in Id
        /\ u \notin Sources => first # 0 /\ Computed(u) \subseteq {first}
        /\ u \in Losses => (meta[u].input[1] \in Sources <=>
                             meta[u].input[2] \in Sources)
  BY <1>1, ReadyFacts
<1>4. \A u \in Id : output'[u] = IF u \in units THEN Computed(u) ELSE output[u]
  BY <1>1 DEF Run
<1>5. Blank'
  BY <1>1, <1>2, <1>3 DEF Flow, Blank
<1>6. Fed'
  BY <1>2 DEF Flow, Fed, Copied
<1>7. Old'
  BY <1>2, <1>4, UnitsAreIds DEF Flow, Old, Computed
<1>8. FirstDataOnly'
  BY <1>1, <1>2, <1>3, <1>4, UnitsAreIds DEF Flow, FirstDataOnly, EngineTypes
<1>9. FetchedLabelIdle'
  BY <1>1, <1>2, <1>3 DEF Flow, FetchedLabelIdle
<1>10. QED
  BY <1>2, <1>5, <1>6, <1>7, <1>8, <1>9 DEF Flow

(* While the model is built nothing has run yet. *)
LEMMA BuildFrame ==
  ASSUME BuilderInv, Build
  PROVE  /\ phase = "build" /\ UNCHANGED <<phase, unitMap>>
         /\ Units \subseteq Units'
         /\ \A u \in Units : meta'[u] = meta[u]
<1>1. nextId \notin Units
  BY BuilderAssumption DEF BuilderInv, Numbered
<1>2. QED
  BY <1>1 DEF Build, Fetcher, Constant, Dense, DenseThrows, Activation, Loss,
     Link, AppendUnit, Units, compiled

LEMMA HandedOutIds == \A n \in 0 .. MaxUnits : 0 .. n - 1 \subseteq Id
BY BuilderAssumption DEF Id

LEMMA FlowStep ==
  BuilderInv /\ Rows /\ EngineTypes /\ Flow /\ [Next]_vars => Flow'
<1> SUFFICES ASSUME BuilderInv, Rows, EngineTypes, Flow, [Next]_vars
             PROVE  Flow'
  OBVIOUS
<1>1. BuilderInv' /\ Rows'
  BY BuilderStep, RowsStep
<1>2. Units' \subseteq Id
  <2>1. nextId' \in 0 .. MaxUnits /\ Units' \subseteq 0 .. nextId' - 1
    BY <1>1 DEF BuilderInv, Numbered
  <2>2. QED
    BY <2>1, HandedOutIds
<1>3. \A u \in unitMap : meta[u].type = "Constant" => output[u] = {}
  BY DEF Flow, Old
<1>4. ASSUME phase = "build" PROVE first = 0 /\ ran = {} /\ fin = NoState
  <2>1. first = 0 /\ ran = {} /\ \A v, u \in Id : fin[v][u] = 0
    BY <1>4 DEF Flow, Blank
  <2>2. fin \in [Id -> [Id -> Nat]]
    BY DEF EngineTypes
  <2>3. \A v \in Id : fin[v] = [u \in Id |-> 0]
    BY <2>1, <2>2
  <2>4. fin = [v \in Id |-> fin[v]]
    BY <2>2
  <2>5. QED
    BY <2>1, <2>3, <2>4 DEF NoState
<1>5. CASE UNCHANGED vars
  BY <1>5, FlowFrame DEF vars, builder, history
<1>6. CASE Build /\ UNCHANGED <<forward, backward, calls, history>>
  <2>1. /\ phase = "build" /\ UNCHANGED <<phase, unitMap>>
        /\ \A u \in Units : meta'[u] = meta[u]
    BY <1>6, BuildFrame
  <2>2. first' = 0 /\ ran' = {} /\ fin' = NoState /\ output' = output
    BY <1>4, <1>6, <2>1 DEF forward, history, NoState
  <2>3. \A u \in unitMap' : meta'[u].type = "Constant" => output'[u] = {}
    BY <1>3, <2>1, <2>2, UnitsAreIds
  <2>4. QED
    BY <1>1, <1>2, <2>1, <2>2, <2>3, FlowBlank
<1>7. ASSUME NEW optimizer, CompileModel(optimizer) PROVE Flow'
  <2>1. PICK units \in SUBSET Units :
          /\ Compile(optimizer, units)
          /\ output' = [u \in Id |->
                IF u \in units /\ meta[u].type = "Constant" THEN {}
                ELSE output[u]]
          /\ UNCHANGED <<fin, history>>
    BY <1>7 DEF CompileModel
  <2>2. /\ phase = "build" /\ UNCHANGED <<phase, meta>>
        /\ unitMap' = unitMap \cup units
    BY <2>1 DEF Compile, MakeUnits, metadata
  <2>3. first' = 0 /\ ran' = {} /\ fin' = NoState
    BY <1>4, <2>1, <2>2 DEF history, NoState
  <2>4. \A u \in unitMap' : meta'[u].type = "Constant" => output'[u] = {}
    BY <1>3, <2>1, <2>2, UnitsAreIds
  <2>5. QED
    BY <1>1, <1>2, <2>2, <2>3, <2>4, FlowBlank
<1>8. CASE StartRunning
  <2>1. /\ phase = "build" /\ phase' = "run"
        /\ UNCHANGED <<meta, unitMap, output, first, ran, fin>>
    BY <1>8 DEF StartRunning, metadata, compiled, forward, history
  <2>2. QED
    BY <1>1, <1>2, <1>3, <1>4, <2>1, FlowBlank DEF NoState
<1>9. ASSUME NEW cycle, AsyncForward(cycle) \/ AsyncForwardThrows(cycle)
      PROVE  Flow'
  BY <1>9, ForwardFlow, ThrowFlow
<1>10. ASSUME NEW cycle, AsyncForwardCrashes(cycle) PROVE Flow'
  BY <1>10, FlowFrame DEF AsyncForwardCrashes, history
<1>11. ASSUME NEW cycle, AsyncBackward(cycle) \/ AsyncBackwardThrows(cycle)
       PROVE  Flow'
  BY <1>11, FlowFrame DEF AsyncBackward, AsyncBackwardThrows, builder
<1>12. CASE ResetState
  <2>1. /\ first' = 0 /\ ran' = {} /\ fin' = NoState /\ phase' = "run"
        /\ UNCHANGED <<meta, unitMap, output>>
    BY <1>12
    DEF ResetState, NextCall, builder, metadata, compiled, NoState
  <2>2. QED
    BY <1>1, <1>2, <1>3, <2>1, FlowBlank
<1>13. QED
  BY <1>5, <1>6, <1>7, <1>8, <1>9, <1>10, <1>11, <1>12 DEF Next

LEMMA FlowStart == Init => Flow
<1> SUFFICES ASSUME Init PROVE Flow
  OBVIOUS
<1>1. Units = {} /\ unitMap = {} /\ phase = "build" /\ first = 0 /\ ran = {}
  BY DEF Init, BuilderInit, Units
<1>2. \A v, u \in Id : fin[v][u] = 0
  BY DEF Init, NoState
<1>3. Blank /\ Fed /\ Old
  BY <1>1, <1>2 DEF Blank, Fed, Old
<1>4. QED
  BY <1>1, <1>3 DEF Flow, FirstDataOnly, FetchedLabelIdle

LEMMA FlowAlways == Spec => [](BuilderInv /\ Rows /\ EngineTypes /\ Flow)
<1>1. Init => BuilderInv /\ Rows /\ EngineTypes /\ Flow
  BY BuilderStart, RowsStart, TypesStart, FlowStart
<1>2. BuilderInv /\ Rows /\ EngineTypes /\ Flow /\ [Next]_vars
        => (BuilderInv /\ Rows /\ EngineTypes /\ Flow)'
  BY BuilderStep, RowsStep, TypesStep, FlowStep
<1>3. QED
  BY <1>1, <1>2, PTL DEF Spec

(* What a hidden unit or a loss puts out comes from the data of the first  *)
(* AsyncForward that returned since ResetState, however many follow it and *)
(* whatever their loaders return.                                          *)
THEOREM FirstDataAlways == Spec => []FirstDataOnly
<1>1. Flow => FirstDataOnly
  BY DEF Flow
<1>2. QED
  BY <1>1, FlowAlways, PTL

(* No loss with a computed prediction and a fetched or constant label ever *)
(* runs under AsyncForward, in any model and any order of calls.           *)
THEOREM FetchedLabelAlwaysIdle == Spec => []FetchedLabelIdle
<1>1. Flow => FetchedLabelIdle
  BY DEF Flow
<1>2. QED
  BY <1>1, FlowAlways, PTL

-----------------------------------------------------------------------------
(* What the States say about AsyncBackward.  A gradient that was copied    *)
(* comes from a unit that was made and has that one target.  Once a hidden *)
(* unit between losses only was trained, State of each gradient is past 1. *)

Trained(u) ==
  /\ trained[u] <= 1
  /\ trained[u] = 1 => \A l \in gradients[u] : bin[u][l] >= 2

Gradients ==
  /\ \A w, x \in Id : bin[w][x] > 0 => x \in unitMap /\ w = Target(x)
  /\ \A u \in Id : gradients[u] # {} => u \in Hidden
  /\ phase = "build" =>
       \A u \in Id : trained[u] = 0 /\ \A x \in Id : bin[u][x] = 0
  /\ unitMap = Units =>
       \A u \in Hidden :
         gradients[u] # {} /\ gradients[u] \subseteq Losses => Trained(u)

LEMMA GradientsBlank ==
  ASSUME Hidden' \subseteq Id,
         \A u \in Id : trained'[u] = 0 /\ \A x \in Id : bin'[u][x] = 0,
         \A u \in Id : gradients'[u] # {} => u \in Hidden'
  PROVE  Gradients'
<1>1. \A u \in Hidden' : Trained(u)'
  BY DEF Trained
<1>2. \A w, x \in Id : ~(bin'[w][x] > 0)
  OBVIOUS
<1>3. QED
  BY <1>1, <1>2 DEF Gradients

LEMMA GradientsFrame ==
  ASSUME Gradients, UNCHANGED <<metadata, compiled, backward, trained>>,
         phase' = "build" => phase = "build"
  PROVE  Gradients'
<1>1. /\ Units' = Units /\ Hidden' = Hidden /\ Losses' = Losses
      /\ \A u : Target(u)' = Target(u)
      /\ UNCHANGED <<bin, gradients, trained, unitMap>>
  BY DEF metadata, compiled, backward, Units, Hidden, Losses, Target
<1>2. \A u : Trained(u) => Trained(u)'
  BY <1>1 DEF Trained
<1>3. QED
  BY <1>1, <1>2 DEF Gradients

(* Where every unit was made each gradient finds the unit it is for. *)
LEMMA TargetsMade ==
  ASSUME BuilderInv, Rows, NEW u \in Units \ Sources
  PROVE  Target(u) \in Units
BY DEF Rows, Inputs, Target

(* A backward step copies from some units that are ready and counts them.  *)
LEMMA BackwardGradients ==
  ASSUME BuilderInv, Rows, EngineTypes, Gradients, NEW cycle, NEW copied,
         copied \subseteq {u \in unitMap : IsBackwardReady(u, cycle)},
         unitMap = Units =>
           copied = {u \in unitMap : IsBackwardReady(u, cycle)},
         CopyBackward(copied), UNCHANGED <<metadata, compiled, gradients>>,
         CountTrained({u \in unitMap : IsBackwardReady(u, cycle)}),
         phase' # "build"
  PROVE  Gradients'
<1> DEFINE ready == {u \in unitMap : IsBackwardReady(u, cycle)}
<1>1. /\ Units' = Units /\ Hidden' = Hidden /\ Losses' = Losses
      /\ \A u : Target(u)' = Target(u)
      /\ UNCHANGED <<unitMap, gradients>>
  BY DEF metadata, compiled, Units, Hidden, Losses, Target
<1>2. /\ \A w, x \in Id : bin'[w][x] =
           IF x \in copied /\ w = Target(x) /\ x \in gradients[w]
           THEN bin[w][x] + 1 ELSE bin[w][x]
      /\ \A u \in Id :
           trained'[u] = IF u \in ready THEN trained[u] + 1 ELSE trained[u]
  BY DEF CopyBackward, CountTrained
<1>3. /\ \A w, x \in Id : bin[w][x] \in Nat
      /\ \A u \in Id : trained[u] \in Nat /\ gradients[u] \subseteq Id
      /\ Hidden \subseteq Id
  BY UnitsAreIds, CallTypes, AsyncAssumption DEF EngineTypes, Hidden, Call
<1>4. \A w, x \in Id : bin'[w][x] \in Nat /\ bin'[w][x] >= bin[w][x]
  BY <1>2, <1>3
<1>5. \A w, x \in Id : bin'[w][x] > 0 => x \in unitMap /\ w = Target(x)
  BY <1>2, <1>3 DEF Gradients
<1>6. ASSUME unitMap = Units, NEW u \in Hidden, gradients[u] # {},
             gradients[u] \subseteq Losses
      PROVE  Trained(u)'
  <2>1. Trained(u)
    BY <1>6 DEF Gradients
  <2>2. CASE u \notin ready
    <3>1. trained'[u] = trained[u]
      BY <1>2, <1>3, <2>2
    <3>2. ASSUME NEW l \in gradients[u], bin[u][l] >= 2
          PROVE  bin'[u][l] >= 2
      <4>1. l \in Id /\ u \in Id
        BY <1>3
      <4>2. /\ bin[u][l] \in Nat /\ bin'[u][l] \in Nat
            /\ bin'[u][l] >= bin[u][l]
        BY <1>3, <1>4, <4>1
      <4>3. QED
        BY <3>2, <4>2
    <3>3. QED
      BY <1>1, <2>1, <3>1, <3>2 DEF Trained
  <2>3. CASE u \in ready
    <3>1. \A l \in gradients[u] : bin[u][l] = 1
      <4>1. u \in Id /\ bout[u] = 0
        BY <1>3 DEF EngineTypes
      <4>2. QED
        BY <2>3, <4>1 DEF IsBackwardReady
    <3>2. trained'[u] = 1
      <4>1. u \in Id /\ trained[u] \in Nat
        BY <1>3
      <4>2. trained[u] # 1
        BY <1>6, <2>1, <3>1 DEF Trained
      <4>3. trained[u] = 0
        BY <2>1, <4>1, <4>2 DEF Trained
      <4>4. QED
        BY <1>2, <2>3, <4>1, <4>3
    <3>3. ASSUME NEW l \in gradients[u] PROVE bin'[u][l] >= 2
      <4>1. l \in Id /\ u \in Id /\ l \in Losses
        BY <1>3, <1>6
      <4>2. l \in unitMap /\ u = Target(l)
        BY <3>1, <4>1 DEF Gradients
      <4>3. gradients[l] = {} /\ l \notin Sources /\ bout[l] = 0
        BY <4>1 DEF Gradients, Hidden, Losses, Sources, EngineTypes
      <4>4. bout[u] = 0 /\ cycle = 0
        <5>1. bout[u] = 0
          BY <4>1 DEF EngineTypes
        <5>2. QED
          BY <2>3, <5>1 DEF IsBackwardReady
      <4>5. l \in copied
        BY <1>6, <4>2, <4>3, <4>4 DEF IsBackwardReady
      <4>6. QED
        BY <1>2, <3>1, <4>1, <4>2, <4>5
    <3>4. QED
      BY <1>1, <3>2, <3>3 DEF Trained
  <2>4. QED
    BY <2>2, <2>3
<1>7. \A u \in Id : gradients'[u] # {} => u \in Hidden'
  BY <1>1 DEF Gradients
<1>8. QED
  BY <1>1, <1>5, <1>6, <1>7 DEF Gradients

LEMMA GradientsStep ==
  BuilderInv /\ Rows /\ EngineTypes /\ Gradients /\ [Next]_vars => Gradients'
<1> SUFFICES ASSUME BuilderInv, Rows, EngineTypes, Gradients, [Next]_vars
             PROVE  Gradients'
  OBVIOUS
<1>1. Hidden' \subseteq Id
  <2>1. BuilderInv'
    BY BuilderStep
  <2>2. nextId' \in 0 .. MaxUnits /\ Units' \subseteq 0 .. nextId' - 1
    BY <2>1 DEF BuilderInv, Numbered
  <2>3. QED
    BY <2>2, HandedOutIds DEF Hidden
<1>2. CASE UNCHANGED vars
  BY <1>2, GradientsFrame DEF vars, builder, history
<1>3. CASE Build /\ UNCHANGED <<forward, backward, calls, history>>
  <2>1. /\ phase = "build" /\ Units \subseteq Units'
        /\ \A u \in Units : meta'[u] = meta[u]
    BY <1>3, BuildFrame
  <2>2. Hidden \subseteq Hidden'
    BY <2>1 DEF Hidden
  <2>3. UNCHANGED <<bin, gradients, trained>>
    BY <1>3 DEF backward, history
  <2>4. QED
    BY <1>1, <2>1, <2>2, <2>3, GradientsBlank DEF Gradients
<1>4. ASSUME NEW optimizer, CompileModel(optimizer) PROVE Gradients'
  <2>1. PICK units \in SUBSET Units :
          /\ Compile(optimizer, units)
          /\ gradients' = [u \in Id |->
                IF u \in units \cap Hidden
                THEN {outs[u][k] : k \in DOMAIN outs[u]}
                ELSE gradients[u]]
          /\ UNCHANGED <<bin, history>>
    BY <1>4 DEF CompileModel
  <2>2. phase = "build" /\ Hidden' = Hidden
    BY <2>1 DEF Compile, MakeUnits, metadata, Hidden, Units
  <2>3. UNCHANGED <<bin, trained>>
    BY <2>1 DEF history
  <2>4. \A u \in Id : gradients'[u] # {} => u \in Hidden'
    BY <2>1, <2>2 DEF Gradients
  <2>5. QED
    BY <1>1, <2>2, <2>3, <2>4, GradientsBlank DEF Gradients
<1>5. CASE StartRunning
  BY <1>5, GradientsFrame DEF StartRunning, history
<1>6. ASSUME NEW cycle, \/ AsyncForward(cycle) \/ AsyncForwardThrows(cycle)
                        \/ AsyncForwardCrashes(cycle)
      PROVE  Gradients'
  BY <1>6, GradientsFrame
  DEF AsyncForward, AsyncForwardThrows, AsyncForwardCrashes, builder, history
<1>7. ASSUME NEW cycle, AsyncBackward(cycle) PROVE Gradients'
  <2>1. /\ UNCHANGED <<metadata, compiled, gradients>> /\ phase' = "run"
        /\ CopyBackward({u \in unitMap : IsBackwardReady(u, cycle)})
        /\ CountTrained({u \in unitMap : IsBackwardReady(u, cycle)})
    BY <1>7 DEF AsyncBackward, builder, NextCall
  <2>2. QED
    BY <2>1, BackwardGradients
<1>8. ASSUME NEW cycle, AsyncBackwardThrows(cycle) PROVE Gradients'
  <2> DEFINE ready == {u \in unitMap : IsBackwardReady(u, cycle)}
             whole == {u \in ready : Target(u) \in unitMap}
  <2>1. PICK units \in SUBSET whole : CopyBackward(units)
    BY <1>8 DEF AsyncBackwardThrows
  <2>2. /\ UNCHANGED <<metadata, compiled, gradients>> /\ phase' = "run"
        /\ CountTrained(ready) /\ whole # ready
    BY <1>8 DEF AsyncBackwardThrows, builder, NextCall
  <2>3. unitMap # Units
    BY <2>2, TargetsMade DEF IsBackwardReady
  <2>4. QED
    BY <2>1, <2>2, <2>3, BackwardGradients
<1>9. CASE ResetState
  <2>1. /\ \A u \in Id : trained'[u] = 0 /\ \A x \in Id : bin'[u][x] = 0
        /\ gradients' = gradients /\ Hidden' = Hidden
    BY <1>9 DEF ResetState, NoState, builder, metadata, Hidden, Units
  <2>2. QED
    BY <1>1, <2>1, GradientsBlank DEF Gradients
<1>10. QED
  BY <1>2, <1>3, <1>4, <1>5, <1>6, <1>7, <1>8, <1>9 DEF Next

LEMMA GradientsStart == Init => Gradients
<1> SUFFICES ASSUME Init PROVE Gradients
  OBVIOUS
<1>1. \A u \in Id : /\ trained[u] = 0 /\ gradients[u] = {}
                    /\ \A x \in Id : bin[u][x] = 0
  BY DEF Init, NoState
<1>2. Hidden = {}
  BY DEF Init, BuilderInit, Hidden, Units
<1>3. QED
  BY <1>1, <1>2 DEF Gradients

(* A hidden unit that feeds losses only is trained at most once between    *)
(* two ResetStates in a model compiled whole, however often AsyncBackward  *)
(* is called and with which cycles.                                        *)
THEOREM OneGradientAlways == Spec => []OneGradient
<1>1. Gradients => OneGradient
  BY DEF Gradients, Trained, OneGradient
<1>2. BuilderInv /\ Rows /\ EngineTypes /\ Gradients /\ [Next]_vars
        => Gradients'
  BY GradientsStep
<1>3. Init => Gradients
  BY GradientsStart
<1>4. QED
  BY <1>1, <1>2, <1>3, FlowAlways, PTL DEF Spec

LEMMA SequencesGrow ==
  ASSUME NEW S, NEW T, S \subseteq T
  PROVE  Seq(S) \subseteq Seq(T)
OBVIOUS

(* Everything keeps its type, and no data come from a call yet to be made. *)
THEOREM TypesAlways == Spec => []TypeOK
<1>1. BuilderInv /\ Rows /\ EngineTypes /\ Flow => TypeOK
  <2> SUFFICES ASSUME BuilderInv, Rows, EngineTypes, Flow PROVE TypeOK
    OBVIOUS
  <2>1. Units \subseteq Id /\ nextId \in 0 .. MaxUnits
    BY UnitsAreIds DEF BuilderInv, Numbered
  <2>2. outs \in [Id -> Seq(Id)]
    <3>1. outs \in [Id -> Seq(0 .. nextId - 1)] /\ 0 .. nextId - 1 \subseteq Id
      BY HandedOutIds DEF BuilderInv, Numbered
    <3>2. Seq(0 .. nextId - 1) \subseteq Seq(Id)
      BY <3>1, SequencesGrow
    <3>3. QED
      BY <3>1, <3>2
  <2>3. made \in [Id -> 0 .. MaxCompiles]
    BY BuilderAssumption DEF BuilderInv, Handed
  <2>4. fout \in [Id -> Nat] /\ bout \in [Id -> Nat]
    BY DEF EngineTypes
  <2>5. QED
    BY <2>1, <2>2, <2>3, <2>4
    DEF TypeOK, BuilderTypeOK, BuilderInv, Handed, Rows, EngineTypes, Flow
<1>2. QED
  BY <1>1, FlowAlways, PTL

-----------------------------------------------------------------------------
(* Shaped: what the builder calls say of a unit's shapes.  Fitted: what    *)
(* the units' own checks add, once a unit was made.                        *)
Shaped ==
  \A u \in Units :
    /\ \A k \in DOMAIN meta[u].input : meta[u].input[k] \in Units \ Losses
    /\ meta[u].type = "Dense" =>
         \E n \in Nat \ {0} :
           /\ meta[u].shape = <<n>>
           /\ meta[u].weight = <<NumCol(InputShape(u, 1)), n>>
    /\ meta[u].type = "Activation" => meta[u].shape = InputShape(u, 1)

Fitted ==
  \A u \in unitMap :
    /\ meta[u].type = "Dense" => Dim(InputShape(u, 1)) = 1
    /\ u \in Losses => InputShape(u, 1) = InputShape(u, 2)

(* The elements of a vector and of a matrix. *)
LEMMA VectorSize ==
  ASSUME NEW a \in Nat
  PROVE  Size(<<a>>) = a
<1> DEFINE Product(f) == f = [i \in 0 .. Len(<<a>>) |->
                               IF i = 0 THEN 1 ELSE f[i - 1] * <<a>>[i]]
<1>1. Len(<<a>>) = 1
  OBVIOUS
<1>2. \E f : Product(f)
  <2> DEFINE f == [i \in 0 .. 1 |-> IF i = 0 THEN 1 ELSE a]
  <2>1. Product(f)
    OBVIOUS
  <2> HIDE DEF f, Product
  <2>2. QED BY <2>1
<1>3. \A f : Product(f) => f[1] = a
  OBVIOUS
<1> DEFINE product == CHOOSE f : Product(f)
<1>4. Size(<<a>>) = product[1]
  BY <1>1 DEF Size
<1>5. Product(product)
  <2> HIDE DEF Product
  <2>1. QED BY <1>2
<1> HIDE DEF product, Product
<1>6. QED BY <1>3, <1>4, <1>5

LEMMA MatrixSize ==
  ASSUME NEW a \in Nat, NEW b \in Nat
  PROVE  Size(<<a, b>>) = a * b
<1> DEFINE Product(f) == f = [i \in 0 .. Len(<<a, b>>) |->
                               IF i = 0 THEN 1 ELSE f[i - 1] * <<a, b>>[i]]
<1>1. Len(<<a, b>>) = 2
  OBVIOUS
<1>2. \E f : Product(f)
  <2> DEFINE f == [i \in 0 .. 2 |-> IF i = 0 THEN 1
                                    ELSE IF i = 1 THEN a ELSE a * b]
  <2>1. Product(f)
    OBVIOUS
  <2> HIDE DEF f, Product
  <2>2. QED BY <2>1
<1>3. \A f : Product(f) => f[2] = a * b
  OBVIOUS
<1> DEFINE product == CHOOSE f : Product(f)
<1>4. Size(<<a, b>>) = product[2]
  BY <1>1 DEF Size
<1>5. Product(product)
  <2> HIDE DEF Product
  <2>1. QED BY <1>2
<1> HIDE DEF product, Product
<1>6. QED BY <1>3, <1>4, <1>5

(* The three products of a DenseUnit on a vector of a with weights a by n. *)
LEMMA ProductsFit ==
  ASSUME NEW a \in Nat, NEW n \in Nat
  PROVE  /\ ProductFits(<<a>>, <<a, n>>, <<n>>)
         /\ ProductFits(<<n>>, GetTransposedShape(<<a, n>>), <<a>>)
         /\ ProductFits(GetTransposedShape(<<a>>), <<n>>, <<a, n>>)
<1>1. /\ NumRow(<<a>>) = 1 /\ NumCol(<<a>>) = a
      /\ NumRow(<<n>>) = 1 /\ NumCol(<<n>>) = n
  BY DEF NumRow, NumCol
<1>2. \A x, y \in Nat : NumRow(<<x, y>>) = x /\ NumCol(<<x, y>>) = y
  BY DEF NumRow, NumCol
<1>3. GetTransposedShape(<<a, n>>) = <<n, a>>
  <2>1. SetNumRows(<<a, n>>, n) = <<n, n>>
    BY DEF SetNumRows
  <2>2. SetNumCols(<<n, n>>, a) = <<n, a>>
    BY DEF SetNumCols
  <2>3. QED BY <1>2, <2>1, <2>2 DEF GetTransposedShape
<1>4. GetTransposedShape(<<a>>) = <<a, 1>>
  <2>1. SetNumRows(<<a>>, a) = <<a, a>>
    BY DEF SetNumRows
  <2>2. SetNumCols(<<a, a>>, 1) = <<a, 1>>
    BY DEF SetNumCols
  <2>3. QED BY <1>1, <2>1, <2>2 DEF GetTransposedShape
<1>5. /\ Size(<<a>>) = a /\ Size(<<n>>) = n /\ Size(<<a, n>>) = a * n
      /\ Size(<<n, a>>) = n * a /\ Size(<<a, 1>>) = a * 1
  BY VectorSize, MatrixSize
<1>6. 1 * a = a /\ 1 * n = n /\ 1 \in Nat
  OBVIOUS
<1>7. QED BY <1>1, <1>2, <1>3, <1>4, <1>5, <1>6 DEF ProductFits

LEMMA AppendShaped ==
  ASSUME BuilderInv, Rows, Shaped, Fitted,
         NEW producers \in Seq(Units \ Losses), Link(producers),
         NEW type \in Types, NEW shape, NEW weight, unitMap' = unitMap,
         type \in {"Dense", "Activation"} => 1 \in DOMAIN producers,
         type = "Dense" =>
           \E n \in Nat \ {0} :
             /\ shape = <<n>>
             /\ weight = <<NumCol(meta[producers[1]].shape), n>>,
         type = "Activation" => shape = meta[producers[1]].shape,
         AppendUnit(type, producers, shape, weight)
  PROVE  Shaped' /\ Fitted'
<1>1. nextId \notin Units
  <2>1. nextId \in Nat /\ Units \subseteq 0 .. nextId - 1
    BY BuilderAssumption DEF BuilderInv, Numbered
  <2>2. QED BY <2>1
<1>2. /\ Units' = Units \cup {nextId}
      /\ \A u \in Units : meta'[u] = meta[u]
      /\ meta'[nextId] = [type |-> type, input |-> producers,
                          shape |-> shape, weight |-> weight]
  BY <1>1 DEF AppendUnit, Units
<1>3. /\ \A u \in Units : u \in Losses' <=> u \in Losses
      /\ Units \ Losses \subseteq Units' \ Losses'
  BY <1>2 DEF Losses
<1>4. ASSUME NEW u \in Units, NEW k \in DOMAIN meta[u].input
      PROVE  /\ meta'[u].input[k] \in Units' \ Losses'
             /\ InputShape(u, k)' = InputShape(u, k)
  BY <1>2, <1>3 DEF Shaped, InputShape
<1>5. \A k \in DOMAIN producers :
        /\ producers[k] \in Units \ Losses
        /\ meta'[producers[k]] = meta[producers[k]]
  BY <1>2
<1>6. ASSUME NEW u \in Units'
      PROVE  /\ \A k \in DOMAIN meta'[u].input :
                  meta'[u].input[k] \in Units' \ Losses'
             /\ meta'[u].type = "Dense" =>
                  \E n \in Nat \ {0} :
                    /\ meta'[u].shape = <<n>>
                    /\ meta'[u].weight = <<NumCol(InputShape(u, 1)'), n>>
             /\ meta'[u].type = "Activation" =>
                  meta'[u].shape = InputShape(u, 1)'
  <2>1. CASE u \in Units
    <3>1. /\ meta'[u] = meta[u]
          /\ u \notin Sources => 1 \in DOMAIN meta[u].input
      BY <1>2, <2>1 DEF Rows
    <3>2. meta[u].type \in {"Dense", "Activation"} =>
            InputShape(u, 1)' = InputShape(u, 1)
      BY <1>4, <2>1, <3>1 DEF Sources
    <3>3. QED BY <1>4, <2>1, <3>1, <3>2 DEF Shaped
  <2>2. CASE u = nextId
    <3>1. InputShape(u, 1)' = meta'[producers[1]].shape
      BY <1>2, <2>2 DEF InputShape
    <3>2. type \in {"Dense", "Activation"} =>
            InputShape(u, 1)' = meta[producers[1]].shape
      BY <1>5, <3>1
    <3>3. QED BY <1>2, <1>3, <1>5, <2>2, <3>2
  <2>3. QED BY <1>2, <2>1, <2>2
<1>7. Shaped'
  BY <1>6 DEF Shaped
<1>8. ASSUME NEW u \in unitMap
      PROVE  /\ meta'[u].type = "Dense" => Dim(InputShape(u, 1)') = 1
             /\ u \in Losses' => InputShape(u, 1)' = InputShape(u, 2)'
  <2>1. u \in Units
    BY DEF BuilderInv, Handed
  <2>2. /\ u \notin Sources => 1 \in DOMAIN meta[u].input
        /\ u \in Losses => DOMAIN meta[u].input = 1 .. 2
    BY <2>1 DEF Rows
  <2>3. meta[u].type = "Dense" => InputShape(u, 1)' = InputShape(u, 1)
    BY <1>4, <2>1, <2>2 DEF Sources
  <2>4. u \in Losses => /\ InputShape(u, 1)' = InputShape(u, 1)
                        /\ InputShape(u, 2)' = InputShape(u, 2)
    BY <1>4, <2>1, <2>2
  <2>5. QED BY <1>2, <1>3, <2>1, <2>3, <2>4 DEF Fitted
<1>9. QED BY <1>7, <1>8 DEF Fitted

LEMMA BuildShaped ==
  ASSUME BuilderInv, Rows, Shaped, Fitted, Build
  PROVE  Shaped' /\ Fitted'
<1> USE DEF compiled
<1>1. ASSUME NEW s, Fetcher(s) \/ Constant(s) PROVE Shaped' /\ Fitted'
  <2>1. <<>> \in Seq(Units \ Losses)
    OBVIOUS
  <2>2. QED BY <1>1, <2>1, AppendShaped DEF Fetcher, Constant, Types
<1>2. ASSUME NEW src \in Units \ Losses, NEW n \in NumUnits, Dense(src, n)
      PROVE  Shaped' /\ Fitted'
  <2>1. n \in Nat \ {0}
    BY <1>2, BuilderAssumption DEF Dense
  <2>2. <<src>> \in Seq(Units \ Losses) /\ 1 \in DOMAIN <<src>>
        /\ <<src>>[1] = src
    OBVIOUS
  <2>3. QED BY <1>2, <2>1, <2>2, AppendShaped DEF Dense, Types
<1>3. ASSUME NEW src \in Units \ Losses, DenseThrows(src)
      PROVE  Shaped' /\ Fitted'
  BY <1>3
  DEF DenseThrows, Shaped, Fitted, Units, Losses, InputShape
<1>4. ASSUME NEW src \in Units \ Losses, Activation(src)
      PROVE  Shaped' /\ Fitted'
  <2>1. <<src>> \in Seq(Units \ Losses) /\ 1 \in DOMAIN <<src>>
        /\ <<src>>[1] = src
    OBVIOUS
  <2>2. QED BY <1>4, <2>1, AppendShaped DEF Activation, Types
<1>5. ASSUME NEW p \in Units \ Losses, NEW l \in Units \ Losses, Loss(p, l)
      PROVE  Shaped' /\ Fitted'
  <2>1. <<p, l>> \in Seq(Units \ Losses)
    OBVIOUS
  <2>2. QED BY <1>5, <2>1, AppendShaped DEF Loss, Types
<1>6. QED BY <1>1, <1>2, <1>3, <1>4, <1>5 DEF Build

LEMMA CompileShaped ==
  ASSUME BuilderInv, Rows, Shaped, Fitted,
         NEW optimizer, NEW units \in SUBSET Units,
         Compile(optimizer, units)
  PROVE  Shaped' /\ Fitted'
<1>1. UNCHANGED meta /\ unitMap' = unitMap \cup units
  BY DEF Compile, MakeUnits, metadata
<1>2. \A u \in units : Creatable(u, optimizer)
  BY DEF Compile
<1>3. ASSUME NEW u \in units
      PROVE  /\ meta[u].type = "Dense" => Dim(InputShape(u, 1)) = 1
             /\ u \in Losses => InputShape(u, 1) = InputShape(u, 2)
  <2>1. CASE meta[u].type = "Dense"
    BY <1>2, <2>1 DEF Creatable, CheckShape, Sources, Losses
  <2>2. CASE u \in Losses
    BY <1>2, <2>2 DEF Creatable, CheckArguments, Sources, Losses
  <2>3. QED BY <2>1, <2>2
<1>4. QED
  BY <1>1, <1>3 DEF Shaped, Fitted, Units, Losses, InputShape

LEMMA ShapedStep ==
  BuilderInv /\ Rows /\ Shaped /\ Fitted /\ [Next]_vars => Shaped' /\ Fitted'
<1> SUFFICES ASSUME BuilderInv, Rows, Shaped, Fitted, [Next]_vars
             PROVE  Shaped' /\ Fitted'
  OBVIOUS
<1>1. ASSUME UNCHANGED <<meta, unitMap>> PROVE Shaped' /\ Fitted'
  BY <1>1 DEF Shaped, Fitted, Units, Losses, InputShape
<1>2. CASE Build
  BY <1>2, BuildShaped
<1>3. ASSUME NEW optimizer, CompileModel(optimizer) PROVE Shaped' /\ Fitted'
  BY <1>3, CompileShaped DEF CompileModel
<1>4. CASE Passes
  BY <1>1, <1>4, PassesBuildNothing DEF metadata, compiled
<1>5. CASE UNCHANGED vars
  BY <1>1, <1>5 DEF vars, builder, metadata, compiled
<1>6. QED BY <1>2, <1>3, <1>4, <1>5 DEF Next, Passes

LEMMA ShapedStart == Init => Shaped /\ Fitted
BY DEF Init, BuilderInit, Shaped, Fitted, Units

(* What every tensor of every unit made relies on: the matrices of Dense's *)
(* three products, the operands of a loss and both ends of every copy      *)
(* agree, whatever was built, whichever calls threw and however often      *)
(* Compile was tried (DenseUnit::m_checkShape and the other units' checks).*)
THEOREM ShapesAlwaysFit == Spec => []ShapesFit
<1>1. BuilderInv /\ Rows /\ Shaped /\ Fitted => ShapesFit
  <2> SUFFICES ASSUME BuilderInv, Rows, Shaped, Fitted, NEW u \in unitMap
      PROVE
        /\ meta[u].type = "Dense" =>
             LET w == meta[u].weight
             IN  /\ ProductFits(InputShape(u, 1), w, ForwardOutput(u))
                 /\ ProductFits(BackwardInput(u), GetTransposedShape(w),
                                BackwardOutput(u))
                 /\ ProductFits(GetTransposedShape(InputShape(u, 1)),
                                BackwardInput(u), w)
        /\ u \in Losses => ForwardOutput(u) = InputShape(u, 2)
        /\ \A k \in DOMAIN meta[u].input :
             LET v == meta[u].input[k]
             IN  /\ v \in unitMap => ForwardOutput(v) = InputShape(u, k)
                 /\ v \in Hidden /\ k = 1 =>
                      BackwardInput(v) = BackwardOutput(u)
    BY DEF ShapesFit
  <2>1. u \in Units
    BY DEF BuilderInv, Handed
  <2>2. ASSUME meta[u].type = "Dense"
        PROVE  LET w == meta[u].weight
               IN  /\ ProductFits(InputShape(u, 1), w, ForwardOutput(u))
                   /\ ProductFits(BackwardInput(u), GetTransposedShape(w),
                                  BackwardOutput(u))
                   /\ ProductFits(GetTransposedShape(InputShape(u, 1)),
                                  BackwardInput(u), w)
    <3>1. PICK n \in Nat \ {0} :
            /\ meta[u].shape = <<n>>
            /\ meta[u].weight = <<NumCol(InputShape(u, 1)), n>>
      BY <2>1, <2>2 DEF Shaped
    <3>2. meta[u].input[1] \in Units
      BY <2>1, <2>2 DEF Rows, Shaped, Sources
    <3>3. InputShape(u, 1) \in Seq(Nat \ {0}) /\ Len(InputShape(u, 1)) = 1
      BY <2>2, <3>2 DEF Rows, Row, InputShape, Fitted, Dim
    <3>4. PICK a \in Nat : InputShape(u, 1) = <<a>>
      BY <3>3
    <3>5. NumCol(<<a>>) = a
      BY DEF NumCol
    <3>6. /\ ForwardOutput(u) = <<n>> /\ BackwardInput(u) = <<n>>
          /\ BackwardOutput(u) = <<a>>
      BY <2>2, <3>1, <3>4 DEF ForwardOutput, BackwardInput, BackwardOutput,
         Losses
    <3>7. QED BY <3>1, <3>4, <3>5, <3>6, ProductsFit
  <2>3. u \in Losses => ForwardOutput(u) = InputShape(u, 2)
    BY DEF Fitted, ForwardOutput
  <2>4. ASSUME NEW k \in DOMAIN meta[u].input
        PROVE  LET v == meta[u].input[k]
               IN  /\ v \in unitMap => ForwardOutput(v) = InputShape(u, k)
                   /\ v \in Hidden /\ k = 1 =>
                        BackwardInput(v) = BackwardOutput(u)
    <3> DEFINE v == meta[u].input[k]
    <3>1. v \in Units \ Losses
      BY <2>1 DEF Shaped
    <3>2. ForwardOutput(v) = InputShape(u, k)
      BY <3>1 DEF ForwardOutput, InputShape
    <3>3. v \in Hidden /\ k = 1 => BackwardInput(v) = BackwardOutput(u)
      BY <3>1 DEF Hidden, BackwardInput, BackwardOutput, InputShape, Shaped
    <3>4. QED BY <3>2, <3>3
  <2>5. QED BY <2>2, <2>3, <2>4
<1>2. QED
  BY <1>1, BuilderAlways, FlowAlways, ShapedStart, ShapedStep, PTL DEF Spec
=============================================================================
