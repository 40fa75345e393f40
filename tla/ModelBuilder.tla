----------------------------- MODULE ModelBuilder -----------------------------
(***************************************************************************)
(* The front end: Model's calls append the metadata of units, by id, and   *)
(* link each new unit into the OutputUnitVector of its producers;          *)
(* UnitManager::Compile then makes the units, in the order of an unordered *)
(* map.  Both may throw half-way, and the caller may catch and go on.      *)
(* Initializers, names and devices (all units are on the CPU) are left out.*)
(***************************************************************************)
EXTENDS Shapes, FiniteSets

CONSTANTS
  MaxUnits,        \* bound: how many ids Model::m_id hands out
  FetcherShapes,   \* the shapes callers give Fetcher and Constant
  NumUnits,        \* the widths callers give Dense; 0 is the one that throws
  Optimizers,      \* the optimizer names callers give Compile
  MaxCompiles      \* bound: how often callers compile

ASSUME BuilderAssumption ==
  /\ MaxUnits \in Nat \ {0} /\ MaxCompiles \in Nat
  /\ \A s \in FetcherShapes : IsShape(s) /\ s # <<>>
  /\ NumUnits \subseteq Nat

Id == 0 .. MaxUnits - 1

VARIABLES
  meta,        \* m_unitMetaDataMap
  outs,        \* the OutputUnitVector of each unit
  nextId,      \* Model::m_id
  loaderMap,   \* ids of which m_loaderMap holds a loader
  unitMap,     \* keys of m_unitMap: the units made
  holding,     \* the PlaceHolders whose m_loader is not null
  phase,       \* "build" until passes "run"; "crashed" ends it all
  made,        \* history: how often each unit was made
  compiles     \* history: how often Compile was called

metadata == <<meta, outs, nextId>>
compiled == <<loaderMap, unitMap, holding, made, compiles>>
builder == <<metadata, compiled, phase>>

Units == DOMAIN meta
Sources == {u \in Units : meta[u].type \in {"Fetcher", "Constant"}}
Hidden == {u \in Units : meta[u].type \in {"Dense", "Activation"}}
Losses == {u \in Units : meta[u].type = "Loss"}

Inputs(u) == {meta[u].input[k] : k \in DOMAIN meta[u].input}

Row == [type : {"Fetcher", "Constant", "Dense", "Activation", "Loss"},
        input : UNION {[1 .. k -> Id] : k \in 0 .. 2},
        shape : Seq(Nat \ {0}), weight : Seq(Nat \ {0})]

BuilderTypeOK ==
  /\ Units \subseteq Id /\ meta \in [Units -> Row]
  /\ nextId \in 0 .. MaxUnits /\ outs \in [Id -> Seq(Id)]
  /\ loaderMap \subseteq Units /\ holding \subseteq unitMap
  /\ unitMap \subseteq Units /\ phase \in {"build", "run", "crashed"}
  /\ made \in [Id -> 0 .. MaxCompiles] /\ compiles \in 0 .. MaxCompiles

BuilderInit ==
  /\ meta = <<>> /\ outs = [u \in Id |-> <<>>] /\ nextId = 0
  /\ loaderMap = {} /\ unitMap = {} /\ holding = {} /\ phase = "build"
  /\ made = [u \in Id |-> 0] /\ compiles = 0

-----------------------------------------------------------------------------
(* Building.  Every call takes an id, links it into its producers and only *)
(* then makes the metadata.                                                *)

Times(u, producers) ==
  Cardinality({k \in DOMAIN producers : producers[k] = u})

Link(producers) ==
  /\ phase = "build" /\ nextId < MaxUnits /\ nextId' = nextId + 1
  /\ outs' = [u \in Id |->
               outs[u] \o [k \in 1 .. Times(u, producers) |-> nextId]]

AppendUnit(type, producers, shape, weight) ==
  meta' = [u \in Units \cup {nextId} |->
             IF u = nextId THEN [type |-> type, input |-> producers,
                                 shape |-> shape, weight |-> weight]
             ELSE meta[u]]

Fetcher(s) ==
  /\ Link(<<>>) /\ AppendUnit("Fetcher", <<>>, s, <<>>)
  /\ loaderMap' = loaderMap \cup {nextId}
  /\ UNCHANGED <<unitMap, holding, made, compiles, phase>>

(* Data of the wrong size make Constant throw before it touches anything.  *)
Constant(s) ==
  /\ Link(<<>>) /\ AppendUnit("Constant", <<>>, s, <<>>)
  /\ UNCHANGED <<compiled, phase>>

Dense(src, n) ==
  /\ n # 0 /\ Link(<<src>>)
  /\ AppendUnit("Dense", <<src>>, <<n>>, <<NumCol(meta[src].shape), n>>)
  /\ UNCHANGED <<compiled, phase>>

(* The weight's Shape refuses a zero extent, after the link is made.       *)
DenseThrows(src) ==
  /\ 0 \in NumUnits /\ Link(<<src>>)
  /\ UNCHANGED <<meta, compiled, phase>>

(* ReLU, Sigmoid and SoftMax. *)
Activation(src) ==
  /\ Link(<<src>>) /\ AppendUnit("Activation", <<src>>, meta[src].shape, <<>>)
  /\ UNCHANGED <<compiled, phase>>

(* MSE and CrossEntropy; they hand out Shape(). *)
Loss(prediction, label) ==
  /\ Link(<<prediction, label>>)
  /\ AppendUnit("Loss", <<prediction, label>>, <<>>, <<>>)
  /\ UNCHANGED <<compiled, phase>>

(* Ids that were linked although no unit came of them. *)
Ghosts == 0 .. nextId - 1 \ Units

-----------------------------------------------------------------------------
(* The tensors CreateUnit makes.                                           *)

InputShape(u, k) == meta[meta[u].input[k]].shape
ForwardOutput(u) == IF u \in Losses THEN InputShape(u, 1) ELSE meta[u].shape
BackwardInput(u) ==
  IF meta[u].type = "Dense" THEN meta[u].shape ELSE InputShape(u, 1)
BackwardOutput(u) == InputShape(u, 1)

(* Mutant: the input may have any number of dimensions. *)
AnyDimension(u) ==
  /\ Dim(meta[u].shape) = 1
  /\ NumRow(meta[u].weight) = NumCol(InputShape(u, 1))
  /\ NumCol(meta[u].weight) = NumCol(meta[u].shape)

(* DenseUnit::m_checkShape; the bias has the output's shape. *)
CheckShape(u) ==
  /\ Dim(InputShape(u, 1)) = 1 /\ Dim(meta[u].shape) = 1
  /\ NumRow(meta[u].weight) = NumCol(InputShape(u, 1))
  /\ NumCol(meta[u].weight) = NumCol(meta[u].shape)

CheckArguments(u) ==
  CASE u \in Losses               -> InputShape(u, 1) = InputShape(u, 2)
    [] meta[u].type = "Activation" -> InputShape(u, 1) = meta[u].shape

Creatable(u, optimizer) ==
  CASE u \in Sources          -> TRUE
    [] meta[u].type = "Dense" -> optimizer = "SGD" /\ CheckShape(u)
    [] OTHER                  -> CheckArguments(u)

-----------------------------------------------------------------------------
(* Compile.  It stops at the first unit it cannot make; which others it    *)
(* has made by then depends on the order of the map.                       *)

(* Mutant: the map keeps its loaders. *)
HandOverCopies(units) ==
  /\ holding' = (holding \ units) \cup (loaderMap \cap units)
  /\ loaderMap' = loaderMap

(* Mutant: the loader is looked up after it was moved away. *)
HandOverMoved(units) ==
  /\ holding' = holding \ units
  /\ loaderMap' = loaderMap \ units

(* A loader is moved out of m_loaderMap into its PlaceHolder: the second   *)
(* time a null pointer is.                                                 *)
HandOver(units) ==
  /\ holding' = (holding \ units) \cup (loaderMap \cap units)
  /\ loaderMap' = loaderMap \ units

MakeUnits(units) ==
  /\ phase = "build" /\ compiles < MaxCompiles /\ compiles' = compiles + 1
  /\ unitMap' = unitMap \cup units /\ HandOver(units)
  /\ made' = [u \in Id |-> IF u \in units THEN made[u] + 1 ELSE made[u]]
  /\ UNCHANGED <<metadata, phase>>

Compile(optimizer, units) ==
  LET creatable == {u \in Units : Creatable(u, optimizer)}
  IN  /\ units \in IF creatable = Units THEN {Units} ELSE SUBSET creatable
      /\ MakeUnits(units)

-----------------------------------------------------------------------------
(* Callers do not consume a loss.  Nothing checks for it: the AbsTensor of *)
(* a loss can be given to another call, whose unit would be made for its   *)
(* empty Shape(); Forward would never copy the loss's output to it, but    *)
(* AsyncForward would.                                                     *)
Build ==
  \/ \E s \in FetcherShapes : Fetcher(s) \/ Constant(s)
  \/ \E src \in Units \ Losses :
       \/ \E n \in NumUnits : Dense(src, n)
       \/ DenseThrows(src) \/ Activation(src)
       \/ \E label \in Units \ Losses : Loss(src, label)

-----------------------------------------------------------------------------
(* Properties.                                                             *)

(* output = a * b, as Compute::Multiply reads the three matrices. *)
ProductFits(a, b, output) ==
  /\ NumCol(a) = NumRow(b)
  /\ NumRow(output) = NumRow(a) /\ NumCol(output) = NumCol(b)
  /\ Size(a) = NumRow(a) * NumCol(a) /\ Size(b) = NumRow(b) * NumCol(b)
  /\ Size(output) = NumRow(output) * NumCol(output)

(* Whatever was built, and however often Compile was tried, the tensors of *)
(* the units it made fit: the matrices of DenseUnit's three products, the  *)
(* two operands of a loss, and both ends of every copy the engine makes,   *)
(* forward and backward.  The kernels index by these shapes unchecked.     *)
ShapesFit ==
  \A u \in unitMap :
    /\ meta[u].type = "Dense" =>
         LET w == meta[u].weight
         IN  /\ ProductFits(InputShape(u, 1), w, ForwardOutput(u))
             /\ ProductFits(BackwardInput(u), GetTransposedShape(w),
                            BackwardOutput(u))
             /\ ProductFits(GetTransposedShape(InputShape(u, 1)),
                            BackwardInput(u), w)
    /\ u \in Losses => ForwardOutput(u) = InputShape(u, 2)
    /\ \A k \in DOMAIN meta[u].input :
         LET v == meta[u].input[k]
         IN  /\ v \in unitMap => ForwardOutput(v) = InputShape(u, k)
             /\ v \in Hidden /\ k = 1 => BackwardInput(v) = BackwardOutput(u)

(* A loader goes to the first PlaceHolder made for its unit and dies with  *)
(* it: a second Compile, after one that returned or one that threw at some *)
(* other unit, leaves every fetcher that it makes again without a loader,  *)
(* and every other one with it.                                            *)
LoadersOnce ==
  \A f \in unitMap : meta[f].type = "Fetcher" =>
    (f \in holding <=> made[f] = 1)
=============================================================================
