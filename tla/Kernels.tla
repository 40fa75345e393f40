------------------------------- MODULE Kernels -------------------------------
(***************************************************************************)
(* What a unit's Forward or Backward, an initializer or a single Compute   *)
(* function does to its tensors: the calls of the Compute functions it     *)
(* makes, one after another, and the loops inside each, which work in      *)
(* place on rows padded to whole vector registers, with one iteration of   *)
(* an OpenMP parallel loop per matrix of the batch.  A step is one vector  *)
(* of the output, also where the loop goes element by element (Transpose,  *)
(* the sums of SoftMax and of a loss and VectorInitializer, which go       *)
(* through Tensor::At, are one step per matrix or tensor).                 *)
(*                                                                         *)
(* A number is the expression it was computed by: a leaf names an element  *)
(* of a tensor as it was before the pass, since what an expression adds up *)
(* and in which order is all that the code decides.                        *)
(***************************************************************************)
EXTENDS Integers, Sequences, SequencesExt

CONSTANTS
  W,               \* elements per vector register (8)
  JB, KB,          \* block sizes of the product (512 and 24)
  Passes           \* the passes, each with the sizes of its tensors

ASSUME BlockAssumption ==
  /\ W \in Nat \ {0} /\ KB \in Nat \ {0}
  /\ JB \in Nat \ {0} /\ JB % W = 0

(* Compute functions called by themselves. *)
Kernels == {"Multiply", "Add", "Sub", "Dot", "Div", "ScalarMul", "ScalarDiv",
            "Shrink"}

Initializers == {"Zeros", "Ones", "Random", "VectorInitializer"}

Synchronous == {"DenseForward", "DenseBackward", "ReLUForward",
                "ReLUBackward", "SigmoidForward", "SigmoidBackward",
                "SoftMaxForward", "SoftMaxBackward", "MSEForward",
                "MSEBackward", "CrossEntropyForward", "CrossEntropyBackward"}

Asynchronous == {"DenseAsyncForward", "DenseAsyncBackward",
                 "ReLUAsyncForward", "ReLUAsyncBackward",
                 "SigmoidAsyncForward", "SigmoidAsyncBackward",
                 "SoftMaxAsyncForward", "SoftMaxAsyncBackward",
                 "MSEAsyncForward", "MSEAsyncBackward",
                 "CrossEntropyAsyncForward", "CrossEntropyAsyncBackward"}

Kinds == Kernels \cup Initializers \cup Synchronous \cup Asynchronous

OfDense == {"DenseForward", "DenseBackward",
            "DenseAsyncForward", "DenseAsyncBackward"}

(* The units' m_checkShape: a DenseUnit takes one row and has one set of   *)
(* weights for the whole batch, the other units put out the shape they are *)
(* given; only a product and the binary functions broadcast an operand.    *)
ASSUME PassesAssumption ==
  /\ Passes \subseteq [kind : Kinds, rows : Nat \ {0}, mid : Nat \ {0},
                       cols : Nat \ {0}, batch : Nat \ {0},
                       cast : {"none", "A", "B"}, consumers : {1, 2},
                       number : {"float", "int"}]
  /\ \A p \in Passes :
       /\ p.kind \in OfDense => p.rows = 1 /\ p.cast = "B"
       /\ p.kind \in (Synchronous \cup Asynchronous) \ OfDense =>
            p.mid = p.cols
       /\ p.cast = "A" => p.kind \in {"Multiply", "Add", "Sub", "Dot", "Div"}

VARIABLES
  pass,            \* the pass being executed, fixed
  mem,             \* the elements of each tensor, padding included
  step,            \* which call of the pass is running
  pc               \* the loop counters of each iteration of its loop

vars == <<pass, mem, step, pc>>

-----------------------------------------------------------------------------
(* Tensors: rows, columns and batch size, as CreateUnit allocates them.    *)

Padded(n) == W * ((n + W - 1) \div W)
Smaller(m, n) == IF m <= n THEN m ELSE n

Layout(t) ==
  CASE t \in {"input", "backwardOutput"} ->
         <<pass.rows, pass.mid, IF pass.cast = "A" THEN 1 ELSE pass.batch>>
    [] t = "weight" ->
         <<pass.mid, pass.cols, IF pass.cast = "B" THEN 1 ELSE pass.batch>>
    [] t = "weightUpdateMean" -> <<pass.mid, pass.cols, 1>>
    [] t = "weightUpdate" -> <<pass.mid, pass.cols, pass.batch>>
    [] t = "weightTranspose" -> <<pass.cols, pass.mid, 1>>
    [] t = "previousInputTranspose" -> <<pass.mid, 1, pass.batch>>
    [] t \in {"bias", "biasUpdateMean"} -> <<1, pass.cols, 1>>
    [] t = "left" ->
         <<pass.rows, pass.cols, IF pass.cast = "A" THEN 1 ELSE pass.batch>>
    [] t = "right" ->
         <<pass.rows, pass.cols, IF pass.cast = "B" THEN 1 ELSE pass.batch>>
    [] t = "mean" -> <<pass.rows, pass.cols, 1>>
    [] t = "loss" -> <<1, 1, 1>>
    [] OTHER -> <<pass.rows, pass.cols, pass.batch>>

NumRow(t) == Layout(t)[1]
NumCol(t) == Layout(t)[2]
BatchSize(t) == Layout(t)[3]
ElementSize(t) == NumRow(t) * Padded(NumCol(t))
Size(t) == NumRow(t) * NumCol(t)

(* Numbers. *)
Elem(t, c) == <<"elem", t, c>>
Scalar(s) == <<"scalar", s>>
Zero == Scalar("0")
Plus(x, y) == <<"+", x, y>>
Times(x, y) == <<"*", x, y>>
Over(x, y) == <<"/", x, y>>
AddUp(first, terms) == FoldLeft(Plus, first, terms)
AddBefore(first, terms) ==
  FoldLeft(LAMBDA s, x : Plus(x, s), first, terms)

(* Where At(idx) finds element idx of a tensor without its padding. *)
DataIdx(t, idx) ==
  Padded(NumCol(t)) * (idx \div NumCol(t)) + (idx % NumCol(t))
At(t, idx) == mem[t][DataIdx(t, idx)]

-----------------------------------------------------------------------------
(* The calls each pass makes: a Compute function, its operands, its output.*)

Call(op, a, b, out) == <<[op |-> op, a |-> a, b |-> b, out |-> out]>>
Gradients == SubSeq(<<"gradient1", "gradient2">>, 1, pass.consumers)

(* Zeros::Initialize(t), then Add(gradient, t) for each BackwardInputMap.  *)
SumGradients(t) ==
  Call("Set", "0", "0", t) \o
  FlattenSeq([n \in DOMAIN Gradients |-> Call("Add", t, Gradients[n], t)])

Shrink(t, mean) ==
  Call("ShrinkSum", t, mean, mean) \o
  Call("ShrinkDivide", mean, "batch", mean)

(* SGD adds (the losses hand back label - prediction) and leaves the mean  *)
(* scaled, for the next Shrink to add to.                                  *)
Optimize(t, update) ==
  Call("ScalarMul", update, "epsilon", update) \o Call("Add", t, update, t)

DenseForward ==
  Call("Multiply", "input", "weight", "output") \o
  Call("Add", "bias", "output", "output")

(* Mutant: the weights are updated before the gradient leaves the unit. *)
DenseBackwardOptimizesFirst ==
  SumGradients("delta") \o
  Call("ScalarDiv", "delta", "consumers", "delta") \o
  Call("Transpose", "input", "input", "previousInputTranspose") \o
  Call("Multiply", "previousInputTranspose", "delta", "weightUpdate") \o
  Shrink("weightUpdate", "weightUpdateMean") \o
  Shrink("delta", "biasUpdateMean") \o
  Optimize("weight", "weightUpdateMean") \o
  Optimize("bias", "biasUpdateMean") \o
  Call("Transpose", "weight", "weight", "weightTranspose") \o
  Call("Multiply", "delta", "weightTranspose", "backwardOutput")

DenseBackward ==
  SumGradients("delta") \o
  Call("ScalarDiv", "delta", "consumers", "delta") \o
  Call("Transpose", "weight", "weight", "weightTranspose") \o
  Call("Multiply", "delta", "weightTranspose", "backwardOutput") \o
  Call("Transpose", "input", "input", "previousInputTranspose") \o
  Call("Multiply", "previousInputTranspose", "delta", "weightUpdate") \o
  Shrink("weightUpdate", "weightUpdateMean") \o
  Shrink("delta", "biasUpdateMean") \o
  Optimize("weight", "weightUpdateMean") \o
  Optimize("bias", "biasUpdateMean")

DenseAsyncForward == DenseForward
DenseAsyncBackward == DenseBackward

Activate(f) == Call(f, "input", "input", "output")

MeanGradient(t) ==
  SumGradients(t) \o Call("ScalarDiv", t, "consumers", t)

Derive(f) ==
  MeanGradient("backwardTemp") \o
  Call(f, "input", "input", "backwardOutput") \o
  Call("Dot", "backwardTemp", "backwardOutput", "backwardOutput")

ReLUForward == Activate("ReLU")
ReLUAsyncForward == Activate("ReLU")
ReLUBackward == Derive("ReLU'")
ReLUAsyncBackward == Derive("ReLU'")

SigmoidForward == Activate("sigmoid")
SigmoidAsyncForward == Activate("sigmoid")
SigmoidBackward == Derive("sigmoid'")

(* Not the same as SigmoidBackward: another function, which works out to   *)
(* the square of the sigmoid, applied to the gradient and not the input.   *)
SigmoidAsyncBackward ==
  MeanGradient("backwardTemp") \o
  Call("square", "backwardTemp", "backwardTemp", "backwardOutput") \o
  Call("Dot", "input", "backwardOutput", "backwardOutput")

SoftMaxForward == Call("SoftMax", "input", "input", "output")

(* Unlike the other units, no division by the number of consumers. *)
SoftMaxBackward ==
  SumGradients("backwardTemp") \o
  Call("SoftMaxGradient", "backwardTemp", "output", "backwardOutput")

(* They differ in how they treat numbers too large to represent. *)
SoftMaxAsyncForward == SoftMaxForward
SoftMaxAsyncBackward == SoftMaxBackward

MSEForward ==
  Call("Sub", "label", "prediction", "output") \o
  Call("Dot", "output", "output", "output") \o
  Call("ScalarDiv", "output", "2", "output") \o
  Call("Loss", "output", "batch", "loss")

MSEAsyncForward == MSEForward

MSEBackward == Call("Sub", "label", "prediction", "backwardOutput")

(* The gradient goes to ForwardOutput; BackwardOutputMap is left alone. *)
MSEAsyncBackward == Call("Sub", "label", "prediction", "output")

CrossEntropyForward ==
  Call("-log", "prediction", "prediction", "output") \o
  Call("Dot", "label", "output", "output") \o
  Call("Loss", "output", "batch", "loss")

CrossEntropyAsyncForward == CrossEntropyForward

(* Mutant: the line that is commented out in the code. *)
CrossEntropyBackwardNegates ==
  Call("ScalarMul", "label", "-1", "label") \o
  Call("Div", "label", "prediction", "backwardOutput")

CrossEntropyBackward == Call("Div", "label", "prediction", "backwardOutput")

CrossEntropyAsyncBackward == CrossEntropyBackward

KernelAlone ==
  CASE pass.kind = "Multiply" -> Call("Multiply", "input", "weight", "output")
    [] pass.kind \in {"Add", "Sub", "Dot", "Div"} ->
         Call(pass.kind, "left", "right", "output")
    [] pass.kind \in {"ScalarMul", "ScalarDiv"} ->
         Call(pass.kind, "left", "2", "output")
    [] pass.kind = "Shrink" -> Shrink("left", "mean")

(* RandomNormal and its like draw anew for every element. *)
Initialize ==
  CASE pass.kind = "Zeros"  -> Call("Set", "0", "0", "output")
    [] pass.kind = "Ones"   -> Call("Set", "1", "1", "output")
    [] pass.kind = "Random" -> Call("Fill", "draw", "draw", "output")
    [] pass.kind = "VectorInitializer" ->
         Call("Assign", "data", "data", "output")

Program ==
  CASE pass.kind \in Kernels -> KernelAlone
    [] pass.kind \in Initializers -> Initialize
    [] pass.kind = "DenseForward" -> DenseForward
    [] pass.kind = "DenseBackward" -> DenseBackward
    [] pass.kind = "DenseAsyncForward" -> DenseAsyncForward
    [] pass.kind = "DenseAsyncBackward" -> DenseAsyncBackward
    [] pass.kind = "ReLUForward" -> ReLUForward
    [] pass.kind = "ReLUBackward" -> ReLUBackward
    [] pass.kind = "ReLUAsyncForward" -> ReLUAsyncForward
    [] pass.kind = "ReLUAsyncBackward" -> ReLUAsyncBackward
    [] pass.kind = "SigmoidForward" -> SigmoidForward
    [] pass.kind = "SigmoidBackward" -> SigmoidBackward
    [] pass.kind = "SigmoidAsyncForward" -> SigmoidAsyncForward
    [] pass.kind = "SigmoidAsyncBackward" -> SigmoidAsyncBackward
    [] pass.kind = "SoftMaxForward" -> SoftMaxForward
    [] pass.kind = "SoftMaxBackward" -> SoftMaxBackward
    [] pass.kind = "SoftMaxAsyncForward" -> SoftMaxAsyncForward
    [] pass.kind = "SoftMaxAsyncBackward" -> SoftMaxAsyncBackward
    [] pass.kind = "MSEForward" -> MSEForward
    [] pass.kind = "MSEBackward" -> MSEBackward
    [] pass.kind = "MSEAsyncForward" -> MSEAsyncForward
    [] pass.kind = "MSEAsyncBackward" -> MSEAsyncBackward
    [] pass.kind = "CrossEntropyForward" -> CrossEntropyForward
    [] pass.kind = "CrossEntropyBackward" -> CrossEntropyBackward
    [] pass.kind = "CrossEntropyAsyncForward" -> CrossEntropyAsyncForward
    [] pass.kind = "CrossEntropyAsyncBackward" -> CrossEntropyAsyncBackward

Scalars ==
  {"consumers", "batch", "epsilon", "0", "1", "2", "-1", "draw", "data"}

Tensors == (UNION {{k.a, k.b, k.out} : k \in ToSet(Program)}) \ Scalars

-----------------------------------------------------------------------------
(* The loops of a call k.                                                  *)

Start == [jj |-> 0, kk |-> 0, i |-> 0, j |-> 0]
Done == [Start EXCEPT !.i = -1]

Serial == {"ShrinkSum", "Loss", "SoftMaxGradient", "Fill", "Assign"}
             \cup {IF pass.number = "float" THEN "Set" ELSE "ScalarDiv"}

(* The iterations an OpenMP loop shares out. *)
Iterations(k) ==
  CASE k.op \in Serial -> {0}
    [] k.op = "ShrinkDivide" -> 0 .. ElementSize(k.out) \div W - 1
    [] OTHER -> 0 .. BatchSize(k.out) - 1

(* How far the vector counter i of an iteration runs. *)
Extent(k) ==
  CASE k.op \in {"Multiply", "Transpose", "ShrinkDivide", "SoftMax",
                "SoftMaxGradient", "Loss", "Assign"} -> W
    [] k.op = "ShrinkSum" -> ElementSize(k.out) * BatchSize(k.a)
    [] k.op \in Serial \cap {"Set", "ScalarDiv", "Fill"} ->
         ElementSize(k.out) * BatchSize(k.out)
    [] OTHER              -> ElementSize(k.out)

(* How far i moves on: the integer SubCpu skips every other vector.        *)
Stride(k) ==
  IF /\ k.op = "Sub" /\ pass.number = "int"
     /\ BatchSize(k.a) = BatchSize(k.b)
  THEN 2 * W ELSE W

(* The product: where the counters of its four loops, jj, kk, i and j from *)
(* the outermost in, go after p.                                           *)
numColB(k) == Padded(NumCol(k.b))
numRowB(k) == NumRow(k.b)
jb(k) == Smaller(JB, numColB(k))
kb(k) == Smaller(KB, numRowB(k))

(* Mutant: the block counter of the products is not advanced. *)
NextBlockStuck(k, p) ==
  CASE p.j + W < Smaller(p.jj + jb(k), numColB(k)) -> [p EXCEPT !.j = @ + W]
    [] OTHER -> IF p.i + 1 < NumRow(k.a)
                THEN [p EXCEPT !.i = @ + 1, !.j = p.jj]
                ELSE [p EXCEPT !.i = 0, !.j = p.jj]

NextBlock(k, p) ==
  CASE p.j + W < Smaller(p.jj + jb(k), numColB(k)) -> [p EXCEPT !.j = @ + W]
    [] OTHER ->
       CASE p.i + 1 < NumRow(k.a) -> [p EXCEPT !.i = @ + 1, !.j = p.jj]
         [] OTHER ->
            CASE p.kk + kb(k) < numRowB(k) ->
                   [p EXCEPT !.kk = @ + kb(k), !.i = 0, !.j = p.jj]
              [] OTHER ->
                   IF p.jj + jb(k) < numColB(k)
                   THEN [jj |-> p.jj + jb(k), kk |-> 0, i |-> 0,
                         j |-> p.jj + jb(k)]
                   ELSE Done

(* Mutant: one vector too many. *)
AdvanceBeyond(k, p) ==
  IF k.op = "Multiply" THEN NextBlock(k, p)
  ELSE IF p.i + W <= Extent(k) THEN [p EXCEPT !.i = @ + W] ELSE Done

Advance(k, p) ==
  IF k.op = "Multiply" THEN NextBlock(k, p)
  ELSE IF p.i + Stride(k) < Extent(k) THEN [p EXCEPT !.i = @ + Stride(k)]
  ELSE Done

-----------------------------------------------------------------------------
(* What iteration m of call k stores at position p: a function from the    *)
(* addresses of the output it writes to their new values.                  *)

Vector(first) == first .. first + W - 1

(* A tensor of one sample is broadcast against a batch. *)
Offset(t, other, m) ==
  IF BatchSize(t) = 1 /\ BatchSize(other) # 1 THEN 0 ELSE ElementSize(t) * m

Limit(k, kk) == Smaller(numRowB(k), kk + kb(k))

(* Terms from + 1 to to of the product for address c in row i of matrix m. *)
Products(k, m, i, c, from, to) ==
  LET col == (c - ElementSize(k.out) * m) % numColB(k)
      factor(x) ==
        Times(mem[k.a][Offset(k.a, k.b, m) + i * Padded(NumCol(k.a)) + x],
              mem[k.b][Offset(k.b, k.a, m) + x * numColB(k) + col])
  IN  [n \in 1 .. to - from |-> factor(from + n - 1)]

(* Mutant: the output is loaded in the first block too. *)
LoadAlways(k, c, kk) == mem[k.out][c]

(* The sum a vector lane starts from. *)
Load(k, c, kk) == IF kk = 0 THEN Zero ELSE mem[k.out][c]

MultiplyVector(k, m, p) ==
  [c \in Vector(ElementSize(k.out) * m + p.i * numColB(k) + p.j) |->
     AddUp(Load(k, c, p.kk),
           Products(k, m, p.i, c, p.kk, Limit(k, p.kk)))]

Sign(op) ==
  CASE op = "Add" -> "+" [] op = "Sub" -> "-"
    [] op = "Dot" -> "*" [] op = "Div" -> "/"

(* Mutant: the output takes A's offset although A is broadcast. *)
BinaryVectorAtA(k, m, p) ==
  [c \in Vector(Offset(k.a, k.b, m) + p.i) |->
     LET lane == c - Offset(k.a, k.b, m)
     IN  <<Sign(k.op), mem[k.a][Offset(k.a, k.b, m) + lane],
           mem[k.b][Offset(k.b, k.a, m) + lane]>>]

(* AddCpu, SubCpu, DotCpu, DivCpu and their versions with broadcast. *)
BinaryVector(k, m, p) ==
  [c \in Vector(ElementSize(k.out) * m + p.i) |->
     LET lane == c - ElementSize(k.out) * m
     IN  <<Sign(k.op), mem[k.a][Offset(k.a, k.b, m) + lane],
           mem[k.b][Offset(k.b, k.a, m) + lane]>>]

ScalarVector(k, m, p) ==
  [c \in Vector(ElementSize(k.out) * m + p.i) |->
     <<IF k.op = "ScalarMul" THEN "*" ELSE "/", mem[k.a][c], Scalar(k.b)>>]

ApplyVector(k, m, p) ==
  [c \in Vector(ElementSize(k.out) * m + p.i) |-> <<k.op, mem[k.a][c]>>]

SetVector(k, m, p) ==
  [c \in Vector(ElementSize(k.out) * m + p.i) |-> Scalar(k.a)]

Draw(c) == <<"draw", c>>
FillVector(k, m, p) == [c \in Vector(p.i) |-> Draw(c)]

ShrinkSumVector(k, m, p) ==
  [c \in Vector(p.i % ElementSize(k.out)) |->
     Plus(mem[k.a][p.i + c - (p.i % ElementSize(k.out))], mem[k.out][c])]

ShrinkDivideVector(k, m, p) ==
  [c \in Vector(W * m) |-> Over(mem[k.a][c], Scalar(k.b))]

(* out.At(numCol * row + col) = in.At(numRow * col + row), row by row: the *)
(* transpose only of a square matrix or a vector.                          *)
TransposeMatrix(k, m, p) ==
  LET rows == NumRow(k.a)
      cols == NumCol(k.a)
      start == rows * cols * m
      to(idx) == DataIdx(k.out, start + idx)
      source(idx) == start + rows * (idx % cols) + (idx \div cols)
  IN  [c \in {to(idx) : idx \in 0 .. rows * cols - 1} |->
         At(k.a, source(CHOOSE idx \in 0 .. rows * cols - 1 : to(idx) = c))]

(* The indices of At in sample b. *)
Sample(t, b) == [n \in 1 .. Size(t) |-> Size(t) * b + n - 1]
Stored(t, indices, x(_)) ==
  [c \in {DataIdx(t, i) : i \in indices} |->
     x(CHOOSE i \in indices : DataIdx(t, i) = c)]

(* VectorInitializer: element after element of its data. *)
Datum(i) == <<"datum", i>>
AssignData(k, m, p) ==
  Stored(k.out, 0 .. Size(k.out) * BatchSize(k.out) - 1, Datum)

SoftMaxSample(k, m, p) ==
  LET exp(i) == <<"exp", At(k.a, i)>>
      sum == AddUp(Zero, [n \in 1 .. Size(k.a) |-> exp(Sample(k.a, m)[n])])
  IN  Stored(k.out, ToSet(Sample(k.out, m)), LAMBDA i : Over(exp(i), sum))

Jacobian(o, in, out) ==
  <<IF in = out THEN "x(1-x)" ELSE "-xy", o[in], o[out]>>

SoftMaxGradientSamples(k, m, p) ==
  LET o == [i \in 0 .. BatchSize(k.b) * Size(k.b) - 1 |-> At(k.b, i)]
      term(in, out) == Times(At(k.a, in), Jacobian(o, in, out))
  IN  Stored(k.out, DOMAIN o, LAMBDA i :
        AddUp(Zero, [n \in 1 .. Size(k.out) |->
                       term(Sample(k.out, i \div Size(k.out))[n], i)]))

(* m_loss, the mean over the batch of the elements of the loss's output. *)
LossSum(k, m, p) ==
  LET n == Size(k.a) * BatchSize(k.a)
      elements == [i \in 1 .. n |-> At(k.a, i - 1)]
  IN  [c \in {0} |-> Over(AddUp(Zero, elements), Scalar(k.b))]

Stores(k, m, p) ==
  CASE k.op = "Multiply" -> MultiplyVector(k, m, p)
    [] k.op \in {"Add", "Sub", "Dot", "Div"} -> BinaryVector(k, m, p)
    [] k.op \in {"ScalarMul", "ScalarDiv"} -> ScalarVector(k, m, p)
    [] k.op = "Set" -> SetVector(k, m, p)
    [] k.op = "Fill" -> FillVector(k, m, p)
    [] k.op = "Assign" -> AssignData(k, m, p)
    [] k.op = "ShrinkSum" -> ShrinkSumVector(k, m, p)
    [] k.op = "ShrinkDivide" -> ShrinkDivideVector(k, m, p)
    [] k.op = "Transpose" -> TransposeMatrix(k, m, p)
    [] k.op = "SoftMax" -> SoftMaxSample(k, m, p)
    [] k.op = "SoftMaxGradient" -> SoftMaxGradientSamples(k, m, p)
    [] k.op = "Loss" -> LossSum(k, m, p)
    [] OTHER -> ApplyVector(k, m, p)

-----------------------------------------------------------------------------
Fresh(t) == [c \in 0 .. ElementSize(t) * BatchSize(t) - 1 |-> Elem(t, c)]

Init ==
  /\ pass \in Passes
  /\ mem = [t \in Tensors |-> Fresh(t)]
  /\ step = 1
  /\ pc = [m \in Iterations(Program[1]) |-> Start]

(* The elements f of a tensor after the stores s. *)
Overwritten(f, s) ==
  [c \in DOMAIN f \cup DOMAIN s |-> IF c \in DOMAIN s THEN s[c] ELSE f[c]]

(* A thread executes the next vector of iteration m of the current call.   *)
(* (The \E over one value has TLC work out the stores once.)               *)
Iterate(m) ==
  /\ pc[m] # Done
  /\ LET k == Program[step]
     IN  /\ \E stores \in {Stores(k, m, pc[m])} :
              mem' = [mem EXCEPT ![k.out] = Overwritten(@, stores)]
         /\ pc' = [pc EXCEPT ![m] = Advance(k, pc[m])]
  /\ UNCHANGED <<pass, step>>

Finished == \A m \in DOMAIN pc : pc[m] = Done

(* A parallel loop ends with a barrier; the next call starts after it.     *)
NextCall ==
  /\ Finished /\ step < Len(Program)
  /\ step' = step + 1
  /\ pc' = [m \in Iterations(Program[step + 1]) |-> Start]
  /\ UNCHANGED <<pass, mem>>

Next == (\E m \in DOMAIN pc : Iterate(m)) \/ NextCall

(* The thread of the engine and those of the loops run until they are done.*)
Spec == Init /\ [][Next]_vars /\ WF_vars(Next)

-----------------------------------------------------------------------------
(* Every call stays inside the buffers of the tensors.                     *)
TypeOK ==
  /\ pass \in Passes /\ step \in 1 .. Len(Program)
  /\ DOMAIN mem = Tensors
  /\ \A t \in Tensors : DOMAIN mem[t] = DOMAIN Fresh(t)
  /\ DOMAIN pc = Iterations(Program[step])

(* How many products element (i, j) of a matrix has been given when the    *)
(* counters of its iteration are p.                                        *)
Accumulated(k, p, i, j) ==
  IF p = Done \/ j < p.jj THEN numRowB(k)
  ELSE IF j >= p.jj + jb(k) THEN 0
  ELSE IF i < p.i \/ (i = p.i /\ j < p.j) THEN Limit(k, p.kk) ELSE p.kk

(* At every moment of a product each element of the output, padding        *)
(* included, is the sum of its terms so far, in the order of k, each once: *)
(* the blocks of MultiplyCpu neither skip nor repeat one, and nothing of   *)
(* what the output held before is left in a sum that has been started.     *)
PartialSums ==
  LET k == Program[step]
  IN  k.op = "Multiply" =>
        \A m \in DOMAIN pc, i \in 0 .. NumRow(k.a) - 1,
           j \in 0 .. numColB(k) - 1 :
          LET c == ElementSize(k.out) * m + i * numColB(k) + j
              n == Accumulated(k, pc[m], i, j)
          IN  mem[k.out][c] =
                IF n = 0 THEN Elem(k.out, c)
                ELSE AddUp(Zero, Products(k, m, i, c, 0, n))

(* The part of the output that is iteration m's. *)
Part(k, m) ==
  CASE k.op = "ShrinkDivide" -> Vector(W * m)
    [] OTHER -> ElementSize(k.out) * m .. ElementSize(k.out) * (m + 1) - 1

(* Nothing is written to the part of a matrix of the batch but by its own  *)
(* iteration: what makes the OpenMP loops free of races without a lock.    *)
WritesOwnPart ==
  [][\A m \in DOMAIN pc :
       step' = step /\ pc'[m] = pc[m] =>
         \A c \in Part(Program[step], m) :
           mem'[Program[step].out][c] = mem[Program[step].out][c]]_vars

(* A pass leaves what the engine copied into the unit as it was, since the *)
(* label of one loss, for instance, is read again in Backward; and only    *)
(* the Backward of a DenseUnit touches the weights.                        *)
OperandsKept ==
  \A t \in Tensors :
    \/ t \in {"input", "label", "prediction", "gradient1", "gradient2",
              "left", "right"}
    \/ /\ t \in {"weight", "bias"}
       /\ pass.kind \notin {"DenseBackward", "DenseAsyncBackward"}
    => mem[t] = Fresh(t)

-----------------------------------------------------------------------------
(* The textbook result of each pass, element by element, in terms of       *)
(* sample b, row r and column c.                                           *)

Ref(t, b, r, c) ==
  LET sample == IF BatchSize(t) = 1 THEN 0 ELSE b
  IN  Elem(t, Padded(NumCol(t)) * (NumRow(t) * sample + r) + c)

Total(n, x(_)) == AddUp(Zero, [i \in 1 .. n |-> x(i - 1)])

Product(b, r, c) ==
  Total(pass.mid, LAMBDA n : Times(Ref("input", b, r, n),
                                   Ref("weight", b, n, c)))

GradientSum(b, r, c) ==
  AddUp(Zero, [n \in DOMAIN Gradients |-> Ref(Gradients[n], b, r, c)])

Delta(b, r, c) == Over(GradientSum(b, r, c), Scalar("consumers"))

SoftMaxOf(b, r, c) ==
  LET exp(n) == <<"exp", Ref("input", b, n \div pass.cols, n % pass.cols)>>
  IN  Over(exp(r * pass.cols + c), Total(pass.rows * pass.cols, exp))

SoftMaxGradientOf(b, r, c) ==
  Total(pass.rows * pass.cols, LAMBDA n :
    LET row == n \div pass.cols
        col == n % pass.cols
    IN  Times(GradientSum(b, row, col),
              <<IF row = r /\ col = c THEN "x(1-x)" ELSE "-xy",
                Ref("output", b, row, col), Ref("output", b, r, c)>>))

(* The mean over the batch of x, on top of what the mean held before: no   *)
(* textbook's, but what Shrink and the units that call it do.              *)
MeanOf(held, x(_)) ==
  Over(AddBefore(held, [b \in 1 .. pass.batch |-> x(b - 1)]),
       Scalar("batch"))

BackwardOfDense == pass.kind \in {"DenseBackward", "DenseAsyncBackward"}

Updated(t, r, c, mean) ==
  Plus(Ref(t, 0, r, c), Times(mean, Scalar("epsilon")))

LossOf(x(_, _, _)) ==
  LET size == pass.rows * pass.cols
  IN  Over(Total(size * pass.batch, LAMBDA n :
             x(n \div size, (n \div pass.cols) % pass.rows, n % pass.cols)),
           Scalar("batch"))

SquaredError(b, r, c) ==
  LET e == <<"-", Ref("label", b, r, c), Ref("prediction", b, r, c)>>
  IN  Over(Times(e, e), Scalar("2"))

Surprise(b, r, c) ==
  Times(Ref("label", b, r, c), <<"-log", Ref("prediction", b, r, c)>>)

Expected(t, b, r, c) ==
  CASE pass.kind = "Multiply" -> Product(b, r, c)
    [] pass.kind \in {"Add", "Sub", "Dot", "Div"} ->
         <<Sign(pass.kind), Ref("left", b, r, c), Ref("right", b, r, c)>>
    [] pass.kind = "ScalarMul" -> Times(Ref("left", b, r, c), Scalar("2"))
    [] pass.kind = "ScalarDiv" -> Over(Ref("left", b, r, c), Scalar("2"))
    [] pass.kind = "Shrink" ->
         MeanOf(Ref("mean", 0, r, c), LAMBDA n : Ref("left", n, r, c))
    [] pass.kind = "Zeros" -> Zero
    [] pass.kind = "Ones" -> Scalar("1")
    [] pass.kind = "Random" ->
         Draw(Padded(pass.cols) * (pass.rows * b + r) + c)
    [] pass.kind = "VectorInitializer" ->
         Datum(pass.cols * (pass.rows * b + r) + c)
    [] pass.kind \in {"DenseForward", "DenseAsyncForward"} ->
         Plus(Ref("bias", b, r, c), Product(b, r, c))
    [] BackwardOfDense /\ t = "backwardOutput" ->
         Total(pass.cols, LAMBDA n : Times(Delta(b, r, n),
                                           Ref("weight", 0, c, n)))
    [] BackwardOfDense /\ t = "weight" ->
         Updated(t, r, c, MeanOf(Ref("weightUpdateMean", 0, r, c),
           LAMBDA n : Plus(Zero, Times(Ref("input", n, 0, r),
                                       Delta(n, 0, c)))))
    [] BackwardOfDense /\ t = "bias" ->
         Updated(t, r, c, MeanOf(Ref("biasUpdateMean", 0, r, c),
                                 LAMBDA n : Delta(n, 0, c)))
    [] pass.kind \in {"ReLUForward", "ReLUAsyncForward"} ->
         <<"ReLU", Ref("input", b, r, c)>>
    [] pass.kind \in {"SigmoidForward", "SigmoidAsyncForward"} ->
         <<"sigmoid", Ref("input", b, r, c)>>
    [] pass.kind \in {"ReLUBackward", "ReLUAsyncBackward"} ->
         Times(Delta(b, r, c), <<"ReLU'", Ref("input", b, r, c)>>)
    [] pass.kind = "SigmoidBackward" ->
         Times(Delta(b, r, c), <<"sigmoid'", Ref("input", b, r, c)>>)
    [] pass.kind \in {"SoftMaxForward", "SoftMaxAsyncForward"} ->
         SoftMaxOf(b, r, c)
    [] pass.kind \in {"SoftMaxBackward", "SoftMaxAsyncBackward"} ->
         SoftMaxGradientOf(b, r, c)
    [] pass.kind \in {"MSEForward", "MSEAsyncForward"} -> LossOf(SquaredError)
    [] pass.kind = "MSEBackward" ->
         <<"-", Ref("label", b, r, c), Ref("prediction", b, r, c)>>
    [] pass.kind \in {"CrossEntropyForward", "CrossEntropyAsyncForward"} ->
         LossOf(Surprise)
    [] pass.kind \in {"CrossEntropyBackward", "CrossEntropyAsyncBackward"} ->
         Over(Ref("label", b, r, c), Ref("prediction", b, r, c))

(* Transpose is the transpose of these weights only. *)
Transposable == pass.mid = pass.cols \/ pass.mid = 1 \/ pass.cols = 1

(* What does not do what its name says: see SigmoidAsyncBackward,          *)
(* MSEAsyncBackward and Stride.                                            *)
Deviates ==
  \/ pass.kind \in {"SigmoidAsyncBackward", "MSEAsyncBackward"}
  \/ \E n \in DOMAIN Program : Stride(Program[n]) # W

Results ==
  IF Deviates THEN {}
  ELSE IF BackwardOfDense
  THEN {"weight", "bias"}
         \cup (IF Transposable THEN {"backwardOutput"} ELSE {})
  ELSE {IF "loss" \in Tensors THEN "loss" ELSE Last(Program).out}

(* What a pass hands on is what the textbook says, with the operations in  *)
(* the same order, in every element the user can see, whatever the         *)
(* paddings held before the pass and the internal tensors that it          *)
(* overwrites.  The updates of a DenseUnit add to what weightUpdateMean    *)
(* and biasUpdateMean held: that is the code's, see MeanOf, and part of    *)
(* what is expected.                                                       *)
ResultExact ==
  Finished /\ step = Len(Program) =>
    \A t \in Results :
      \A b \in 0 .. BatchSize(t) - 1, r \in 0 .. NumRow(t) - 1,
         c \in 0 .. NumCol(t) - 1 :
        mem[t][Padded(NumCol(t)) * (NumRow(t) * b + r) + c] =
          Expected(t, b, r, c)

(* Every pass comes to its end. *)
Returns == <>(Finished /\ step = Len(Program))
=============================================================================
