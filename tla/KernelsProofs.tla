---------------------------- MODULE KernelsProofs ----------------------------
(***************************************************************************)
(* Proofs about the passes of the units and the loops of the kernels, for  *)
(* tensors, vector registers, blocks and batches of any size: every call   *)
(* stays inside its buffers and leaves the operands of the pass alone; the *)
(* iterations of a parallel loop write apart from one another; a product   *)
(* adds up every term once, in order; and when a pass has come to its end, *)
(* its results are the textbook's, element by element.                     *)
(***************************************************************************)
EXTENDS Kernels, SequenceTheorems, WellFoundedInduction, TLAPS

-----------------------------------------------------------------------------
(* Numbers: products, whole vectors, padded rows.                          *)

LEMMA Scaling ==
  ASSUME NEW a \in Nat, NEW m \in Nat, NEW n \in Nat, m < n
  PROVE  a * m + a <= a * n
<1>1. n - m - 1 \in Nat /\ n = m + 1 + (n - m - 1)
  OBVIOUS
<1>2. ASSUME NEW k \in Nat
      PROVE  a * (m + 1 + k) = a * m + a + a * k /\ a * k >= 0
  OBVIOUS
<1>3. QED
  BY <1>1, <1>2

LEMMA Division ==
  ASSUME NEW i \in Nat, NEW c \in Nat \ {0}
  PROVE  /\ i \div c \in Nat /\ i % c \in 0 .. c - 1
         /\ i = c * (i \div c) + (i % c)
OBVIOUS

(* Which block of n a number lies in, and where in it, is no matter of     *)
(* choice.                                                                 *)
LEMMA BlockUnique ==
  ASSUME NEW n \in Nat, NEW x \in Nat, NEW y \in Nat,
         NEW r \in 0 .. n - 1, NEW s \in 0 .. n - 1,
         n * x + r = n * y + s
  PROVE  x = y /\ r = s
<1>1. n * x \in Nat /\ n * y \in Nat
  OBVIOUS
<1>2. ~(x < y)
  <2>1. x < y => n * x + n <= n * y
    BY Scaling
  <2>2. QED BY <1>1, <2>1
<1>3. ~(y < x)
  <2>1. y < x => n * y + n <= n * x
    BY Scaling
  <2>2. QED BY <1>1, <2>1
<1>4. x = y
  BY <1>2, <1>3
<1>5. QED BY <1>1, <1>4

(* Counters and sizes that come in whole vectors. *)
Whole(n) == \E q \in Nat : n = W * q

LEMMA WholeSum ==
  ASSUME NEW m, NEW n, Whole(m), Whole(n)
  PROVE  m \in Nat /\ Whole(m + n)
<1>1. W \in Nat
  BY BlockAssumption
<1>2. PICK x \in Nat, y \in Nat : m = W * x /\ n = W * y
  BY DEF Whole
<1>3. W * x + W * y = W * (x + y) /\ W * x \in Nat /\ x + y \in Nat
  BY <1>1
<1>4. QED BY <1>2, <1>3 DEF Whole

LEMMA WholeProduct ==
  ASSUME NEW m, NEW n \in Nat, Whole(m)
  PROVE  Whole(m * n) /\ Whole(n * m)
<1>1. W \in Nat
  BY BlockAssumption
<1>2. PICK x \in Nat : m = W * x
  BY DEF Whole
<1>3. x * n \in Nat /\ (W * x) * n = W * (x * n) /\ n * (W * x) = W * (x * n)
  BY <1>1
<1>4. QED BY <1>2, <1>3 DEF Whole

LEMMA WholeGap ==
  ASSUME NEW m, NEW n, Whole(m), Whole(n), m < n
  PROVE  m + W <= n
<1>1. W \in Nat
  BY BlockAssumption
<1>2. PICK x \in Nat, y \in Nat : m = W * x /\ n = W * y
  BY DEF Whole
<1>3. x < y
  <2>1. CASE y < x
    BY <1>1, <1>2, <2>1, Scaling
  <2>2. CASE x = y
    BY <1>1, <1>2, <2>2
  <2>3. QED BY <2>1, <2>2
<1>4. QED BY <1>1, <1>2, <1>3, Scaling

LEMMA WholeRest ==
  ASSUME NEW m, NEW n, Whole(m), Whole(n), n # 0
  PROVE  Whole(m % n) /\ m % n < n
<1>1. W \in Nat \ {0}
  BY BlockAssumption
<1>2. PICK x \in Nat, y \in Nat : m = W * x /\ n = W * y
  BY DEF Whole
<1>3. m \in Nat /\ n \in Nat \ {0}
  BY <1>1, <1>2
<1>4. /\ m \div n \in Nat /\ m % n \in 0 .. n - 1
      /\ m = n * (m \div n) + (m % n)
  BY <1>3, Division
<1> DEFINE d == m \div n
           r == m % n
<1>5. d \in Nat /\ r \in Nat /\ r < n /\ W * x = (W * y) * d + r
  BY <1>2, <1>3, <1>4
<1> HIDE DEF d, r
<1>6. y * d \in Nat /\ (W * y) * d = W * (y * d)
  BY <1>1, <1>5
<1>7. r = W * (x - y * d) /\ x - y * d \in Int
  BY <1>1, <1>5, <1>6
<1>8. x - y * d >= 0
  <2> DEFINE e == x - y * d
  <2>1. e \in Int /\ W * e >= 0
    BY <1>5, <1>7
  <2> HIDE DEF e
  <2>2. e >= 0
    BY <1>1, <2>1
  <2>3. QED BY <2>2 DEF e
<1>9. x - y * d \in Nat
  BY <1>7, <1>8
<1>10. Whole(r) /\ r < n
  BY <1>5, <1>7, <1>9 DEF Whole
<1>11. QED BY <1>10 DEF r

LEMMA PaddedWhole ==
  ASSUME NEW n \in Nat \ {0}
  PROVE  Padded(n) \in Nat \ {0} /\ n <= Padded(n) /\ Whole(Padded(n))
<1>1. W \in Nat \ {0}
  BY BlockAssumption
<1> DEFINE q == (n + W - 1) \div W
           r == (n + W - 1) % W
<1>2. n + W - 1 \in Nat
  BY <1>1
<1>3. q \in Nat /\ r \in 0 .. W - 1 /\ n + W - 1 = W * q + r
  BY <1>1, <1>2, Division
<1>4. Padded(n) = W * q
  BY DEF Padded
<1> HIDE DEF q, r
<1>5. W * q \in Nat
  BY <1>1, <1>3
<1>6. QED BY <1>1, <1>3, <1>4, <1>5 DEF Whole

-----------------------------------------------------------------------------
(* The tensors of a pass.                                                  *)

LEMMA PassFacts ==
  ASSUME pass \in Passes
  PROVE  /\ pass.kind \in Kinds /\ pass.consumers \in {1, 2}
         /\ pass.rows \in Nat \ {0} /\ pass.mid \in Nat \ {0}
         /\ pass.cols \in Nat \ {0} /\ pass.batch \in Nat \ {0}
<1>1. pass \in [kind : Kinds, rows : Nat \ {0}, mid : Nat \ {0},
               cols : Nat \ {0}, batch : Nat \ {0},
               cast : {"none", "A", "B"}, consumers : {1, 2},
               number : {"float", "int"}]
  BY PassesAssumption
<1>2. QED BY <1>1

LEMMA TensorSizes ==
  ASSUME pass \in Passes, NEW t
  PROVE  /\ NumRow(t) \in Nat \ {0} /\ NumCol(t) \in Nat \ {0}
         /\ BatchSize(t) \in Nat \ {0}
         /\ Padded(NumCol(t)) \in Nat \ {0} /\ NumCol(t) <= Padded(NumCol(t))
         /\ Size(t) \in Nat \ {0}
         /\ ElementSize(t) \in Nat \ {0} /\ Whole(ElementSize(t))
<1>1. /\ NumRow(t) \in Nat \ {0} /\ NumCol(t) \in Nat \ {0}
      /\ BatchSize(t) \in Nat \ {0}
  <2> DEFINE Positive == Nat \ {0}
             batchA == IF pass.cast = "A" THEN 1 ELSE pass.batch
             batchB == IF pass.cast = "B" THEN 1 ELSE pass.batch
  <2>1. /\ pass.rows \in Positive /\ pass.mid \in Positive
        /\ pass.cols \in Positive /\ pass.batch \in Positive
        /\ batchA \in Positive /\ batchB \in Positive /\ 1 \in Positive
    BY PassFacts
  <2>2. \/ Layout(t) = <<pass.rows, pass.mid, batchA>>
        \/ Layout(t) = <<pass.mid, pass.cols, batchB>>
        \/ Layout(t) = <<pass.mid, pass.cols, 1>>
        \/ Layout(t) = <<pass.mid, pass.cols, pass.batch>>
        \/ Layout(t) = <<pass.cols, pass.mid, 1>>
        \/ Layout(t) = <<pass.mid, 1, pass.batch>>
        \/ Layout(t) = <<1, pass.cols, 1>>
        \/ Layout(t) = <<pass.rows, pass.cols, batchA>>
        \/ Layout(t) = <<pass.rows, pass.cols, batchB>>
        \/ Layout(t) = <<pass.rows, pass.cols, 1>>
        \/ Layout(t) = <<1, 1, 1>>
        \/ Layout(t) = <<pass.rows, pass.cols, pass.batch>>
    BY DEF Layout
  <2> HIDE DEF Positive, batchA, batchB
  <2>3. QED BY <2>1, <2>2 DEF NumRow, NumCol, BatchSize, Positive
<1>2. /\ Padded(NumCol(t)) \in Nat \ {0} /\ NumCol(t) <= Padded(NumCol(t))
      /\ Whole(Padded(NumCol(t)))
  BY <1>1, PaddedWhole
<1>3. Size(t) \in Nat \ {0}
  BY <1>1 DEF Size
<1>4. ElementSize(t) \in Nat \ {0} /\ Whole(ElementSize(t))
  BY <1>1, <1>2, WholeProduct DEF ElementSize
<1>5. QED BY <1>1, <1>2, <1>3, <1>4

(* At finds the elements of sample b in the rows of sample b.              *)
LEMMA DataIdxRoom ==
  ASSUME pass \in Passes, NEW t, NEW b \in Nat,
         NEW idx \in Size(t) * b .. Size(t) * b + Size(t) - 1
  PROVE  DataIdx(t, idx) \in
           ElementSize(t) * b .. ElementSize(t) * b + ElementSize(t) - 1
<1> DEFINE rows == NumRow(t)
           cols == NumCol(t)
           width == Padded(NumCol(t))
           q == idx \div cols
           r == idx % cols
<1>1. /\ rows \in Nat \ {0} /\ cols \in Nat \ {0}
      /\ width \in Nat /\ cols <= width
      /\ Size(t) = rows * cols /\ ElementSize(t) = rows * width
  BY TensorSizes DEF Size, ElementSize
<1>2. rows * b \in Nat /\ rows * b + rows \in Nat
  BY <1>1
<1>3. /\ (rows * cols) * b = cols * (rows * b)
      /\ cols * (rows * b) + rows * cols = cols * (rows * b + rows)
      /\ (rows * width) * b = width * (rows * b)
      /\ width * (rows * b) + rows * width = width * (rows * b + rows)
  BY <1>1
<1>4. /\ cols * (rows * b) \in Nat /\ cols * (rows * b + rows) \in Nat
      /\ width * (rows * b) \in Nat /\ width * (rows * b + rows) \in Nat
  BY <1>1, <1>2
<1>5. idx \in Nat /\ cols * (rows * b) <= idx /\ idx < cols * (rows * b + rows)
  BY <1>1, <1>3, <1>4
<1>6. q \in Nat /\ r \in 0 .. cols - 1 /\ idx = cols * q + r
  BY <1>1, <1>5, Division
<1>7. DataIdx(t, idx) = width * q + r
  BY DEF DataIdx
<1> HIDE DEF rows, cols, width, q, r
<1>8. cols * q \in Nat /\ width * q \in Nat
  BY <1>1, <1>6
<1>9. rows * b <= q
  <2>1. q < rows * b => cols * q + cols <= cols * (rows * b)
    BY <1>1, <1>2, <1>6, Scaling
  <2>2. QED BY <1>1, <1>2, <1>4, <1>5, <1>6, <1>8, <2>1
<1>10. q < rows * b + rows
  <2>1. rows * b + rows < q => cols * (rows * b + rows) + cols <= cols * q
    BY <1>1, <1>2, <1>6, Scaling
  <2>2. QED BY <1>1, <1>2, <1>4, <1>5, <1>6, <1>8, <2>1
<1>11. width * (rows * b) <= width * q
  <2>1. rows * b < q => width * (rows * b) + width <= width * q
    BY <1>1, <1>2, <1>6, Scaling
  <2>2. QED BY <1>1, <1>2, <1>4, <1>6, <1>8, <1>9, <2>1
<1>12. width * q + width <= width * (rows * b + rows)
  BY <1>1, <1>2, <1>6, <1>10, Scaling
<1>13. QED
  BY <1>1, <1>3, <1>4, <1>6, <1>7, <1>8, <1>11, <1>12

-----------------------------------------------------------------------------
(* The calls of a pass.                                                    *)

Operands == {"input", "label", "prediction", "gradient1", "gradient2",
             "left", "right"}

(* What makes a call keep to its buffers and leave the operands alone.     *)
Fits(k) ==
  /\ k.out \notin Scalars \cup Operands
  /\ k.out \in {"weight", "bias"} => BackwardOfDense
  /\ k.op = "Multiply" =>
       /\ k.a # k.out /\ k.b # k.out
       /\ k.a \notin Scalars /\ k.b \notin Scalars
       /\ NumRow(k.a) = NumRow(k.out) /\ NumCol(k.b) = NumCol(k.out)
  /\ k.op = "Transpose" => Size(k.a) = Size(k.out)
  /\ k.op = "SoftMaxGradient" => Layout(k.b) = Layout(k.out)

(* Internal tensors of the units, and the outputs. *)
Internal == {"output", "delta", "backwardTemp", "backwardOutput",
             "weightTranspose", "previousInputTranspose", "weightUpdate",
             "weightUpdateMean", "biasUpdateMean", "mean", "loss"}

Names == Operands \cup Internal \cup {"weight", "bias"} \cup Scalars

Functions ==
  {"Set", "Add", "Sub", "Dot", "Div", "ScalarMul", "ScalarDiv", "ShrinkSum",
   "ShrinkDivide", "Multiply", "Transpose", "ReLU", "ReLU'", "sigmoid",
   "sigmoid'", "square", "SoftMax", "SoftMaxGradient", "Loss", "-log", "Fill",
   "Assign"}

Fitting ==
  {k \in [op : Functions, a : Names, b : Names, out : Names] : Fits(k)}

(* Calls that write tensors of S only; the plain ones are no products.     *)
Writing(S) == {k \in Fitting : k.out \in S}
Plain(S) == {k \in Writing(S) : k.op # "Multiply"}

(* No product stores in a tensor that an earlier call of s has written.    *)
FirstWrites(s) ==
  \A j \in DOMAIN s : s[j].op = "Multiply" =>
    \A i \in 1 .. j - 1 : s[i].out # s[j].out

Proper(s, S) == s \in Seq(Writing(S)) /\ s # <<>> /\ FirstWrites(s)

LEMMA PlainIsProper ==
  ASSUME NEW S, NEW s \in Seq(Plain(S)), s # <<>>
  PROVE  Proper(s, S)
<1>1. Seq(Plain(S)) \subseteq Seq(Writing(S))
  BY SeqMonotonic DEF Plain
<1>2. \A j \in DOMAIN s : s[j].op # "Multiply"
  BY ElementOfSeq DEF Plain
<1>3. QED BY <1>1, <1>2 DEF Proper, FirstWrites

LEMMA PlainConcat ==
  ASSUME NEW S, NEW s \in Seq(Plain(S)), NEW T, NEW t \in Seq(Plain(T))
  PROVE  s \o t \in Seq(Plain(S \cup T))
<1>1. Plain(S) \subseteq Plain(S \cup T) /\ Plain(T) \subseteq Plain(S \cup T)
  BY DEF Plain, Writing
<1>2. s \in Seq(Plain(S \cup T)) /\ t \in Seq(Plain(S \cup T))
  BY <1>1, SeqMonotonic
<1>3. QED BY <1>2, ConcatProperties

(* Only the products of t have to look at what s writes. *)
LEMMA ProperConcat ==
  ASSUME NEW S, NEW s, Proper(s, S), NEW T, NEW t \in Seq(Writing(T)),
         FirstWrites(t),
         \A j \in DOMAIN t : t[j].op = "Multiply" => t[j].out \notin S
  PROVE  Proper(s \o t, S \cup T)
<1>1. /\ Writing(S) \subseteq Writing(S \cup T)
      /\ Writing(T) \subseteq Writing(S \cup T)
  BY DEF Writing
<1>2. s \in Seq(Writing(S)) /\ s # <<>>
  BY DEF Proper
<1>3. s \in Seq(Writing(S \cup T)) /\ t \in Seq(Writing(S \cup T))
  BY <1>1, <1>2, SeqMonotonic
<1>4. /\ s \o t \in Seq(Writing(S \cup T))
      /\ Len(s \o t) = Len(s) + Len(t)
      /\ \A i \in 1 .. Len(s) + Len(t) :
           (s \o t)[i] = IF i <= Len(s) THEN s[i] ELSE t[i - Len(s)]
  BY <1>3, ConcatProperties
<1>5. Len(s) \in Nat /\ Len(t) \in Nat /\ Len(s) # 0
  BY <1>2, <1>3, EmptySeq, LenProperties
<1>6. s \o t # <<>>
  BY <1>4, <1>5
<1>7. ASSUME NEW j \in DOMAIN (s \o t), (s \o t)[j].op = "Multiply",
             NEW i \in 1 .. j - 1
      PROVE  (s \o t)[i].out # (s \o t)[j].out
  <2>1. j \in 1 .. Len(s) + Len(t) /\ i \in 1 .. Len(s) + Len(t)
    BY <1>4, <1>5, LenProperties
  <2>2. CASE j <= Len(s)
    <3>1. (s \o t)[j] = s[j] /\ (s \o t)[i] = s[i] /\ j \in DOMAIN s
      BY <1>2, <1>4, <2>1, <2>2, LenProperties
    <3>2. QED BY <1>7, <3>1 DEF Proper, FirstWrites
  <2>3. CASE ~(j <= Len(s)) /\ i <= Len(s)
    <3>1. (s \o t)[j] = t[j - Len(s)] /\ j - Len(s) \in DOMAIN t
      BY <1>3, <1>4, <1>5, <2>1, <2>3, LenProperties
    <3>2. (s \o t)[i] = s[i] /\ s[i] \in Writing(S)
      BY <1>2, <1>4, <2>1, <2>3, ElementOfSeq
    <3>3. QED BY <1>7, <3>1, <3>2 DEF Writing
  <2>4. CASE ~(j <= Len(s)) /\ ~(i <= Len(s))
    <3>1. (s \o t)[j] = t[j - Len(s)] /\ j - Len(s) \in DOMAIN t
      BY <1>3, <1>4, <1>5, <2>1, <2>4, LenProperties
    <3>2. (s \o t)[i] = t[i - Len(s)] /\ i - Len(s) \in 1 .. j - Len(s) - 1
      BY <1>4, <1>5, <2>1, <2>4
    <3>3. QED BY <1>7, <3>1, <3>2 DEF FirstWrites
  <2>5. QED BY <2>2, <2>3, <2>4
<1>8. QED BY <1>4, <1>6, <1>7 DEF Proper, FirstWrites

LEMMA AppendPlain ==
  ASSUME NEW S, NEW s, Proper(s, S), NEW T, NEW t \in Seq(Plain(T))
  PROVE  Proper(s \o t, S \cup T)
<1>1. t \in Seq(Writing(T))
  BY SeqMonotonic DEF Plain
<1>2. \A j \in DOMAIN t : t[j].op # "Multiply"
  BY ElementOfSeq DEF Plain
<1>3. QED BY <1>1, <1>2, ProperConcat DEF FirstWrites

LEMMA NamesKnown ==
  /\ \A t \in Operands \cup Internal \cup Scalars : t \in Names
  /\ "weight" \in Names /\ "bias" \in Names /\ "Multiply" \in Functions
  /\ "Transpose" \in Functions /\ "SoftMaxGradient" \in Functions
  /\ \A t \in Internal \cup {"weight", "bias"} :
       t \notin Scalars \cup Operands
  /\ "weight" \notin Internal /\ "bias" \notin Internal
BY DEF Names, Internal, Scalars, Operands, Functions

LEMMA CallInSeq ==
  ASSUME NEW op \in Functions, NEW a \in Names, NEW b \in Names,
         NEW out \in Names,
         Fits([op |-> op, a |-> a, b |-> b, out |-> out])
  PROVE  /\ Call(op, a, b, out) \in Seq(Writing({out}))
         /\ Call(op, a, b, out) # <<>>
         /\ op # "Multiply" => Call(op, a, b, out) \in Seq(Plain({out}))
<1> DEFINE k == [op |-> op, a |-> a, b |-> b, out |-> out]
<1>1. k \in Writing({out}) /\ (op # "Multiply" => k \in Plain({out}))
  BY DEF Writing, Plain, Fitting
<1>2. Call(op, a, b, out) = <<k>>
  BY DEF Call
<1> HIDE DEF k
<1>3. QED BY <1>1, <1>2

LEMMA AppendMultiply ==
  ASSUME NEW S, NEW s, Proper(s, S),
         NEW a \in Names, NEW b \in Names, NEW out \in Names, out \notin S,
         Fits([op |-> "Multiply", a |-> a, b |-> b, out |-> out])
  PROVE  Proper(s \o Call("Multiply", a, b, out), S \cup {out})
<1> DEFINE t == Call("Multiply", a, b, out)
<1>1. t \in Seq(Writing({out}))
  BY CallInSeq, NamesKnown
<1>2. DOMAIN t = {1} /\ t[1].out = out
  BY DEF Call
<1>3. FirstWrites(t)
  BY <1>2 DEF FirstWrites
<1>4. QED BY <1>1, <1>2, <1>3, ProperConcat

LEMMA PlainCall ==
  ASSUME NEW op \in Functions, NEW a \in Names, NEW b \in Names,
         NEW out \in Internal \cup {"weight", "bias"},
         op \notin {"Multiply", "Transpose", "SoftMaxGradient"},
         out \in {"weight", "bias"} => BackwardOfDense
  PROVE  /\ Call(op, a, b, out) \in Seq(Plain({out}))
         /\ Call(op, a, b, out) # <<>>
<1>1. out \in Names /\ out \notin Scalars \cup Operands
  BY NamesKnown
<1>2. Fits([op |-> op, a |-> a, b |-> b, out |-> out])
  BY <1>1 DEF Fits
<1>3. QED BY <1>1, <1>2, CallInSeq

LEMMA TransposeCall ==
  ASSUME NEW a \in Names, NEW out \in Internal, Size(a) = Size(out)
  PROVE  Call("Transpose", a, a, out) \in Seq(Plain({out}))
<1>1. out \in Names /\ out \notin Scalars \cup Operands \cup {"weight", "bias"}
  BY NamesKnown
<1>2. Fits([op |-> "Transpose", a |-> a, b |-> a, out |-> out])
  BY <1>1 DEF Fits
<1>3. QED BY <1>1, <1>2, CallInSeq, NamesKnown

(* FlattenSeq of one and of two sequences. *)
LEMMA FlattenOne ==
  ASSUME NEW x
  PROVE  FlattenSeq(<<x>>) = x
<1> DEFINE Flattens(f) == f = [i \in 1 .. Len(<<x>>) |->
              IF i = 1 THEN <<x>>[i] ELSE f[i - 1] \o <<x>>[i]]
<1>1. Len(<<x>>) = 1
  OBVIOUS
<1>2. \E f : Flattens(f)
  <2> DEFINE f == [i \in 1 .. 1 |-> x]
  <2>1. Flattens(f)
    OBVIOUS
  <2> HIDE DEF f, Flattens
  <2>2. QED BY <2>1
<1>3. \A f : Flattens(f) => f[1] = x
  OBVIOUS
<1> DEFINE flatten == CHOOSE f : Flattens(f)
<1>4. FlattenSeq(<<x>>) = flatten[1]
  BY <1>1 DEF FlattenSeq
<1>5. Flattens(flatten)
  <2> HIDE DEF Flattens
  <2>1. QED BY <1>2
<1> HIDE DEF flatten, Flattens
<1>6. QED BY <1>3, <1>4, <1>5

LEMMA FlattenTwo ==
  ASSUME NEW x, NEW y
  PROVE  FlattenSeq(<<x, y>>) = x \o y
<1> DEFINE Flattens(f) == f = [i \in 1 .. Len(<<x, y>>) |->
              IF i = 1 THEN <<x, y>>[i] ELSE f[i - 1] \o <<x, y>>[i]]
<1>1. Len(<<x, y>>) = 2
  OBVIOUS
<1>2. \E f : Flattens(f)
  <2> DEFINE f == [i \in 1 .. 2 |-> IF i = 1 THEN x ELSE x \o y]
  <2>1. Flattens(f)
    OBVIOUS
  <2> HIDE DEF f, Flattens
  <2>2. QED BY <2>1
<1>3. ASSUME NEW f, Flattens(f) PROVE f[2] = x \o y
  <2>1. f[1] = x
    BY <1>1, <1>3
  <2>2. f[2] = f[1] \o y
    <3>1. \A i \in 1 .. 2 : f[i] = IF i = 1 THEN <<x, y>>[i]
                                   ELSE f[i - 1] \o <<x, y>>[i]
      BY <1>1, <1>3
    <3>2. f[2] = f[2 - 1] \o <<x, y>>[2]
      BY <3>1
    <3>3. QED BY <3>2
  <2>3. QED BY <2>1, <2>2
<1> DEFINE flatten == CHOOSE f : Flattens(f)
<1>4. FlattenSeq(<<x, y>>) = flatten[2]
  BY <1>1 DEF FlattenSeq
<1>5. Flattens(flatten)
  <2> HIDE DEF Flattens
  <2>1. QED BY <1>2
<1> HIDE DEF flatten, Flattens
<1>6. QED BY <1>3, <1>4, <1>5

LEMMA GradientNames ==
  ASSUME pass \in Passes
  PROVE  \/ Gradients = <<"gradient1">>
         \/ Gradients = <<"gradient1", "gradient2">>
<1>1. pass.consumers \in {1, 2}
  BY PassFacts
<1>2. CASE pass.consumers = 1
  <2> DEFINE all == <<"gradient1", "gradient2">>
             some == SubSeq(all, 1, 1)
  <2>1. all \in Seq({"gradient1", "gradient2"}) /\ Len(all) = 2
    OBVIOUS
  <2>2. /\ some \in Seq({"gradient1", "gradient2"}) /\ Len(some) = 1
        /\ some[1] = all[1]
    BY <2>1, SubSeqProperties
  <2> HIDE DEF some
  <2>3. /\ <<"gradient1">> \in Seq({"gradient1", "gradient2"})
        /\ Len(<<"gradient1">>) = 1 /\ <<"gradient1">>[1] = all[1]
    OBVIOUS
  <2>4. some = <<"gradient1">>
    BY <2>2, <2>3, SeqEqual
  <2>5. QED BY <1>2, <2>4 DEF Gradients, some
<1>3. CASE pass.consumers = 2
  <2> DEFINE all == <<"gradient1", "gradient2">>
  <2>1. all \in Seq({"gradient1", "gradient2"}) /\ Len(all) = 2
    OBVIOUS
  <2>2. QED BY <1>3, <2>1, SubSeqFull DEF Gradients
<1>4. QED BY <1>1, <1>2, <1>3

(* The calls that add up the gradients. *)
GradientCalls(t) ==
  FlattenSeq([n \in DOMAIN Gradients |-> Call("Add", t, Gradients[n], t)])

LEMMA GradientCallsAre ==
  ASSUME pass \in Passes, NEW t
  PROVE  \/ /\ Gradients = <<"gradient1">>
            /\ GradientCalls(t) = Call("Add", t, "gradient1", t)
         \/ /\ Gradients = <<"gradient1", "gradient2">>
            /\ GradientCalls(t) = Call("Add", t, "gradient1", t) \o
                                  Call("Add", t, "gradient2", t)
<1> DEFINE calls ==
             [n \in DOMAIN Gradients |-> Call("Add", t, Gradients[n], t)]
<1>1. CASE Gradients = <<"gradient1">>
  <2>1. calls = <<Call("Add", t, "gradient1", t)>>
    BY <1>1
  <2>2. QED BY <1>1, <2>1, FlattenOne DEF GradientCalls
<1>2. CASE Gradients = <<"gradient1", "gradient2">>
  <2>1. calls =
          <<Call("Add", t, "gradient1", t), Call("Add", t, "gradient2", t)>>
    BY <1>2
  <2>2. QED BY <1>2, <2>1, FlattenTwo DEF GradientCalls
<1>3. QED BY <1>1, <1>2, GradientNames

LEMMA SumGradientsPlain ==
  ASSUME pass \in Passes, NEW t \in Internal
  PROVE  SumGradients(t) \in Seq(Plain({t})) /\ SumGradients(t) # <<>>
<1>0. /\ t \in Names /\ t \notin {"weight", "bias"}
      /\ "0" \in Names /\ "gradient1" \in Names /\ "gradient2" \in Names
      /\ "Set" \in Functions /\ "Add" \in Functions
  BY NamesKnown DEF Operands, Scalars, Functions
<1>1. /\ Call("Set", "0", "0", t) \in Seq(Plain({t}))
      /\ Call("Set", "0", "0", t) # <<>>
  BY <1>0, PlainCall
<1>2. \A g \in Names : Call("Add", t, g, t) \in Seq(Plain({t}))
  BY <1>0, PlainCall
<1>3. GradientCalls(t) \in Seq(Plain({t}))
  BY <1>0, <1>2, GradientCallsAre, ConcatProperties
<1>4. SumGradients(t) = Call("Set", "0", "0", t) \o GradientCalls(t)
  BY DEF SumGradients, GradientCalls
<1> DEFINE x == Call("Set", "0", "0", t)
           y == GradientCalls(t)
<1>5. x \in Seq(Plain({t})) /\ x # <<>> /\ y \in Seq(Plain({t}))
  BY <1>1, <1>3
<1> HIDE DEF x, y
<1>6. x \o y \in Seq(Plain({t})) /\ x \o y # <<>>
  BY <1>5, ConcatProperties, EmptySeq, LenProperties
<1>7. QED BY <1>4, <1>6 DEF x, y

-----------------------------------------------------------------------------
(* Every pass is such a sequence of calls.                                 *)

LEMMA AllNames ==
  /\ {"input", "label", "prediction", "left", "right", "weight", "bias",
      "output", "delta", "backwardTemp", "backwardOutput", "weightTranspose",
      "previousInputTranspose", "weightUpdate", "weightUpdateMean",
      "biasUpdateMean", "mean", "loss", "consumers", "batch", "epsilon", "0",
      "1", "2", "draw", "data"} \subseteq Names
  /\ {"output", "delta", "backwardTemp", "backwardOutput", "weightTranspose",
      "previousInputTranspose", "weightUpdate", "weightUpdateMean",
      "biasUpdateMean", "mean", "loss"} \subseteq Internal
  /\ "input" \notin Scalars /\ "weight" \notin Scalars
BY DEF Names, Internal, Operands, Scalars

LEMMA Layouts ==
  /\ Layout("input")[1] = pass.rows /\ Layout("input")[2] = pass.mid
  /\ Layout("weight")[1] = pass.mid /\ Layout("weight")[2] = pass.cols
  /\ \A t \in {"output", "delta", "backwardTemp"} :
       Layout(t) = <<pass.rows, pass.cols, pass.batch>>
  /\ Layout("backwardOutput") =
       <<pass.rows, pass.mid, IF pass.cast = "A" THEN 1 ELSE pass.batch>>
  /\ Layout("weightTranspose") = <<pass.cols, pass.mid, 1>>
  /\ Layout("previousInputTranspose") = <<pass.mid, 1, pass.batch>>
  /\ Layout("weightUpdate") = <<pass.mid, pass.cols, pass.batch>>
BY DEF Layout

LEMMA ShrinkPlain ==
  ASSUME NEW t \in Names, NEW mean \in Internal
  PROVE  Shrink(t, mean) \in Seq(Plain({mean}))
<1>1. "ShrinkSum" \in Functions /\ "ShrinkDivide" \in Functions
  BY DEF Functions
<1>2. mean \in Names /\ "batch" \in Names /\ mean \notin {"weight", "bias"}
  BY NamesKnown, AllNames
<1>3. /\ Call("ShrinkSum", t, mean, mean) \in Seq(Plain({mean}))
      /\ Call("ShrinkDivide", mean, "batch", mean) \in Seq(Plain({mean}))
  BY <1>1, <1>2, PlainCall
<1>4. QED BY <1>3, ConcatProperties DEF Shrink

LEMMA OptimizePlain ==
  ASSUME BackwardOfDense, NEW t \in {"weight", "bias"},
         NEW update \in Internal
  PROVE  Optimize(t, update) \in Seq(Plain({t, update}))
<1>1. "ScalarMul" \in Functions /\ "Add" \in Functions
  BY DEF Functions
<1>2. t \in Names /\ update \in Names /\ "epsilon" \in Names
      /\ update \notin {"weight", "bias"}
  BY NamesKnown, AllNames
<1>3. Call("ScalarMul", update, "epsilon", update) \in Seq(Plain({update}))
  BY <1>1, <1>2, PlainCall
<1>4. Call("Add", t, update, t) \in Seq(Plain({t}))
  BY <1>1, <1>2, PlainCall
<1>5. {update} \cup {t} = {t, update}
  OBVIOUS
<1>6. QED BY <1>3, <1>4, <1>5, PlainConcat DEF Optimize

LEMMA DenseForwardProper ==
  ASSUME pass \in Passes
  PROVE  \E S : Proper(DenseForward, S)
<1> DEFINE s == Call("Multiply", "input", "weight", "output")
           t == Call("Add", "bias", "output", "output")
<1>1. Fits([op |-> "Multiply", a |-> "input", b |-> "weight",
            out |-> "output"])
  BY Layouts, NamesKnown, AllNames DEF Fits, NumRow, NumCol
<1>2. s \in Seq(Writing({"output"})) /\ s # <<>>
  BY <1>1, CallInSeq, AllNames, NamesKnown
<1>3. FirstWrites(s)
  <2>1. DOMAIN s = {1}
    BY DEF Call
  <2>2. QED BY <2>1 DEF FirstWrites
<1>4. t \in Seq(Plain({"output"}))
  <2>1. "Add" \in Functions
    BY DEF Functions
  <2>2. QED BY <2>1, PlainCall, AllNames, NamesKnown
<1>5. Proper(s, {"output"})
  BY <1>2, <1>3 DEF Proper
<1> HIDE DEF s, t
<1>6. Proper(s \o t, {"output"} \cup {"output"})
  BY <1>4, <1>5, AppendPlain
<1>7. DenseForward = s \o t
  BY DEF DenseForward, s, t
<1>8. QED BY <1>6, <1>7

LEMMA DenseBackwardProper ==
  ASSUME pass \in Passes, BackwardOfDense
  PROVE  \E S : Proper(DenseBackward, S)
<1> DEFINE s1 == SumGradients("delta") \o
                 Call("ScalarDiv", "delta", "consumers", "delta")
           s2 == s1 \o Call("Transpose", "weight", "weight", "weightTranspose")
           s3 == s2 \o
             Call("Multiply", "delta", "weightTranspose", "backwardOutput")
           s4 == s3 \o
             Call("Transpose", "input", "input", "previousInputTranspose")
           s5 == s4 \o
             Call("Multiply", "previousInputTranspose", "delta",
                  "weightUpdate")
           s6 == s5 \o Shrink("weightUpdate", "weightUpdateMean")
           s7 == s6 \o Shrink("delta", "biasUpdateMean")
           s8 == s7 \o Optimize("weight", "weightUpdateMean")
           S3 == {"delta", "weightTranspose"} \cup {"backwardOutput"}
           S4 == S3 \cup {"previousInputTranspose"}
           S5 == S4 \cup {"weightUpdate"}
<1>1. /\ pass.rows = 1 /\ pass.rows \in Nat
      /\ pass.mid \in Nat /\ pass.cols \in Nat
  <2>1. pass.kind \in OfDense
    BY DEF BackwardOfDense, OfDense
  <2>2. QED BY <2>1, PassesAssumption, PassFacts
<1>2. s1 \in Seq(Plain({"delta"})) /\ s1 # <<>>
  <2>1. SumGradients("delta") \in Seq(Plain({"delta"}))
        /\ SumGradients("delta") # <<>>
    BY SumGradientsPlain, AllNames
  <2>2. "ScalarDiv" \in Functions
    BY DEF Functions
  <2>3. Call("ScalarDiv", "delta", "consumers", "delta")
          \in Seq(Plain({"delta"}))
    BY <2>2, PlainCall, AllNames, NamesKnown
  <2>4. \A x, y \in Seq(Plain({"delta"})) :
          x # <<>> => x \o y \in Seq(Plain({"delta"})) /\ x \o y # <<>>
    BY ConcatProperties, EmptySeq, LenProperties
  <2>5. QED BY <2>1, <2>3, <2>4
<1>3. Proper(s1, {"delta"})
  BY <1>2, PlainIsProper
<1>4. Call("Transpose", "weight", "weight", "weightTranspose") \in
        Seq(Plain({"weightTranspose"}))
  <2>1. Size("weight") = Size("weightTranspose")
    BY <1>1, Layouts DEF Size, NumRow, NumCol
  <2>2. QED BY <2>1, TransposeCall, AllNames
<1>5. Call("Transpose", "input", "input", "previousInputTranspose") \in
        Seq(Plain({"previousInputTranspose"}))
  <2>1. Size("input") = Size("previousInputTranspose")
    BY <1>1, Layouts DEF Size, NumRow, NumCol
  <2>2. QED BY <2>1, TransposeCall, AllNames
<1>6. Fits([op |-> "Multiply", a |-> "delta", b |-> "weightTranspose",
            out |-> "backwardOutput"])
  BY Layouts, NamesKnown, AllNames DEF Fits, NumRow, NumCol
<1>7. Fits([op |-> "Multiply", a |-> "previousInputTranspose", b |-> "delta",
            out |-> "weightUpdate"])
  BY Layouts, NamesKnown, AllNames DEF Fits, NumRow, NumCol
<1>8. /\ Shrink("weightUpdate", "weightUpdateMean") \in
           Seq(Plain({"weightUpdateMean"}))
      /\ Shrink("delta", "biasUpdateMean") \in Seq(Plain({"biasUpdateMean"}))
      /\ Optimize("weight", "weightUpdateMean") \in
           Seq(Plain({"weight", "weightUpdateMean"}))
      /\ Optimize("bias", "biasUpdateMean") \in
           Seq(Plain({"bias", "biasUpdateMean"}))
  BY ShrinkPlain, OptimizePlain, AllNames
<1>9. DenseBackward = s8 \o Optimize("bias", "biasUpdateMean")
  BY DEF DenseBackward
<1> HIDE DEF s1
<1>10. Proper(s2, {"delta", "weightTranspose"})
  <2>1. {"delta"} \cup {"weightTranspose"} = {"delta", "weightTranspose"}
    OBVIOUS
  <2>2. QED BY <1>3, <1>4, <2>1, AppendPlain
<1> HIDE DEF s2
<1>11. Proper(s3, S3)
  <2>1. "backwardOutput" \notin {"delta", "weightTranspose"}
    OBVIOUS
  <2>2. QED BY <1>6, <1>10, <2>1, AppendMultiply, AllNames
<1> HIDE DEF s3
<1>12. Proper(s4, S4)
  BY <1>5, <1>11, AppendPlain
<1> HIDE DEF s4
<1>13. Proper(s5, S5)
  <2>1. "weightUpdate" \notin S4
    OBVIOUS
  <2>2. QED BY <1>7, <1>12, <2>1, AppendMultiply, AllNames
<1> HIDE DEF s5, S5
<1>14. \E S : Proper(s6, S)
  BY <1>8, <1>13, AppendPlain
<1> HIDE DEF s6
<1>15. \E S : Proper(s7, S)
  BY <1>8, <1>14, AppendPlain
<1> HIDE DEF s7
<1>16. \E S : Proper(s8, S)
  BY <1>8, <1>15, AppendPlain
<1> HIDE DEF s8
<1>17. \E S : Proper(s8 \o Optimize("bias", "biasUpdateMean"), S)
  BY <1>8, <1>16, AppendPlain
<1>18. QED BY <1>9, <1>17

LEMMA ActivateProper ==
  ASSUME NEW f \in Functions \ {"Multiply", "Transpose", "SoftMaxGradient"}
  PROVE  \E S : Proper(Call(f, "input", "input", "output"), S)
BY PlainCall, PlainIsProper, AllNames, NamesKnown

LEMMA MeanGradientPlain ==
  ASSUME pass \in Passes, NEW t \in Internal
  PROVE  MeanGradient(t) \in Seq(Plain({t})) /\ MeanGradient(t) # <<>>
<1> DEFINE x == SumGradients(t)
           y == Call("ScalarDiv", t, "consumers", t)
<1>1. x \in Seq(Plain({t})) /\ x # <<>>
  BY SumGradientsPlain
<1>2. y \in Seq(Plain({t}))
  <2>1. "ScalarDiv" \in Functions
    BY DEF Functions
  <2>2. QED BY <2>1, PlainCall, AllNames, NamesKnown
<1>3. MeanGradient(t) = x \o y
  BY DEF MeanGradient
<1> HIDE DEF x, y
<1>4. x \o y \in Seq(Plain({t})) /\ x \o y # <<>>
  BY <1>1, <1>2, ConcatProperties, EmptySeq, LenProperties
<1>5. QED BY <1>3, <1>4

(* A mean of the gradients and two plain calls. *)
LEMMA DeriveProper ==
  ASSUME pass \in Passes,
         NEW f \in Functions, NEW a \in Names, NEW b \in Names,
         f \notin {"Multiply", "Transpose", "SoftMaxGradient"},
         NEW c \in Names, NEW d \in Names
  PROVE  \E S : Proper(MeanGradient("backwardTemp") \o
                       Call(f, a, b, "backwardOutput") \o
                       Call("Dot", c, d, "backwardOutput"), S)
<1> DEFINE x == MeanGradient("backwardTemp")
           y == Call(f, a, b, "backwardOutput")
           z == Call("Dot", c, d, "backwardOutput")
<1>1. "Dot" \in Functions
  BY DEF Functions
<1>2. x \in Seq(Plain({"backwardTemp"})) /\ x # <<>>
  BY MeanGradientPlain, AllNames
<1>3. /\ y \in Seq(Plain({"backwardOutput"}))
      /\ z \in Seq(Plain({"backwardOutput"}))
  BY <1>1, PlainCall, AllNames, NamesKnown
<1> HIDE DEF x, y, z
<1>4. Proper(x, {"backwardTemp"})
  BY <1>2, PlainIsProper
<1>5. \E S : Proper(x \o y, S)
  BY <1>3, <1>4, AppendPlain
<1>6. \E S : Proper((x \o y) \o z, S)
  BY <1>3, <1>5, AppendPlain
<1>7. QED BY <1>6 DEF x, y, z

LEMMA SoftMaxBackwardProper ==
  ASSUME pass \in Passes, pass.mid = pass.cols, pass.cast # "A"
  PROVE  \E S : Proper(SoftMaxBackward, S)
<1> DEFINE x == SumGradients("backwardTemp")
           y == Call("SoftMaxGradient", "backwardTemp", "output",
                     "backwardOutput")
<1>1. x \in Seq(Plain({"backwardTemp"})) /\ x # <<>>
  BY SumGradientsPlain, AllNames
<1>2. y \in Seq(Plain({"backwardOutput"}))
  <2>1. Layout("output") = Layout("backwardOutput")
    BY Layouts
  <2>2. Fits([op |-> "SoftMaxGradient", a |-> "backwardTemp", b |-> "output",
              out |-> "backwardOutput"])
    BY <2>1, AllNames, NamesKnown DEF Fits
  <2>3. QED BY <2>2, CallInSeq, AllNames, NamesKnown
<1>3. SoftMaxBackward = x \o y
  BY DEF SoftMaxBackward
<1> HIDE DEF x, y
<1>4. Proper(x, {"backwardTemp"})
  BY <1>1, PlainIsProper
<1>5. QED BY <1>2, <1>3, <1>4, AppendPlain

LEMMA LossesProper ==
  /\ \E S : Proper(MSEForward, S)
  /\ \E S : Proper(CrossEntropyForward, S)
  /\ \E S : Proper(MSEBackward, S)
  /\ \E S : Proper(MSEAsyncBackward, S)
  /\ \E S : Proper(CrossEntropyBackward, S)
<1> DEFINE sub == Call("Sub", "label", "prediction", "output")
           square == Call("Dot", "output", "output", "output")
           half == Call("ScalarDiv", "output", "2", "output")
           log == Call("-log", "prediction", "prediction", "output")
           dot == Call("Dot", "label", "output", "output")
           loss == Call("Loss", "output", "batch", "loss")
<1>1. {"Sub", "Dot", "ScalarDiv", "-log", "Loss", "Div"} \subseteq
        Functions \ {"Multiply", "Transpose", "SoftMaxGradient"}
  BY DEF Functions
<1>2. /\ sub \in Seq(Plain({"output"})) /\ sub # <<>>
      /\ square \in Seq(Plain({"output"})) /\ half \in Seq(Plain({"output"}))
      /\ log \in Seq(Plain({"output"})) /\ log # <<>>
      /\ dot \in Seq(Plain({"output"})) /\ loss \in Seq(Plain({"loss"}))
  BY <1>1, PlainCall, AllNames, NamesKnown
<1>3. \E S : Proper(sub, S)
  BY <1>2, PlainIsProper
<1>4. \E S : Proper(log, S)
  BY <1>2, PlainIsProper
<1>5. MSEForward = ((sub \o square) \o half) \o loss
  BY DEF MSEForward
<1>6. CrossEntropyForward = (log \o dot) \o loss
  BY DEF CrossEntropyForward
<1>7. MSEAsyncBackward = sub
  BY DEF MSEAsyncBackward
<1> HIDE DEF sub, square, half, log, dot, loss
<1>8. \E S : Proper(sub \o square, S)
  BY <1>2, <1>3, AppendPlain
<1>9. \E S : Proper((sub \o square) \o half, S)
  BY <1>2, <1>8, AppendPlain
<1>10. \E S : Proper(MSEForward, S)
  BY <1>2, <1>5, <1>9, AppendPlain
<1>11. \E S : Proper(log \o dot, S)
  BY <1>2, <1>4, AppendPlain
<1>12. \E S : Proper(CrossEntropyForward, S)
  BY <1>2, <1>6, <1>11, AppendPlain
<1>13. \E S : Proper(MSEBackward, S)
  BY <1>1, PlainCall, PlainIsProper, AllNames, NamesKnown DEF MSEBackward
<1>14. \E S : Proper(CrossEntropyBackward, S)
  BY <1>1, PlainCall, PlainIsProper, AllNames, NamesKnown
  DEF CrossEntropyBackward
<1>15. QED BY <1>3, <1>7, <1>10, <1>12, <1>13, <1>14

LEMMA KernelProper ==
  ASSUME pass \in Passes, pass.kind \in Kernels
  PROVE  \E S : Proper(KernelAlone, S)
<1>1. CASE pass.kind = "Multiply"
  <2> DEFINE s == Call("Multiply", "input", "weight", "output")
  <2>1. Fits([op |-> "Multiply", a |-> "input", b |-> "weight",
              out |-> "output"])
    BY Layouts, NamesKnown, AllNames DEF Fits, NumRow, NumCol
  <2>2. s \in Seq(Writing({"output"})) /\ s # <<>>
    BY <2>1, CallInSeq, AllNames, NamesKnown
  <2>3. FirstWrites(s)
    <3>1. DOMAIN s = {1}
      BY DEF Call
    <3>2. QED BY <3>1 DEF FirstWrites
  <2>4. KernelAlone = s
    BY <1>1 DEF KernelAlone
  <2>5. QED BY <2>2, <2>3, <2>4 DEF Proper
<1>2. CASE pass.kind \in {"Add", "Sub", "Dot", "Div"}
  <2>1. pass.kind \in Functions \ {"Multiply", "Transpose", "SoftMaxGradient"}
    BY <1>2 DEF Functions
  <2>2. KernelAlone = Call(pass.kind, "left", "right", "output")
    BY <1>2 DEF KernelAlone
  <2>3. QED BY <2>1, <2>2, PlainCall, PlainIsProper, AllNames, NamesKnown
<1>3. CASE pass.kind \in {"ScalarMul", "ScalarDiv"}
  <2>1. pass.kind \in Functions \ {"Multiply", "Transpose", "SoftMaxGradient"}
    BY <1>3 DEF Functions
  <2>2. KernelAlone = Call(pass.kind, "left", "2", "output")
    BY <1>3 DEF KernelAlone
  <2>3. QED BY <2>1, <2>2, PlainCall, PlainIsProper, AllNames, NamesKnown
<1>4. CASE pass.kind = "Shrink"
  <2> DEFINE s == Call("ShrinkSum", "left", "mean", "mean")
             t == Call("ShrinkDivide", "mean", "batch", "mean")
  <2>1. {"ShrinkSum", "ShrinkDivide"} \subseteq
          Functions \ {"Multiply", "Transpose", "SoftMaxGradient"}
    BY DEF Functions
  <2>2. /\ s \in Seq(Plain({"mean"})) /\ s # <<>>
        /\ t \in Seq(Plain({"mean"}))
    BY <2>1, PlainCall, AllNames, NamesKnown
  <2>3. KernelAlone = s \o t
    BY <1>4 DEF KernelAlone, Shrink
  <2> HIDE DEF s, t
  <2>4. Proper(s, {"mean"})
    BY <2>2, PlainIsProper
  <2>5. QED BY <2>2, <2>3, <2>4, AppendPlain
<1>5. QED BY <1>1, <1>2, <1>3, <1>4 DEF Kernels

LEMMA InitializerProper ==
  ASSUME pass.kind \in Initializers
  PROVE  \E S : Proper(Initialize, S)
<1>1. {"Set", "Fill", "Assign"} \subseteq
        Functions \ {"Multiply", "Transpose", "SoftMaxGradient"}
  BY DEF Functions
<1>2. /\ \E S : Proper(Call("Set", "0", "0", "output"), S)
      /\ \E S : Proper(Call("Set", "1", "1", "output"), S)
      /\ \E S : Proper(Call("Fill", "draw", "draw", "output"), S)
      /\ \E S : Proper(Call("Assign", "data", "data", "output"), S)
  BY <1>1, PlainCall, PlainIsProper, AllNames, NamesKnown
<1>3. QED BY <1>2 DEF Initialize, Initializers

LEMMA ProgramProper ==
  ASSUME pass \in Passes
  PROVE  \E S : Proper(Program, S)
<1> USE DEF Kernels, Initializers
<1>0. /\ pass.kind \in Kinds
      /\ pass.kind \in (Synchronous \cup Asynchronous) \ OfDense =>
           pass.mid = pass.cols /\ pass.cast # "A"
  BY PassesAssumption, PassFacts DEF Synchronous, Asynchronous
<1>1. CASE pass.kind \in Kernels
  BY <1>1, KernelProper DEF Program
<1>2. CASE pass.kind \in Initializers
  BY <1>2, InitializerProper DEF Program
<1>3. CASE pass.kind \in {"DenseForward", "DenseAsyncForward"}
  BY <1>3, DenseForwardProper DEF Program, DenseAsyncForward
<1>4. CASE pass.kind \in {"DenseBackward", "DenseAsyncBackward"}
  BY <1>4, DenseBackwardProper DEF Program, DenseAsyncBackward, BackwardOfDense
<1>5. {"ReLU", "ReLU'", "sigmoid", "sigmoid'", "square", "SoftMax"} \subseteq
        Functions \ {"Multiply", "Transpose", "SoftMaxGradient"}
  BY DEF Functions
<1>6. CASE pass.kind \in {"ReLUForward", "ReLUAsyncForward"}
  BY <1>5, <1>6, ActivateProper
  DEF Program, ReLUForward, ReLUAsyncForward, Activate
<1>7. CASE pass.kind \in {"SigmoidForward", "SigmoidAsyncForward"}
  BY <1>5, <1>7, ActivateProper
  DEF Program, SigmoidForward, SigmoidAsyncForward, Activate
<1>8. CASE pass.kind \in {"SoftMaxForward", "SoftMaxAsyncForward"}
  BY <1>5, <1>8, ActivateProper
  DEF Program, SoftMaxForward, SoftMaxAsyncForward
<1>9. CASE pass.kind \in {"ReLUBackward", "ReLUAsyncBackward"}
  BY <1>5, <1>9, DeriveProper, AllNames
  DEF Program, ReLUBackward, ReLUAsyncBackward, Derive
<1>10. CASE pass.kind = "SigmoidBackward"
  BY <1>5, <1>10, DeriveProper, AllNames DEF Program, SigmoidBackward, Derive
<1>11. CASE pass.kind = "SigmoidAsyncBackward"
  BY <1>5, <1>11, DeriveProper, AllNames DEF Program, SigmoidAsyncBackward
<1>12. CASE pass.kind \in {"SoftMaxBackward", "SoftMaxAsyncBackward"}
  <2>1. pass.mid = pass.cols /\ pass.cast # "A"
    BY <1>0, <1>12 DEF Synchronous, Asynchronous, OfDense
  <2>2. QED
    BY <1>12, <2>1, SoftMaxBackwardProper DEF Program, SoftMaxAsyncBackward
<1>13. CASE pass.kind \in {"MSEForward", "MSEAsyncForward"}
  BY <1>13, LossesProper DEF Program, MSEAsyncForward
<1>14. CASE pass.kind \in {"CrossEntropyForward", "CrossEntropyAsyncForward"}
  BY <1>14, LossesProper DEF Program, CrossEntropyAsyncForward
<1>15. CASE pass.kind \in {"MSEBackward", "MSEAsyncBackward"}
  BY <1>15, LossesProper DEF Program
<1>16. CASE pass.kind \in {"CrossEntropyBackward", "CrossEntropyAsyncBackward"}
  BY <1>16, LossesProper DEF Program, CrossEntropyAsyncBackward
<1>17. QED
  BY <1>0, <1>1, <1>2, <1>3, <1>4, <1>6, <1>7, <1>8, <1>9, <1>10, <1>11,
     <1>12, <1>13, <1>14, <1>15, <1>16 DEF Kinds, Synchronous, Asynchronous

-----------------------------------------------------------------------------
(* The loops.                                                              *)

(* Where the counters of an unfinished iteration of call k may be.         *)
InLoops(k, p) ==
  /\ p \in [jj : Nat, kk : Nat, i : Nat, j : Nat]
  /\ k.op = "Multiply" =>
       /\ Whole(p.jj) /\ Whole(p.j)
       /\ p.jj <= p.j /\ p.j < Smaller(p.jj + jb(k), numColB(k))
       /\ p.i < NumRow(k.a) /\ p.kk < numRowB(k)
  /\ k.op # "Multiply" => Whole(p.i) /\ p.i < Extent(k)

LEMMA VectorSizeWhole == W \in Nat \ {0} /\ Whole(W) /\ Whole(0)
<1>1. W \in Nat \ {0}
  BY BlockAssumption
<1>2. W = W * 1 /\ 0 = W * 0
  BY <1>1
<1>3. QED BY <1>1, <1>2 DEF Whole

LEMMA BlockSizes ==
  ASSUME pass \in Passes, NEW k
  PROVE  /\ numColB(k) \in Nat \ {0} /\ Whole(numColB(k))
         /\ numRowB(k) \in Nat \ {0}
         /\ jb(k) \in Nat \ {0} /\ Whole(jb(k))
         /\ kb(k) \in Nat \ {0}
<1>1. /\ numColB(k) \in Nat \ {0} /\ Whole(numColB(k))
      /\ numRowB(k) \in Nat \ {0}
  BY TensorSizes, PaddedWhole DEF numColB, numRowB
<1>2. Whole(JB) /\ JB \in Nat \ {0} /\ KB \in Nat \ {0}
  <2>1. JB \in Nat \ {0} /\ W \in Nat \ {0} /\ JB % W = 0 /\ KB \in Nat \ {0}
    BY BlockAssumption
  <2>2. JB \div W \in Nat /\ JB = W * (JB \div W) + (JB % W)
    BY <2>1, Division
  <2>3. JB = W * (JB \div W)
    BY <2>1, <2>2
  <2>4. QED BY <2>1, <2>2, <2>3 DEF Whole
<1>3. QED BY <1>1, <1>2 DEF jb, kb, Smaller

LEMMA Extents ==
  ASSUME pass \in Passes, NEW k
  PROVE  /\ k.op \in {"Multiply", "Transpose", "ShrinkDivide", "SoftMax",
                      "SoftMaxGradient", "Loss", "Assign"} => Extent(k) = W
         /\ k.op = "ShrinkSum" =>
              Extent(k) = ElementSize(k.out) * BatchSize(k.a)
         /\ k.op \in Serial \cap {"Fill", "Set", "ScalarDiv"} =>
              Extent(k) = ElementSize(k.out) * BatchSize(k.out)
         /\ k.op \notin Serial \cup {"Multiply", "Transpose", "ShrinkDivide",
                                     "SoftMax"} =>
              Extent(k) = ElementSize(k.out)
         /\ Extent(k) \in Nat \ {0} /\ Whole(Extent(k))
<1>1. /\ k.op \in {"Multiply", "Transpose", "ShrinkDivide", "SoftMax",
                   "SoftMaxGradient", "Loss", "Assign"} => Extent(k) = W
      /\ k.op = "ShrinkSum" =>
           Extent(k) = ElementSize(k.out) * BatchSize(k.a)
      /\ k.op \in Serial \cap {"Fill", "Set", "ScalarDiv"} =>
           Extent(k) = ElementSize(k.out) * BatchSize(k.out)
      /\ k.op \notin Serial \cup {"Multiply", "Transpose", "ShrinkDivide",
                                  "SoftMax"} =>
           Extent(k) = ElementSize(k.out)
  <2>1. CASE k.op \in {"Multiply", "Transpose", "ShrinkDivide", "SoftMax",
                       "SoftMaxGradient", "Loss", "Assign"}
    <3>1. Extent(k) = W
      BY <2>1 DEF Extent, Serial
    <3>2. k.op \in Serial \cup {"Multiply", "Transpose", "ShrinkDivide",
                                "SoftMax"}
      BY <2>1 DEF Serial
    <3>3. k.op \notin {"ShrinkSum", "Fill", "Set", "ScalarDiv"}
      BY <2>1
    <3>4. QED BY <3>1, <3>2, <3>3
  <2>2. CASE k.op = "ShrinkSum"
    <3>1. Extent(k) = ElementSize(k.out) * BatchSize(k.a)
      BY <2>2 DEF Extent, Serial
    <3>2. k.op \in Serial
      BY <2>2 DEF Serial
    <3>3. QED BY <2>2, <3>1, <3>2
  <2>3. CASE ~(k.op \in {"Multiply", "Transpose", "ShrinkDivide", "SoftMax",
                         "SoftMaxGradient", "Loss", "Assign", "ShrinkSum"})
    <3>1. Extent(k) = IF k.op \in Serial \cap {"Set", "ScalarDiv", "Fill"}
                      THEN ElementSize(k.out) * BatchSize(k.out)
                      ELSE ElementSize(k.out)
      BY <2>3 DEF Extent
    <3>2. k.op \in Serial => k.op \in {"Set", "ScalarDiv", "Fill"}
      BY <2>3 DEF Serial
    <3>3. QED BY <2>3, <3>1, <3>2
  <2>4. QED BY <2>1, <2>2, <2>3
<1>2. \/ Extent(k) = W
      \/ Extent(k) = ElementSize(k.out) * BatchSize(k.a)
      \/ Extent(k) = ElementSize(k.out) * BatchSize(k.out)
      \/ Extent(k) = ElementSize(k.out)
  BY DEF Extent
<1>3. /\ ElementSize(k.out) \in Nat \ {0} /\ Whole(ElementSize(k.out))
      /\ BatchSize(k.a) \in Nat \ {0} /\ BatchSize(k.out) \in Nat \ {0}
  BY TensorSizes
<1>4. Extent(k) \in Nat \ {0} /\ Whole(Extent(k))
  BY <1>2, <1>3, WholeProduct, VectorSizeWhole
<1>5. QED BY <1>1, <1>4

LEMMA LoopStart ==
  ASSUME pass \in Passes, NEW k
  PROVE  InLoops(k, Start) /\ Start # Done
<1>1. /\ Start \in [jj : Nat, kk : Nat, i : Nat, j : Nat]
      /\ Start.jj = 0 /\ Start.kk = 0 /\ Start.i = 0 /\ Start.j = 0
      /\ Done.i = -1
  BY DEF Start, Done
<1>2. NumRow(k.a) \in Nat \ {0}
  BY TensorSizes
<1>3. QED
  BY <1>1, <1>2, BlockSizes, Extents, VectorSizeWhole DEF InLoops, Smaller

CounterValues == [jj : Nat, kk : Nat, i : Nat, j : Nat]

(* Where the counters of a product go: on in the row, to the next row, to  *)
(* the next block of terms, to the next block of columns, or out.          *)
LEMMA Advancing ==
  ASSUME pass \in Passes, NEW k, k.op = "Multiply", NEW p \in CounterValues,
         NEW next, next = Advance(k, p), NEW stop,
         stop = Smaller(p.jj + jb(k), numColB(k))
  PROVE  \/ /\ p.j + W < stop /\ next \in CounterValues
            /\ next.jj = p.jj /\ next.kk = p.kk /\ next.i = p.i
            /\ next.j = p.j + W
         \/ /\ ~(p.j + W < stop) /\ p.i + 1 < NumRow(k.a)
            /\ next \in CounterValues
            /\ next.jj = p.jj /\ next.kk = p.kk /\ next.i = p.i + 1
            /\ next.j = p.jj
         \/ /\ ~(p.j + W < stop) /\ ~(p.i + 1 < NumRow(k.a))
            /\ p.kk + kb(k) < numRowB(k) /\ next \in CounterValues
            /\ next.jj = p.jj /\ next.kk = p.kk + kb(k) /\ next.i = 0
            /\ next.j = p.jj
         \/ /\ ~(p.j + W < stop) /\ ~(p.i + 1 < NumRow(k.a))
            /\ ~(p.kk + kb(k) < numRowB(k)) /\ p.jj + jb(k) < numColB(k)
            /\ next \in CounterValues
            /\ next.jj = p.jj + jb(k) /\ next.kk = 0 /\ next.i = 0
            /\ next.j = p.jj + jb(k)
         \/ /\ ~(p.j + W < stop) /\ ~(p.i + 1 < NumRow(k.a))
            /\ ~(p.kk + kb(k) < numRowB(k)) /\ ~(p.jj + jb(k) < numColB(k))
            /\ next = Done
<1> DEFINE q1 == [p EXCEPT !.j = @ + W]
           q2 == [p EXCEPT !.i = @ + 1, !.j = p.jj]
           q3 == [p EXCEPT !.kk = @ + kb(k), !.i = 0, !.j = p.jj]
           q4 == [jj |-> p.jj + jb(k), kk |-> 0, i |-> 0, j |-> p.jj + jb(k)]
<1>1. next =
        IF p.j + W < stop THEN q1
        ELSE IF p.i + 1 < NumRow(k.a) THEN q2
        ELSE IF p.kk + kb(k) < numRowB(k) THEN q3
        ELSE IF p.jj + jb(k) < numColB(k) THEN q4 ELSE Done
  BY DEF Advance, NextBlock
<1>2. /\ p \in [jj : Nat, kk : Nat, i : Nat, j : Nat]
      /\ p.jj \in Nat /\ p.kk \in Nat /\ p.i \in Nat /\ p.j \in Nat
      /\ W \in Nat /\ kb(k) \in Nat /\ jb(k) \in Nat
  BY VectorSizeWhole, BlockSizes DEF CounterValues
<1>3. /\ q1 \in CounterValues
      /\ q1.jj = p.jj /\ q1.kk = p.kk /\ q1.i = p.i /\ q1.j = p.j + W
  BY <1>2 DEF CounterValues
<1>4. /\ q2 \in CounterValues
      /\ q2.jj = p.jj /\ q2.kk = p.kk /\ q2.i = p.i + 1 /\ q2.j = p.jj
  <2> DEFINE r == [p EXCEPT !.i = @ + 1]
  <2>1. /\ r \in [jj : Nat, kk : Nat, i : Nat, j : Nat]
        /\ r.jj = p.jj /\ r.kk = p.kk /\ r.i = p.i + 1
        /\ q2 = [r EXCEPT !.j = p.jj]
    BY <1>2
  <2> HIDE DEF q2, r
  <2>2. QED BY <1>2, <2>1 DEF CounterValues
<1>5. /\ q3 \in CounterValues
      /\ q3.jj = p.jj /\ q3.kk = p.kk + kb(k) /\ q3.i = 0 /\ q3.j = p.jj
  <2> DEFINE r == [p EXCEPT !.kk = @ + kb(k)]
             s == [r EXCEPT !.i = 0]
  <2>1. /\ r \in [jj : Nat, kk : Nat, i : Nat, j : Nat]
        /\ r.jj = p.jj /\ r.kk = p.kk + kb(k)
        /\ q3 = [s EXCEPT !.j = p.jj]
    BY <1>2
  <2> HIDE DEF q3, r
  <2>2. /\ s \in [jj : Nat, kk : Nat, i : Nat, j : Nat]
        /\ s.jj = p.jj /\ s.kk = p.kk + kb(k) /\ s.i = 0
    BY <2>1
  <2> HIDE DEF s
  <2>3. QED BY <1>2, <2>1, <2>2 DEF CounterValues
<1>6. /\ q4 \in CounterValues
      /\ q4.jj = p.jj + jb(k) /\ q4.kk = 0 /\ q4.i = 0
      /\ q4.j = p.jj + jb(k)
  BY <1>2 DEF CounterValues
<1> HIDE DEF q1, q2, q3, q4
<1>7. QED BY <1>1, <1>3, <1>4, <1>5, <1>6

(* The counters stay where they may be, and they always move on.           *)
LEMMA LoopAdvances ==
  ASSUME pass \in Passes, NEW k, NEW p, InLoops(k, p)
  PROVE  /\ Advance(k, p) = Done \/ InLoops(k, Advance(k, p))
         /\ Advance(k, p) # p /\ p # Done
<1>0. /\ p \in CounterValues /\ p.i \in Nat
      /\ Done.i = -1 /\ W \in Nat \ {0} /\ Whole(W)
  BY VectorSizeWhole DEF InLoops, Done, Start, CounterValues
<1>1. p # Done
  BY <1>0
<1>2. CASE k.op # "Multiply"
  <2>1. Stride(k) \in Nat \ {0} /\ Whole(Stride(k))
    <3>1. 2 * W = W * 2 /\ W * 2 \in Nat \ {0}
      BY <1>0
    <3>2. Whole(2 * W)
      BY <3>1 DEF Whole
    <3>3. QED BY <1>0, <3>1, <3>2 DEF Stride
  <2> DEFINE q == [p EXCEPT !.i = @ + Stride(k)]
  <2>2. /\ q \in CounterValues
        /\ q.i = p.i + Stride(k) /\ q # p
    BY <1>0, <2>1 DEF CounterValues
  <2>3. Advance(k, p) = IF p.i + Stride(k) < Extent(k) THEN q ELSE Done
    BY <1>2 DEF Advance
  <2>4. Whole(p.i + Stride(k))
    BY <1>2, <2>1, WholeSum DEF InLoops
  <2> HIDE DEF q
  <2>5. QED BY <1>1, <1>2, <2>2, <2>3, <2>4 DEF InLoops, CounterValues
<1>3. CASE k.op = "Multiply"
  <2> DEFINE stop == Smaller(p.jj + jb(k), numColB(k))
             next == Advance(k, p)
  <2>1. /\ Whole(p.jj) /\ Whole(p.j) /\ p.jj <= p.j /\ p.j < stop
        /\ p.i < NumRow(k.a) /\ p.kk < numRowB(k)
        /\ p.jj \in Nat /\ p.kk \in Nat /\ p.i \in Nat /\ p.j \in Nat
    BY <1>0, <1>3 DEF InLoops, CounterValues
  <2>2. /\ numColB(k) \in Nat /\ jb(k) \in Nat \ {0} /\ kb(k) \in Nat \ {0}
        /\ Whole(jb(k)) /\ numRowB(k) \in Nat /\ NumRow(k.a) \in Nat \ {0}
    BY BlockSizes, TensorSizes
  <2>3. Whole(p.j + W) /\ Whole(p.jj + jb(k))
    BY <1>0, <2>1, <2>2, WholeSum
  <2>4. p.jj < stop /\ stop \in Nat
    BY <2>1, <2>2 DEF Smaller
  <2>5. \/ /\ p.j + W < stop /\ next \in CounterValues
           /\ next.jj = p.jj /\ next.kk = p.kk /\ next.i = p.i
           /\ next.j = p.j + W
        \/ /\ ~(p.j + W < stop) /\ p.i + 1 < NumRow(k.a)
           /\ next \in CounterValues
           /\ next.jj = p.jj /\ next.kk = p.kk /\ next.i = p.i + 1
           /\ next.j = p.jj
        \/ /\ p.kk + kb(k) < numRowB(k) /\ next \in CounterValues
           /\ next.jj = p.jj /\ next.kk = p.kk + kb(k) /\ next.i = 0
           /\ next.j = p.jj
        \/ /\ p.jj + jb(k) < numColB(k)
           /\ next \in CounterValues
           /\ next.jj = p.jj + jb(k) /\ next.kk = 0 /\ next.i = 0
           /\ next.j = p.jj + jb(k)
        \/ next = Done
    <3> HIDE DEF stop, next
    <3>1. stop = Smaller(p.jj + jb(k), numColB(k)) /\ next = Advance(k, p)
      BY DEF stop, next
    <3>2. QED BY <1>0, <1>3, <3>1, Advancing
  <2>6. p.jj + jb(k) < numColB(k) =>
          /\ p.jj + jb(k) < Smaller(p.jj + jb(k) + jb(k), numColB(k))
          /\ 0 < numRowB(k)
    BY <2>1, <2>2 DEF Smaller
  <2>7. InLoops(k, next) <=>
          /\ next \in CounterValues
          /\ Whole(next.jj) /\ Whole(next.j) /\ next.jj <= next.j
          /\ next.j < Smaller(next.jj + jb(k), numColB(k))
          /\ next.i < NumRow(k.a) /\ next.kk < numRowB(k)
    BY <1>3 DEF InLoops, CounterValues
  <2> HIDE DEF next
  <2>8. next = Done \/ InLoops(k, next)
    BY <1>0, <2>1, <2>2, <2>3, <2>4, <2>5, <2>6, <2>7
  <2>9. next # p
    BY <1>0, <1>1, <2>1, <2>2, <2>4, <2>5
  <2>10. QED BY <1>1, <2>8, <2>9 DEF next
<1>4. QED BY <1>1, <1>2, <1>3

-----------------------------------------------------------------------------
(* What a step stores.                                                     *)

Room(t) == 0 .. ElementSize(t) * BatchSize(t) - 1

(* Matrix m of tensor t, padding included. *)
Matrix(t, m) == ElementSize(t) * m .. ElementSize(t) * m + ElementSize(t) - 1

LEMMA MatrixRoom ==
  ASSUME pass \in Passes, NEW t, NEW m \in 0 .. BatchSize(t) - 1
  PROVE  Matrix(t, m) \subseteq Room(t)
<1>1. ElementSize(t) \in Nat /\ BatchSize(t) \in Nat
  BY TensorSizes
<1>2. m \in Nat /\ m < BatchSize(t)
  BY <1>1
<1>3. ElementSize(t) * m + ElementSize(t) <= ElementSize(t) * BatchSize(t)
  BY <1>1, <1>2, Scaling
<1>4. ElementSize(t) * m \in Nat /\ ElementSize(t) * BatchSize(t) \in Nat
  BY <1>1, <1>2
<1>5. QED BY <1>1, <1>3, <1>4 DEF Matrix, Room

LEMMA MatricesApart ==
  ASSUME pass \in Passes, NEW t, NEW m \in Nat, NEW n \in Nat, m # n
  PROVE  Matrix(t, m) \cap Matrix(t, n) = {}
<1>1. ElementSize(t) \in Nat
  BY TensorSizes
<1>2. /\ m < n => ElementSize(t) * m + ElementSize(t) <= ElementSize(t) * n
      /\ n < m => ElementSize(t) * n + ElementSize(t) <= ElementSize(t) * m
  BY <1>1, Scaling
<1>3. ElementSize(t) * m \in Nat /\ ElementSize(t) * n \in Nat
  BY <1>1
<1>4. QED BY <1>1, <1>2, <1>3 DEF Matrix

LEMMA PartIsMatrix ==
  ASSUME pass \in Passes, NEW k, NEW m \in Nat, k.op # "ShrinkDivide"
  PROVE  Part(k, m) = Matrix(k.out, m)
<1>1. ElementSize(k.out) \in Nat
  BY TensorSizes
<1>2. ElementSize(k.out) * (m + 1) =
        ElementSize(k.out) * m + ElementSize(k.out)
  BY <1>1
<1>3. Part(k, m) =
        ElementSize(k.out) * m .. ElementSize(k.out) * (m + 1) - 1
  BY DEF Part
<1>4. QED BY <1>1, <1>2, <1>3 DEF Matrix

LEMMA VectorWithin ==
  ASSUME NEW e \in Nat, NEW i, NEW n, Whole(i), Whole(n), i < n
  PROVE  Vector(e + i) \subseteq e .. e + n - 1
<1>1. W \in Nat /\ i \in Nat /\ n \in Nat
  BY VectorSizeWhole DEF Whole
<1>2. i + W <= n
  BY WholeGap
<1>3. QED BY <1>1, <1>2 DEF Vector

LEMMA AnyIndexRoom ==
  ASSUME pass \in Passes, NEW t,
         NEW idx \in 0 .. Size(t) * BatchSize(t) - 1
  PROVE  DataIdx(t, idx) \in Room(t)
<1>1. Size(t) \in Nat \ {0} /\ BatchSize(t) \in Nat \ {0}
  BY TensorSizes
<1>2. idx \in Nat /\ idx < Size(t) * BatchSize(t)
  BY <1>1
<1>3. PICK b \in Nat : idx \in Size(t) * b .. Size(t) * b + Size(t) - 1
  <2>1. idx \div Size(t) \in Nat /\ idx % Size(t) \in 0 .. Size(t) - 1
    BY <1>1, <1>2, Division
  <2>2. idx = Size(t) * (idx \div Size(t)) + (idx % Size(t))
    BY <1>1, <1>2, Division
  <2> DEFINE b == idx \div Size(t)
             r == idx % Size(t)
  <2>3. b \in Nat /\ r \in 0 .. Size(t) - 1 /\ idx = Size(t) * b + r
    BY <2>1, <2>2
  <2> HIDE DEF b, r
  <2>4. Size(t) * b \in Nat
    BY <1>1, <2>3
  <2>5. idx \in Size(t) * b .. Size(t) * b + Size(t) - 1
    BY <1>1, <2>3, <2>4
  <2>6. QED BY <2>3, <2>5
<1>4. b < BatchSize(t)
  <2>1. BatchSize(t) < b =>
          Size(t) * BatchSize(t) + Size(t) <= Size(t) * b
    BY <1>1, Scaling
  <2>2. Size(t) * b \in Nat /\ Size(t) * BatchSize(t) \in Nat
    BY <1>1
  <2>3. ~(BatchSize(t) < b) /\ BatchSize(t) # b
    BY <1>1, <1>2, <1>3, <2>1, <2>2
  <2>4. QED BY <1>1, <2>3
<1>5. DataIdx(t, idx) \in Matrix(t, b) /\ b \in 0 .. BatchSize(t) - 1
  BY <1>1, <1>3, <1>4, DataIdxRoom DEF Matrix
<1>6. QED BY <1>5, MatrixRoom

TransposeCells(k, m) ==
  {DataIdx(k.out, Size(k.a) * m + idx) : idx \in 0 .. Size(k.a) - 1}

(* The addresses a step stores to, function by function. *)
LEMMA StoresDomain ==
  ASSUME NEW k \in Fitting, NEW m, NEW p
  PROVE  DOMAIN Stores(k, m, p) =
    CASE k.op = "Multiply" ->
           Vector(ElementSize(k.out) * m + p.i * numColB(k) + p.j)
      [] k.op = "Fill" -> Vector(p.i)
      [] k.op = "ShrinkSum" -> Vector(p.i % ElementSize(k.out))
      [] k.op = "ShrinkDivide" -> Vector(W * m)
      [] k.op = "Transpose" -> TransposeCells(k, m)
      [] k.op = "SoftMax" ->
           {DataIdx(k.out, i) : i \in ToSet(Sample(k.out, m))}
      [] k.op = "SoftMaxGradient" ->
           {DataIdx(k.out, i) : i \in 0 .. BatchSize(k.b) * Size(k.b) - 1}
      [] k.op = "Assign" ->
           {DataIdx(k.out, i) :
              i \in 0 .. Size(k.out) * BatchSize(k.out) - 1}
      [] k.op = "Loss" -> {0}
      [] OTHER -> Vector(ElementSize(k.out) * m + p.i)
<1>1. k.op \in Functions
  BY DEF Fitting
<1>2. CASE k.op \in {"Multiply", "Fill", "ShrinkSum", "ShrinkDivide"}
  BY <1>2 DEF Stores, MultiplyVector, FillVector, ShrinkSumVector,
              ShrinkDivideVector
<1>3. CASE k.op = "Transpose"
  BY <1>3 DEF Stores, TransposeMatrix, TransposeCells, Size
<1>4. CASE k.op = "SoftMax"
  BY <1>4 DEF Stores, SoftMaxSample, Stored
<1>5. CASE k.op = "SoftMaxGradient"
  BY <1>5 DEF Stores, SoftMaxGradientSamples, Stored
<1>6. CASE k.op = "Assign"
  BY <1>6 DEF Stores, AssignData, Stored
<1>7. CASE k.op = "Loss"
  BY <1>7 DEF Stores, LossSum
<1>8. CASE k.op \in {"Add", "Sub", "Dot", "Div"}
  BY <1>8 DEF Stores, BinaryVector
<1>9. CASE k.op \in {"ScalarMul", "ScalarDiv", "Set"}
  BY <1>9 DEF Stores, ScalarVector, SetVector
<1>10. CASE k.op \in {"ReLU", "ReLU'", "sigmoid", "sigmoid'", "square",
                      "-log"}
  BY <1>10 DEF Stores, ApplyVector
<1>11. QED
  BY <1>1, <1>2, <1>3, <1>4, <1>5, <1>6, <1>7, <1>8, <1>9, <1>10
     DEF Functions

LEMMA IterationsAre ==
  ASSUME pass \in Passes, NEW k, NEW m \in Iterations(k)
  PROVE  /\ m \in Nat
         /\ k.op \in Serial => m = 0
         /\ k.op \notin Serial \cup {"ShrinkDivide"} =>
              m \in 0 .. BatchSize(k.out) - 1
         /\ k.op = "ShrinkDivide" => m \in 0 .. ElementSize(k.out) \div W - 1
<1>1. "ShrinkDivide" \notin Serial
  BY DEF Serial
<1>2. BatchSize(k.out) \in Nat /\ ElementSize(k.out) \div W \in Nat
  BY TensorSizes, VectorSizeWhole, Division
<1>3. /\ k.op \in Serial => m = 0
      /\ k.op \notin Serial \cup {"ShrinkDivide"} =>
           m \in 0 .. BatchSize(k.out) - 1
      /\ k.op = "ShrinkDivide" => m \in 0 .. ElementSize(k.out) \div W - 1
  BY <1>1 DEF Iterations
<1>4. QED BY <1>2, <1>3

(* A step stores inside the buffer of its output, and the step of an       *)
(* iteration that OpenMP may run beside others stores in its own part.     *)
LEMMA StoresRoom ==
  ASSUME pass \in Passes, NEW k \in Fitting, NEW m \in Iterations(k),
         NEW p, InLoops(k, p)
  PROVE  /\ DOMAIN Stores(k, m, p) \subseteq Room(k.out)
         /\ k.op \notin Serial => DOMAIN Stores(k, m, p) \subseteq Part(k, m)
<1> DEFINE es == ElementSize(k.out)
           D == DOMAIN Stores(k, m, p)
<1>1. /\ es \in Nat \ {0} /\ Whole(es) /\ BatchSize(k.out) \in Nat \ {0}
      /\ W \in Nat \ {0} /\ m \in Nat
      /\ Size(k.out) \in Nat \ {0}
      /\ es <= es * BatchSize(k.out) /\ es * BatchSize(k.out) \in Nat
  <2>1. /\ es \in Nat \ {0} /\ Whole(es) /\ BatchSize(k.out) \in Nat \ {0}
        /\ W \in Nat \ {0} /\ m \in Nat /\ Size(k.out) \in Nat \ {0}
    BY TensorSizes, VectorSizeWhole, IterationsAre
  <2>2. es * 0 + es <= es * BatchSize(k.out)
    BY <2>1, Scaling
  <2>3. es * 0 = 0 /\ es * BatchSize(k.out) \in Nat
    BY <2>1
  <2>4. QED BY <2>1, <2>2, <2>3
<1>2. p \in [jj : Nat, kk : Nat, i : Nat, j : Nat] /\ k.op \in Functions
  BY DEF InLoops, Fitting
<1>3. k.op # "Multiply" => Whole(p.i) /\ p.i < Extent(k)
  BY DEF InLoops
<1>4. ASSUME k.op \notin Serial, k.op # "ShrinkDivide",
             D \subseteq Matrix(k.out, m)
      PROVE  D \subseteq Room(k.out) /\ D \subseteq Part(k, m)
  BY <1>1, <1>4, MatrixRoom, PartIsMatrix, IterationsAre
<1> HIDE DEF D
<1>5. CASE k.op = "Multiply"
  <2>1. D = Vector(es * m + p.i * numColB(k) + p.j)
    BY <1>5, StoresDomain DEF D
  <2>2. /\ NumRow(k.a) = NumRow(k.out)
        /\ numColB(k) = Padded(NumCol(k.out))
    BY <1>5 DEF Fitting, Fits, numColB
  <2>3. /\ Whole(p.j) /\ p.j < numColB(k) /\ p.i < NumRow(k.a)
        /\ p.i \in Nat /\ p.j \in Nat
    <3>1. Whole(p.j) /\ p.j < Smaller(p.jj + jb(k), numColB(k))
      BY <1>5 DEF InLoops
    <3>2. numColB(k) \in Nat /\ p.jj + jb(k) \in Nat /\ p.j \in Nat
      BY <1>2, BlockSizes
    <3>3. QED BY <1>2, <1>5, <3>1, <3>2 DEF InLoops, Smaller
  <2> DEFINE c == numColB(k)
             r == NumRow(k.a)
  <2>4. c \in Nat /\ Whole(c) /\ r \in Nat /\ es = r * c
    BY <2>2, BlockSizes, TensorSizes DEF ElementSize
  <2>5. p.j + W <= c
    BY <2>3, <2>4, WholeGap
  <2>6. c * p.i + c <= c * r /\ c * r = r * c /\ c * p.i = p.i * c
    BY <2>3, <2>4, Scaling
  <2>7. p.i * c \in Nat /\ es * m \in Nat
    BY <1>1, <2>3, <2>4
  <2> HIDE DEF r, es
  <2>8. D \subseteq es * m .. es * m + es - 1
    <3> DEFINE x == es * m
               y == p.i * c
    <3>1. /\ D = Vector(x + y + p.j) /\ x \in Nat /\ y \in Nat
          /\ p.j \in Nat /\ c \in Nat /\ p.j + W <= c /\ y + c <= es
      BY <2>1, <2>3, <2>4, <2>5, <2>6, <2>7
    <3> HIDE DEF c, x, y
    <3>2. ASSUME NEW e \in D
          PROVE  e \in x .. x + es - 1
      <4>1. /\ e \in Int /\ x + y + p.j <= e /\ e < x + y + p.j + W
            /\ es \in Nat /\ W \in Nat
        BY <1>1, <3>1 DEF Vector
      <4>2. QED BY <3>1, <4>1
    <3>3. QED BY <3>2 DEF x
  <2>9. "Multiply" \notin Serial
    BY DEF Serial
  <2>10. QED BY <1>4, <1>5, <2>8, <2>9 DEF Matrix, D, es
<1>6. CASE /\ k.op \in Serial \cap {"Fill", "Set", "ScalarDiv"}
  <2>1. m = 0
    BY <1>6, IterationsAre
  <2>2. D = Vector(0 + p.i)
    <3>1. D = Vector(p.i) \/ D = Vector(es * m + p.i)
      BY <1>6, StoresDomain DEF D
    <3>2. es * m + p.i = p.i /\ 0 + p.i = p.i
      BY <1>1, <1>2, <2>1
    <3>3. QED BY <3>1, <3>2
  <2>3. Extent(k) = es * BatchSize(k.out) /\ Whole(Extent(k))
    BY <1>6, Extents
  <2>4. D \subseteq 0 .. 0 + Extent(k) - 1
    BY <1>3, <1>6, <2>2, <2>3, VectorWithin
  <2>5. QED BY <1>1, <1>6, <2>3, <2>4 DEF Room, D
<1>7. CASE k.op = "ShrinkSum"
  <2>1. D = Vector(0 + (p.i % es))
    <3>1. D = Vector(p.i % es) /\ p.i % es \in 0 .. es - 1
      BY <1>1, <1>2, <1>7, StoresDomain, Division DEF D
    <3>2. QED BY <1>1, <3>1
  <2>2. Whole(p.i % es) /\ p.i % es < es
    BY <1>1, <1>3, <1>7, WholeRest
  <2>3. D \subseteq 0 .. 0 + es - 1
    BY <1>1, <2>1, <2>2, VectorWithin
  <2>4. k.op \in Serial
    BY <1>7 DEF Serial
  <2>5. QED BY <1>1, <2>3, <2>4 DEF Room, D
<1>8. CASE k.op = "ShrinkDivide"
  <2>1. D = Vector(W * m) /\ Part(k, m) = Vector(W * m)
    BY <1>8, StoresDomain DEF D, Part
  <2> DEFINE q == es \div W
             r == es % W
  <2>2. m \in 0 .. q - 1
    BY <1>8, IterationsAre
  <2>3. q \in Nat /\ r \in 0 .. W - 1 /\ es = W * q + r
    <3> HIDE DEF es
    <3>1. QED BY <1>1, Division
  <2> HIDE DEF q, r
  <2>4. W * m + W <= W * q
    BY <1>1, <2>2, <2>3, Scaling
  <2>5. D \subseteq 0 .. es - 1
    <3> HIDE DEF es
    <3> DEFINE x == W * m
               y == W * q
    <3>1. /\ x \in Nat /\ y \in Nat /\ x + W <= y /\ r \in Nat
          /\ es = y + r /\ D = Vector(x) /\ W \in Nat
      BY <1>1, <2>1, <2>2, <2>3, <2>4
    <3> HIDE DEF x, y
    <3>2. QED BY <3>1 DEF Vector
  <2>6. QED BY <1>1, <2>1, <2>5 DEF Room, D
<1>9. CASE k.op = "Transpose"
  <2> DEFINE n == Size(k.a)
  <2>1. n = Size(k.out) /\ n \in Nat
    BY <1>1, <1>9 DEF Fitting, Fits
  <2>2. D = {DataIdx(k.out, n * m + idx) : idx \in 0 .. n - 1}
    <3>1. D = TransposeCells(k, m)
      BY <1>9, StoresDomain DEF D
    <3>2. QED BY <3>1 DEF TransposeCells
  <2> HIDE DEF n
  <2>3. ASSUME NEW idx \in 0 .. n - 1
        PROVE  DataIdx(k.out, n * m + idx) \in Matrix(k.out, m)
    <3>1. n * m \in Nat /\ n = Size(k.out)
      BY <1>1, <2>1
    <3>2. n * m + idx \in n * m .. n * m + n - 1
      BY <2>1, <3>1
    <3>3. QED BY <1>1, <3>1, <3>2, DataIdxRoom DEF Matrix
  <2>4. k.op \notin Serial
    BY <1>9 DEF Serial
  <2>5. D \subseteq Matrix(k.out, m)
    BY <2>2, <2>3
  <2>6. QED BY <1>4, <1>9, <2>4, <2>5 DEF D
<1>10. CASE k.op = "SoftMax"
  <2>1. D = {DataIdx(k.out, i) : i \in ToSet(Sample(k.out, m))}
    BY <1>10, StoresDomain DEF D
  <2>2. ASSUME NEW i \in ToSet(Sample(k.out, m))
        PROVE  DataIdx(k.out, i) \in Matrix(k.out, m)
    <3>1. PICK n \in 1 .. Size(k.out) : i = Size(k.out) * m + n - 1
      BY DEF ToSet, Sample
    <3>2. Size(k.out) * m \in Nat
      BY <1>1
    <3>3. i \in Size(k.out) * m .. Size(k.out) * m + Size(k.out) - 1
      BY <1>1, <3>1, <3>2
    <3>4. QED BY <1>1, <3>3, DataIdxRoom DEF Matrix
  <2>3. k.op \notin Serial
    BY <1>10 DEF Serial
  <2>4. D \subseteq Matrix(k.out, m)
    BY <2>1, <2>2
  <2>5. QED BY <1>4, <1>10, <2>3, <2>4 DEF D
<1>11. CASE k.op \in {"SoftMaxGradient", "Assign"}
  <2>1. D = {DataIdx(k.out, i) : i \in 0 .. Size(k.out) * BatchSize(k.out) - 1}
    <3>1. CASE k.op = "SoftMaxGradient"
      <4>1. Layout(k.b) = Layout(k.out)
        BY <3>1 DEF Fitting, Fits
      <4>2. BatchSize(k.b) * Size(k.b) = Size(k.out) * BatchSize(k.out)
        <5>1. BatchSize(k.b) = BatchSize(k.out) /\ Size(k.b) = Size(k.out)
          BY <4>1 DEF BatchSize, Size, NumRow, NumCol
        <5>2. QED BY <1>1, <5>1
      <4>3. QED BY <3>1, <4>2, StoresDomain DEF D
    <3>2. CASE k.op = "Assign"
      BY <3>2, StoresDomain DEF D
    <3>3. QED BY <1>11, <3>1, <3>2
  <2>2. D \subseteq Room(k.out)
    BY <2>1, AnyIndexRoom
  <2>3. k.op \in Serial
    BY <1>11 DEF Serial
  <2>4. QED BY <2>2, <2>3 DEF D
<1>12. CASE k.op = "Loss"
  <2>1. D = {0}
    BY <1>12, StoresDomain DEF D
  <2>2. k.op \in Serial
    BY <1>12 DEF Serial
  <2>3. 0 \in Room(k.out)
    BY <1>1 DEF Room
  <2>4. QED BY <2>1, <2>2, <2>3 DEF D
<1>13. CASE /\ k.op \notin {"Multiply", "Fill", "ShrinkSum", "ShrinkDivide",
                            "Transpose", "SoftMax", "SoftMaxGradient",
                            "Assign", "Loss"}
            /\ k.op \notin Serial
  <2>1. D = Vector(es * m + p.i)
    BY <1>13, StoresDomain DEF D
  <2>2. Extent(k) = es
    BY <1>13, Extents
  <2>3. es * m \in Nat
    BY <1>1
  <2>4. D \subseteq Matrix(k.out, m)
    BY <1>1, <1>3, <1>13, <2>1, <2>2, <2>3, VectorWithin DEF Matrix
  <2>5. QED BY <1>4, <1>13, <2>4 DEF D
<1>14. /\ Serial \subseteq {"ShrinkSum", "Loss", "SoftMaxGradient", "Fill",
                            "Assign", "Set", "ScalarDiv"}
       /\ "Fill" \in Serial
  BY DEF Serial
<1>15. QED
  BY <1>5, <1>6, <1>7, <1>8, <1>9, <1>10, <1>11, <1>12, <1>13, <1>14

-----------------------------------------------------------------------------
(* The steps of a pass.                                                    *)

LEMMA CurrentCall ==
  ASSUME pass \in Passes
  PROVE  /\ Len(Program) \in Nat \ {0}
         /\ \A n \in 1 .. Len(Program) :
              Program[n] \in Fitting /\ Program[n].out \in Tensors
         /\ FirstWrites(Program)
<1>1. PICK S : Proper(Program, S)
  BY ProgramProper
<1>2. /\ Program \in Seq(Writing(S)) /\ Program # <<>>
      /\ FirstWrites(Program)
  BY <1>1 DEF Proper
<1>3. Len(Program) \in Nat \ {0}
  BY <1>2, EmptySeq, LenProperties
<1>4. ASSUME NEW n \in 1 .. Len(Program)
      PROVE  Program[n] \in Fitting /\ Program[n].out \in Tensors
  <2>1. Program[n] \in Writing(S) /\ Program[n] \in ToSet(Program)
    BY <1>2, ElementOfSeq, LenProperties DEF ToSet
  <2>2. Program[n] \in Fitting /\ Program[n].out \notin Scalars
    BY <2>1 DEF Writing, Fitting, Fits
  <2>3. Program[n].out \in UNION {{k.a, k.b, k.out} : k \in ToSet(Program)}
    BY <2>1
  <2>4. QED BY <2>2, <2>3 DEF Tensors
<1>5. QED BY <1>2, <1>3, <1>4

(* What depends on the pass alone does not change with the steps. *)
LEMMA LayoutFixed ==
  ASSUME pass' = pass, NEW t
  PROVE  /\ Layout(t)' = Layout(t) /\ NumRow(t)' = NumRow(t)
         /\ NumCol(t)' = NumCol(t) /\ BatchSize(t)' = BatchSize(t)
         /\ ElementSize(t)' = ElementSize(t) /\ Size(t)' = Size(t)
         /\ Fresh(t)' = Fresh(t)
<1>1. Layout(t)' = Layout(t)
  BY DEF Layout
<1>2. /\ NumRow(t)' = NumRow(t) /\ NumCol(t)' = NumCol(t)
      /\ BatchSize(t)' = BatchSize(t)
  BY <1>1 DEF NumRow, NumCol, BatchSize
<1>3. ElementSize(t)' = ElementSize(t) /\ Size(t)' = Size(t)
  BY <1>2 DEF ElementSize, Size, Padded
<1>4. Fresh(t)' = Fresh(t)
  BY <1>2, <1>3 DEF Fresh, Elem
<1>5. QED BY <1>1, <1>2, <1>3, <1>4

LEMMA ProgramFixed ==
  ASSUME pass' = pass
  PROVE  Program' = Program /\ Tensors' = Tensors
<1>1. Gradients' = Gradients
  BY DEF Gradients
<1>2. ASSUME NEW t PROVE SumGradients(t)' = SumGradients(t)
  BY <1>1 DEF SumGradients, Call
<1>3. ASSUME NEW t PROVE MeanGradient(t)' = MeanGradient(t)
  BY <1>2 DEF MeanGradient, Call
<1>4. ASSUME NEW f PROVE Derive(f)' = Derive(f)
  BY <1>3 DEF Derive, Call
<1>5. DenseBackward' = DenseBackward
  BY <1>2 DEF DenseBackward, Shrink, Optimize, Call
<1>6. SigmoidAsyncBackward' = SigmoidAsyncBackward
  BY <1>3 DEF SigmoidAsyncBackward, Call
<1>7. SoftMaxBackward' = SoftMaxBackward
  BY <1>2 DEF SoftMaxBackward, Call
<1>8. KernelAlone' = KernelAlone /\ Initialize' = Initialize
  BY DEF KernelAlone, Initialize, Shrink, Call
<1>9. Program' = Program
  BY <1>4, <1>5, <1>6, <1>7, <1>8
     DEF Program, DenseForward, DenseAsyncForward, DenseAsyncBackward,
         ReLUForward, ReLUBackward, ReLUAsyncForward, ReLUAsyncBackward,
         SigmoidForward, SigmoidBackward, SigmoidAsyncForward,
         SoftMaxForward, SoftMaxAsyncForward, SoftMaxAsyncBackward,
         MSEForward, MSEBackward, MSEAsyncForward, MSEAsyncBackward,
         CrossEntropyForward, CrossEntropyBackward,
         CrossEntropyAsyncForward, CrossEntropyAsyncBackward,
         Activate, Call
<1>10. QED BY <1>9 DEF Tensors

LEMMA LoopsFixed ==
  ASSUME pass' = pass, NEW k
  PROVE  /\ Iterations(k)' = Iterations(k)
         /\ \A p : InLoops(k, p)' = InLoops(k, p)
<1>1. /\ NumRow(k.a)' = NumRow(k.a) /\ NumCol(k.b)' = NumCol(k.b)
      /\ NumRow(k.b)' = NumRow(k.b) /\ ElementSize(k.out)' = ElementSize(k.out)
      /\ BatchSize(k.a)' = BatchSize(k.a)
      /\ BatchSize(k.out)' = BatchSize(k.out)
  BY LayoutFixed
<1>2. Serial' = Serial
  BY DEF Serial
<1>3. Iterations(k)' = Iterations(k) /\ Extent(k)' = Extent(k)
  BY <1>1, <1>2 DEF Iterations, Extent
<1>4. /\ numColB(k)' = numColB(k) /\ numRowB(k)' = numRowB(k)
      /\ jb(k)' = jb(k)
  BY <1>1 DEF numColB, numRowB, jb, Padded, Smaller
<1>5. QED BY <1>1, <1>3, <1>4 DEF InLoops, Smaller, Whole

-----------------------------------------------------------------------------
(* The inductive invariant.                                                *)

(* The counters of an iteration lie within the loops of the call. *)
Counters ==
  \A m \in DOMAIN pc : pc[m] = Done \/ InLoops(Program[step], pc[m])

(* A tensor that no call so far has put out is as it was. *)
Untouched ==
  \A t \in Tensors :
    (\A n \in 1 .. step : Program[n].out # t) => mem[t] = Fresh(t)

Invariant == TypeOK /\ Counters /\ Untouched

LEMMA InitInvariant == Init => Invariant
<1> SUFFICES ASSUME Init PROVE Invariant
  OBVIOUS
<1>1. pass \in Passes /\ step = 1 /\ mem = [t \in Tensors |-> Fresh(t)]
      /\ pc = [m \in Iterations(Program[1]) |-> Start]
  BY DEF Init
<1>2. step \in 1 .. Len(Program)
  BY <1>1, CurrentCall
<1>3. TypeOK
  BY <1>1, <1>2 DEF TypeOK
<1>4. Counters
  BY <1>1, LoopStart DEF Counters
<1>5. Untouched
  BY <1>1 DEF Untouched
<1>6. QED BY <1>3, <1>4, <1>5 DEF Invariant

LEMMA FreshRoom == \A t : DOMAIN Fresh(t) = Room(t)
BY DEF Fresh, Room

(* What an iteration does when it takes a step. *)
LEMMA IterateDoes ==
  ASSUME Invariant, NEW m \in DOMAIN pc, Iterate(m),
         NEW k, k = Program[step]
  PROVE  /\ pass \in Passes /\ pass' = pass /\ step' = step
         /\ step \in 1 .. Len(Program)
         /\ k \in Fitting /\ k.out \in Tensors /\ m \in Iterations(k)
         /\ InLoops(k, pc[m]) /\ pc[m] # Done
         /\ DOMAIN mem[k.out] = Room(k.out)
         /\ DOMAIN Stores(k, m, pc[m]) \subseteq Room(k.out)
         /\ mem' = [mem EXCEPT ![k.out] =
                      Overwritten(mem[k.out], Stores(k, m, pc[m]))]
         /\ pc' = [pc EXCEPT ![m] = Advance(k, pc[m])]
         /\ DOMAIN pc = Iterations(k) /\ DOMAIN mem = Tensors
<1>1. /\ pass \in Passes /\ step \in 1 .. Len(Program)
      /\ DOMAIN mem = Tensors /\ DOMAIN pc = Iterations(k)
  BY DEF Invariant, TypeOK
<1>2. /\ pass' = pass /\ step' = step /\ pc[m] # Done
      /\ mem' = [mem EXCEPT ![k.out] =
                   Overwritten(mem[k.out], Stores(k, m, pc[m]))]
      /\ pc' = [pc EXCEPT ![m] = Advance(k, pc[m])]
  BY DEF Iterate
<1>3. k \in Fitting /\ k.out \in Tensors
  BY <1>1, CurrentCall
<1>4. InLoops(k, pc[m])
  BY <1>2 DEF Invariant, Counters
<1>5. DOMAIN mem[k.out] = Room(k.out)
  BY <1>3, FreshRoom DEF Invariant, TypeOK
<1>6. DOMAIN Stores(k, m, pc[m]) \subseteq Room(k.out)
  BY <1>1, <1>3, <1>4, StoresRoom
<1>7. QED BY <1>1, <1>2, <1>3, <1>4, <1>5, <1>6

LEMMA IterateInvariant ==
  ASSUME Invariant, NEW m \in DOMAIN pc, Iterate(m)
  PROVE  Invariant'
<1>1. PICK k : k = Program[step]
  OBVIOUS
<1>2. /\ pass \in Passes /\ pass' = pass /\ step' = step
      /\ step \in 1 .. Len(Program)
      /\ k \in Fitting /\ k.out \in Tensors
      /\ InLoops(k, pc[m])
      /\ DOMAIN mem[k.out] = Room(k.out)
      /\ DOMAIN Stores(k, m, pc[m]) \subseteq Room(k.out)
      /\ mem' = [mem EXCEPT ![k.out] =
                   Overwritten(mem[k.out], Stores(k, m, pc[m]))]
      /\ pc' = [pc EXCEPT ![m] = Advance(k, pc[m])]
      /\ DOMAIN pc = Iterations(k) /\ DOMAIN mem = Tensors
  BY <1>1, IterateDoes
<1>3. Program' = Program /\ Tensors' = Tensors /\ Program[step]' = k
  BY <1>1, <1>2, ProgramFixed
<1>4. \A t : Fresh(t)' = Fresh(t)
  BY <1>2, LayoutFixed
<1>5. Iterations(k)' = Iterations(k) /\ \A p : InLoops(k, p)' = InLoops(k, p)
  BY <1>2, LoopsFixed
<1>6. TypeOK'
  <2>1. pass' \in Passes /\ step' \in 1 .. Len(Program')
    BY <1>2, <1>3
  <2>2. DOMAIN mem' = Tensors' /\ DOMAIN pc' = Iterations(Program[step])'
    BY <1>2, <1>3, <1>5
  <2>3. ASSUME NEW t \in Tensors PROVE DOMAIN mem'[t] = DOMAIN Fresh(t)
    <3>1. CASE t = k.out
      BY <1>2, <3>1, FreshRoom DEF Overwritten
    <3>2. CASE t # k.out
      BY <1>2, <3>2 DEF Invariant, TypeOK
    <3>3. QED BY <3>1, <3>2
  <2>4. QED BY <1>3, <1>4, <2>1, <2>2, <2>3 DEF TypeOK
<1>7. Counters'
  <2>1. ASSUME NEW n \in DOMAIN pc
        PROVE  pc'[n] = Done \/ InLoops(k, pc'[n])
    <3>1. CASE n = m
      BY <1>2, <3>1, LoopAdvances
    <3>2. CASE n # m
      BY <1>1, <1>2, <3>2 DEF Invariant, Counters
    <3>3. QED BY <3>1, <3>2
  <2>2. DOMAIN pc' = DOMAIN pc
    BY <1>2
  <2>3. QED BY <1>3, <1>5, <2>1, <2>2 DEF Counters
<1>8. Untouched'
  <2>1. ASSUME NEW t \in Tensors, \A n \in 1 .. step : Program[n].out # t
        PROVE  mem'[t] = Fresh(t)
    <3>1. step \in 1 .. step
      BY <1>2
    <3>2. t # k.out
      BY <1>1, <2>1, <3>1
    <3>3. mem'[t] = mem[t]
      BY <1>2, <3>2
    <3>4. QED BY <2>1, <3>3 DEF Invariant, Untouched
  <2>2. QED BY <1>2, <1>3, <1>4, <2>1 DEF Untouched
<1>9. QED BY <1>6, <1>7, <1>8 DEF Invariant

LEMMA NextCallInvariant ==
  ASSUME Invariant, NextCall
  PROVE  Invariant'
<1>1. /\ pass' = pass /\ mem' = mem /\ step' = step + 1
      /\ step < Len(Program)
      /\ pc' = [m \in Iterations(Program[step + 1]) |-> Start]
  BY DEF NextCall
<1>2. /\ pass \in Passes /\ step \in 1 .. Len(Program)
      /\ Len(Program) \in Nat
  BY CurrentCall DEF Invariant, TypeOK
<1>3. Program' = Program /\ Tensors' = Tensors
  BY <1>1, ProgramFixed
<1>4. \A t : Fresh(t)' = Fresh(t)
  BY <1>1, LayoutFixed
<1>5. PICK k : k = Program[step + 1]
  OBVIOUS
<1>6. Iterations(k)' = Iterations(k) /\ \A p : InLoops(k, p)' = InLoops(k, p)
  BY <1>1, LoopsFixed
<1>7. Program[step]' = k /\ step' \in 1 .. Len(Program)
  BY <1>1, <1>2, <1>3, <1>5
<1>8. TypeOK'
  <2>1. /\ DOMAIN mem = Tensors
        /\ \A t \in Tensors : DOMAIN mem[t] = DOMAIN Fresh(t)
    BY DEF Invariant, TypeOK
  <2>2. DOMAIN pc' = Iterations(Program[step])'
    BY <1>1, <1>5, <1>6, <1>7
  <2>3. QED BY <1>1, <1>2, <1>3, <1>4, <1>7, <2>1, <2>2 DEF TypeOK
<1>9. Counters'
  <2>1. \A m \in DOMAIN pc' : pc'[m] = Start
    BY <1>1
  <2>2. InLoops(k, Start)
    BY <1>2, LoopStart
  <2>3. QED BY <1>6, <1>7, <2>1, <2>2 DEF Counters
<1>10. Untouched'
  <2>1. ASSUME NEW t \in Tensors, \A n \in 1 .. step + 1 : Program[n].out # t
        PROVE  mem[t] = Fresh(t)
    <3>1. \A n \in 1 .. step : n \in 1 .. step + 1
      BY <1>2
    <3>2. QED BY <2>1, <3>1 DEF Invariant, Untouched
  <2>2. QED BY <1>1, <1>3, <1>4, <2>1 DEF Untouched
<1>11. QED BY <1>8, <1>9, <1>10 DEF Invariant

LEMMA StutterInvariant ==
  ASSUME Invariant, UNCHANGED vars
  PROVE  Invariant'
<1>1. pass' = pass /\ mem' = mem /\ step' = step /\ pc' = pc
  BY DEF vars
<1>2. Program' = Program /\ Tensors' = Tensors
  BY <1>1, ProgramFixed
<1>3. \A t : Fresh(t)' = Fresh(t)
  BY <1>1, LayoutFixed
<1>4. PICK k : k = Program[step]
  OBVIOUS
<1>5. Iterations(k)' = Iterations(k) /\ \A p : InLoops(k, p)' = InLoops(k, p)
  BY <1>1, LoopsFixed
<1>6. Program[step]' = k
  BY <1>1, <1>2, <1>4
<1>7. TypeOK'
  BY <1>1, <1>2, <1>3, <1>4, <1>5, <1>6 DEF Invariant, TypeOK
<1>8. Counters'
  BY <1>1, <1>4, <1>5, <1>6 DEF Invariant, Counters
<1>9. Untouched'
  BY <1>1, <1>2, <1>3 DEF Invariant, Untouched
<1>10. QED BY <1>7, <1>8, <1>9 DEF Invariant

LEMMA AlwaysInvariant == Spec => []Invariant
<1>1. ASSUME Invariant, [Next]_vars PROVE Invariant'
  <2>1. CASE \E m \in DOMAIN pc : Iterate(m)
    BY <1>1, <2>1, IterateInvariant
  <2>2. CASE NextCall
    BY <1>1, <2>2, NextCallInvariant
  <2>3. CASE UNCHANGED vars
    BY <1>1, <2>3, StutterInvariant
  <2>4. QED BY <1>1, <2>1, <2>2, <2>3 DEF Next
<1>2. QED BY InitInvariant, <1>1, PTL DEF Spec

(* No call of a Compute function leaves the buffers of its tensors, for    *)
(* every size of the tensors, of the batch and of the vector registers.    *)
THEOREM AccessesInBounds == Spec => []TypeOK
<1>1. Invariant => TypeOK
  BY DEF Invariant
<1>2. QED BY AlwaysInvariant, <1>1, PTL

(* What the engine handed to the unit, and the weights in every pass but   *)
(* the Backward of a DenseUnit, are never written.                         *)
THEOREM OperandsStayKept == Spec => []OperandsKept
<1>1. ASSUME Invariant PROVE OperandsKept
  <2>1. /\ pass \in Passes /\ step \in 1 .. Len(Program)
        /\ Len(Program) \in Nat
    BY <1>1, CurrentCall DEF Invariant, TypeOK
  <2>2. ASSUME NEW t \in Tensors,
               \/ t \in Operands
               \/ t \in {"weight", "bias"} /\ ~BackwardOfDense
        PROVE  mem[t] = Fresh(t)
    <3>1. ASSUME NEW n \in 1 .. step PROVE Program[n].out # t
      <4>1. Program[n] \in Fitting
        BY <2>1, CurrentCall
      <4>2. QED BY <2>2, <4>1 DEF Fitting, Fits
    <3>2. QED BY <1>1, <3>1 DEF Invariant, Untouched
  <2>3. QED BY <2>2 DEF OperandsKept, Operands, BackwardOfDense
<1>2. QED BY AlwaysInvariant, <1>1, PTL

LEMMA PartsApart ==
  ASSUME pass \in Passes, NEW k, k.op \notin Serial,
         NEW m \in Iterations(k), NEW n \in Iterations(k), m # n
  PROVE  Part(k, m) \cap Part(k, n) = {} /\ Part(k, m) \subseteq Room(k.out)
<1>1. m \in Nat /\ n \in Nat
  BY IterationsAre
<1>2. CASE k.op # "ShrinkDivide"
  <2>1. m \in 0 .. BatchSize(k.out) - 1
    BY <1>2, IterationsAre
  <2>2. Part(k, m) = Matrix(k.out, m) /\ Part(k, n) = Matrix(k.out, n)
    BY <1>1, <1>2, PartIsMatrix
  <2>3. QED BY <1>1, <2>1, <2>2, MatricesApart, MatrixRoom
<1>3. CASE k.op = "ShrinkDivide"
  <2>1. Part(k, m) = Vector(W * m) /\ Part(k, n) = Vector(W * n)
    BY <1>3 DEF Part
  <2>2. W \in Nat \ {0}
    BY VectorSizeWhole
  <2> DEFINE x == W * m
             y == W * n
  <2>3. /\ x \in Nat /\ y \in Nat
        /\ m < n => x + W <= y
        /\ n < m => y + W <= x
    BY <1>1, <2>2, Scaling
  <2>4. x + W - 1 \in Nat /\ x + W - 1 < ElementSize(k.out) * BatchSize(k.out)
    <3> DEFINE es == ElementSize(k.out)
               q == es \div W
               r == es % W
               room == es * BatchSize(k.out)
    <3>1. es \in Nat /\ BatchSize(k.out) \in Nat \ {0}
      BY TensorSizes
    <3>2. es * 0 + es <= es * BatchSize(k.out) /\ es * 0 = 0
      <4> HIDE DEF es
      <4>1. QED BY <3>1, Scaling
    <3>3. m \in 0 .. q - 1
      BY <1>3, IterationsAre
    <3>4. q \in Nat /\ r \in 0 .. W - 1 /\ es = W * q + r
      <4> HIDE DEF es
      <4>1. QED BY <2>2, <3>1, Division
    <3>5. es <= room /\ room \in Nat
      BY <3>1, <3>2
    <3> HIDE DEF es, q, r, room
    <3>6. W * m + W <= W * q /\ W * q \in Nat
      BY <1>1, <2>2, <3>3, <3>4, Scaling
    <3>7. x + W - 1 < room
      BY <2>2, <2>3, <3>4, <3>5, <3>6
    <3>8. QED BY <2>2, <2>3, <3>7 DEF room, es
  <2> HIDE DEF x, y
  <2>5. Vector(x) \cap Vector(y) = {}
    BY <1>1, <2>2, <2>3 DEF Vector
  <2>6. Vector(x) \subseteq Room(k.out)
    <3> DEFINE room == ElementSize(k.out) * BatchSize(k.out)
    <3>1. x + W - 1 < room /\ room \in Nat /\ Room(k.out) = 0 .. room - 1
      BY <2>4, TensorSizes DEF Room
    <3> HIDE DEF room
    <3>2. QED BY <2>2, <2>3, <3>1 DEF Vector
  <2>7. QED BY <2>1, <2>5, <2>6 DEF x, y
<1>4. QED BY <1>2, <1>3

(* Of two iterations, the step of one leaves the part of the other alone.  *)
LEMMA OthersPartKept ==
  ASSUME Invariant, NEW n \in DOMAIN pc, Iterate(n),
         NEW k, k = Program[step], NEW m \in DOMAIN pc, m # n
  PROVE  /\ k.op \notin Serial
         /\ \A c \in Part(k, m) : mem'[k.out][c] = mem[k.out][c]
<1>1. /\ pass \in Passes /\ k \in Fitting
      /\ m \in Iterations(k) /\ n \in Iterations(k) /\ InLoops(k, pc[n])
      /\ k.out \in DOMAIN mem /\ DOMAIN mem[k.out] = Room(k.out)
      /\ mem' = [mem EXCEPT ![k.out] =
                   Overwritten(mem[k.out], Stores(k, n, pc[n]))]
  BY IterateDoes
<1>2. k.op \notin Serial
  BY <1>1, IterationsAre
<1>3. DOMAIN Stores(k, n, pc[n]) \subseteq Part(k, n)
  BY <1>1, <1>2, StoresRoom
<1>4. Part(k, m) \cap Part(k, n) = {} /\ Part(k, m) \subseteq Room(k.out)
  BY <1>1, <1>2, PartsApart
<1>5. mem'[k.out] = Overwritten(mem[k.out], Stores(k, n, pc[n]))
  BY <1>1
<1>6. QED BY <1>1, <1>2, <1>3, <1>4, <1>5 DEF Overwritten

(* The iterations of an OpenMP loop never write each other's elements: the *)
(* loops are free of races whatever the sizes and however the iterations   *)
(* are interleaved.                                                        *)
THEOREM IterationsWriteOwnPart == Spec => WritesOwnPart
<1> DEFINE Kept ==
      \A m \in DOMAIN pc :
        step' = step /\ pc'[m] = pc[m] =>
          \A c \in Part(Program[step], m) :
            mem'[Program[step].out][c] = mem[Program[step].out][c]
<1>1. ASSUME Invariant, [Next]_vars PROVE [Kept]_vars
  <2>1. ASSUME NEW n \in DOMAIN pc, Iterate(n) PROVE Kept
    <3>1. PICK k : k = Program[step]
      OBVIOUS
    <3>2. ASSUME NEW m \in DOMAIN pc, pc'[m] = pc[m]
          PROVE  \A c \in Part(k, m) : mem'[k.out][c] = mem[k.out][c]
      <4>1. pc'[n] # pc[n]
        <5>1. /\ pass \in Passes /\ InLoops(k, pc[n])
              /\ pc' = [pc EXCEPT ![n] = Advance(k, pc[n])]
          BY <1>1, <2>1, <3>1, IterateDoes
        <5>2. QED BY <5>1, LoopAdvances
      <4>2. m # n
        BY <3>2, <4>1
      <4>3. QED BY <1>1, <2>1, <3>1, <4>2, OthersPartKept
    <3>3. QED BY <3>1, <3>2
  <2>2. CASE NextCall
    <3>1. step' # step
      BY <1>1, <2>2 DEF NextCall, Invariant, TypeOK
    <3>2. QED BY <3>1
  <2>3. QED BY <1>1, <2>1, <2>2 DEF Next
<1>2. QED BY AlwaysInvariant, <1>1, PTL DEF Spec, WritesOwnPart

-----------------------------------------------------------------------------
(* Sums that are added up in parts.                                        *)

(* Every non-empty set of numbers has a first one. *)
LEMMA FirstNumber ==
  ASSUME NEW S \in SUBSET Nat, S # {}
  PROVE  \E n \in S : \A m \in S : n <= m
<1>1. PICK n \in S : \A m \in S : ~(<<m, n>> \in OpToRel(<, Nat))
  BY NatLessThanWellFounded, WFMin
<1>2. \A m \in S : m < n => <<m, n>> \in OpToRel(<, Nat)
  BY DEF OpToRel
<1>3. \A m \in S : ~(m < n)
  BY <1>1, <1>2
<1>4. \A m \in S : m \in Nat
  OBVIOUS
<1>5. QED BY <1>3, <1>4

LEMMA MaxIn ==
  ASSUME NEW n \in Nat, NEW s \in SUBSET (1 .. n), s # {}
  PROVE  Max(s) \in s /\ \A i \in s : i <= Max(s)
<1>1. \A i \in s : i \in 1 .. n
  OBVIOUS
<1> DEFINE T == {n - i : i \in s}
<1>2. T \in SUBSET Nat
  BY <1>1
<1>3. T # {}
  OBVIOUS
<1>4. PICK d \in T : \A e \in T : d <= e
  <2> HIDE DEF T
  <2>1. QED BY <1>2, <1>3, FirstNumber
<1>5. PICK i \in s : d = n - i
  BY <1>4
<1>6. ASSUME NEW j \in s PROVE i >= j
  <2>1. n - i <= n - j
    BY <1>4, <1>5
  <2>2. i \in Int /\ j \in Int
    BY <1>1
  <2>3. QED BY <2>1, <2>2
<1>7. QED BY <1>6 DEF Max

(* A sum goes on with a term after it, or before it. *)
Joined(o, s, y) == IF o = "before" THEN Plus(y, s) ELSE Plus(s, y)

(* f adds up the elements of x at the places of any set of them, the last  *)
(* one last.                                                               *)
Adds(f, o, n, b, x) ==
  f = [s \in SUBSET (1 .. n) |->
         IF s = {} THEN b ELSE Joined(o, f[s \ {Max(s)}], x[Max(s)])]

LEMMA AddsExists ==
  ASSUME NEW o, NEW b, NEW x
  PROVE  \A n \in Nat : \E f : Adds(f, o, n, b, x)
<1> DEFINE Lacking == {n \in Nat : \A f : ~Adds(f, o, n, b, x)}
<1> SUFFICES ASSUME Lacking # {} PROVE FALSE
  OBVIOUS
<1>1. PICK n \in Lacking : \A m \in Lacking : n <= m
  BY FirstNumber
<1>2. n # 0
  <2> DEFINE f == [s \in SUBSET (1 .. 0) |-> b]
  <2>1. 1 .. 0 = {}
    OBVIOUS
  <2>2. Adds(f, o, 0, b, x)
    BY <2>1 DEF Adds
  <2> HIDE DEF f
  <2>3. QED BY <2>2
<1>3. n - 1 \in Nat /\ n - 1 \notin Lacking
  BY <1>1, <1>2
<1>4. PICK f : Adds(f, o, n - 1, b, x)
  BY <1>3
<1> DEFINE g == [s \in SUBSET (1 .. n) |->
                   IF n \in s THEN Joined(o, f[s \ {n}], x[n]) ELSE f[s]]
<1>5. ASSUME NEW s \in SUBSET (1 .. n)
      PROVE  g[s] = IF s = {} THEN b ELSE Joined(o, g[s \ {Max(s)}], x[Max(s)])
  <2>1. CASE n \in s
    <3>1. Max(s) = n
      <4>1. Max(s) \in 1 .. n /\ n <= Max(s)
        BY <2>1, MaxIn
      <4>2. QED BY <4>1
    <3>2. s \ {n} \in SUBSET (1 .. n) /\ n \notin s \ {n}
      OBVIOUS
    <3>3. QED BY <2>1, <3>1, <3>2
  <2>2. CASE n \notin s
    <3>1. s \in SUBSET (1 .. n - 1)
      BY <1>3, <2>2
    <3>2. f[s] = IF s = {} THEN b ELSE Joined(o, f[s \ {Max(s)}], x[Max(s)])
      BY <1>4, <3>1 DEF Adds
    <3>3. QED BY <2>2, <3>2
  <2>3. QED BY <2>1, <2>2
<1>6. Adds(g, o, n, b, x)
  BY <1>5 DEF Adds
<1> HIDE DEF g
<1>7. QED BY <1>6, <1>1

LEMMA FoldIsAdds ==
  ASSUME NEW n \in Nat, NEW b, NEW x, DOMAIN x = 1 .. n
  PROVE  /\ \E f : Adds(f, "after", n, b, x) /\ AddUp(b, x) = f[1 .. n]
         /\ \E f : Adds(f, "before", n, b, x) /\ AddBefore(b, x) = f[1 .. n]
<1>1. \A o : \E f : Adds(f, o, n, b, x)
  BY AddsExists
<1>2. ASSUME NEW g, g = CHOOSE f : Adds(f, "after", n, b, x)
      PROVE  Adds(g, "after", n, b, x) /\ AddUp(b, x) = g[1 .. n]
  <2>1. Adds(g, "after", n, b, x)
    BY <1>1, <1>2
  <2>2. AddUp(b, x) = g[1 .. n]
    BY <1>2 DEF AddUp, FoldLeft, MapThenFoldSet, Adds, Joined
  <2>3. QED BY <2>1, <2>2
<1>3. ASSUME NEW g, g = CHOOSE f : Adds(f, "before", n, b, x)
      PROVE  Adds(g, "before", n, b, x) /\ AddBefore(b, x) = g[1 .. n]
  <2>1. Adds(g, "before", n, b, x)
    BY <1>1, <1>3
  <2>2. AddBefore(b, x) = g[1 .. n]
    BY <1>3 DEF AddBefore, FoldLeft, MapThenFoldSet, Adds, Joined
  <2>3. QED BY <2>1, <2>2
<1>4. QED BY <1>2, <1>3

(* The sums b, b + x[1], b + x[1] + x[2] and so on. *)
RunningSums(f, o, n, b, x) ==
  f[0] = b /\ \A s \in 0 .. n - 1 : f[s + 1] = Joined(o, f[s], x[s + 1])

LEMMA AddsRun ==
  ASSUME NEW n \in Nat, NEW o, NEW b, NEW x, NEW g, Adds(g, o, n, b, x)
  PROVE  \E f : RunningSums(f, o, n, b, x) /\ f[n] = g[1 .. n]
<1> DEFINE f == [s \in 0 .. n |-> g[1 .. s]]
<1>1. f[0] = b
  <2>1. 1 .. 0 = {} /\ {} \in SUBSET (1 .. n)
    OBVIOUS
  <2>2. g[{}] = b
    BY <2>1 DEF Adds
  <2>3. QED BY <2>1, <2>2
<1>2. ASSUME NEW s \in 0 .. n - 1
      PROVE  f[s + 1] = Joined(o, f[s], x[s + 1])
  <2> DEFINE S == 1 .. s + 1
  <2>1. S \in SUBSET (1 .. n) /\ S # {} /\ s + 1 \in S
    OBVIOUS
  <2>2. Max(S) = s + 1
    <3>1. Max(S) \in S /\ \A i \in S : i <= Max(S)
      <4> HIDE DEF S
      <4>1. QED BY <2>1, MaxIn
    <3>2. QED BY <2>1, <3>1
  <2>3. S \ {s + 1} = 1 .. s
    OBVIOUS
  <2>4. g[S] = Joined(o, g[S \ {Max(S)}], x[Max(S)])
    <3> HIDE DEF S
    <3>1. QED BY <2>1 DEF Adds
  <2>5. s \in 0 .. n /\ s + 1 \in 0 .. n
    OBVIOUS
  <2>6. QED BY <2>2, <2>3, <2>4, <2>5
<1>3. f[n] = g[1 .. n]
  OBVIOUS
<1> HIDE DEF f
<1>4. RunningSums(f, o, n, b, x)
  BY <1>1, <1>2 DEF RunningSums
<1>5. QED BY <1>3, <1>4

LEMMA AddUpRuns ==
  ASSUME NEW n \in Nat, NEW b, NEW x, DOMAIN x = 1 .. n
  PROVE  /\ \E f : RunningSums(f, "after", n, b, x) /\ AddUp(b, x) = f[n]
         /\ \E f : RunningSums(f, "before", n, b, x) /\ AddBefore(b, x) = f[n]
BY FoldIsAdds, AddsRun

LEMMA RunningSumsAgree ==
  ASSUME NEW n \in Nat, NEW o, NEW b,
         NEW f, NEW x, RunningSums(f, o, n, b, x),
         NEW g, NEW y, RunningSums(g, o, n, b, y),
         \A i \in 1 .. n : x[i] = y[i]
  PROVE  f[n] = g[n]
<1> DEFINE Differ == {s \in 0 .. n : f[s] # g[s]}
<1> SUFFICES ASSUME n \in Differ PROVE FALSE
  OBVIOUS
<1>1. Differ \in SUBSET Nat /\ Differ # {}
  OBVIOUS
<1>2. PICK s \in Differ : \A r \in Differ : s <= r
  <2> HIDE DEF Differ
  <2>1. QED BY <1>1, FirstNumber
<1>3. f[0] = b /\ g[0] = b
  BY DEF RunningSums
<1>4. s # 0 /\ s \in 0 .. n /\ f[s] # g[s]
  BY <1>2, <1>3
<1>5. s - 1 \in 0 .. n - 1 /\ s - 1 \notin Differ /\ s - 1 + 1 = s
  BY <1>2, <1>4
<1>6. f[s - 1] = g[s - 1]
  BY <1>5
<1>7. /\ f[s] = Joined(o, f[s - 1], x[s]) /\ g[s] = Joined(o, g[s - 1], y[s])
      /\ x[s] = y[s]
  BY <1>4, <1>5 DEF RunningSums
<1>8. QED BY <1>4, <1>6, <1>7

(* One more term, after the others or before them. *)
LEMMA AddOneMore ==
  ASSUME NEW n \in Nat, NEW b, NEW x, DOMAIN x = 1 .. n + 1,
         NEW y, DOMAIN y = 1 .. n, \A i \in 1 .. n : y[i] = x[i]
  PROVE  /\ AddUp(b, x) = Plus(AddUp(b, y), x[n + 1])
         /\ AddBefore(b, x) = Plus(x[n + 1], AddBefore(b, y))
<1>1. n + 1 \in Nat
  OBVIOUS
<1>2. /\ \E f : RunningSums(f, "after", n, b, y) /\ AddUp(b, y) = f[n]
      /\ \E f : RunningSums(f, "before", n, b, y) /\ AddBefore(b, y) = f[n]
  BY AddUpRuns
<1>3. /\ \E f : RunningSums(f, "after", n + 1, b, x) /\ AddUp(b, x) = f[n + 1]
      /\ \E f : /\ RunningSums(f, "before", n + 1, b, x)
                 /\ AddBefore(b, x) = f[n + 1]
  BY <1>1, AddUpRuns
<1>4. ASSUME NEW o, NEW f, NEW g, RunningSums(f, o, n, b, y),
             RunningSums(g, o, n + 1, b, x)
      PROVE  g[n + 1] = Joined(o, f[n], x[n + 1])
  <2>1. RunningSums(g, o, n, b, x)
    BY <1>4 DEF RunningSums
  <2>2. f[n] = g[n]
    BY <1>4, <2>1, RunningSumsAgree
  <2>3. QED BY <1>4, <2>2 DEF RunningSums
<1>5. QED BY <1>2, <1>3, <1>4 DEF Joined

LEMMA AddNothing ==
  ASSUME NEW b, NEW x, DOMAIN x = 1 .. 0
  PROVE  AddUp(b, x) = b /\ AddBefore(b, x) = b
BY AddUpRuns DEF RunningSums

(* To add up the first terms and then the others on top of them is to add  *)
(* them all up.                                                            *)
LEMMA AddUpInParts ==
  ASSUME NEW n \in Nat, NEW l \in Nat, n <= l, NEW b, NEW x, NEW y, NEW z,
         DOMAIN x = 1 .. l, DOMAIN y = 1 .. n, DOMAIN z = 1 .. l - n,
         \A i \in 1 .. n : y[i] = x[i],
         \A i \in 1 .. l - n : z[i] = x[n + i]
  PROVE  AddUp(AddUp(b, y), z) = AddUp(b, x)
<1>1. PICK f : RunningSums(f, "after", l, b, x) /\ AddUp(b, x) = f[l]
  BY AddUpRuns
<1>2. PICK g : RunningSums(g, "after", n, b, y) /\ AddUp(b, y) = g[n]
  BY AddUpRuns
<1>3. l - n \in Nat
  OBVIOUS
<1>4. PICK h : /\ RunningSums(h, "after", l - n, g[n], z)
               /\ AddUp(g[n], z) = h[l - n]
  <2>1. ASSUME NEW d \in Nat, d = l - n
        PROVE  \E h : /\ RunningSums(h, "after", d, g[n], z)
                      /\ AddUp(g[n], z) = h[d]
    <3>1. DOMAIN z = 1 .. d
      BY <2>1
    <3>2. QED BY <2>1, <3>1, AddUpRuns
  <2>2. QED BY <1>3, <2>1
<1>5. RunningSums(f, "after", n, b, x)
  BY <1>1 DEF RunningSums
<1>6. f[n] = g[n]
  <2>1. \A i \in 1 .. n : x[i] = y[i]
    OBVIOUS
  <2>2. RunningSums(g, "after", n, b, y)
    BY <1>2
  <2>3. QED BY <1>5, <2>1, <2>2, RunningSumsAgree
<1> DEFINE r == [s \in 0 .. l - n |-> f[n + s]]
<1>7. RunningSums(r, "after", l - n, g[n], z)
  <2>1. r[0] = g[n]
    BY <1>6
  <2>2. ASSUME NEW s \in 0 .. l - n - 1
        PROVE  r[s + 1] = Joined("after", r[s], z[s + 1])
    <3>1. n + s \in 0 .. l - 1 /\ n + s + 1 = n + (s + 1)
      OBVIOUS
    <3>2. f[n + (s + 1)] = Joined("after", f[n + s], x[n + (s + 1)])
      BY <1>1, <3>1 DEF RunningSums
    <3>3. z[s + 1] = x[n + (s + 1)]
      OBVIOUS
    <3>4. r[s + 1] = f[n + (s + 1)] /\ r[s] = f[n + s]
      OBVIOUS
    <3>5. QED BY <3>2, <3>3, <3>4
  <2> HIDE DEF r
  <2>3. QED BY <2>1, <2>2 DEF RunningSums
<1>8. r[l - n] = f[l]
  OBVIOUS
<1> HIDE DEF r
<1>9. r[l - n] = h[l - n]
  BY <1>3, <1>4, <1>7, RunningSumsAgree
<1>10. QED BY <1>1, <1>2, <1>4, <1>8, <1>9

-----------------------------------------------------------------------------
(* A product, element by element.                                          *)

Cell(k, m, i, j) == ElementSize(k.out) * m + i * numColB(k) + j

(* How far iteration m of product k is with element (i, j) at p. *)
Summed(k, m, p, i, j) ==
  LET c == Cell(k, m, i, j)
      n == Accumulated(k, p, i, j)
  IN  mem[k.out][c] =
        IF n = 0 THEN Elem(k.out, c)
        ELSE AddUp(Zero, Products(k, m, i, c, 0, n))

LEMMA PartialSumsAre ==
  PartialSums <=>
    (Program[step].op = "Multiply" =>
       \A m \in DOMAIN pc, i \in 0 .. NumRow(Program[step].a) - 1,
          j \in 0 .. numColB(Program[step]) - 1 :
         Summed(Program[step], m, pc[m], i, j))
BY DEF PartialSums, Summed, Cell

LEMMA CellRoom ==
  ASSUME pass \in Passes, NEW k \in Fitting, k.op = "Multiply",
         NEW m \in Iterations(k), NEW i \in 0 .. NumRow(k.a) - 1,
         NEW j \in 0 .. numColB(k) - 1
  PROVE  Cell(k, m, i, j) \in Part(k, m) /\ Cell(k, m, i, j) \in Room(k.out)
<1> DEFINE es == ElementSize(k.out)
           c == numColB(k)
           r == NumRow(k.a)
<1>1. /\ c \in Nat \ {0} /\ r \in Nat \ {0} /\ es \in Nat \ {0}
      /\ m \in 0 .. BatchSize(k.out) - 1 /\ m \in Nat
  <2>1. k.op \notin Serial \cup {"ShrinkDivide"}
    BY DEF Serial
  <2>2. QED BY <2>1, BlockSizes, TensorSizes, IterationsAre
<1>2. es = r * c
  BY DEF Fitting, Fits, ElementSize, numColB
<1>3. i \in Nat /\ i < r /\ j \in Nat /\ j < c
  BY <1>1
<1>4. c * i + c <= c * r /\ c * i = i * c /\ c * r = r * c /\ i * c \in Nat
  BY <1>1, <1>3, Scaling
<1>5. es * m \in Nat
  BY <1>1
<1>6. Cell(k, m, i, j) = es * m + i * c + j
  BY DEF Cell
<1>7. Part(k, m) = Matrix(k.out, m) /\ Matrix(k.out, m) \subseteq Room(k.out)
  BY <1>1, PartIsMatrix, MatrixRoom
<1>8. Matrix(k.out, m) = es * m .. es * m + es - 1
  BY DEF Matrix
<1> DEFINE x == es * m
           y == i * c
<1>9. /\ x \in Nat /\ y \in Nat /\ y + c <= es
      /\ Cell(k, m, i, j) = x + y + j
      /\ Matrix(k.out, m) = x .. x + es - 1
  BY <1>2, <1>4, <1>5, <1>6, <1>8
<1> HIDE DEF x, y, es, c
<1>10. Cell(k, m, i, j) \in Matrix(k.out, m)
  BY <1>1, <1>3, <1>9
<1>11. QED BY <1>7, <1>10

(* A step at p writes the vector at (p.i, p.j) and no other element.       *)
LEMMA VectorCells ==
  ASSUME pass \in Passes, NEW k \in Fitting, k.op = "Multiply",
         NEW m \in Iterations(k), NEW p, InLoops(k, p),
         NEW i \in 0 .. NumRow(k.a) - 1, NEW j \in 0 .. numColB(k) - 1
  PROVE  Cell(k, m, i, j) \in
           Vector(ElementSize(k.out) * m + p.i * numColB(k) + p.j)
         <=> (i = p.i /\ j \in p.j .. p.j + W - 1)
<1> DEFINE c == numColB(k)
           x == ElementSize(k.out) * m
           y == i * c
           z == p.i * c
<1>1. c \in Nat \ {0} /\ Whole(c) /\ W \in Nat \ {0} /\ jb(k) \in Nat
  BY BlockSizes, VectorSizeWhole
<1>2. p.i \in Nat /\ p.j \in Nat /\ Whole(p.j) /\ p.j < c
  <2>1. /\ p.i \in Nat /\ p.j \in Nat /\ p.jj \in Nat /\ Whole(p.j)
        /\ p.j < Smaller(p.jj + jb(k), c)
    BY DEF InLoops
  <2>2. QED BY <1>1, <2>1 DEF Smaller
<1>3. p.j + W <= c
  BY <1>1, <1>2, WholeGap
<1>4. i \in Nat /\ j \in Nat /\ j < c
  <2>1. NumRow(k.a) \in Nat
    BY TensorSizes
  <2>2. QED BY <1>1, <2>1
<1>5. x \in Nat
  BY TensorSizes, IterationsAre
<1>6. y \in Nat /\ z \in Nat /\ y = c * i /\ z = c * p.i
  BY <1>1, <1>2, <1>4
<1>7. Cell(k, m, i, j) = x + y + j
  BY DEF Cell
<1>8. ASSUME NEW q \in p.j .. p.j + W - 1, y + j = z + q
      PROVE  i = p.i /\ j = q
  <2>1. q \in 0 .. c - 1 /\ j \in 0 .. c - 1
    BY <1>1, <1>2, <1>3, <1>4
  <2>2. c * i + j = c * p.i + q
    BY <1>6, <1>8
  <2> HIDE DEF c
  <2>3. \A a, b \in Nat : \A e, f \in 0 .. c - 1 :
          c * a + e = c * b + f => a = b /\ e = f
    BY <1>1, BlockUnique
  <2>4. QED BY <1>2, <1>4, <2>1, <2>2, <2>3
<1>9. i = p.i => y = z
  OBVIOUS
<1> HIDE DEF x, y, z, c
<1>10. (x + y + j \in Vector(x + z + p.j)) <=>
         \E q \in p.j .. p.j + W - 1 : y + j = z + q
  <2>1. ASSUME x + y + j \in Vector(x + z + p.j)
        PROVE  \E q \in p.j .. p.j + W - 1 : y + j = z + q
    <3>1. /\ y + j - z \in p.j .. p.j + W - 1
          /\ y + j = z + (y + j - z)
      BY <1>1, <1>2, <1>4, <1>5, <1>6, <2>1 DEF Vector
    <3>2. QED BY <3>1
  <2>2. ASSUME NEW q \in p.j .. p.j + W - 1, y + j = z + q
        PROVE  x + y + j \in Vector(x + z + p.j)
    BY <1>1, <1>2, <1>4, <1>5, <1>6, <2>2 DEF Vector
  <2>3. QED BY <2>1, <2>2
<1>11. (i = p.i /\ j \in p.j .. p.j + W - 1) <=>
         \E q \in p.j .. p.j + W - 1 : y + j = z + q
  BY <1>8, <1>9
<1>12. QED BY <1>7, <1>10, <1>11 DEF x, z, c

LEMMA AtStart ==
  ASSUME pass \in Passes, NEW k, NEW i \in Nat, NEW j \in Nat
  PROVE  Accumulated(k, Start, i, j) = 0
<1>1. jb(k) \in Nat /\ Start # Done
  BY BlockSizes, LoopStart
<1>2. Start.jj = 0 /\ Start.kk = 0 /\ Start.i = 0 /\ Start.j = 0
  BY DEF Start
<1>3. QED BY <1>1, <1>2 DEF Accumulated

(* The next vector of a product moves its elements from the terms before   *)
(* the block of p to the terms up to its end, and no other element.        *)
LEMMA AccumulatedMoves ==
  ASSUME pass \in Passes, NEW k, k.op = "Multiply", NEW p, InLoops(k, p),
         NEW i \in 0 .. NumRow(k.a) - 1, NEW j \in 0 .. numColB(k) - 1
  PROVE  /\ p.kk \in Nat /\ Limit(k, p.kk) \in Nat /\ p.kk < Limit(k, p.kk)
         /\ (i = p.i /\ j \in p.j .. p.j + W - 1) =>
              /\ Accumulated(k, p, i, j) = p.kk
              /\ Accumulated(k, Advance(k, p), i, j) = Limit(k, p.kk)
         /\ ~(i = p.i /\ j \in p.j .. p.j + W - 1) =>
              Accumulated(k, Advance(k, p), i, j) = Accumulated(k, p, i, j)
<1> DEFINE c == numColB(k)
           r == numRowB(k)
           rows == NumRow(k.a)
           bj == jb(k)
           bk == kb(k)
           stop == Smaller(p.jj + bj, c)
           next == Advance(k, p)
<1>1. /\ c \in Nat \ {0} /\ Whole(c) /\ W \in Nat \ {0} /\ Whole(W)
      /\ bj \in Nat \ {0} /\ Whole(bj) /\ bk \in Nat \ {0}
      /\ r \in Nat \ {0} /\ rows \in Nat \ {0}
  BY BlockSizes, VectorSizeWhole, TensorSizes
<1>2. /\ p \in [jj : Nat, kk : Nat, i : Nat, j : Nat]
      /\ p.jj \in Nat /\ p.kk \in Nat /\ p.i \in Nat /\ p.j \in Nat
      /\ Whole(p.jj) /\ Whole(p.j) /\ p.jj <= p.j /\ p.j < stop
      /\ p.i < rows /\ p.kk < r
  BY DEF InLoops
<1>3. Whole(stop)
  BY <1>1, <1>2, WholeSum DEF Smaller
<1>4. p.j + W <= stop
  BY <1>2, <1>3, WholeGap
<1>5. p # Done /\ (next = Done \/ InLoops(k, next))
  BY LoopAdvances
<1>6. InLoops(k, next) => next # Done
  BY LoopAdvances
<1>7. Limit(k, p.kk) = Smaller(r, p.kk + bk)
  BY DEF Limit
<1>8. i \in Nat /\ i < rows /\ j \in Nat /\ j < c
  BY <1>1
<1>9. \A q : Accumulated(k, q, i, j) =
        IF q = Done \/ j < q.jj THEN r
        ELSE IF j >= q.jj + bj THEN 0
        ELSE IF i < q.i \/ (i = q.i /\ j < q.j) THEN Limit(k, q.kk) ELSE q.kk
  BY DEF Accumulated
<1>10. \/ /\ p.j + W < stop /\ next # Done
          /\ next.jj = p.jj /\ next.kk = p.kk /\ next.i = p.i
          /\ next.j = p.j + W
       \/ /\ ~(p.j + W < stop) /\ p.i + 1 < rows /\ next # Done
          /\ next.jj = p.jj /\ next.kk = p.kk /\ next.i = p.i + 1
          /\ next.j = p.jj
       \/ /\ ~(p.j + W < stop) /\ ~(p.i + 1 < rows) /\ p.kk + bk < r
          /\ next # Done
          /\ next.jj = p.jj /\ next.kk = p.kk + bk /\ next.i = 0
          /\ next.j = p.jj
       \/ /\ ~(p.j + W < stop) /\ ~(p.i + 1 < rows) /\ ~(p.kk + bk < r)
          /\ p.jj + bj < c /\ next # Done
          /\ next.jj = p.jj + bj /\ next.kk = 0 /\ next.i = 0
          /\ next.j = p.jj + bj
       \/ /\ ~(p.j + W < stop) /\ ~(p.i + 1 < rows) /\ ~(p.kk + bk < r)
          /\ ~(p.jj + bj < c) /\ next = Done
  <2>1. p \in CounterValues /\ Done.i = -1
    BY <1>2 DEF CounterValues, Done, Start
  <2>2. \A q \in CounterValues : q.i \in Nat
    BY DEF CounterValues
  <2>3. \A q \in CounterValues : q # Done
    BY <2>1, <2>2
  <2> HIDE DEF next, stop
  <2>4. next = Advance(k, p) /\ stop = Smaller(p.jj + jb(k), numColB(k))
    BY DEF next, stop
  <2>5. QED BY <2>1, <2>3, <2>4, Advancing
<1>0. stop = Smaller(p.jj + bj, c)
  OBVIOUS
<1> HIDE DEF c, r, rows, bj, bk, stop, next
<1>11. p.kk \in Nat /\ Limit(k, p.kk) \in Nat /\ p.kk < Limit(k, p.kk)
  BY <1>1, <1>2, <1>7 DEF Smaller
<1>12. ASSUME i = p.i, j \in p.j .. p.j + W - 1
       PROVE  Accumulated(k, p, i, j) = p.kk
  BY <1>0, <1>1, <1>2, <1>4, <1>5, <1>8, <1>9, <1>12 DEF Smaller
<1>13. ASSUME i = p.i, j \in p.j .. p.j + W - 1
       PROVE  Accumulated(k, next, i, j) = Limit(k, p.kk)
  BY <1>0, <1>1, <1>2, <1>4, <1>7, <1>8, <1>9, <1>10, <1>13 DEF Smaller
<1>14. ASSUME ~(i = p.i /\ j \in p.j .. p.j + W - 1)
       PROVE  Accumulated(k, next, i, j) = Accumulated(k, p, i, j)
  BY <1>0, <1>1, <1>2, <1>4, <1>5, <1>7, <1>8, <1>9, <1>10, <1>14
     DEF Smaller
<1>15. QED BY <1>11, <1>12, <1>13, <1>14 DEF next

LEMMA ProductOperands ==
  ASSUME pass \in Passes, NEW n \in 1 .. Len(Program), NEW k,
         k = Program[n], k.op = "Multiply"
  PROVE  /\ k.a \in Tensors /\ k.a # k.out
         /\ k.b \in Tensors /\ k.b # k.out
<1>1. k \in Fitting
  BY CurrentCall
<1>2. /\ k.a # k.out /\ k.b # k.out
      /\ k.a \notin Scalars /\ k.b \notin Scalars
  BY <1>1 DEF Fitting, Fits
<1>3. k \in ToSet(Program)
  <2>1. PICK S : Program \in Seq(Writing(S))
    BY ProgramProper DEF Proper
  <2>2. QED BY <2>1, LenProperties DEF ToSet
<1>4. QED BY <1>2, <1>3 DEF Tensors

LEMMA ProductsInParts ==
  ASSUME NEW k, NEW m, NEW i, NEW c, NEW n \in Nat, NEW l \in Nat, n <= l
  PROVE  AddUp(AddUp(Zero, Products(k, m, i, c, 0, n)),
               Products(k, m, i, c, n, l))
           = AddUp(Zero, Products(k, m, i, c, 0, l))
<1> DEFINE col == (c - ElementSize(k.out) * m) % numColB(k)
           factor(x) ==
             Times(mem[k.a][Offset(k.a, k.b, m) + i * Padded(NumCol(k.a)) + x],
                   mem[k.b][Offset(k.b, k.a, m) + x * numColB(k) + col])
           f == [x \in 0 .. l |-> factor(x)]
           terms(from, to) == [e \in 1 .. to - from |-> factor(from + e - 1)]
<1>1. \A from, to : Products(k, m, i, c, from, to) = terms(from, to)
  BY DEF Products
<1> HIDE DEF factor
<1>2. /\ DOMAIN terms(0, l) = 1 .. l /\ DOMAIN terms(0, n) = 1 .. n
      /\ DOMAIN terms(n, l) = 1 .. l - n
  OBVIOUS
<1>3. ASSUME NEW e \in 1 .. n PROVE terms(0, n)[e] = terms(0, l)[e]
  OBVIOUS
<1>4. ASSUME NEW e \in 1 .. l - n PROVE terms(n, l)[e] = terms(0, l)[n + e]
  <2>1. n + e \in 1 .. l /\ 0 + (n + e) - 1 = n + e - 1
    OBVIOUS
  <2>2. QED BY <2>1
<1> HIDE DEF terms
<1>5. AddUp(AddUp(Zero, terms(0, n)), terms(n, l)) = AddUp(Zero, terms(0, l))
  <2> DEFINE x == terms(0, l)
             y == terms(0, n)
             z == terms(n, l)
  <2>1. /\ DOMAIN x = 1 .. l /\ DOMAIN y = 1 .. n /\ DOMAIN z = 1 .. l - n
        /\ \A e \in 1 .. n : y[e] = x[e]
        /\ \A e \in 1 .. l - n : z[e] = x[n + e]
    BY <1>2, <1>3, <1>4
  <2> HIDE DEF x, y, z
  <2>2. AddUp(AddUp(Zero, y), z) = AddUp(Zero, x)
    BY <2>1, AddUpInParts
  <2>3. QED BY <2>2 DEF x, y, z
<1>6. QED BY <1>1, <1>5

(* A product is summed up to n at element (i, j) of matrix m of the memory. *)
LEMMA SummedFixed ==
  ASSUME pass' = pass, NEW k, NEW m, NEW q, NEW i, NEW j,
         mem'[k.a] = mem[k.a], mem'[k.b] = mem[k.b],
         NEW c, c = Cell(k, m, i, j), NEW n, n = Accumulated(k, q, i, j),
         mem'[k.out][c] = IF n = 0 THEN Elem(k.out, c)
                          ELSE AddUp(Zero, Products(k, m, i, c, 0, n))
  PROVE  Summed(k, m, q, i, j)'
<1>1. /\ NumRow(k.a)' = NumRow(k.a) /\ NumCol(k.a)' = NumCol(k.a)
      /\ NumCol(k.b)' = NumCol(k.b) /\ NumRow(k.b)' = NumRow(k.b)
      /\ ElementSize(k.out)' = ElementSize(k.out)
      /\ ElementSize(k.a)' = ElementSize(k.a)
      /\ ElementSize(k.b)' = ElementSize(k.b)
      /\ BatchSize(k.a)' = BatchSize(k.a) /\ BatchSize(k.b)' = BatchSize(k.b)
  BY LayoutFixed
<1>2. /\ numColB(k)' = numColB(k) /\ numRowB(k)' = numRowB(k)
      /\ jb(k)' = jb(k) /\ kb(k)' = kb(k)
  BY <1>1 DEF numColB, numRowB, jb, kb, Padded, Smaller
<1>3. Cell(k, m, i, j)' = c
  BY <1>1, <1>2 DEF Cell
<1>4. Accumulated(k, q, i, j)' = n
  <2>1. ASSUME NEW kk PROVE Limit(k, kk)' = Limit(k, kk)
    BY <1>2 DEF Limit, Smaller
  <2>2. Limit(k, q.kk)' = Limit(k, q.kk)
    BY <2>1
  <2>3. QED BY <1>2, <2>2 DEF Accumulated, Done, Start
<1>5. /\ Offset(k.a, k.b, m)' = Offset(k.a, k.b, m)
      /\ Offset(k.b, k.a, m)' = Offset(k.b, k.a, m)
  BY <1>1 DEF Offset
<1>6. Products(k, m, i, c, 0, n)' = Products(k, m, i, c, 0, n)
  BY <1>1, <1>2, <1>5 DEF Products, Padded, Times
<1>7. Elem(k.out, c)' = Elem(k.out, c) /\ Zero' = Zero
  BY DEF Elem, Zero, Scalar
<1>8. QED
  BY <1>3, <1>4, <1>6, <1>7 DEF Summed

LEMMA PartialSumsNext ==
  ASSUME pass' = pass, NEW k, Program[step]' = k,
         k.op = "Multiply" =>
           \A m \in DOMAIN pc', i \in 0 .. NumRow(k.a) - 1,
              j \in 0 .. numColB(k) - 1 :
             \A q : q = pc'[m] => Summed(k, m, q, i, j)'
  PROVE  PartialSums'
<1>1. NumRow(k.a)' = NumRow(k.a) /\ numColB(k)' = numColB(k)
  BY LayoutFixed DEF numColB, Padded
<1>2. QED BY <1>1 DEF PartialSums, Summed, Cell

(* A vector of the product, element by element. *)
LEMMA VectorSums ==
  ASSUME pass \in Passes, NEW k \in Fitting, k.op = "Multiply",
         NEW m \in Iterations(k), NEW p, InLoops(k, p),
         NEW i \in 0 .. NumRow(k.a) - 1, NEW j \in 0 .. numColB(k) - 1,
         Summed(k, m, p, i, j),
         NEW c, c = Cell(k, m, i, j), NEW n,
         n = Accumulated(k, Advance(k, p), i, j),
         NEW held, held = Overwritten(mem[k.out], Stores(k, m, p)),
         DOMAIN mem[k.out] = Room(k.out)
  PROVE  held[c] = IF n = 0 THEN Elem(k.out, c)
                   ELSE AddUp(Zero, Products(k, m, i, c, 0, n))
<1> DEFINE V == Vector(ElementSize(k.out) * m + p.i * numColB(k) + p.j)
<1>1. c \in Room(k.out)
  BY CellRoom
<1>2. Stores(k, m, p) = MultiplyVector(k, m, p)
  BY DEF Stores
<1>3. DOMAIN Stores(k, m, p) = V
  BY <1>2 DEF MultiplyVector
<1>4. c \in V <=> (i = p.i /\ j \in p.j .. p.j + W - 1)
  BY VectorCells
<1>5. /\ p.kk \in Nat /\ Limit(k, p.kk) \in Nat /\ p.kk < Limit(k, p.kk)
      /\ c \in V => /\ Accumulated(k, p, i, j) = p.kk
                    /\ n = Limit(k, p.kk)
      /\ c \notin V => n = Accumulated(k, p, i, j)
  BY <1>4, AccumulatedMoves
<1>6. mem[k.out][c] =
        IF Accumulated(k, p, i, j) = 0 THEN Elem(k.out, c)
        ELSE AddUp(Zero, Products(k, m, i, c, 0, Accumulated(k, p, i, j)))
  BY DEF Summed
<1>7. CASE c \notin V
  <2>1. held[c] = mem[k.out][c]
    BY <1>1, <1>3, <1>7 DEF Overwritten
  <2>2. QED BY <1>5, <1>6, <1>7, <2>1
<1>8. CASE c \in V
  <2> DEFINE l == Limit(k, p.kk)
  <2>1. held[c] = Stores(k, m, p)[c]
    BY <1>1, <1>3, <1>8 DEF Overwritten
  <2>2. Stores(k, m, p)[c] =
          AddUp(Load(k, c, p.kk), Products(k, m, p.i, c, p.kk, l))
    BY <1>2, <1>8 DEF MultiplyVector
  <2>3. i = p.i /\ n = l /\ n # 0 /\ Accumulated(k, p, i, j) = p.kk
    BY <1>4, <1>5, <1>8
  <2> HIDE DEF l, V
  <2>4. CASE p.kk = 0
    BY <2>1, <2>2, <2>3, <2>4 DEF Load
  <2>5. CASE p.kk # 0
    <3>1. Load(k, c, p.kk) = AddUp(Zero, Products(k, m, i, c, 0, p.kk))
      BY <1>6, <2>3, <2>5 DEF Load
    <3>2. AddUp(AddUp(Zero, Products(k, m, i, c, 0, p.kk)),
                Products(k, m, i, c, p.kk, l))
            = AddUp(Zero, Products(k, m, i, c, 0, l))
      BY <1>5, ProductsInParts DEF l
    <3>3. QED BY <2>1, <2>2, <2>3, <3>1, <3>2
  <2>6. QED BY <2>4, <2>5
<1>9. QED BY <1>7, <1>8

LEMMA IteratePartialSums ==
  ASSUME Invariant, PartialSums, NEW m \in DOMAIN pc, Iterate(m)
  PROVE  PartialSums'
<1>1. PICK k : k = Program[step]
  OBVIOUS
<1>2. /\ pass \in Passes /\ pass' = pass /\ step' = step
      /\ step \in 1 .. Len(Program)
      /\ k \in Fitting /\ k.out \in Tensors /\ m \in Iterations(k)
      /\ InLoops(k, pc[m])
      /\ DOMAIN mem[k.out] = Room(k.out)
      /\ mem' = [mem EXCEPT ![k.out] =
                   Overwritten(mem[k.out], Stores(k, m, pc[m]))]
      /\ pc' = [pc EXCEPT ![m] = Advance(k, pc[m])]
      /\ DOMAIN pc = Iterations(k) /\ DOMAIN mem = Tensors
  BY <1>1, IterateDoes
<1>3. Program[step]' = k
  BY <1>1, <1>2, ProgramFixed
<1>4. ASSUME k.op = "Multiply",
             NEW n \in DOMAIN pc', NEW i \in 0 .. NumRow(k.a) - 1,
             NEW j \in 0 .. numColB(k) - 1, NEW q, q = pc'[n]
      PROVE  Summed(k, n, q, i, j)'
  <2>1. mem'[k.a] = mem[k.a] /\ mem'[k.b] = mem[k.b]
    BY <1>1, <1>2, <1>4, ProductOperands
  <2>2. PICK c, x : c = Cell(k, n, i, j) /\ x = Accumulated(k, q, i, j)
    OBVIOUS
  <2>3. n \in Iterations(k)
    BY <1>2
  <2>4. Summed(k, n, pc[n], i, j)
    BY <1>1, <1>2, <1>4, <2>3, PartialSumsAre
  <2>5. mem'[k.out][c] = IF x = 0 THEN Elem(k.out, c)
                         ELSE AddUp(Zero, Products(k, n, i, c, 0, x))
    <3>1. CASE n = m
      <4>1. q = Advance(k, pc[n])
        BY <1>2, <1>4, <3>1
      <4>2. mem'[k.out] = Overwritten(mem[k.out], Stores(k, n, pc[n]))
        BY <1>2, <3>1
      <4>3. InLoops(k, pc[n])
        BY <1>2, <3>1
      <4>4. QED
        BY <1>2, <1>4, <2>2, <2>3, <2>4, <4>1, <4>2, <4>3, VectorSums
    <3>2. CASE n # m
      <4>1. q = pc[n]
        BY <1>2, <1>4, <3>2
      <4>2. c \in Part(k, n)
        BY <1>2, <1>4, <2>2, <2>3, CellRoom
      <4>3. mem'[k.out][c] = mem[k.out][c]
        BY <1>1, <1>2, <2>3, <3>2, <4>2, OthersPartKept
      <4>4. QED BY <2>2, <2>4, <4>1, <4>3 DEF Summed
    <3>3. QED BY <3>1, <3>2
  <2>6. QED BY <1>2, <2>1, <2>2, <2>5, SummedFixed
<1>5. QED BY <1>2, <1>3, <1>4, PartialSumsNext

LEMMA NothingSummed ==
  ASSUME pass \in Passes, NEW k \in Fitting, k.op = "Multiply",
         NEW m \in Iterations(k), NEW i \in 0 .. NumRow(k.a) - 1,
         NEW j \in 0 .. numColB(k) - 1, mem[k.out] = Fresh(k.out)
  PROVE  /\ Accumulated(k, Start, i, j) = 0
         /\ mem[k.out][Cell(k, m, i, j)] = Elem(k.out, Cell(k, m, i, j))
<1>1. i \in Nat /\ j \in Nat
  BY TensorSizes, BlockSizes
<1>2. Cell(k, m, i, j) \in Room(k.out)
  BY CellRoom
<1>3. QED BY <1>1, <1>2, AtStart DEF Fresh, Room

LEMMA InitPartialSums == Init => PartialSums
<1> SUFFICES ASSUME Init PROVE PartialSums
  OBVIOUS
<1>1. PICK k : k = Program[step]
  OBVIOUS
<1>2. /\ pass \in Passes /\ step = 1 /\ mem = [t \in Tensors |-> Fresh(t)]
      /\ pc = [m \in Iterations(k) |-> Start]
  BY <1>1 DEF Init
<1>3. k \in Fitting /\ k.out \in Tensors
  BY <1>1, <1>2, CurrentCall
<1>4. mem[k.out] = Fresh(k.out)
  BY <1>2, <1>3
<1>5. ASSUME k.op = "Multiply", NEW m \in DOMAIN pc,
             NEW i \in 0 .. NumRow(k.a) - 1, NEW j \in 0 .. numColB(k) - 1
      PROVE  Summed(k, m, pc[m], i, j)
  <2>1. m \in Iterations(k) /\ pc[m] = Start
    BY <1>2
  <2>2. /\ Accumulated(k, Start, i, j) = 0
        /\ mem[k.out][Cell(k, m, i, j)] = Elem(k.out, Cell(k, m, i, j))
    BY <1>2, <1>3, <1>4, <1>5, <2>1, NothingSummed
  <2>3. QED BY <2>1, <2>2 DEF Summed
<1>6. QED BY <1>1, <1>5, PartialSumsAre

LEMMA NextCallPartialSums ==
  ASSUME Invariant, NextCall
  PROVE  PartialSums'
<1>1. PICK k : k = Program[step + 1]
  OBVIOUS
<1>2. /\ pass' = pass /\ mem' = mem /\ step' = step + 1
      /\ step < Len(Program)
      /\ pc' = [m \in Iterations(k) |-> Start]
  BY <1>1 DEF NextCall
<1>3. /\ pass \in Passes /\ step \in 1 .. Len(Program)
      /\ Len(Program) \in Nat /\ step + 1 \in 1 .. Len(Program)
  BY <1>2, CurrentCall DEF Invariant, TypeOK
<1>4. k \in Fitting /\ k.out \in Tensors
  BY <1>1, <1>3, CurrentCall
<1>5. Program[step]' = k
  BY <1>1, <1>2, ProgramFixed
<1>6. ASSUME k.op = "Multiply" PROVE mem[k.out] = Fresh(k.out)
  <2>1. FirstWrites(Program) /\ step + 1 \in DOMAIN Program
    <3>1. PICK S : Program \in Seq(Writing(S))
      BY <1>3, ProgramProper DEF Proper
    <3>2. QED BY <1>3, <3>1, CurrentCall, LenProperties
  <2>2. \A j \in DOMAIN Program : Program[j].op = "Multiply" =>
          \A i \in 1 .. j - 1 : Program[i].out # Program[j].out
    BY <2>1 DEF FirstWrites
  <2>3. \A n \in 1 .. step : Program[n].out # k.out
    <3>1. PICK j : j = step + 1
      OBVIOUS
    <3>2. j \in DOMAIN Program /\ Program[j] = k
      BY <1>1, <2>1, <3>1
    <3>3. \A n \in 1 .. j - 1 : Program[n].out # k.out
      BY <1>6, <2>2, <3>2
    <3>4. j - 1 = step
      BY <1>3, <3>1
    <3>5. QED BY <3>3, <3>4
  <2>4. QED BY <1>4, <2>3 DEF Invariant, Untouched
<1>7. ASSUME k.op = "Multiply",
             NEW m \in DOMAIN pc', NEW i \in 0 .. NumRow(k.a) - 1,
             NEW j \in 0 .. numColB(k) - 1, NEW q, q = pc'[m]
      PROVE  Summed(k, m, q, i, j)'
  <2>1. m \in Iterations(k) /\ q = Start
    BY <1>2, <1>7
  <2>2. PICK c : c = Cell(k, m, i, j)
    OBVIOUS
  <2>3. /\ Accumulated(k, q, i, j) = 0
        /\ mem'[k.out][c] = Elem(k.out, c)
    BY <1>2, <1>3, <1>4, <1>6, <1>7, <2>1, <2>2, NothingSummed
  <2>4. /\ mem'[k.a] = mem[k.a] /\ mem'[k.b] = mem[k.b]
        /\ mem'[k.out][c] =
             IF 0 = 0 THEN Elem(k.out, c)
             ELSE AddUp(Zero, Products(k, m, i, c, 0, 0))
    BY <1>2, <2>3
  <2>5. QED BY <1>2, <2>2, <2>3, <2>4, SummedFixed
<1>8. QED BY <1>2, <1>5, <1>7, PartialSumsNext

LEMMA StutterPartialSums ==
  ASSUME PartialSums, UNCHANGED vars
  PROVE  PartialSums'
<1>1. PICK k : k = Program[step]
  OBVIOUS
<1>2. pass' = pass /\ mem' = mem /\ step' = step /\ pc' = pc
  BY DEF vars
<1>3. Program[step]' = k
  BY <1>1, <1>2, ProgramFixed
<1>4. ASSUME k.op = "Multiply",
             NEW m \in DOMAIN pc', NEW i \in 0 .. NumRow(k.a) - 1,
             NEW j \in 0 .. numColB(k) - 1, NEW q, q = pc'[m]
      PROVE  Summed(k, m, q, i, j)'
  <2>1. Summed(k, m, q, i, j)
    BY <1>1, <1>2, <1>4, PartialSumsAre
  <2>2. PICK c, n : c = Cell(k, m, i, j) /\ n = Accumulated(k, q, i, j)
    OBVIOUS
  <2>3. mem'[k.out][c] = IF n = 0 THEN Elem(k.out, c)
                         ELSE AddUp(Zero, Products(k, m, i, c, 0, n))
    BY <1>2, <2>1, <2>2 DEF Summed
  <2>4. mem'[k.a] = mem[k.a] /\ mem'[k.b] = mem[k.b]
    BY <1>2
  <2>5. QED BY <1>2, <2>2, <2>3, <2>4, SummedFixed
<1>5. QED BY <1>2, <1>3, <1>4, PartialSumsNext

(* At every moment of a product, and however the iterations of the batch   *)
(* are interleaved, each element of the output is the sum of its first     *)
(* terms, in their order: the blocks of MultiplyCpu, of any size, neither  *)
(* skip nor repeat a term.                                                 *)
THEOREM ProductsSumUp == Spec => []PartialSums
<1>1. ASSUME Invariant, PartialSums, [Next]_vars PROVE PartialSums'
  <2>1. CASE \E m \in DOMAIN pc : Iterate(m)
    BY <1>1, <2>1, IteratePartialSums
  <2>2. CASE NextCall
    BY <1>1, <2>2, NextCallPartialSums
  <2>3. CASE UNCHANGED vars
    BY <1>1, <2>3, StutterPartialSums
  <2>4. QED BY <1>1, <2>1, <2>2, <2>3 DEF Next
<1>2. QED BY AlwaysInvariant, InitPartialSums, <1>1, PTL DEF Spec

-----------------------------------------------------------------------------
(* Where the elements are.                                                 *)

(* Element (r, c) of sample b in the rows of tensor t, and its number in   *)
(* the order of At.                                                        *)
Place(t, b, r, c) == Padded(NumCol(t)) * (NumRow(t) * b + r) + c
Index(t, b, r, c) == NumCol(t) * (NumRow(t) * b + r) + c

(* The samples, rows and columns of t. *)
Samples(t) == 0 .. BatchSize(t) - 1
Rows(t) == 0 .. NumRow(t) - 1
Columns(t) == 0 .. NumCol(t) - 1

LEMMA Quotient ==
  ASSUME NEW n \in Nat, NEW x \in Nat, NEW r \in 0 .. n - 1
  PROVE  /\ (n * x + r) \div n = x /\ (n * x + r) % n = r
         /\ n * x + r \in Nat
<1> DEFINE i == n * x + r
<1>1. n \in Nat \ {0} /\ r \in Nat
  OBVIOUS
<1>2. i \in Nat
  BY <1>1
<1>3. /\ i \div n \in Nat /\ i % n \in 0 .. n - 1
      /\ i = n * (i \div n) + (i % n)
  <2> HIDE DEF i
  <2>1. QED BY <1>1, <1>2, Division
<1>4. n * x + r = n * (i \div n) + (i % n)
  BY <1>3
<1> HIDE DEF i
<1>5. x = i \div n /\ r = i % n
  BY <1>1, <1>3, <1>4, BlockUnique
<1>6. QED BY <1>2, <1>5 DEF i

LEMMA IndexParts ==
  ASSUME pass \in Passes, NEW t, NEW b \in Nat, NEW r \in Rows(t),
         NEW c \in Columns(t), NEW idx, idx = Index(t, b, r, c)
  PROVE  /\ idx \in Nat
         /\ idx \div NumCol(t) = NumRow(t) * b + r /\ idx % NumCol(t) = c
         /\ (idx \div NumCol(t)) % NumRow(t) = r
         /\ idx \div Size(t) = b
         /\ idx = Size(t) * b + (NumCol(t) * r + c)
         /\ idx \in Size(t) * b .. Size(t) * b + Size(t) - 1
         /\ DataIdx(t, idx) = Place(t, b, r, c)
<1> DEFINE rows == NumRow(t)
           cols == NumCol(t)
           q == rows * b + r
           s == cols * r + c
<1>1. rows \in Nat \ {0} /\ cols \in Nat \ {0} /\ Size(t) = rows * cols
  BY TensorSizes DEF Size
<1>2. r \in 0 .. rows - 1 /\ c \in 0 .. cols - 1
  BY DEF Rows, Columns
<1>3. idx = cols * q + c
  BY DEF Index
<1> HIDE DEF rows, cols
<1>4. q \in Nat /\ q % rows = r
  BY <1>1, <1>2, Quotient
<1>5. idx \in Nat /\ idx \div cols = q /\ idx % cols = c
  <2>1. q \in Nat /\ cols \in Nat
    BY <1>1, <1>4
  <2> HIDE DEF q
  <2>2. /\ (cols * q + c) \div cols = q /\ (cols * q + c) % cols = c
        /\ cols * q + c \in Nat
    BY <1>2, <2>1, Quotient
  <2>3. QED BY <1>3, <2>2
<1>6. s \in 0 .. rows * cols - 1
  <2>1. cols * r + cols <= cols * rows
    BY <1>1, <1>2, Scaling
  <2>2. cols * r \in Nat /\ cols * rows = rows * cols
    BY <1>1, <1>2
  <2> DEFINE x == cols * r
             y == rows * cols
  <2>3. x \in Nat /\ x + cols <= y /\ y \in Nat /\ s = x + c
    BY <1>1, <2>1, <2>2
  <2> HIDE DEF x, y, s
  <2>4. s \in 0 .. y - 1
    BY <1>1, <1>2, <2>3
  <2>5. QED BY <2>4 DEF y
<1>7. idx = (rows * cols) * b + s
  <2>1. cols * (rows * b + r) = (rows * cols) * b + cols * r
    BY <1>1, <1>2
  <2>2. (rows * cols) * b \in Nat /\ cols * r \in Nat
    BY <1>1, <1>2
  <2> DEFINE x == (rows * cols) * b
             y == cols * r
  <2>3. idx = (x + y) + c /\ s = y + c /\ x \in Nat /\ y \in Nat
    BY <1>3, <2>1, <2>2
  <2> HIDE DEF y
  <2>4. idx = x + s
    BY <1>2, <2>3
  <2>5. QED BY <2>4
<1>8. idx \div Size(t) = b
  <2> DEFINE n == rows * cols
  <2>1. n \in Nat
    BY <1>1
  <2> HIDE DEF n, s
  <2>2. s \in 0 .. n - 1 /\ idx = n * b + s
    BY <1>6, <1>7 DEF n
  <2>3. idx \div n = b
    BY <2>1, <2>2, Quotient
  <2>4. QED BY <1>1, <2>3 DEF n
<1>9. idx \in Size(t) * b .. Size(t) * b + Size(t) - 1
  <2>1. Size(t) \in Nat /\ Size(t) * b \in Nat
    BY <1>1
  <2>2. s \in 0 .. Size(t) - 1 /\ idx = Size(t) * b + s
    BY <1>1, <1>6, <1>7
  <2> HIDE DEF s
  <2>3. QED BY <2>1, <2>2
<1>10. DataIdx(t, idx) = Place(t, b, r, c)
  BY <1>5 DEF DataIdx, Place, rows, cols
<1>11. QED
  BY <1>1, <1>4, <1>5, <1>7, <1>8, <1>9, <1>10 DEF rows, cols

LEMMA PlaceRoom ==
  ASSUME pass \in Passes, NEW t, NEW b \in Samples(t), NEW r \in Rows(t),
         NEW c \in Columns(t)
  PROVE  /\ Place(t, b, r, c) \in Matrix(t, b)
         /\ Place(t, b, r, c) \in Room(t)
         /\ Place(t, b, r, c) \in Nat
         /\ Index(t, b, r, c) \in 0 .. Size(t) * BatchSize(t) - 1
<1>1. /\ BatchSize(t) \in Nat /\ ElementSize(t) \in Nat
      /\ Size(t) \in Nat \ {0} /\ b \in Nat
  BY TensorSizes DEF Samples
<1>2. PICK idx : idx = Index(t, b, r, c)
  OBVIOUS
<1>3. /\ idx \in Size(t) * b .. Size(t) * b + Size(t) - 1 /\ idx \in Nat
      /\ DataIdx(t, idx) = Place(t, b, r, c)
  BY <1>1, <1>2, IndexParts
<1>4. Place(t, b, r, c) \in Matrix(t, b)
  BY <1>1, <1>3, DataIdxRoom DEF Matrix
<1>5. Matrix(t, b) \subseteq Room(t)
  BY MatrixRoom DEF Samples
<1>6. Place(t, b, r, c) \in Nat
  BY <1>1, <1>4, <1>5 DEF Room
<1>7. idx \in 0 .. Size(t) * BatchSize(t) - 1
  <2>1. Size(t) * b + Size(t) <= Size(t) * BatchSize(t)
    BY <1>1, Scaling DEF Samples
  <2>2. Size(t) * b \in Nat /\ Size(t) * BatchSize(t) \in Nat
    BY <1>1
  <2>3. QED BY <1>1, <1>3, <2>1, <2>2
<1>8. QED BY <1>2, <1>4, <1>5, <1>6, <1>7

(* No two elements share a place. *)
LEMMA DataIdxUnique ==
  ASSUME pass \in Passes, NEW t, NEW i \in Nat, NEW j \in Nat,
         DataIdx(t, i) = DataIdx(t, j)
  PROVE  i = j
<1> DEFINE cols == NumCol(t)
           width == Padded(NumCol(t))
<1>1. cols \in Nat \ {0} /\ width \in Nat /\ cols <= width
  BY TensorSizes
<1>2. /\ i \div cols \in Nat /\ i % cols \in 0 .. cols - 1
      /\ i = cols * (i \div cols) + (i % cols)
      /\ j \div cols \in Nat /\ j % cols \in 0 .. cols - 1
      /\ j = cols * (j \div cols) + (j % cols)
  <2> HIDE DEF cols
  <2>1. QED BY <1>1, Division
<1>3. width * (i \div cols) + (i % cols) = width * (j \div cols) + (j % cols)
  BY DEF DataIdx
<1> HIDE DEF cols, width
<1>4. i % cols \in 0 .. width - 1 /\ j % cols \in 0 .. width - 1
  BY <1>1, <1>2
<1>5. i \div cols = j \div cols /\ i % cols = j % cols
  BY <1>1, <1>2, <1>3, <1>4, BlockUnique
<1>6. QED BY <1>2, <1>5

(* Which index is stored at the place of an element. *)
LEMMA StoredIndex ==
  ASSUME pass \in Passes, NEW t, NEW S \in SUBSET Nat, NEW idx \in S
  PROVE  (CHOOSE i \in S : DataIdx(t, i) = DataIdx(t, idx)) = idx
<1>1. \A i \in S : DataIdx(t, i) = DataIdx(t, idx) => i = idx
  BY DataIdxUnique
<1>2. QED BY <1>1

(* Every index is that of an element. *)
LEMMA IndexCovers ==
  ASSUME pass \in Passes, NEW t, NEW idx \in Nat
  PROVE  /\ (idx \div NumCol(t)) % NumRow(t) \in Rows(t)
         /\ idx % NumCol(t) \in Columns(t)
         /\ idx \div Size(t) \in Nat
         /\ idx = Index(t, idx \div Size(t), (idx \div NumCol(t)) % NumRow(t),
                        idx % NumCol(t))
         /\ idx < Size(t) * BatchSize(t) => idx \div Size(t) \in Samples(t)
<1> DEFINE rows == NumRow(t)
           cols == NumCol(t)
           q == idx \div cols
           b == q \div rows
           r == q % rows
           c == idx % cols
<1>1. rows \in Nat \ {0} /\ cols \in Nat \ {0} /\ BatchSize(t) \in Nat
      /\ Size(t) \in Nat \ {0}
  BY TensorSizes
<1>2. q \in Nat /\ c \in 0 .. cols - 1 /\ idx = cols * q + c
  <2> HIDE DEF cols
  <2>1. QED BY <1>1, Division
<1>3. b \in Nat /\ r \in 0 .. rows - 1 /\ q = rows * b + r
  <2> HIDE DEF q, rows
  <2>1. QED BY <1>1, <1>2, Division
<1>4. r \in Rows(t) /\ c \in Columns(t)
  BY <1>2, <1>3 DEF Rows, Columns
<1>5. r = (idx \div NumCol(t)) % NumRow(t) /\ c = idx % NumCol(t)
  OBVIOUS
<1> HIDE DEF q, b, r, c
<1>6. idx = Index(t, b, r, c)
  BY <1>2, <1>3 DEF Index
<1>7. /\ idx \div Size(t) = b
      /\ idx \in Size(t) * b .. Size(t) * b + Size(t) - 1
  BY <1>3, <1>4, <1>6, IndexParts
<1>8. ASSUME idx < Size(t) * BatchSize(t) PROVE b \in Samples(t)
  <2>1. BatchSize(t) < b => Size(t) * BatchSize(t) + Size(t) <= Size(t) * b
    BY <1>1, <1>3, Scaling
  <2>2. Size(t) * b \in Nat /\ Size(t) * BatchSize(t) \in Nat
    BY <1>1, <1>3
  <2>3. ~(BatchSize(t) < b) /\ b # BatchSize(t)
    BY <1>1, <1>7, <1>8, <2>1, <2>2
  <2>4. QED BY <1>1, <1>3, <2>3 DEF Samples
<1>9. QED BY <1>3, <1>4, <1>5, <1>6, <1>7, <1>8

-----------------------------------------------------------------------------
(* What a call computes.                                                   *)

(* Element (r, c) of sample b of tensor t in memory M: a tensor of one     *)
(* sample has it for every sample.                                         *)
Element(M, t, b, r, c) ==
  M[t][Place(t, IF BatchSize(t) = 1 THEN 0 ELSE b, r, c)]

Binary == {"Add", "Sub", "Dot", "Div"}
Applied == {"ReLU", "ReLU'", "sigmoid", "sigmoid'", "square", "-log"}
Unary == {"ScalarMul", "ScalarDiv"} \cup Applied
Vectorwise == Binary \cup Unary \cup {"Set", "Fill", "ShrinkDivide"}
AtOnce == {"Transpose", "SoftMax", "SoftMaxGradient", "Assign", "Loss"}

SameMatrix(t, u) == NumRow(t) = NumRow(u) /\ NumCol(t) = NumCol(u)

(* Operands of the output's batch, or broadcast against it. *)
Spread(k) ==
  /\ BatchSize(k.a) \in {1, BatchSize(k.out)}
  /\ BatchSize(k.b) \in {1, BatchSize(k.out)}
  /\ BatchSize(k.a) = 1 /\ BatchSize(k.b) = 1 => BatchSize(k.out) = 1

(* The shapes each function needs. *)
Shaped(k) ==
  /\ k.op \notin {"Set", "Fill", "Assign"} => k.a \notin Scalars
  /\ k.op \in Binary \cup {"Multiply", "SoftMaxGradient"} =>
       k.b \notin Scalars
  /\ k.op \in AtOnce \cup {"ShrinkSum"} => k.a # k.out
  /\ k.op = "SoftMaxGradient" => k.b # k.out
  /\ k.op \in Binary => SameMatrix(k.a, k.out) /\ SameMatrix(k.b, k.out)
  /\ k.op \in Binary \cup {"Multiply"} => Spread(k)
  /\ k.op \in Unary \cup {"SoftMax", "SoftMaxGradient"} =>
       SameMatrix(k.a, k.out) /\ BatchSize(k.a) = BatchSize(k.out)
  /\ k.op = "ShrinkSum" => SameMatrix(k.a, k.out) /\ BatchSize(k.out) = 1
  /\ k.op = "ShrinkDivide" => k.a = k.out /\ BatchSize(k.out) = 1
  /\ k.op = "Transpose" =>
       /\ NumRow(k.a) = NumCol(k.out) /\ NumCol(k.a) = NumRow(k.out)
       /\ BatchSize(k.a) = BatchSize(k.out)
  /\ k.op = "Loss" => Layout(k.out) = <<1, 1, 1>>

(* Element idx of sample b of t. *)
Numbered(M, t, b, idx) == Element(M, t, b, idx \div NumCol(t), idx % NumCol(t))

SoftMaxResult(k, M, b, r, c) ==
  Over(<<"exp", Element(M, k.a, b, r, c)>>,
       AddUp(Zero, [n \in 1 .. Size(k.a) |->
                      <<"exp", Numbered(M, k.a, b, n - 1)>>]))

SoftMaxGradientResult(k, M, b, r, c) ==
  AddUp(Zero, [n \in 1 .. Size(k.out) |->
    Times(Numbered(M, k.a, b, n - 1),
          <<IF /\ (n - 1) \div NumCol(k.out) = r
               /\ (n - 1) % NumCol(k.out) = c THEN "x(1-x)" ELSE "-xy",
            Numbered(M, k.b, b, n - 1), Element(M, k.b, b, r, c)>>)])

LossResult(k, M) ==
  Over(AddUp(Zero, [n \in 1 .. Size(k.a) * BatchSize(k.a) |->
         Element(M, k.a, (n - 1) \div Size(k.a),
                 ((n - 1) \div NumCol(k.a)) % NumRow(k.a),
                 (n - 1) % NumCol(k.a))]),
       Scalar(k.b))

(* The first n samples of k.a on top of what the mean held. *)
ShrinkTo(k, M, r, c, n) ==
  AddBefore(M[k.out][Place(k.out, 0, r, c)],
            [i \in 1 .. n |-> Element(M, k.a, i - 1, r, c)])

ProductResult(k, M, b, r, c) ==
  AddUp(Zero, [n \in 1 .. NumRow(k.b) |->
                 Times(Element(M, k.a, b, r, n - 1),
                       Element(M, k.b, b, n - 1, c))])

(* Element (r, c) of sample b of the output, in terms of the memory before *)
(* the call.                                                               *)
Result(k, M, b, r, c) ==
  CASE k.op \in Binary ->
         <<Sign(k.op), Element(M, k.a, b, r, c), Element(M, k.b, b, r, c)>>
    [] k.op = "ScalarMul" -> Times(Element(M, k.a, b, r, c), Scalar(k.b))
    [] k.op \in {"ScalarDiv", "ShrinkDivide"} ->
         Over(Element(M, k.a, b, r, c), Scalar(k.b))
    [] k.op \in Applied -> <<k.op, Element(M, k.a, b, r, c)>>
    [] k.op = "Set" -> Scalar(k.a)
    [] k.op = "Fill" -> Draw(Place(k.out, b, r, c))
    [] k.op = "Assign" -> Datum(Index(k.out, b, r, c))
    [] k.op = "Transpose" -> Element(M, k.a, b, c, r)
    [] k.op = "SoftMax" -> SoftMaxResult(k, M, b, r, c)
    [] k.op = "SoftMaxGradient" -> SoftMaxGradientResult(k, M, b, r, c)
    [] k.op = "Loss" -> LossResult(k, M)
    [] k.op = "ShrinkSum" -> ShrinkTo(k, M, r, c, BatchSize(k.a))
    [] k.op = "Multiply" -> ProductResult(k, M, b, r, c)

LEMMA ElementIs ==
  ASSUME pass \in Passes, NEW M, NEW t, NEW b \in Samples(t), NEW r, NEW c
  PROVE  Element(M, t, b, r, c) = M[t][Place(t, b, r, c)]
<1>1. BatchSize(t) = 1 => b = 0
  BY DEF Samples
<1>2. QED BY <1>1 DEF Element

LEMMA PlaceSum ==
  ASSUME pass \in Passes, NEW t, NEW b \in Nat, NEW r \in Nat, NEW c \in Nat
  PROVE  /\ Place(t, b, r, c) =
              ElementSize(t) * b + (Padded(NumCol(t)) * r + c)
         /\ ElementSize(t) * b \in Nat /\ Padded(NumCol(t)) * r \in Nat
         /\ Place(t, b, r, c) \in Nat
<1> DEFINE w == Padded(NumCol(t))
           n == NumRow(t)
<1>1. w \in Nat /\ n \in Nat /\ ElementSize(t) = n * w
  BY TensorSizes DEF ElementSize
<1>2. Place(t, b, r, c) = w * (n * b + r) + c
  BY DEF Place
<1> HIDE DEF w, n
<1>3. w * (n * b + r) = (n * w) * b + w * r
  BY <1>1
<1>4. (n * w) * b \in Nat /\ w * r \in Nat
  BY <1>1
<1> DEFINE x == (n * w) * b
           y == w * r
<1>5. Place(t, b, r, c) = (x + y) + c /\ x \in Nat /\ y \in Nat
  BY <1>2, <1>3, <1>4
<1> HIDE DEF x, y
<1>6. Place(t, b, r, c) = x + (y + c) /\ Place(t, b, r, c) \in Nat
  BY <1>5
<1>7. QED BY <1>1, <1>4, <1>6 DEF x, y, w

LEMMA OffsetIs ==
  ASSUME pass \in Passes, NEW k, Spread(k), NEW m \in Samples(k.out)
  PROVE  /\ Offset(k.a, k.b, m) =
              ElementSize(k.a) * (IF BatchSize(k.a) = 1 THEN 0 ELSE m)
         /\ Offset(k.b, k.a, m) =
              ElementSize(k.b) * (IF BatchSize(k.b) = 1 THEN 0 ELSE m)
<1>1. /\ ElementSize(k.a) \in Nat /\ ElementSize(k.b) \in Nat
      /\ BatchSize(k.out) \in Nat /\ m \in Nat
  BY TensorSizes DEF Samples
<1>2. ElementSize(k.a) * 0 = 0 /\ ElementSize(k.b) * 0 = 0
  BY <1>1
<1>3. BatchSize(k.a) = 1 /\ BatchSize(k.b) = 1 => m = 0
  BY DEF Spread, Samples
<1>4. QED BY <1>2, <1>3 DEF Offset

-----------------------------------------------------------------------------
(* The calls that go vector by vector.                                     *)

(* The iteration that stores the element at cell, in sample b, and where   *)
(* an iteration begins.                                                    *)
Owner(k, b, cell) ==
  CASE k.op \in Serial -> 0
    [] k.op = "ShrinkDivide" -> cell \div W
    [] OTHER -> b

First(k, m) == IF k.op = "ShrinkDivide" THEN W * m ELSE ElementSize(k.out) * m

(* Iteration m has stored the element at cell when it is at p. *)
Reached(k, m, p, cell) == p = Done \/ cell < First(k, m) + p.i

LEMMA OwnerIs ==
  ASSUME pass \in Passes, NEW k, Shaped(k), k.op # "ShrinkSum",
         NEW b \in Samples(k.out), NEW r \in Rows(k.out),
         NEW c \in Columns(k.out), NEW cell, cell = Place(k.out, b, r, c),
         NEW m, m = Owner(k, b, cell)
  PROVE  /\ m \in Iterations(k)
         /\ cell \in Nat /\ First(k, m) \in Nat /\ First(k, m) <= cell
         /\ k.op \in Vectorwise => cell < First(k, m) + Extent(k)
         /\ k.op \notin Serial => cell \in Part(k, m)
         /\ k.op \notin Serial \cup {"ShrinkDivide"} => m = b
<1>1. /\ cell \in Matrix(k.out, b) /\ cell \in Room(k.out) /\ cell \in Nat
  BY PlaceRoom
<1>2. /\ ElementSize(k.out) \in Nat \ {0} /\ Whole(ElementSize(k.out))
      /\ BatchSize(k.out) \in Nat \ {0} /\ b \in Nat /\ W \in Nat \ {0}
  BY TensorSizes, VectorSizeWhole DEF Samples
<1>3. CASE k.op \in Serial
  <2>1. m = 0 /\ m \in Iterations(k) /\ k.op # "ShrinkDivide"
    BY <1>3 DEF Owner, Iterations, Serial
  <2>2. First(k, m) = 0
    BY <1>2, <2>1 DEF First
  <2>3. ASSUME k.op \in Vectorwise
        PROVE  Extent(k) = ElementSize(k.out) * BatchSize(k.out)
    <3>1. k.op \in Serial \cap {"Fill", "Set", "ScalarDiv"}
      BY <1>3, <2>3 DEF Serial, Vectorwise, Binary, Unary, Applied
    <3>2. QED BY <3>1, Extents
  <2>4. cell \in 0 .. ElementSize(k.out) * BatchSize(k.out) - 1
        /\ ElementSize(k.out) * BatchSize(k.out) \in Nat
    BY <1>1, <1>2 DEF Room
  <2>5. QED BY <1>1, <1>3, <2>1, <2>2, <2>3, <2>4
<1>4. CASE k.op = "ShrinkDivide"
  <2>0. k.op \notin Serial
    BY <1>4 DEF Serial
  <2>1. m = cell \div W /\ First(k, m) = W * m /\ Extent(k) = W
    BY <1>4, <2>0, Extents DEF Owner, First
  <2>2. /\ m \in Nat /\ cell % W \in 0 .. W - 1 /\ cell = W * m + (cell % W)
    <3>1. \A i \in Nat : /\ i \div W \in Nat /\ i % W \in 0 .. W - 1
                          /\ i = W * (i \div W) + (i % W)
      BY <1>2, Division
    <3>2. QED BY <1>1, <2>1, <3>1
  <2>3. W * m \in Nat
    BY <1>2, <2>2
  <2> DEFINE x == W * m
             e == cell % W
  <2>4. /\ x \in Nat /\ e \in 0 .. W - 1 /\ cell = x + e
    BY <2>2, <2>3
  <2>5. cell < ElementSize(k.out)
    <3>1. BatchSize(k.out) = 1
      BY <1>4 DEF Shaped
    <3>2. QED BY <1>1, <1>2, <3>1 DEF Room
  <2>6. PICK q \in Nat : ElementSize(k.out) = W * q
    BY <1>2 DEF Whole
  <2>7. m < q
    <3>1. q < m => W * q + W <= W * m
      BY <1>2, <2>2, <2>6, Scaling
    <3>2. W * q \in Nat
      BY <1>2, <2>6
    <3> HIDE DEF e
    <3>3. ~(q < m) /\ q # m
      BY <1>2, <2>3, <2>4, <2>5, <2>6, <3>1, <3>2
    <3>4. QED BY <2>2, <2>6, <3>3
  <2>8. ElementSize(k.out) \div W = q
    <3>1. 0 \in 0 .. W - 1
      BY <1>2
    <3>2. (W * q + 0) \div W = q
      BY <1>2, <2>6, <3>1, Quotient
    <3>3. W * q + 0 = W * q
      BY <1>2, <2>6
    <3>4. QED BY <2>6, <3>2, <3>3
  <2>9. m \in Iterations(k)
    BY <1>4, <2>0, <2>2, <2>6, <2>7, <2>8 DEF Iterations
  <2> HIDE DEF e
  <2>10. cell \in Part(k, m) /\ x <= cell /\ cell < x + W
    BY <1>2, <1>4, <2>4 DEF Part, Vector
  <2>11. First(k, m) = x /\ Extent(k) = W
    BY <2>1
  <2> HIDE DEF x
  <2>12. QED BY <1>1, <1>4, <2>0, <2>4, <2>9, <2>10, <2>11
<1>5. CASE k.op \notin Serial \cup {"ShrinkDivide"}
  <2>1. m = b /\ First(k, m) = ElementSize(k.out) * m
    BY <1>5 DEF Owner, First
  <2>2. Part(k, m) = Matrix(k.out, m)
    BY <1>2, <1>5, <2>1, PartIsMatrix
  <2>3. m \in Iterations(k)
    BY <1>5, <2>1 DEF Iterations, Samples
  <2>4. ASSUME k.op \in Vectorwise PROVE Extent(k) = ElementSize(k.out)
    <3>1. k.op \notin Serial \cup {"Multiply", "Transpose", "ShrinkDivide",
                                   "SoftMax"}
      BY <1>5, <2>4 DEF Vectorwise, Binary, Unary, Applied
    <3>2. QED BY <3>1, Extents
  <2>5. ElementSize(k.out) * m \in Nat
    BY <1>2, <2>1
  <2>6. /\ ElementSize(k.out) * m <= cell
        /\ cell < ElementSize(k.out) * m + ElementSize(k.out)
    BY <1>1, <1>2, <2>1, <2>5 DEF Matrix
  <2>7. QED BY <1>1, <1>5, <2>1, <2>2, <2>3, <2>4, <2>5, <2>6
<1>6. QED BY <1>3, <1>4, <1>5

LEMMA SamePlace ==
  ASSUME pass \in Passes, NEW t, NEW u, SameMatrix(t, u), NEW b \in Nat,
         NEW n \in Nat, NEW r \in Nat, NEW c \in Nat
  PROVE  ElementSize(t) * n + (Place(u, b, r, c) - ElementSize(u) * b) =
           Place(t, n, r, c)
<1>1. /\ ElementSize(t) = ElementSize(u)
      /\ Padded(NumCol(t)) = Padded(NumCol(u))
  BY DEF SameMatrix, ElementSize
<1>2. /\ Place(u, b, r, c) =
           ElementSize(u) * b + (Padded(NumCol(u)) * r + c)
      /\ ElementSize(u) * b \in Nat /\ Padded(NumCol(u)) * r \in Nat
  <2>1. Place(u, b, r, c) = ElementSize(u) * b + (Padded(NumCol(u)) * r + c)
    BY PlaceSum
  <2>2. ElementSize(u) * b \in Nat
    BY PlaceSum
  <2>3. Padded(NumCol(u)) * r \in Nat
    BY PlaceSum
  <2>4. QED BY <2>1, <2>2, <2>3
<1>3. /\ Place(t, n, r, c) =
           ElementSize(t) * n + (Padded(NumCol(t)) * r + c)
      /\ ElementSize(t) * n \in Nat
  BY PlaceSum
<1>4. Place(u, b, r, c) - ElementSize(u) * b = Padded(NumCol(u)) * r + c
  BY <1>2
<1>5. QED BY <1>1, <1>3, <1>4

(* The result of each kind of call. *)
LEMMA ResultIs ==
  ASSUME NEW k, NEW M, NEW b, NEW r, NEW c
  PROVE  /\ k.op \in Binary =>
              Result(k, M, b, r, c) =
                <<Sign(k.op), Element(M, k.a, b, r, c),
                  Element(M, k.b, b, r, c)>>
         /\ k.op = "ScalarMul" =>
              Result(k, M, b, r, c) =
                Times(Element(M, k.a, b, r, c), Scalar(k.b))
         /\ k.op \in {"ScalarDiv", "ShrinkDivide"} =>
              Result(k, M, b, r, c) =
                Over(Element(M, k.a, b, r, c), Scalar(k.b))
         /\ k.op \in Applied =>
              Result(k, M, b, r, c) = <<k.op, Element(M, k.a, b, r, c)>>
         /\ k.op = "Set" => Result(k, M, b, r, c) = Scalar(k.a)
         /\ k.op = "Fill" =>
              Result(k, M, b, r, c) = Draw(Place(k.out, b, r, c))
         /\ k.op = "Assign" =>
              Result(k, M, b, r, c) = Datum(Index(k.out, b, r, c))
         /\ k.op = "Transpose" =>
              Result(k, M, b, r, c) = Element(M, k.a, b, c, r)
         /\ k.op = "SoftMax" =>
              Result(k, M, b, r, c) = SoftMaxResult(k, M, b, r, c)
         /\ k.op = "SoftMaxGradient" =>
              Result(k, M, b, r, c) = SoftMaxGradientResult(k, M, b, r, c)
         /\ k.op = "Loss" => Result(k, M, b, r, c) = LossResult(k, M)
         /\ k.op = "ShrinkSum" =>
              Result(k, M, b, r, c) = ShrinkTo(k, M, r, c, BatchSize(k.a))
         /\ k.op = "Multiply" =>
              Result(k, M, b, r, c) = ProductResult(k, M, b, r, c)
<1>1. CASE k.op \in Binary
  BY <1>1 DEF Result, Binary, Applied
<1>2. CASE k.op \in Applied
  BY <1>2 DEF Result, Binary, Applied
<1>3. CASE k.op \in {"ScalarMul", "ScalarDiv", "ShrinkDivide", "Set", "Fill"}
  <2>1. k.op \notin Binary /\ k.op \notin Applied
    BY <1>3 DEF Binary, Applied
  <2>2. CASE k.op = "ScalarMul"
    BY <2>1, <2>2 DEF Result
  <2>3. CASE k.op \in {"ScalarDiv", "ShrinkDivide"}
    BY <2>1, <2>3 DEF Result
  <2>4. CASE k.op \in {"Set", "Fill"}
    BY <2>1, <2>4 DEF Result
  <2>5. QED BY <1>3, <2>2, <2>3, <2>4
<1>4. CASE k.op \in {"Assign", "Transpose", "SoftMax", "SoftMaxGradient",
                     "Loss", "ShrinkSum", "Multiply"}
  <2>1. k.op \notin Binary /\ k.op \notin Applied
    BY <1>4 DEF Binary, Applied
  <2>2. CASE k.op \in {"Assign", "Transpose", "SoftMax"}
    BY <2>1, <2>2 DEF Result
  <2>3. CASE k.op \in {"SoftMaxGradient", "Loss", "ShrinkSum", "Multiply"}
    BY <2>1, <2>3 DEF Result
  <2>4. QED BY <1>4, <2>2, <2>3
<1>5. QED BY <1>1, <1>2, <1>3, <1>4 DEF Binary, Applied

(* The next vector of an iteration reaches the elements it stores.         *)
LEMMA VectorReaches ==
  ASSUME pass \in Passes, NEW k \in Fitting, Shaped(k), Stride(k) = W,
         k.op \in Vectorwise, NEW m \in Iterations(k),
         NEW p, InLoops(k, p), NEW b \in Samples(k.out),
         NEW r \in Rows(k.out), NEW c \in Columns(k.out),
         NEW cell, cell = Place(k.out, b, r, c), m = Owner(k, b, cell)
  PROVE  cell \in DOMAIN Stores(k, m, p) <=>
           (Reached(k, m, Advance(k, p), cell) /\ ~Reached(k, m, p, cell))
<1>1. /\ k.op # "ShrinkSum" /\ k.op # "Multiply"
      /\ k.op \notin {"SoftMax", "SoftMaxGradient", "Loss", "Assign",
                      "Transpose"}
  BY DEF Vectorwise, Binary, Unary, Applied
<1>2. /\ cell \in Nat /\ First(k, m) \in Nat /\ First(k, m) <= cell
      /\ cell < First(k, m) + Extent(k)
  BY <1>1, OwnerIs
<1>3. /\ p \in [jj : Nat, kk : Nat, i : Nat, j : Nat] /\ p.i \in Nat
      /\ Whole(p.i) /\ p.i < Extent(k) /\ p # Done
  BY <1>1, LoopAdvances DEF InLoops
<1>4. /\ Extent(k) \in Nat /\ Whole(Extent(k)) /\ W \in Nat \ {0}
  BY Extents, VectorSizeWhole
<1>5. p.i + W <= Extent(k)
  BY <1>3, <1>4, WholeGap
<1>6. DOMAIN Stores(k, m, p) = Vector(First(k, m) + p.i)
  <2>1. CASE k.op = "Fill"
    <3>1. m = 0
      BY <2>1, IterationsAre DEF Serial
    <3>2. First(k, m) = 0
      BY <2>1, <3>1, TensorSizes DEF First
    <3>3. First(k, m) + p.i = p.i
      BY <1>3, <3>2
    <3>4. QED BY <2>1, <3>3, StoresDomain
  <2>2. CASE k.op = "ShrinkDivide"
    <3>1. Extent(k) = W /\ First(k, m) = W * m
      BY <2>2, Extents DEF First
    <3>2. p.i = 0
      BY <1>3, <1>4, <1>5, <3>1
    <3>3. First(k, m) + p.i = W * m
      BY <1>2, <3>1, <3>2
    <3>4. DOMAIN Stores(k, m, p) = Vector(W * m)
      BY <2>2, StoresDomain
    <3>5. QED BY <3>3, <3>4
  <2>3. CASE k.op \notin {"Fill", "ShrinkDivide"}
    <3>1. DOMAIN Stores(k, m, p) = Vector(ElementSize(k.out) * m + p.i)
      BY <1>1, <2>3, StoresDomain
    <3>2. First(k, m) = ElementSize(k.out) * m
      BY <2>3 DEF First
    <3>3. QED BY <3>1, <3>2
  <2>4. QED BY <2>1, <2>2, <2>3
<1>7. cell \in DOMAIN Stores(k, m, p) <=>
        (First(k, m) + p.i <= cell /\ cell < First(k, m) + p.i + W)
  BY <1>2, <1>3, <1>4, <1>6 DEF Vector
<1>8. Reached(k, m, p, cell) <=> cell < First(k, m) + p.i
  BY <1>3 DEF Reached
<1>9. Reached(k, m, Advance(k, p), cell) <=> cell < First(k, m) + p.i + W
  <2> DEFINE q == [p EXCEPT !.i = @ + W]
  <2>1. q \in [jj : Nat, kk : Nat, i : Nat, j : Nat] /\ q.i = p.i + W
    BY <1>3, <1>4
  <2>2. q # Done
    <3>1. Done.i = -1
      BY DEF Done, Start
    <3> HIDE DEF q
    <3>2. QED BY <1>3, <1>4, <2>1, <3>1
  <2>3. Advance(k, p) = IF p.i + W < Extent(k) THEN q ELSE Done
    BY <1>1 DEF Advance
  <2> HIDE DEF q
  <2>4. CASE p.i + W < Extent(k)
    BY <1>2, <1>3, <1>4, <2>1, <2>2, <2>3, <2>4 DEF Reached
  <2>5. CASE ~(p.i + W < Extent(k))
    BY <1>2, <1>3, <1>4, <1>5, <2>3, <2>5 DEF Reached
  <2>6. QED BY <2>4, <2>5
<1>10. QED BY <1>2, <1>3, <1>4, <1>7, <1>8, <1>9

(* What it stores is the result, of the memory as it is. *)
LEMMA VectorResult ==
  ASSUME pass \in Passes, NEW k \in Fitting, Shaped(k),
         k.op \in Vectorwise, NEW p, NEW b \in Samples(k.out),
         NEW r \in Rows(k.out), NEW c \in Columns(k.out),
         NEW cell, cell = Place(k.out, b, r, c), NEW m,
         m = Owner(k, b, cell), cell \in DOMAIN Stores(k, m, p)
  PROVE  Stores(k, m, p)[cell] = Result(k, mem, b, r, c)
<1>1. /\ b \in Nat /\ r \in Nat /\ c \in Nat
  BY TensorSizes DEF Samples, Rows, Columns
<1>2. CASE k.op \in Binary
  <2>1. /\ SameMatrix(k.a, k.out) /\ SameMatrix(k.b, k.out) /\ Spread(k)
    BY <1>2 DEF Shaped
  <2>2. k.op \notin Serial \cup {"ShrinkDivide"} /\ k.op # "ShrinkSum"
    BY <1>2 DEF Binary, Serial
  <2>3. m = b
    BY <2>2 DEF Owner
  <2> DEFINE na == IF BatchSize(k.a) = 1 THEN 0 ELSE b
             nb == IF BatchSize(k.b) = 1 THEN 0 ELSE b
             lane == cell - ElementSize(k.out) * m
  <2>5. /\ Offset(k.a, k.b, m) = ElementSize(k.a) * na
        /\ Offset(k.b, k.a, m) = ElementSize(k.b) * nb
    BY <2>1, <2>3, OffsetIs
  <2>6. /\ Offset(k.a, k.b, m) + lane = Place(k.a, na, r, c)
        /\ Offset(k.b, k.a, m) + lane = Place(k.b, nb, r, c)
    <3>1. na \in Nat /\ nb \in Nat
      BY <1>1
    <3>2. /\ ElementSize(k.a) * na + lane = Place(k.a, na, r, c)
          /\ ElementSize(k.b) * nb + lane = Place(k.b, nb, r, c)
      BY <1>1, <2>1, <2>3, <3>1, SamePlace
    <3>3. QED BY <2>5, <3>2
  <2>7. Stores(k, m, p) = BinaryVector(k, m, p)
    BY <1>2 DEF Stores, Binary
  <2>8. Stores(k, m, p)[cell] =
          <<Sign(k.op), mem[k.a][Offset(k.a, k.b, m) + lane],
            mem[k.b][Offset(k.b, k.a, m) + lane]>>
    BY <2>7 DEF BinaryVector
  <2>9. Stores(k, m, p)[cell] =
          <<Sign(k.op), mem[k.a][Place(k.a, na, r, c)],
            mem[k.b][Place(k.b, nb, r, c)]>>
    BY <2>6, <2>8
  <2>10. Result(k, mem, b, r, c) =
           <<Sign(k.op), Element(mem, k.a, b, r, c),
             Element(mem, k.b, b, r, c)>>
    BY <1>2, ResultIs
  <2>11. QED BY <2>9, <2>10 DEF Element
<1>3. CASE k.op \in Unary \cup {"ShrinkDivide"}
  <2>1. SameMatrix(k.a, k.out) /\ BatchSize(k.a) = BatchSize(k.out)
    BY <1>3 DEF Shaped, SameMatrix
  <2>2. Element(mem, k.a, b, r, c) = mem[k.a][cell]
    <3>1. b \in Samples(k.a)
      BY <2>1 DEF Samples
    <3>2. Place(k.a, b, r, c) = cell
      BY <2>1 DEF SameMatrix, Place
    <3>3. Element(mem, k.a, b, r, c) = mem[k.a][Place(k.a, b, r, c)]
      BY <3>1, ElementIs
    <3>4. QED BY <3>2, <3>3
  <2>3. CASE k.op \in {"ScalarMul", "ScalarDiv"}
    BY <2>2, <2>3 DEF Stores, ScalarVector, Result, Binary, Applied, Times,
                      Over
  <2>4. CASE k.op = "ShrinkDivide"
    BY <2>2, <2>4 DEF Stores, ShrinkDivideVector, Result, Binary, Applied
  <2>5. CASE k.op \in Applied
    BY <2>2, <2>5 DEF Stores, ApplyVector, Result, Binary, Applied
  <2>6. QED BY <1>3, <2>3, <2>4, <2>5 DEF Unary
<1>4. CASE k.op = "Set"
  BY <1>4 DEF Stores, SetVector, Result, Binary, Applied
<1>5. CASE k.op = "Fill"
  BY <1>5 DEF Stores, FillVector, Result, Binary, Applied
<1>6. QED BY <1>2, <1>3, <1>4, <1>5 DEF Vectorwise

(* It reads no element of the output that was stored before. *)
LEMMA VectorKept ==
  ASSUME pass \in Passes, NEW k, Shaped(k), k.op \in Vectorwise,
         NEW M, NEW N,
         \A t \in {k.a, k.b} \ (Scalars \cup {k.out}) : N[t] = M[t],
         NEW b \in Samples(k.out), NEW r, NEW c,
         N[k.out][Place(k.out, b, r, c)] = M[k.out][Place(k.out, b, r, c)]
  PROVE  Result(k, N, b, r, c) = Result(k, M, b, r, c)
<1>1. ASSUME NEW t, t \in {k.a, k.b} \ Scalars
      PROVE  Element(N, t, b, r, c) = Element(M, t, b, r, c)
  <2>1. ASSUME t = k.out PROVE Element(N, t, b, r, c) = Element(M, t, b, r, c)
    <3>1. /\ Element(N, k.out, b, r, c) = N[k.out][Place(k.out, b, r, c)]
          /\ Element(M, k.out, b, r, c) = M[k.out][Place(k.out, b, r, c)]
      BY ElementIs
    <3>2. QED BY <2>1, <3>1
  <2>2. CASE t # k.out
    <3>1. N[t] = M[t]
      BY <1>1, <2>2
    <3>2. QED BY <3>1 DEF Element
  <2>3. QED BY <2>1, <2>2
<1>2. CASE k.op \in Binary
  <2>1. k.a \notin Scalars /\ k.b \notin Scalars
    BY <1>2 DEF Shaped, Binary
  <2>2. /\ Element(N, k.a, b, r, c) = Element(M, k.a, b, r, c)
        /\ Element(N, k.b, b, r, c) = Element(M, k.b, b, r, c)
    BY <1>1, <2>1
  <2>3. QED BY <1>2, <2>2, ResultIs
<1>3. CASE k.op \in Unary \cup {"ShrinkDivide"}
  <2>1. k.a \notin Scalars
    BY <1>3 DEF Shaped, Unary, Applied
  <2>2. Element(N, k.a, b, r, c) = Element(M, k.a, b, r, c)
    BY <1>1, <2>1
  <2>3. QED BY <1>3, <2>2, ResultIs DEF Unary
<1>4. CASE k.op \in {"Set", "Fill"}
  BY <1>4, ResultIs
<1>5. QED BY <1>2, <1>3, <1>4 DEF Vectorwise

-----------------------------------------------------------------------------
(* The calls that go through At.                                           *)

LEMMA AtIs ==
  ASSUME pass \in Passes, NEW t, NEW b \in Samples(t), NEW r \in Rows(t),
         NEW c \in Columns(t)
  PROVE  At(t, Index(t, b, r, c)) = Element(mem, t, b, r, c)
<1>1. b \in Nat
  BY TensorSizes DEF Samples
<1>2. DataIdx(t, Index(t, b, r, c)) = Place(t, b, r, c)
  <2>1. PICK idx : idx = Index(t, b, r, c)
    OBVIOUS
  <2>2. DataIdx(t, idx) = Place(t, b, r, c)
    BY <1>1, <2>1, IndexParts
  <2>3. QED BY <2>1, <2>2
<1>3. Element(mem, t, b, r, c) = mem[t][Place(t, b, r, c)]
  BY ElementIs
<1>4. QED BY <1>2, <1>3 DEF At

LEMMA AtNumbered ==
  ASSUME pass \in Passes, NEW t, NEW b \in Samples(t),
         NEW n \in 0 .. Size(t) - 1
  PROVE  At(t, Size(t) * b + n) = Numbered(mem, t, b, n)
<1> DEFINE cols == NumCol(t)
           rows == NumRow(t)
           r == n \div cols
           c == n % cols
<1>1. rows \in Nat \ {0} /\ cols \in Nat \ {0} /\ Size(t) = rows * cols
      /\ b \in Nat /\ n \in Nat
  BY TensorSizes DEF Size, Samples
<1>2. r \in Nat /\ c \in 0 .. cols - 1 /\ n = cols * r + c
  <2> HIDE DEF cols
  <2>1. QED BY <1>1, Division
<1>3. r \in 0 .. rows - 1
  <2> HIDE DEF r, c, rows, cols
  <2>1. rows < r => cols * rows + cols <= cols * r
    BY <1>1, <1>2, Scaling
  <2>2. cols * rows \in Nat /\ cols * r \in Nat /\ rows * cols = cols * rows
    BY <1>1, <1>2
  <2>3. n < cols * rows
    BY <1>1, <2>2
  <2>4. ~(rows < r) /\ rows # r
    BY <1>1, <1>2, <2>1, <2>2, <2>3
  <2>5. QED BY <1>1, <1>2, <2>4
<1>4. r \in Rows(t) /\ c \in Columns(t)
  BY <1>2, <1>3 DEF Rows, Columns
<1>5. Index(t, b, r, c) = Size(t) * b + (cols * r + c)
  BY <1>1, <1>4, IndexParts
<1>6. At(t, Index(t, b, r, c)) = Element(mem, t, b, r, c)
  BY <1>4, AtIs
<1>7. QED BY <1>2, <1>5, <1>6 DEF Numbered

(* What the calls store at element idx. *)
LEMMA AssignStores ==
  ASSUME pass \in Passes, NEW k, k.op = "Assign", NEW m, NEW p,
         NEW idx \in 0 .. Size(k.out) * BatchSize(k.out) - 1
  PROVE  Stores(k, m, p)[DataIdx(k.out, idx)] = Datum(idx)
<1> DEFINE S == 0 .. Size(k.out) * BatchSize(k.out) - 1
<1>1. S \in SUBSET Nat /\ idx \in S
  BY TensorSizes
<1>2. Stores(k, m, p) = Stored(k.out, S, Datum)
  BY DEF Stores, AssignData
<1> HIDE DEF S
<1>3. Stores(k, m, p) = [c \in {DataIdx(k.out, i) : i \in S} |->
                           Datum(CHOOSE i \in S : DataIdx(k.out, i) = c)]
  BY <1>2 DEF Stored
<1>4. Stores(k, m, p)[DataIdx(k.out, idx)] =
        Datum(CHOOSE i \in S : DataIdx(k.out, i) = DataIdx(k.out, idx))
  BY <1>1, <1>3
<1>5. QED BY <1>1, <1>4, StoredIndex

LEMMA SoftMaxStores ==
  ASSUME pass \in Passes, NEW k, k.op = "SoftMax", NEW p,
         SameMatrix(k.a, k.out), NEW m \in Samples(k.a),
         NEW idx \in Size(k.out) * m .. Size(k.out) * m + Size(k.out) - 1
  PROVE  Stores(k, m, p)[DataIdx(k.out, idx)] =
           Over(<<"exp", At(k.a, idx)>>,
                AddUp(Zero, [n \in 1 .. Size(k.a) |->
                               <<"exp", Numbered(mem, k.a, m, n - 1)>>]))
<1> DEFINE S == ToSet(Sample(k.out, m))
           E(i) == <<"exp", At(k.a, i)>>
           F == [n \in 1 .. Size(k.a) |-> E(Sample(k.a, m)[n])]
           G == [n \in 1 .. Size(k.a) |->
                   <<"exp", Numbered(mem, k.a, m, n - 1)>>]
           X(i) == Over(E(i), AddUp(Zero, F))
<1>1. m \in Nat /\ Size(k.a) \in Nat /\ Size(k.out) \in Nat
  BY TensorSizes DEF Samples
<1>2. S \in SUBSET Nat /\ idx \in S
  <2>1. Sample(k.out, m) =
          [n \in 1 .. Size(k.out) |-> Size(k.out) * m + n - 1]
    BY DEF Sample
  <2>2. Size(k.out) * m \in Nat
    BY <1>1
  <2> DEFINE e == Size(k.out) * m
  <2>3. S = {Sample(k.out, m)[n] : n \in 1 .. Size(k.out)}
    BY <2>1 DEF ToSet
  <2> HIDE DEF S
  <2>4. \A n \in 1 .. Size(k.out) : Sample(k.out, m)[n] = e + n - 1
    BY <2>1
  <2>5. idx \in e .. e + Size(k.out) - 1 /\ e \in Nat
    BY <2>2
  <2> HIDE DEF e
  <2>6. S \in SUBSET Nat
    BY <1>1, <2>3, <2>4, <2>5
  <2>7. idx - e + 1 \in 1 .. Size(k.out) /\ e + (idx - e + 1) - 1 = idx
    BY <1>1, <2>5
  <2>8. Sample(k.out, m)[idx - e + 1] = idx
    BY <2>4, <2>7
  <2>9. QED BY <2>3, <2>6, <2>7, <2>8
<1>3. F = G
  <2>1. ASSUME NEW n \in 1 .. Size(k.a)
        PROVE  E(Sample(k.a, m)[n]) = <<"exp", Numbered(mem, k.a, m, n - 1)>>
    <3>1. Sample(k.a, m)[n] = Size(k.a) * m + n - 1
      BY DEF Sample
    <3>2. Size(k.a) * m \in Nat /\ n - 1 \in 0 .. Size(k.a) - 1
      BY <1>1
    <3>3. Size(k.a) * m + n - 1 = Size(k.a) * m + (n - 1)
      BY <1>1, <3>2
    <3>4. At(k.a, Size(k.a) * m + (n - 1)) = Numbered(mem, k.a, m, n - 1)
      BY <3>2, AtNumbered
    <3>5. QED BY <3>1, <3>3, <3>4
  <2> HIDE DEF E
  <2>2. QED BY <2>1
<1>4. Stores(k, m, p) = SoftMaxSample(k, m, p)
  BY DEF Stores
<1>5. SoftMaxSample(k, m, p) = Stored(k.out, S, X)
  BY DEF SoftMaxSample
<1> HIDE DEF S, F, G, E
<1>6. SoftMaxSample(k, m, p) =
        [c \in {DataIdx(k.out, i) : i \in S} |->
           X(CHOOSE i \in S : DataIdx(k.out, i) = c)]
  BY <1>5 DEF Stored
<1> HIDE DEF X
<1>7. Stores(k, m, p)[DataIdx(k.out, idx)] =
        X(CHOOSE i \in S : DataIdx(k.out, i) = DataIdx(k.out, idx))
  BY <1>2, <1>4, <1>6
<1>8. Stores(k, m, p)[DataIdx(k.out, idx)] = X(idx)
  BY <1>2, <1>7, StoredIndex
<1>9. QED BY <1>3, <1>8 DEF X, E, G

LEMMA LossStores ==
  ASSUME pass \in Passes, NEW k, k.op = "Loss", NEW m, NEW p
  PROVE  Stores(k, m, p)[0] = LossResult(k, mem)
<1> DEFINE n == Size(k.a) * BatchSize(k.a)
           E(i) == Element(mem, k.a, i \div Size(k.a),
                           (i \div NumCol(k.a)) % NumRow(k.a),
                           i % NumCol(k.a))
           F == [i \in 1 .. n |-> At(k.a, i - 1)]
           G == [i \in 1 .. n |-> E(i - 1)]
<1>1. F = G
  <2>1. ASSUME NEW i \in 1 .. n PROVE At(k.a, i - 1) = E(i - 1)
    <3>1. n \in Nat
      BY TensorSizes
    <3>2. PICK j : j = i - 1
      OBVIOUS
    <3> HIDE DEF n
    <3>3. j \in Nat /\ j < n
      BY <3>1, <3>2
    <3> USE DEF n
    <3> DEFINE b == j \div Size(k.a)
               r == (j \div NumCol(k.a)) % NumRow(k.a)
               c == j % NumCol(k.a)
    <3>4. /\ b \in Samples(k.a) /\ r \in Rows(k.a) /\ c \in Columns(k.a)
          /\ j = Index(k.a, b, r, c)
      BY <3>3, IndexCovers
    <3> HIDE DEF b, r, c
    <3>5. At(k.a, j) = Element(mem, k.a, b, r, c)
      BY <3>4, AtIs
    <3>6. QED BY <3>2, <3>5 DEF b, r, c
  <2> HIDE DEF n, E
  <2>2. QED BY <2>1
<1>2. Stores(k, m, p) = LossSum(k, m, p)
  BY DEF Stores
<1>3. LossSum(k, m, p) = [c \in {0} |-> Over(AddUp(Zero, F), Scalar(k.b))]
  BY DEF LossSum
<1>4. LossResult(k, mem) = Over(AddUp(Zero, G), Scalar(k.b))
  BY DEF LossResult
<1> HIDE DEF F, G
<1>5. QED BY <1>1, <1>2, <1>3, <1>4

LEMMA SoftMaxGradientStores ==
  ASSUME pass \in Passes, NEW k \in Fitting, k.op = "SoftMaxGradient",
         SameMatrix(k.a, k.out), BatchSize(k.a) = BatchSize(k.out),
         NEW m, NEW p, NEW b \in Samples(k.out), NEW r \in Rows(k.out),
         NEW c \in Columns(k.out), NEW idx, idx = Index(k.out, b, r, c)
  PROVE  /\ idx \in 0 .. BatchSize(k.b) * Size(k.b) - 1
         /\ Stores(k, m, p)[DataIdx(k.out, idx)] =
              SoftMaxGradientResult(k, mem, b, r, c)
<1> DEFINE S == 0 .. BatchSize(k.b) * Size(k.b) - 1
           o == [i \in S |-> At(k.b, i)]
           term(in, out) == Times(At(k.a, in), Jacobian(o, in, out))
           X(i) == AddUp(Zero, [n \in 1 .. Size(k.out) |->
                     term(Sample(k.out, i \div Size(k.out))[n], i)])
           T(n) == Times(Numbered(mem, k.a, b, n - 1),
                     <<IF /\ (n - 1) \div NumCol(k.out) = r
                          /\ (n - 1) % NumCol(k.out) = c
                       THEN "x(1-x)" ELSE "-xy",
                       Numbered(mem, k.b, b, n - 1),
                       Element(mem, k.b, b, r, c)>>)
           size == Size(k.out)
           cols == NumCol(k.out)
<1>1. /\ Layout(k.b) = Layout(k.out)
      /\ NumRow(k.b) = NumRow(k.out) /\ NumCol(k.b) = NumCol(k.out)
      /\ Size(k.b) = Size(k.out) /\ BatchSize(k.b) = BatchSize(k.out)
      /\ Size(k.a) = Size(k.out)
  BY DEF Fitting, Fits, NumRow, NumCol, BatchSize, Size, SameMatrix
<1>2. /\ Samples(k.a) = Samples(k.out) /\ Samples(k.b) = Samples(k.out)
      /\ Rows(k.b) = Rows(k.out) /\ Columns(k.b) = Columns(k.out)
  BY <1>1 DEF Samples, Rows, Columns
<1>3. /\ size \in Nat \ {0} /\ cols \in Nat \ {0}
      /\ BatchSize(k.out) \in Nat \ {0} /\ b \in Nat
  BY TensorSizes DEF Samples
<1>4. /\ idx \in Nat /\ idx \div size = b
      /\ idx = size * b + (cols * r + c)
  BY <1>3, IndexParts
<1>5. idx \in S
  <2>1. idx \in 0 .. Size(k.out) * BatchSize(k.out) - 1
    BY PlaceRoom
  <2>2. BatchSize(k.b) * Size(k.b) = Size(k.out) * BatchSize(k.out)
    BY <1>1, <1>3
  <2>3. QED BY <2>1, <2>2
<1>6. S \in SUBSET Nat
  BY <1>1, <1>3
<1>7. Stores(k, m, p) = SoftMaxGradientSamples(k, m, p)
  BY DEF Stores
<1>8. SoftMaxGradientSamples(k, m, p) = Stored(k.out, S, X)
  BY DEF SoftMaxGradientSamples
<1> HIDE DEF X
<1>9. Stores(k, m, p) = [e \in {DataIdx(k.out, i) : i \in S} |->
                          X(CHOOSE i \in S : DataIdx(k.out, i) = e)]
  BY <1>7, <1>8 DEF Stored
<1> HIDE DEF S
<1>10. Stores(k, m, p)[DataIdx(k.out, idx)] =
         X(CHOOSE i \in S : DataIdx(k.out, i) = DataIdx(k.out, idx))
  BY <1>5, <1>9
<1>11. Stores(k, m, p)[DataIdx(k.out, idx)] = X(idx)
  <2>1. (CHOOSE i \in S : DataIdx(k.out, i) = DataIdx(k.out, idx)) = idx
    BY <1>5, <1>6, StoredIndex
  <2>2. QED BY <1>10, <2>1
<1>12. ASSUME NEW n \in 1 .. size
       PROVE  term(Sample(k.out, idx \div size)[n], idx) = T(n)
  <2> DEFINE in == size * b + (n - 1)
  <2>1. Sample(k.out, b)[n] = size * b + n - 1
    BY DEF Sample
  <2>2. size * b \in Nat /\ n - 1 \in 0 .. size - 1
    BY <1>3
  <2>3. Sample(k.out, idx \div size)[n] = in
    BY <1>3, <1>4, <2>1, <2>2
  <2>4. At(k.a, in) = Numbered(mem, k.a, b, n - 1)
    BY <1>1, <1>2, <2>2, AtNumbered
  <2>5. At(k.b, in) = Numbered(mem, k.b, b, n - 1)
    BY <1>1, <1>2, <2>2, AtNumbered
  <2>6. At(k.b, idx) = Element(mem, k.b, b, r, c)
    <3>1. Index(k.b, b, r, c) = idx
      BY <1>1 DEF Index
    <3>2. At(k.b, Index(k.b, b, r, c)) = Element(mem, k.b, b, r, c)
      BY <1>2, AtIs
    <3>3. QED BY <3>1, <3>2
  <2>7. in \in S
    <3>1. size * b + size <= size * BatchSize(k.out)
      BY <1>3, Scaling DEF Samples
    <3>2. size * BatchSize(k.out) \in Nat
      BY <1>3
    <3>3. in \in 0 .. size * BatchSize(k.out) - 1
      BY <1>3, <2>2, <3>1, <3>2
    <3>4. BatchSize(k.b) * Size(k.b) = size * BatchSize(k.out)
      BY <1>1, <1>3
    <3>5. QED BY <3>3, <3>4 DEF S
  <2>8. in = idx <=> ((n - 1) \div cols = r /\ (n - 1) % cols = c)
    <3>1. n - 1 \in Nat /\ r \in Nat /\ c \in 0 .. cols - 1
      BY <1>3 DEF Rows, Columns
    <3> DEFINE s == cols * r + c
    <3>2. s \in Nat /\ s \div cols = r /\ s % cols = c
      BY <1>3, <3>1, Quotient
    <3>3. n - 1 = cols * ((n - 1) \div cols) + ((n - 1) % cols)
      BY <1>3, <3>1, Division
    <3>4. in = idx <=> n - 1 = s
      <4> HIDE DEF s
      <4>1. idx = size * b + s
        BY <1>4 DEF s
      <4>2. QED BY <2>2, <3>1, <3>2, <4>1
    <3>5. ASSUME (n - 1) \div cols = r, (n - 1) % cols = c
          PROVE  n - 1 = s
      BY <3>3, <3>5
    <3> HIDE DEF s, in
    <3>6. QED BY <3>2, <3>4, <3>5
  <2> HIDE DEF in
  <2>9. Jacobian(o, in, idx) =
          <<IF in = idx THEN "x(1-x)" ELSE "-xy", At(k.b, in), At(k.b, idx)>>
    BY <1>5, <2>7 DEF Jacobian
  <2>10. term(in, idx) = T(n)
    BY <2>4, <2>5, <2>6, <2>8, <2>9
  <2> HIDE DEF term, T
  <2>11. QED BY <2>3, <2>10
<1> HIDE DEF term, T
<1>13. X(idx) = AddUp(Zero, [n \in 1 .. size |-> T(n)])
  <2>1. [n \in 1 .. size |-> term(Sample(k.out, idx \div size)[n], idx)] =
          [n \in 1 .. size |-> T(n)]
    BY <1>12
  <2>2. QED BY <2>1 DEF X
<1>14. SoftMaxGradientResult(k, mem, b, r, c) =
         AddUp(Zero, [n \in 1 .. size |-> T(n)])
  BY DEF SoftMaxGradientResult, T
<1>15. QED BY <1>5, <1>11, <1>13, <1>14 DEF S

(* Where the one loop of Transpose is right. *)
Determined(k) ==
  k.op = "Transpose" =>
    NumRow(k.a) = NumCol(k.a) \/ NumRow(k.a) = 1 \/ NumCol(k.a) = 1

LEMMA TransposeStores ==
  ASSUME pass \in Passes, NEW k, k.op = "Transpose", Shaped(k),
         NEW p, NEW b \in Samples(k.out), NEW r \in Rows(k.out),
         NEW c \in Columns(k.out), NEW idx, idx = Index(k.out, b, r, c)
  PROVE  /\ DataIdx(k.out, idx) \in DOMAIN Stores(k, b, p)
         /\ Determined(k) => Stores(k, b, p)[DataIdx(k.out, idx)] =
                               Element(mem, k.a, b, c, r)
<1> DEFINE rows == NumRow(k.a)
           cols == NumCol(k.a)
           size == rows * cols
           start == size * b
           S == 0 .. size - 1
           to(n) == DataIdx(k.out, start + n)
           source(n) == start + rows * (n % cols) + (n \div cols)
           x == rows * r + c
<1>1. /\ rows \in Nat \ {0} /\ cols \in Nat \ {0}
      /\ NumCol(k.out) = rows /\ NumRow(k.out) = cols
      /\ Size(k.out) = size /\ Size(k.a) = size
      /\ BatchSize(k.a) = BatchSize(k.out) /\ b \in Nat
  BY TensorSizes DEF Shaped, Size, Samples
<1>2. r \in 0 .. cols - 1 /\ c \in 0 .. rows - 1
  BY <1>1 DEF Rows, Columns
<1>3. /\ idx = start + x /\ idx \in start .. start + size - 1 /\ idx \in Nat
  BY <1>1, IndexParts
<1>4. start \in Nat /\ size \in Nat /\ x \in Nat
  BY <1>1, <1>2
<1> HIDE DEF x, start, size
<1>5. x \in S
  BY <1>3, <1>4
<1>6. Stores(k, b, p) = TransposeMatrix(k, b, p)
  BY DEF Stores
<1>7. Stores(k, b, p) =
        [e \in {to(n) : n \in S} |->
           At(k.a, source(CHOOSE n \in S : to(n) = e))]
  BY <1>6 DEF TransposeMatrix, start, size
<1>8. DataIdx(k.out, idx) = to(x)
  BY <1>3
<1>9. \A n \in S : to(n) = to(x) => n = x
  <2>1. ASSUME NEW n \in S, to(n) = to(x) PROVE n = x
    <3>1. start + n \in Nat /\ start + x \in Nat
      BY <1>4
    <3>2. start + n = start + x
      BY <2>1, <3>1, DataIdxUnique
    <3>3. QED BY <1>4, <3>2
  <2> HIDE DEF to
  <2>2. QED BY <2>1
<1> HIDE DEF to, source, S
<1>10. (CHOOSE n \in S : to(n) = to(x)) = x
  BY <1>5, <1>9
<1>11. Stores(k, b, p)[to(x)] = At(k.a, source(x))
  BY <1>5, <1>7, <1>10
<1>12. DataIdx(k.out, idx) \in DOMAIN Stores(k, b, p)
  BY <1>5, <1>7, <1>8
<1>13. ASSUME Determined(k) PROVE source(x) = Index(k.a, b, c, r)
  <2>1. rows = cols \/ rows = 1 \/ cols = 1
    BY <1>13 DEF Determined
  <2>2. c \in Rows(k.a) /\ r \in Columns(k.a)
    BY <1>2 DEF Rows, Columns
  <2>3. Index(k.a, b, c, r) = start + (cols * c + r)
    BY <1>1, <2>2, IndexParts DEF start
  <2>4. source(x) = start + (cols * c + r)
    <3>1. CASE rows = cols
      <4>1. x \div cols = r /\ x % cols = c
        <5>1. rows \in Nat /\ r \in Nat /\ c \in 0 .. rows - 1
          BY <1>1, <1>2
        <5>2. (rows * r + c) \div rows = r /\ (rows * r + c) % rows = c
          BY <5>1, Quotient
        <5>3. QED BY <3>1, <5>2 DEF x
      <4>2. rows * c \in Nat /\ r \in Nat
        BY <1>1, <1>2
      <4>3. source(x) = start + rows * c + r
        BY <4>1 DEF source
      <4>4. rows * c = cols * c
        BY <3>1
      <4>5. QED BY <1>4, <4>2, <4>3, <4>4
    <3>2. CASE rows = 1
      <4>1. c = 0 /\ x = r
        BY <1>2, <3>2 DEF x
      <4>2. r \div cols = 0 /\ r % cols = r
        <5>1. cols * 0 + r = r /\ r \in 0 .. cols - 1
          BY <1>1, <1>2
        <5>2. /\ (cols * 0 + r) \div cols = 0 /\ (cols * 0 + r) % cols = r
          BY <1>1, <5>1, Quotient
        <5>3. QED BY <5>1, <5>2
      <4>3. source(x) = start + rows * r + 0
        BY <4>1, <4>2 DEF source
      <4>4. rows * r = r /\ cols * c = 0
        BY <1>1, <1>2, <3>2, <4>1
      <4>5. QED BY <1>2, <1>4, <4>3, <4>4
    <3>3. CASE cols = 1
      <4>1. r = 0 /\ x = c
        BY <1>1, <1>2, <3>3 DEF x
      <4>2. c \div 1 = c /\ c % 1 = 0
        BY <1>2
      <4>3. source(x) = start + rows * 0 + c
        BY <3>3, <4>1, <4>2 DEF source
      <4>4. rows * 0 = 0 /\ cols * c = c
        BY <1>1, <1>2, <3>3
      <4>5. QED BY <1>2, <1>4, <4>1, <4>3, <4>4
    <3>4. QED BY <2>1, <3>1, <3>2, <3>3
  <2>5. QED BY <2>3, <2>4
<1>14. At(k.a, Index(k.a, b, c, r)) = Element(mem, k.a, b, c, r)
  <2>1. b \in Samples(k.a) /\ c \in Rows(k.a) /\ r \in Columns(k.a)
    BY <1>1, <1>2 DEF Samples, Rows, Columns
  <2>2. QED BY <2>1, AtIs
<1>15. QED BY <1>8, <1>11, <1>12, <1>13, <1>14

-----------------------------------------------------------------------------
(* A step of a call, whichever of the two kinds it is.                     *)

LEMMA StepReaches ==
  ASSUME pass \in Passes, NEW k \in Fitting, Shaped(k), Stride(k) = W,
         k.op \in Vectorwise \cup AtOnce, NEW m \in Iterations(k),
         NEW p, InLoops(k, p), NEW b \in Samples(k.out),
         NEW r \in Rows(k.out), NEW c \in Columns(k.out),
         NEW cell, cell = Place(k.out, b, r, c), m = Owner(k, b, cell)
  PROVE  cell \in DOMAIN Stores(k, m, p) <=>
           (Reached(k, m, Advance(k, p), cell) /\ ~Reached(k, m, p, cell))
<1>1. CASE k.op \in Vectorwise
  BY <1>1, VectorReaches
<1>2. CASE k.op \in AtOnce
  <2>1. k.op # "ShrinkSum" /\ k.op # "Multiply" /\ k.op # "ShrinkDivide"
    BY <1>2 DEF AtOnce
  <2>2. /\ cell \in Nat /\ First(k, m) \in Nat /\ First(k, m) <= cell
        /\ k.op \notin Serial => m = b
    <3>1. k.op \notin Serial => m = b
      BY <2>1 DEF Owner
    <3>2. cell \in Nat /\ First(k, m) \in Nat /\ First(k, m) <= cell
      BY <2>1, OwnerIs
    <3>3. QED BY <3>1, <3>2
  <2>3. Extent(k) = W /\ W \in Nat \ {0}
    BY <1>2, Extents, VectorSizeWhole DEF AtOnce
  <2>4. /\ Whole(p.i) /\ p.i < W /\ p.i \in Nat /\ p # Done
    BY <2>1, <2>3, LoopAdvances DEF InLoops
  <2>5. p.i = 0
    <3>1. Whole(W)
      BY VectorSizeWhole
    <3>2. p.i + W <= W
      BY <2>4, <3>1, WholeGap
    <3>3. QED BY <2>3, <2>4, <3>2
  <2>6. ~Reached(k, m, p, cell)
    BY <2>2, <2>4, <2>5 DEF Reached
  <2>7. Reached(k, m, Advance(k, p), cell)
    <3>1. ~(p.i + Stride(k) < Extent(k))
      BY <2>3, <2>5
    <3>2. Advance(k, p) = Done
      BY <2>1, <3>1 DEF Advance
    <3>3. QED BY <3>2 DEF Reached
  <2>8. cell \in DOMAIN Stores(k, m, p)
    <3>1. PICK idx : idx = Index(k.out, b, r, c)
      OBVIOUS
    <3>2. /\ BatchSize(k.out) \in Nat \ {0} /\ b \in Nat
          /\ Size(k.out) \in Nat \ {0}
      BY TensorSizes DEF Samples
    <3>3. /\ cell = DataIdx(k.out, idx) /\ idx \in Nat
          /\ idx \in Size(k.out) * b .. Size(k.out) * b + Size(k.out) - 1
      BY <3>1, <3>2, IndexParts
    <3>4. CASE k.op = "Transpose"
      <4>1. m = b
        BY <2>2, <3>4 DEF Serial
      <4>2. QED BY <3>1, <3>3, <3>4, <4>1, TransposeStores
    <3>5. CASE k.op = "SoftMax"
      <4>1. m = b
        BY <2>2, <3>5 DEF Serial
      <4> DEFINE e == Size(k.out) * b
                 S == Sample(k.out, b)
      <4>2. S = [n \in 1 .. Size(k.out) |-> e + n - 1]
        BY DEF Sample
      <4>3. e \in Nat
        BY <3>2
      <4>4. ToSet(S) = {S[n] : n \in 1 .. Size(k.out)}
        BY <4>2 DEF ToSet
      <4>5. idx \in e .. e + Size(k.out) - 1
        BY <3>3
      <4> HIDE DEF S, e
      <4>6. idx - e + 1 \in 1 .. Size(k.out) /\ S[idx - e + 1] = idx
        BY <3>2, <4>2, <4>3, <4>5
      <4>7. idx \in ToSet(S)
        BY <4>4, <4>6
      <4>8. DOMAIN Stores(k, b, p) = {DataIdx(k.out, i) : i \in ToSet(S)}
        BY <3>5, StoresDomain DEF S
      <4>9. QED BY <3>3, <4>1, <4>7, <4>8
    <3>6. CASE k.op = "SoftMaxGradient"
      <4>1. idx \in 0 .. BatchSize(k.b) * Size(k.b) - 1
        BY <3>1, <3>6, SoftMaxGradientStores DEF Shaped, Unary
      <4>2. DOMAIN Stores(k, m, p) =
              {DataIdx(k.out, i) : i \in 0 .. BatchSize(k.b) * Size(k.b) - 1}
        BY <3>6, StoresDomain
      <4>3. QED BY <3>3, <4>1, <4>2
    <3>7. CASE k.op = "Assign"
      <4>1. idx \in 0 .. Size(k.out) * BatchSize(k.out) - 1
        BY <3>1, PlaceRoom
      <4>2. DOMAIN Stores(k, m, p) =
              {DataIdx(k.out, i) :
                 i \in 0 .. Size(k.out) * BatchSize(k.out) - 1}
        BY <3>7, StoresDomain
      <4>3. QED BY <3>3, <4>1, <4>2
    <3>8. CASE k.op = "Loss"
      <4>1. /\ NumRow(k.out) = 1 /\ NumCol(k.out) = 1
            /\ BatchSize(k.out) = 1
        BY <3>8 DEF Shaped, AtOnce, NumRow, NumCol, BatchSize
      <4>2. b = 0 /\ r = 0 /\ c = 0
        BY <4>1 DEF Samples, Rows, Columns
      <4>3. cell = Padded(1) * (1 * 0 + 0) + 0
        BY <4>1, <4>2 DEF Place
      <4>4. Padded(1) \in Nat
        BY PaddedWhole
      <4>5. cell = 0
        BY <4>3, <4>4
      <4>6. DOMAIN Stores(k, m, p) = {0}
        BY <3>8, StoresDomain
      <4>7. QED BY <4>5, <4>6
    <3>9. QED BY <1>2, <3>4, <3>5, <3>6, <3>7, <3>8 DEF AtOnce
  <2>9. QED BY <2>6, <2>7, <2>8
<1>3. QED BY <1>1, <1>2

LEMMA StepResult ==
  ASSUME pass \in Passes, NEW k \in Fitting, Shaped(k), Determined(k),
         k.op \in Vectorwise \cup AtOnce, NEW p, NEW b \in Samples(k.out),
         NEW r \in Rows(k.out), NEW c \in Columns(k.out),
         NEW cell, cell = Place(k.out, b, r, c), NEW m,
         m = Owner(k, b, cell), cell \in DOMAIN Stores(k, m, p)
  PROVE  Stores(k, m, p)[cell] = Result(k, mem, b, r, c)
<1>1. CASE k.op \in Vectorwise
  BY <1>1, VectorResult
<1>2. CASE k.op \in AtOnce
  <2>1. PICK idx : idx = Index(k.out, b, r, c)
    OBVIOUS
  <2>2. /\ BatchSize(k.out) \in Nat \ {0} /\ b \in Nat
        /\ Size(k.out) \in Nat \ {0}
    BY TensorSizes DEF Samples
  <2>3. /\ cell = DataIdx(k.out, idx) /\ idx \in Nat
        /\ idx \in Size(k.out) * b .. Size(k.out) * b + Size(k.out) - 1
    BY <2>1, <2>2, IndexParts
  <2>4. k.op \notin Serial \cup {"ShrinkDivide"} => m = b
    BY DEF Owner
  <2>5. CASE k.op = "Transpose"
    <3>1. m = b
      BY <2>4, <2>5 DEF Serial
    <3>2. Stores(k, b, p)[DataIdx(k.out, idx)] = Element(mem, k.a, b, c, r)
      BY <2>1, <2>5, TransposeStores
    <3>3. Result(k, mem, b, r, c) = Element(mem, k.a, b, c, r)
      BY <2>5, ResultIs
    <3>4. QED BY <2>3, <3>1, <3>2, <3>3
  <2>6. CASE k.op = "SoftMax"
    <3>1. m = b
      BY <2>4, <2>6 DEF Serial
    <3>2. SameMatrix(k.a, k.out) /\ BatchSize(k.a) = BatchSize(k.out)
      BY <2>6 DEF Shaped
    <3>3. /\ b \in Samples(k.a) /\ r \in Rows(k.a) /\ c \in Columns(k.a)
          /\ Index(k.a, b, r, c) = idx
      BY <2>1, <3>2 DEF SameMatrix, Samples, Rows, Columns, Index
    <3>4. Stores(k, b, p)[DataIdx(k.out, idx)] =
            Over(<<"exp", At(k.a, idx)>>,
                 AddUp(Zero, [n \in 1 .. Size(k.a) |->
                                <<"exp", Numbered(mem, k.a, b, n - 1)>>]))
      BY <2>3, <2>6, <3>2, <3>3, SoftMaxStores
    <3>5. At(k.a, Index(k.a, b, r, c)) = Element(mem, k.a, b, r, c)
      BY <3>3, AtIs
    <3>6. Stores(k, m, p)[cell] = SoftMaxResult(k, mem, b, r, c)
      BY <2>3, <3>1, <3>3, <3>4, <3>5 DEF SoftMaxResult
    <3>7. QED BY <2>6, <3>6, ResultIs
  <2>7. CASE k.op = "SoftMaxGradient"
    <3>1. SameMatrix(k.a, k.out) /\ BatchSize(k.a) = BatchSize(k.out)
      BY <2>7 DEF Shaped
    <3>2. Stores(k, m, p)[DataIdx(k.out, idx)] =
            SoftMaxGradientResult(k, mem, b, r, c)
      BY <2>1, <2>7, <3>1, SoftMaxGradientStores
    <3>3. QED BY <2>3, <2>7, <3>2, ResultIs
  <2>8. CASE k.op = "Assign"
    <3>1. idx \in 0 .. Size(k.out) * BatchSize(k.out) - 1
      BY <2>1, PlaceRoom
    <3>2. Stores(k, m, p)[DataIdx(k.out, idx)] = Datum(idx)
      BY <2>8, <3>1, AssignStores
    <3>3. QED BY <2>1, <2>3, <2>8, <3>2, ResultIs
  <2>9. CASE k.op = "Loss"
    <3>1. DOMAIN Stores(k, m, p) = {0}
      BY <2>9, StoresDomain
    <3>2. Stores(k, m, p)[0] = LossResult(k, mem)
      BY <2>9, LossStores
    <3>3. QED BY <2>9, <3>1, <3>2, ResultIs
  <2>10. QED BY <1>2, <2>5, <2>6, <2>7, <2>8, <2>9 DEF AtOnce
<1>3. QED BY <1>1, <1>2

LEMMA ElementKept ==
  ASSUME NEW M, NEW N, NEW t, N[t] = M[t], NEW b, NEW r, NEW c
  PROVE  Element(N, t, b, r, c) = Element(M, t, b, r, c)
BY DEF Element

LEMMA StepKept ==
  ASSUME pass \in Passes, NEW k, Shaped(k),
         k.op \in Vectorwise \cup AtOnce, NEW M, NEW N,
         \A t \in {k.a, k.b} \ (Scalars \cup {k.out}) : N[t] = M[t],
         NEW b \in Samples(k.out), NEW r, NEW c,
         N[k.out][Place(k.out, b, r, c)] = M[k.out][Place(k.out, b, r, c)]
  PROVE  Result(k, N, b, r, c) = Result(k, M, b, r, c)
<1>1. CASE k.op \in Vectorwise
  BY <1>1, VectorKept
<1>2. CASE k.op = "Assign"
  BY <1>2, ResultIs
<1>3. CASE k.op \in AtOnce \ {"Assign"}
  <2>1. N[k.a] = M[k.a]
    BY <1>3 DEF Shaped, AtOnce
  <2>2. \A s, i, j : Element(N, k.a, s, i, j) = Element(M, k.a, s, i, j)
    BY <2>1, ElementKept
  <2>3. CASE k.op = "Transpose"
    <3>1. /\ Result(k, M, b, r, c) = Element(M, k.a, b, c, r)
          /\ Result(k, N, b, r, c) = Element(N, k.a, b, c, r)
      BY <2>3, ResultIs
    <3>2. QED BY <2>2, <3>1
  <2>4. CASE k.op = "SoftMax"
    <3>1. SoftMaxResult(k, N, b, r, c) = SoftMaxResult(k, M, b, r, c)
      BY <2>2 DEF SoftMaxResult, Numbered
    <3>2. QED BY <2>4, <3>1, ResultIs
  <2>5. CASE k.op = "Loss"
    <3>1. LossResult(k, N) = LossResult(k, M)
      <4> DEFINE E(L, n) ==
                   Element(L, k.a, (n - 1) \div Size(k.a),
                           ((n - 1) \div NumCol(k.a)) % NumRow(k.a),
                           (n - 1) % NumCol(k.a))
                 F(L) == [n \in 1 .. Size(k.a) * BatchSize(k.a) |-> E(L, n)]
      <4>1. \A n : E(N, n) = E(M, n)
        BY <2>2
      <4>2. \A L : LossResult(k, L) = Over(AddUp(Zero, F(L)), Scalar(k.b))
        BY DEF LossResult
      <4> HIDE DEF E
      <4>3. F(N) = F(M)
        BY <4>1
      <4> HIDE DEF F
      <4>4. QED BY <4>2, <4>3
    <3>2. QED BY <2>5, <3>1, ResultIs
  <2>6. CASE k.op = "SoftMaxGradient"
    <3>1. N[k.b] = M[k.b]
      BY <2>6 DEF Shaped
    <3>2. \A s, i, j : Element(N, k.b, s, i, j) = Element(M, k.b, s, i, j)
      BY <3>1, ElementKept
    <3>3. SoftMaxGradientResult(k, N, b, r, c) =
            SoftMaxGradientResult(k, M, b, r, c)
      <4> DEFINE E(L, n) ==
                   Times(Numbered(L, k.a, b, n - 1),
                     <<IF /\ (n - 1) \div NumCol(k.out) = r
                          /\ (n - 1) % NumCol(k.out) = c
                       THEN "x(1-x)" ELSE "-xy",
                       Numbered(L, k.b, b, n - 1),
                       Element(L, k.b, b, r, c)>>)
                 F(L) == [n \in 1 .. Size(k.out) |-> E(L, n)]
      <4>1. ASSUME NEW n PROVE E(N, n) = E(M, n)
        <5>1. Numbered(N, k.a, b, n - 1) = Numbered(M, k.a, b, n - 1)
          BY <2>2 DEF Numbered
        <5>2. Numbered(N, k.b, b, n - 1) = Numbered(M, k.b, b, n - 1)
          BY <3>2 DEF Numbered
        <5>3. Element(N, k.b, b, r, c) = Element(M, k.b, b, r, c)
          BY <3>2
        <5>4. QED BY <5>1, <5>2, <5>3
      <4>2. \A L : SoftMaxGradientResult(k, L, b, r, c) =
                     AddUp(Zero, F(L))
        BY DEF SoftMaxGradientResult
      <4> HIDE DEF E
      <4>3. F(N) = F(M)
        BY <4>1
      <4> HIDE DEF F
      <4>4. QED BY <4>2, <4>3
    <3>4. QED BY <2>6, <3>3, ResultIs
  <2>7. QED BY <1>3, <2>3, <2>4, <2>5, <2>6 DEF AtOnce
<1>4. QED BY <1>1, <1>2, <1>3

(* The same, as an iteration uses it. *)
Steady(k, b, r, c) ==
  /\ pass \in Passes /\ k \in Fitting /\ Shaped(k) /\ Determined(k)
  /\ k.op \in Vectorwise \cup AtOnce
  /\ b \in Samples(k.out) /\ r \in Rows(k.out) /\ c \in Columns(k.out)

LEMMA StepStores ==
  ASSUME NEW k, NEW p, NEW b, NEW r, NEW c, Steady(k, b, r, c), NEW m,
         m = Owner(k, b, Place(k.out, b, r, c)),
         Place(k.out, b, r, c) \in DOMAIN Stores(k, m, p)
  PROVE  Stores(k, m, p)[Place(k.out, b, r, c)] = Result(k, mem, b, r, c)
<1>1. PICK B : B = Vectorwise \cup AtOnce /\ k.op \in B
  BY DEF Steady
<1>2. PICK cell : cell = Place(k.out, b, r, c)
  OBVIOUS
<1>3. cell \in DOMAIN Stores(k, Owner(k, b, cell), p)
  BY <1>2
<1>4. /\ pass \in Passes /\ k \in Fitting /\ Shaped(k) /\ Determined(k)
      /\ b \in Samples(k.out) /\ r \in Rows(k.out) /\ c \in Columns(k.out)
  BY DEF Steady
<1>5. Stores(k, Owner(k, b, cell), p)[cell] = Result(k, mem, b, r, c)
  BY <1>1, <1>2, <1>3, <1>4, StepResult
<1>6. QED BY <1>2, <1>5

-----------------------------------------------------------------------------
(* The sum over the batch.                                                 *)

(* How many samples the loop of a ShrinkSum has added to the mean's        *)
(* element at cell when it is at p.                                        *)
Rounds(k, p, cell) ==
  IF p = Done THEN BatchSize(k.a)
  ELSE (p.i \div ElementSize(k.out))
         + (IF cell < p.i % ElementSize(k.out) THEN 1 ELSE 0)

LEMMA RoundsMove ==
  ASSUME pass \in Passes, NEW k \in Fitting, k.op = "ShrinkSum",
         Stride(k) = W, NEW p, InLoops(k, p),
         NEW cell \in 0 .. ElementSize(k.out) - 1,
         NEW e, e = p.i % ElementSize(k.out),
         NEW s, s = p.i \div ElementSize(k.out)
  PROVE  /\ e \in Nat /\ s \in 0 .. BatchSize(k.a) - 1
         /\ p.i \in Nat /\ p.i = ElementSize(k.out) * s + e
         /\ Rounds(k, p, cell) \in Nat
         /\ cell \in Vector(e) =>
              /\ Rounds(k, p, cell) = s
              /\ Rounds(k, Advance(k, p), cell) = s + 1
         /\ cell \notin Vector(e) =>
              Rounds(k, Advance(k, p), cell) = Rounds(k, p, cell)
<1> DEFINE E == ElementSize(k.out)
           B == BatchSize(k.a)
           i == p.i
           next == Advance(k, p)
<1>1. /\ E \in Nat \ {0} /\ Whole(E) /\ B \in Nat \ {0}
      /\ W \in Nat \ {0} /\ Whole(W)
  BY TensorSizes, VectorSizeWhole
<1>2. /\ i \in Nat /\ Whole(i) /\ i < E * B /\ p # Done
      /\ p \in [jj : Nat, kk : Nat, i : Nat, j : Nat]
  BY Extents, LoopAdvances DEF InLoops
<1>3. /\ next = IF i + W < E * B THEN [p EXCEPT !.i = i + W] ELSE Done
  BY Extents DEF Advance
<1>4. Done.i = -1
  BY DEF Done, Start
<1>5. \/ i + W < E * B /\ next # Done /\ next.i = i + W
      \/ ~(i + W < E * B) /\ next = Done
  <2>1. CASE i + W < E * B
    <3>1. next = [p EXCEPT !.i = i + W]
      BY <1>3, <2>1
    <3>2. next.i = i + W
      BY <1>2, <3>1
    <3>3. next.i # -1
      BY <1>1, <1>2, <3>2
    <3> HIDE DEF next, i
    <3>4. QED BY <1>4, <2>1, <3>2, <3>3
  <2>2. CASE ~(i + W < E * B)
    BY <1>3, <2>2
  <2>3. QED BY <2>1, <2>2
<1>6. \A q : Rounds(k, q, cell) =
        IF q = Done THEN B
        ELSE (q.i \div E) + (IF cell < q.i % E THEN 1 ELSE 0)
  BY DEF Rounds
<1>7. e = i % E /\ s = i \div E
  OBVIOUS
<1>8. cell \in 0 .. E - 1
  OBVIOUS
<1>9. cell \in Vector(e) <=> (e <= cell /\ cell < e + W) \/ e \notin Nat
  <2>1. ASSUME e \in Nat PROVE cell \in e .. e + W - 1 <=>
                                 (e <= cell /\ cell < e + W)
    BY <1>1, <1>8, <2>1
  <2>2. /\ i \div E \in Nat /\ i % E \in 0 .. E - 1
    <3> HIDE DEF E, i
    <3>1. QED BY <1>1, <1>2, Division
  <2>3. e \in Nat
    BY <1>1, <1>7, <2>2
  <2>4. QED BY <2>1, <2>3 DEF Vector
<1> HIDE DEF E, B, i, next
<1>10. s \in Nat /\ e \in 0 .. E - 1 /\ i = E * s + e
  <2>1. /\ i \div E \in Nat /\ i % E \in 0 .. E - 1
        /\ i = E * (i \div E) + (i % E)
    BY <1>1, <1>2, Division
  <2>2. QED BY <1>7, <2>1
<1>11. s < B
  <2>1. B < s => E * B + E <= E * s
    BY <1>1, <1>10, Scaling
  <2>2. E * s \in Nat /\ E * B \in Nat
    BY <1>1, <1>10
  <2> DEFINE x == E * s
             y == E * B
  <2>3. x \in Nat /\ y \in Nat /\ i \in Nat /\ x <= i /\ i < y
    BY <1>1, <1>2, <1>10, <2>2
  <2>4. (B < s => y + E <= x) /\ (B = s => x = y)
    BY <2>1
  <2> HIDE DEF x, y
  <2>5. ~(B < s) /\ B # s
    BY <1>1, <2>3, <2>4
  <2>6. s \in Nat /\ B \in Nat
    BY <1>1, <1>10
  <2>7. QED BY <2>5, <2>6
<1>12. e + W <= E
  <2>1. Whole(e)
    BY <1>1, <1>2, <1>7, WholeRest
  <2>2. e < E
    BY <1>1, <1>10
  <2>3. QED BY <1>1, <2>1, <2>2, WholeGap
<1>13. /\ E * s \in Nat /\ E * B \in Nat /\ E * s + E <= E * B
       /\ E * (s + 1) = E * s + E
  BY <1>1, <1>10, <1>11, Scaling
<1>14. Rounds(k, p, cell) = s + (IF cell < e THEN 1 ELSE 0)
  BY <1>2, <1>6, <1>7 DEF i
<1>15. Rounds(k, next, cell) = s + (IF cell < e + W THEN 1 ELSE 0)
  <2>1. CASE e + W < E
    <3>1. i + W < E * B
      BY <1>1, <1>10, <1>13, <2>1
    <3>2. next # Done /\ next.i = E * s + (e + W)
      BY <1>1, <1>5, <1>10, <1>13, <3>1
    <3>3. e + W \in 0 .. E - 1
      BY <1>1, <1>10, <2>1
    <3>4. /\ (E * s + (e + W)) \div E = s
          /\ (E * s + (e + W)) % E = e + W
      BY <1>1, <1>10, <3>3, Quotient
    <3>5. QED BY <1>6, <3>2, <3>4
  <2>2. CASE e + W = E
    <3>1. i + W = E * (s + 1) + 0 /\ cell < e + W
      BY <1>1, <1>8, <1>10, <1>13, <2>2
    <3>2. CASE s + 1 < B
      <4>1. E * (s + 1) + E <= E * B
        BY <1>1, <1>10, <3>2, Scaling
      <4>2. i + W < E * B
        BY <1>1, <1>10, <1>13, <2>2, <4>1
      <4>3. next # Done /\ next.i = E * (s + 1) + 0
        BY <1>5, <3>1, <4>2
      <4>4. 0 \in 0 .. E - 1 /\ s + 1 \in Nat
        BY <1>1, <1>10
      <4>5. (E * (s + 1) + 0) \div E = s + 1 /\ (E * (s + 1) + 0) % E = 0
        BY <1>1, <4>4, Quotient
      <4>6. Rounds(k, next, cell) = s + 1 + (IF cell < 0 THEN 1 ELSE 0)
        BY <1>6, <4>3, <4>5
      <4>7. QED BY <1>8, <1>10, <3>1, <4>6
    <3>3. CASE s + 1 = B
      <4>1. i + W = E * B
        BY <1>13, <3>1, <3>3
      <4>2. next = Done
        BY <1>1, <1>5, <1>13, <4>1
      <4>3. QED BY <1>6, <3>1, <3>3, <4>2
    <3>4. QED BY <1>1, <1>10, <1>11, <3>2, <3>3
  <2>3. QED BY <1>1, <1>10, <1>12, <2>1, <2>2
<1>16. /\ e \in Nat /\ s \in 0 .. B - 1 /\ Rounds(k, p, cell) \in Nat
  BY <1>1, <1>10, <1>11, <1>14
<1>17. ASSUME cell \in Vector(e)
       PROVE  Rounds(k, p, cell) = s /\ Rounds(k, next, cell) = s + 1
  BY <1>9, <1>10, <1>14, <1>15, <1>16, <1>17
<1>18. ASSUME cell \notin Vector(e)
       PROVE  Rounds(k, next, cell) = Rounds(k, p, cell)
  <2>1. ~(e <= cell /\ cell < e + W)
    BY <1>9, <1>18
  <2>2. cell < e <=> cell < e + W
    BY <1>1, <1>8, <1>16, <2>1
  <2>3. QED BY <1>14, <1>15, <2>2
<1>19. QED
  BY <1>2, <1>10, <1>16, <1>17, <1>18 DEF E, B, i, next

(* One more sample. *)
LEMMA ShrinkOneMore ==
  ASSUME NEW k, NEW M, NEW r, NEW c, NEW n \in Nat
  PROVE  /\ ShrinkTo(k, M, r, c, 0) = M[k.out][Place(k.out, 0, r, c)]
         /\ ShrinkTo(k, M, r, c, n + 1) =
              Plus(Element(M, k.a, n, r, c), ShrinkTo(k, M, r, c, n))
<1> DEFINE held == M[k.out][Place(k.out, 0, r, c)]
           x(l) == [i \in 1 .. l |-> Element(M, k.a, i - 1, r, c)]
<1>1. \A l : ShrinkTo(k, M, r, c, l) = AddBefore(held, x(l))
  BY DEF ShrinkTo
<1>2. AddBefore(held, x(0)) = held
  BY AddNothing
<1>3. /\ DOMAIN x(n + 1) = 1 .. n + 1 /\ DOMAIN x(n) = 1 .. n
      /\ \A i \in 1 .. n : x(n)[i] = x(n + 1)[i]
      /\ x(n + 1)[n + 1] = Element(M, k.a, n, r, c)
  OBVIOUS
<1> HIDE DEF x, held
<1>4. AddBefore(held, x(n + 1)) = Plus(x(n + 1)[n + 1],
                                       AddBefore(held, x(n)))
  BY <1>3, AddOneMore
<1>5. QED BY <1>1, <1>2, <1>3, <1>4 DEF held

(* A step of the loop adds the sample it is at. *)
LEMMA ShrinkSumStep ==
  ASSUME pass \in Passes, NEW k \in Fitting, Shaped(k), k.op = "ShrinkSum",
         Stride(k) = W, NEW m, NEW p, InLoops(k, p),
         NEW r \in Rows(k.out), NEW c \in Columns(k.out),
         NEW cell, cell = Place(k.out, 0, r, c),
         cell \in DOMAIN mem[k.out],
         NEW M, M[k.a] = mem[k.a],
         mem[k.out][cell] = ShrinkTo(k, M, r, c, Rounds(k, p, cell))
  PROVE  Overwritten(mem[k.out], Stores(k, m, p))[cell] =
           ShrinkTo(k, M, r, c, Rounds(k, Advance(k, p), cell))
<1> DEFINE e == p.i % ElementSize(k.out)
           s == p.i \div ElementSize(k.out)
           stores == Stores(k, m, p)
<1>1. SameMatrix(k.a, k.out) /\ BatchSize(k.out) = 1
  BY DEF Shaped
<1>2. cell \in 0 .. ElementSize(k.out) - 1
  <2>1. 0 \in Samples(k.out)
    BY <1>1 DEF Samples
  <2>2. cell \in Matrix(k.out, 0)
    BY <2>1, PlaceRoom
  <2>3. ElementSize(k.out) \in Nat
    BY TensorSizes
  <2>4. QED BY <2>2, <2>3 DEF Matrix
<1>3. PICK x, y : x = e /\ y = s
  OBVIOUS
<1>4. /\ x \in Nat /\ y \in 0 .. BatchSize(k.a) - 1
      /\ p.i \in Nat /\ p.i = ElementSize(k.out) * y + x
      /\ cell \in Vector(x) =>
           /\ Rounds(k, p, cell) = y
           /\ Rounds(k, Advance(k, p), cell) = y + 1
      /\ cell \notin Vector(x) =>
           Rounds(k, Advance(k, p), cell) = Rounds(k, p, cell)
  BY <1>2, <1>3, RoundsMove
<1>5. DOMAIN stores = Vector(x)
  BY <1>3, StoresDomain
<1>6. CASE cell \notin Vector(x)
  BY <1>4, <1>5, <1>6 DEF Overwritten
<1>7. CASE cell \in Vector(x)
  <2>1. stores = ShrinkSumVector(k, m, p)
    BY DEF Stores
  <2>2. stores[cell] = Plus(mem[k.a][p.i + cell - x], mem[k.out][cell])
    BY <1>3, <1>7, <2>1 DEF ShrinkSumVector
  <2>3. Overwritten(mem[k.out], stores)[cell] = stores[cell]
    BY <1>5, <1>7 DEF Overwritten
  <2>4. p.i + cell - x = Place(k.a, y, r, c)
    <3>1. r \in Nat /\ c \in Nat /\ y \in Nat
      BY <1>4, TensorSizes DEF Rows, Columns
    <3>2. ElementSize(k.a) * y + (cell - ElementSize(k.out) * 0) =
            Place(k.a, y, r, c)
      BY <1>1, <3>1, SamePlace
    <3>3. ElementSize(k.a) = ElementSize(k.out)
      BY <1>1 DEF SameMatrix, ElementSize
    <3>4. ElementSize(k.out) * 0 = 0 /\ ElementSize(k.out) * y \in Nat
          /\ cell \in Nat
      BY <1>2, <3>1, TensorSizes
    <3>5. QED BY <1>4, <3>2, <3>3, <3>4
  <2>5. mem[k.a][Place(k.a, y, r, c)] = Element(M, k.a, y, r, c)
    <3>1. y \in Samples(k.a)
      BY <1>4 DEF Samples
    <3>2. QED BY <3>1, ElementIs
  <2>6. stores[cell] = Plus(Element(M, k.a, y, r, c),
                            ShrinkTo(k, M, r, c, y))
    BY <1>4, <1>7, <2>2, <2>4, <2>5
  <2>7. ShrinkTo(k, M, r, c, y + 1) =
          Plus(Element(M, k.a, y, r, c), ShrinkTo(k, M, r, c, y))
    BY <1>4, ShrinkOneMore
  <2>8. QED BY <1>4, <1>7, <2>3, <2>6, <2>7
<1>8. QED BY <1>6, <1>7

-----------------------------------------------------------------------------
(* What a call has computed when its iterations are at q: N is the memory  *)
(* then, M the memory before the call.                                     *)

(* What element (r, c) of sample b, at cell, is when its iteration is at p.*)
Outcome(k, M, p, b, r, c) ==
  LET cell == Place(k.out, b, r, c)
  IN  IF k.op = "ShrinkSum" THEN ShrinkTo(k, M, r, c, Rounds(k, p, cell))
      ELSE IF Reached(k, Owner(k, b, cell), p, cell)
      THEN Result(k, M, b, r, c)
      ELSE M[k.out][cell]

(* A call that does what its name says. *)
Exact(k) == Shaped(k) /\ Determined(k) /\ Stride(k) = W

(* Of a product PartialSums tells. *)
Computed(k, M, N, q) ==
  /\ \A t \in Tensors \ {k.out} : N[t] = M[t]
  /\ k.op # "Multiply" /\ Exact(k) =>
       \A b \in Samples(k.out), r \in Rows(k.out), c \in Columns(k.out) :
         LET cell == Place(k.out, b, r, c)
         IN  N[k.out][cell] =
               Outcome(k, M, q[Owner(k, b, cell)], b, r, c)

Completed(k, M, N) ==
  /\ {k.a, k.b, k.out} \ Scalars \subseteq Tensors
  /\ \A t \in Tensors \ {k.out} : N[t] = M[t]
  /\ Exact(k) =>
       \A b \in Samples(k.out), r \in Rows(k.out), c \in Columns(k.out) :
         N[k.out][Place(k.out, b, r, c)] = Result(k, M, b, r, c)

LEMMA OutcomeIs ==
  ASSUME NEW k, NEW M, NEW p, NEW b, NEW r, NEW c, NEW cell,
         cell = Place(k.out, b, r, c), NEW m, m = Owner(k, b, cell)
  PROVE  /\ k.op = "ShrinkSum" =>
              Outcome(k, M, p, b, r, c) =
                ShrinkTo(k, M, r, c, Rounds(k, p, cell))
         /\ k.op # "ShrinkSum" /\ Reached(k, m, p, cell) =>
              Outcome(k, M, p, b, r, c) = Result(k, M, b, r, c)
         /\ k.op # "ShrinkSum" /\ ~Reached(k, m, p, cell) =>
              Outcome(k, M, p, b, r, c) = M[k.out][cell]
BY DEF Outcome

LEMMA ComputedIs ==
  ASSUME NEW k, NEW M, NEW N, NEW q
  PROVE  Computed(k, M, N, q) <=>
           /\ \A t \in Tensors \ {k.out} : N[t] = M[t]
           /\ k.op # "Multiply" /\ Exact(k) =>
                \A b \in Samples(k.out), r \in Rows(k.out),
                   c \in Columns(k.out) :
                  \A cell : cell = Place(k.out, b, r, c) =>
                    \A m : m = Owner(k, b, cell) =>
                      N[k.out][cell] = Outcome(k, M, q[m], b, r, c)
BY DEF Computed

LEMMA SumFromStart ==
  ASSUME pass \in Passes, NEW k, NEW cell \in Nat
  PROVE  Rounds(k, Start, cell) = 0
<1> DEFINE E == ElementSize(k.out)
<1>1. E \in Nat \ {0}
  BY TensorSizes
<1>2. Start # Done /\ Start.i = 0
  BY DEF Start, Done
<1>3. Rounds(k, Start, cell) =
        (0 \div E) + (IF cell < 0 % E THEN 1 ELSE 0)
  BY <1>2 DEF Rounds
<1> HIDE DEF E
<1>4. 0 \div E = 0 /\ 0 % E = 0
  <2>1. E \in Nat /\ 0 \in 0 .. E - 1 /\ E * 0 + 0 = 0
    BY <1>1
  <2>2. (E * 0 + 0) \div E = 0 /\ (E * 0 + 0) % E = 0
    BY <2>1, Quotient
  <2>3. QED BY <2>1, <2>2
<1>5. QED BY <1>3, <1>4

LEMMA NotReachedAtStart ==
  ASSUME pass \in Passes, NEW k, Shaped(k), k.op # "ShrinkSum",
         NEW b \in Samples(k.out), NEW r \in Rows(k.out),
         NEW c \in Columns(k.out), NEW cell, cell = Place(k.out, b, r, c),
         NEW m, m = Owner(k, b, cell)
  PROVE  ~Reached(k, m, Start, cell) /\ Reached(k, m, Done, cell)
<1>1. cell \in Nat /\ First(k, m) \in Nat /\ First(k, m) <= cell
  BY OwnerIs
<1>2. Start # Done /\ Start.i = 0
  BY DEF Start, Done
<1>3. QED BY <1>1, <1>2 DEF Reached

LEMMA ReachedStays ==
  ASSUME pass \in Passes, NEW k, k.op # "Multiply", Stride(k) = W,
         NEW m, First(k, m) \in Nat, NEW cell \in Nat, NEW p, InLoops(k, p),
         Reached(k, m, p, cell)
  PROVE  Reached(k, m, Advance(k, p), cell)
<1>1. /\ p \in [jj : Nat, kk : Nat, i : Nat, j : Nat] /\ p # Done
      /\ W \in Nat \ {0}
  BY LoopAdvances, VectorSizeWhole DEF InLoops
<1>2. \/ Advance(k, p) = [p EXCEPT !.i = p.i + W]
      \/ Advance(k, p) = Done
  BY DEF Advance
<1>3. CASE Advance(k, p) = [p EXCEPT !.i = p.i + W]
  <2>1. Advance(k, p).i = p.i + W
    BY <1>1, <1>3
  <2>2. p.i \in Nat /\ cell < First(k, m) + p.i
    BY <1>1 DEF Reached
  <2>3. cell < First(k, m) + (p.i + W)
    BY <1>1, <2>2
  <2>4. QED BY <2>1, <2>3 DEF Reached
<1>4. CASE Advance(k, p) = Done
  BY <1>4 DEF Reached
<1>5. QED BY <1>2, <1>3, <1>4

LEMMA KnownFunctions ==
  ASSUME NEW k \in Fitting
  PROVE  \/ k.op = "Multiply"
         \/ k.op = "ShrinkSum"
         \/ k.op \in Vectorwise \cup AtOnce
BY DEF Fitting, Functions, Vectorwise, AtOnce, Binary, Unary, Applied

LEMMA ShrinkOwner ==
  ASSUME NEW k, k.op = "ShrinkSum", Shaped(k), NEW b \in Samples(k.out),
         NEW cell, NEW m, m = Owner(k, b, cell)
  PROVE  b = 0 /\ m = 0 /\ Iterations(k) = {0}
<1>1. BatchSize(k.out) = 1
  BY DEF Shaped
<1>2. k.op \in Serial
  BY DEF Serial
<1>3. QED BY <1>1, <1>2 DEF Samples, Owner, Iterations

LEMMA OwnerIterates ==
  ASSUME pass \in Passes, NEW k, Shaped(k), k.op # "ShrinkSum",
         NEW b \in Samples(k.out), NEW r \in Rows(k.out),
         NEW c \in Columns(k.out), NEW cell, cell = Place(k.out, b, r, c)
  PROVE  Owner(k, b, cell) \in Iterations(k)
<1>1. PICK m : m = Owner(k, b, cell)
  OBVIOUS
<1>2. /\ m \in Iterations(k)
      /\ cell \in Nat /\ First(k, m) \in Nat /\ First(k, m) <= cell
      /\ k.op \in Vectorwise => cell < First(k, m) + Extent(k)
      /\ k.op \notin Serial => cell \in Part(k, m)
      /\ k.op \notin Serial \cup {"ShrinkDivide"} => m = b
  BY <1>1, OwnerIs
<1>3. QED BY <1>1, <1>2

LEMMA OwnerBegins ==
  ASSUME pass \in Passes, NEW k, Shaped(k), k.op # "ShrinkSum",
         NEW b \in Samples(k.out), NEW r \in Rows(k.out),
         NEW c \in Columns(k.out), NEW cell, cell = Place(k.out, b, r, c)
  PROVE  First(k, Owner(k, b, cell)) \in Nat
BY OwnerIs

(* Before the first step of a call nothing has been computed. *)
LEMMA ComputedAtStart ==
  ASSUME pass \in Passes, NEW k \in Fitting, NEW M
  PROVE  Computed(k, M, M, [m \in Iterations(k) |-> Start])
<1> DEFINE q == [m \in Iterations(k) |-> Start]
<1>1. ASSUME Shaped(k), NEW b \in Samples(k.out), NEW r \in Rows(k.out),
             NEW c \in Columns(k.out), NEW cell,
             cell = Place(k.out, b, r, c), NEW m, m = Owner(k, b, cell)
      PROVE  M[k.out][cell] = Outcome(k, M, q[m], b, r, c)
  <2>1. CASE k.op = "ShrinkSum"
    <3>1. b = 0 /\ m \in Iterations(k)
      BY <1>1, <2>1, ShrinkOwner
    <3>2. cell \in Nat
      BY <1>1, PlaceRoom
    <3>3. q[m] = Start
      BY <3>1
    <3>4. Outcome(k, M, Start, b, r, c) =
            ShrinkTo(k, M, r, c, Rounds(k, Start, cell))
      BY <1>1, <2>1, OutcomeIs
    <3>5. Rounds(k, Start, cell) = 0
      BY <3>2, SumFromStart
    <3>6. ShrinkTo(k, M, r, c, 0) = M[k.out][Place(k.out, 0, r, c)]
      BY ShrinkOneMore
    <3>7. QED BY <1>1, <3>1, <3>3, <3>4, <3>5, <3>6
  <2>2. CASE k.op # "ShrinkSum"
    <3>1. m \in Iterations(k)
      BY <1>1, <2>2, OwnerIterates
    <3>2. q[m] = Start
      BY <3>1
    <3>3. ~Reached(k, m, Start, cell)
      BY <1>1, <2>2, NotReachedAtStart
    <3>4. Outcome(k, M, Start, b, r, c) = M[k.out][cell]
      BY <1>1, <2>2, <3>3, OutcomeIs
    <3>5. QED BY <3>2, <3>4
  <2>3. QED BY <2>1, <2>2
<1> HIDE DEF q
<1>2. Computed(k, M, M, q)
  BY <1>1, ComputedIs DEF Exact
<1>3. QED BY <1>2 DEF q

(* The tensors a call uses are tensors of the pass. *)
LEMMA CallTensors ==
  ASSUME pass \in Passes, NEW n \in 1 .. Len(Program), NEW k, k = Program[n]
  PROVE  {k.a, k.b, k.out} \ Scalars \subseteq Tensors
<1>1. k \in ToSet(Program)
  <2>1. PICK S : Program \in Seq(Writing(S))
    BY ProgramProper DEF Proper
  <2>2. QED BY <2>1, LenProperties DEF ToSet
<1>2. QED BY <1>1 DEF Tensors

(* A step of an iteration computes what it stores and keeps the rest.      *)
LEMMA IterateComputes ==
  ASSUME Invariant, NEW n \in DOMAIN pc, Iterate(n),
         NEW k, k = Program[step], NEW M, Computed(k, M, mem, pc),
         NEW N, N = mem', NEW q, q = pc'
  PROVE  Computed(k, M, N, q)
<1> DEFINE p == pc[n]
           stores == Stores(k, n, p)
<1>1. /\ pass \in Passes /\ step \in 1 .. Len(Program)
      /\ k \in Fitting /\ k.out \in Tensors /\ n \in Iterations(k)
      /\ InLoops(k, p) /\ p # Done
      /\ DOMAIN mem[k.out] = Room(k.out)
      /\ N = [mem EXCEPT ![k.out] = Overwritten(mem[k.out], stores)]
      /\ q = [pc EXCEPT ![n] = Advance(k, p)]
      /\ DOMAIN pc = Iterations(k) /\ DOMAIN mem = Tensors
  BY IterateDoes
<1>0. pass \in Passes /\ k \in Fitting /\ InLoops(k, p)
  BY <1>1
<1>2. /\ \A t \in Tensors \ {k.out} : mem[t] = M[t] /\ N[t] = mem[t]
      /\ N[k.out] = Overwritten(mem[k.out], stores)
      /\ q[n] = Advance(k, p)
      /\ \A m \in DOMAIN pc : m # n => q[m] = pc[m]
  <2>1. \A t \in Tensors \ {k.out} : mem[t] = M[t]
    BY ComputedIs
  <2> HIDE DEF stores, p
  <2>2. QED BY <1>1, <2>1
<1>3. {k.a, k.b, k.out} \ Scalars \subseteq Tensors
  BY <1>1, CallTensors
<1>4. ASSUME k.op # "Multiply", Exact(k),
             Shaped(k), Determined(k), Stride(k) = W,
             NEW b \in Samples(k.out), NEW r \in Rows(k.out),
             NEW c \in Columns(k.out), NEW cell,
             cell = Place(k.out, b, r, c), NEW m, m = Owner(k, b, cell)
      PROVE  N[k.out][cell] = Outcome(k, M, q[m], b, r, c)
  <2>1. mem[k.out][cell] = Outcome(k, M, pc[m], b, r, c)
    BY <1>4 DEF Computed
  <2>2. cell \in Room(k.out) /\ cell \in Nat
    BY <1>0, <1>4, PlaceRoom
  <2>3. CASE k.op = "ShrinkSum"
    <3>1. b = 0 /\ m = 0 /\ n = 0
      BY <1>1, <1>4, <2>3, ShrinkOwner
    <3>2. mem[k.out][cell] = ShrinkTo(k, M, r, c, Rounds(k, p, cell))
      BY <1>4, <2>1, <2>3, <3>1, OutcomeIs
    <3>3. M[k.a] = mem[k.a]
      <4>1. k.a \notin Scalars /\ k.a # k.out
        BY <1>4, <2>3 DEF Shaped
      <4>2. QED BY <1>2, <1>3, <4>1
    <3>4. cell = Place(k.out, 0, r, c) /\ cell \in DOMAIN mem[k.out]
      BY <1>1, <1>4, <2>2, <3>1
    <3>5. Overwritten(mem[k.out], stores)[cell] =
            ShrinkTo(k, M, r, c, Rounds(k, Advance(k, p), cell))
      <4> HIDE DEF p
      <4>1. QED BY <1>0, <1>4, <2>3, <3>2, <3>3, <3>4, ShrinkSumStep
    <3>6. Outcome(k, M, q[m], b, r, c) =
            ShrinkTo(k, M, r, c, Rounds(k, q[m], cell))
      BY <1>4, <2>3, OutcomeIs
    <3>7. q[m] = Advance(k, p)
      BY <1>2, <3>1
    <3>8. QED BY <1>2, <3>5, <3>6, <3>7
  <2>4. CASE k.op # "ShrinkSum"
    <3>1. k.op \in Vectorwise \cup AtOnce
      BY <1>1, <1>4, <2>4, KnownFunctions
    <3>2. /\ m \in Iterations(k) /\ First(k, m) \in Nat
          /\ k.op \notin Serial => cell \in Part(k, m)
      <4>1. m \in Iterations(k)
        BY <1>0, <1>4, <2>4, OwnerIterates
      <4>2. First(k, m) \in Nat
        BY <1>0, <1>4, <2>4, OwnerBegins
      <4>3. k.op \notin Serial => cell \in Part(k, m)
        BY <1>0, <1>4, <2>4, OwnerIs
      <4>4. QED BY <4>1, <4>2, <4>3
    <3>3. CASE m = n
      <4>1. cell \in DOMAIN stores <=>
              (Reached(k, m, Advance(k, p), cell) /\ ~Reached(k, m, p, cell))
        <5> HIDE DEF p
        <5>1. cell \in DOMAIN Stores(k, m, p) <=>
                (Reached(k, m, Advance(k, p), cell)
                   /\ ~Reached(k, m, p, cell))
          BY <1>0, <1>4, <3>1, <3>2, StepReaches
        <5>2. QED BY <3>3, <5>1
      <4>2. /\ q[m] = Advance(k, p) /\ pc[m] = p
        BY <1>2, <3>3
      <4>3. CASE cell \in DOMAIN stores
        <5>1. stores[cell] = Result(k, mem, b, r, c)
          <6> HIDE DEF p
          <6>1. cell \in DOMAIN Stores(k, m, p)
            BY <3>3, <4>3
          <6>2. /\ cell = Place(k.out, b, r, c)
                /\ m = Owner(k, b, Place(k.out, b, r, c))
                /\ Place(k.out, b, r, c) \in DOMAIN Stores(k, m, p)
            BY <1>4, <6>1
          <6>4. Steady(k, b, r, c)
            BY <1>0, <1>4, <3>1 DEF Steady
          <6>5. Stores(k, m, p)[Place(k.out, b, r, c)] =
                  Result(k, mem, b, r, c)
            BY <6>2, <6>4, StepStores
          <6>6. QED BY <3>3, <6>2, <6>5
        <5>2. mem[k.out][cell] = M[k.out][cell]
          BY <1>4, <2>1, <2>4, <4>1, <4>2, <4>3, OutcomeIs
        <5>3. Result(k, mem, b, r, c) = Result(k, M, b, r, c)
          <6>1. \A t \in {k.a, k.b} \ (Scalars \cup {k.out}) :
                  mem[t] = M[t]
            BY <1>2, <1>3
          <6>2. mem[k.out][Place(k.out, b, r, c)] =
                  M[k.out][Place(k.out, b, r, c)]
            BY <1>4, <5>2
          <6>3. QED BY <1>0, <1>4, <3>1, <6>1, <6>2, StepKept
        <5>4. N[k.out][cell] = stores[cell]
          BY <1>2, <4>3 DEF Overwritten
        <5>5. Outcome(k, M, q[m], b, r, c) = Result(k, M, b, r, c)
          BY <1>4, <2>4, <4>1, <4>2, <4>3, OutcomeIs
        <5>6. QED BY <5>1, <5>3, <5>4, <5>5
      <4>4. CASE cell \notin DOMAIN stores
        <5>1. N[k.out][cell] = mem[k.out][cell]
          BY <1>1, <1>2, <2>2, <4>4 DEF Overwritten
        <5>2. Reached(k, m, p, cell) => Reached(k, m, Advance(k, p), cell)
          <6> HIDE DEF p
          <6>1. QED BY <1>0, <1>4, <2>2, <3>2, ReachedStays
        <5>3. CASE Reached(k, m, p, cell)
          BY <1>4, <2>1, <2>4, <4>2, <5>1, <5>2, <5>3, OutcomeIs
        <5>4. CASE ~Reached(k, m, p, cell)
          BY <1>4, <2>1, <2>4, <4>1, <4>2, <4>4, <5>1, <5>4, OutcomeIs
        <5>5. QED BY <5>3, <5>4
      <4>5. QED BY <4>3, <4>4
    <3>4. CASE m # n
      <4>1. m \in DOMAIN pc
        BY <1>1, <3>2
      <4>2. /\ k.op \notin Serial
            /\ \A x \in Part(k, m) : mem'[k.out][x] = mem[k.out][x]
        BY <3>4, <4>1, OthersPartKept
      <4>3. N[k.out][cell] = mem[k.out][cell]
        BY <3>2, <4>2
      <4>4. q[m] = pc[m]
        BY <1>2, <3>4, <4>1
      <4>5. QED BY <2>1, <4>3, <4>4
    <3>5. QED BY <3>3, <3>4
  <2>5. QED BY <2>3, <2>4
<1> HIDE DEF p, stores
<1>5. \A t \in Tensors \ {k.out} : N[t] = M[t]
  BY <1>2
<1>6. QED BY <1>4, <1>5, ComputedIs DEF Exact

(* The finished product is the product. *)
LEMMA ProductCompleted ==
  ASSUME Invariant, PartialSums, Finished,
         NEW k, k = Program[step], Shaped(k), k.op = "Multiply",
         NEW M, Computed(k, M, mem, pc), NEW b \in Samples(k.out),
         NEW r \in Rows(k.out), NEW c \in Columns(k.out)
  PROVE  mem[k.out][Place(k.out, b, r, c)] = Result(k, M, b, r, c)
<1>1. /\ pass \in Passes /\ step \in 1 .. Len(Program)
      /\ DOMAIN pc = Iterations(k)
  BY DEF Invariant, TypeOK
<1>2. /\ k \in Fitting /\ k.a \in Tensors /\ k.a # k.out
      /\ k.b \in Tensors /\ k.b # k.out
  BY <1>1, CurrentCall, ProductOperands
<1>3. mem[k.a] = M[k.a] /\ mem[k.b] = M[k.b]
  BY <1>2, ComputedIs
<1>4. NumRow(k.a) = NumRow(k.out) /\ NumCol(k.b) = NumCol(k.out) /\ Spread(k)
  BY <1>2 DEF Fitting, Fits, Shaped
<1>5. /\ b \in Nat /\ r \in Nat /\ c \in Nat
  BY <1>1, TensorSizes DEF Samples, Rows, Columns
<1>6. b \in DOMAIN pc /\ pc[b] = Done
  <2>1. k.op \notin Serial /\ k.op # "ShrinkDivide"
    BY DEF Serial
  <2>2. b \in Iterations(k)
    BY <2>1 DEF Iterations, Samples
  <2>3. QED BY <1>1, <2>2 DEF Finished
<1>7. numColB(k) = Padded(NumCol(k.out)) /\ numRowB(k) \in Nat \ {0}
  BY <1>1, <1>4, BlockSizes DEF numColB
<1>8. r \in 0 .. NumRow(k.a) - 1 /\ c \in 0 .. numColB(k) - 1
  <2>1. /\ NumCol(k.out) <= Padded(NumCol(k.out))
        /\ NumCol(k.out) \in Nat /\ Padded(NumCol(k.out)) \in Nat
    BY <1>1, TensorSizes
  <2>2. r \in 0 .. NumRow(k.a) - 1
    BY <1>4 DEF Rows
  <2>3. c \in 0 .. NumCol(k.out) - 1
    BY DEF Columns
  <2>4. QED BY <1>7, <2>1, <2>2, <2>3
<1>9. Accumulated(k, Done, r, c) = numRowB(k)
  BY DEF Accumulated
<1>10. Summed(k, b, Done, r, c)
  BY <1>6, <1>8, PartialSumsAre
<1>11. PICK cell : cell = Cell(k, b, r, c)
  OBVIOUS
<1>12. mem[k.out][cell] =
         AddUp(Zero, Products(k, b, r, cell, 0, numRowB(k)))
  BY <1>7, <1>9, <1>10, <1>11 DEF Summed
<1>13. cell = Place(k.out, b, r, c)
  <2>1. Place(k.out, b, r, c) =
          ElementSize(k.out) * b + (Padded(NumCol(k.out)) * r + c)
    BY <1>1, <1>5, PlaceSum
  <2>2. ElementSize(k.out) * b \in Nat /\ Padded(NumCol(k.out)) * r \in Nat
    BY <1>1, <1>5, TensorSizes
  <2>3. r * numColB(k) = Padded(NumCol(k.out)) * r
    BY <1>1, <1>5, <1>7, TensorSizes
  <2>4. cell = ElementSize(k.out) * b + r * numColB(k) + c
    BY <1>11 DEF Cell
  <2>5. QED BY <1>5, <2>1, <2>2, <2>3, <2>4
<1>14. (cell - ElementSize(k.out) * b) % numColB(k) = c
  <2>1. cell = ElementSize(k.out) * b + (Padded(NumCol(k.out)) * r + c)
    BY <1>1, <1>5, <1>13, PlaceSum
  <2>2. /\ ElementSize(k.out) * b \in Nat /\ numColB(k) * r \in Nat
        /\ numColB(k) \in Nat
    BY <1>1, <1>5, <1>7, TensorSizes
  <2>3. cell - ElementSize(k.out) * b = numColB(k) * r + c
    BY <1>5, <1>7, <2>1, <2>2
  <2>4. (numColB(k) * r + c) % numColB(k) = c
    BY <1>5, <1>8, <2>2, Quotient
  <2>5. QED BY <2>3, <2>4
<1> DEFINE na == IF BatchSize(k.a) = 1 THEN 0 ELSE b
           nb == IF BatchSize(k.b) = 1 THEN 0 ELSE b
           F == Products(k, b, r, cell, 0, numRowB(k))
           G == [n \in 1 .. numRowB(k) |->
                   Times(Element(M, k.a, b, r, n - 1),
                         Element(M, k.b, b, n - 1, c))]
<1>15. /\ Offset(k.a, k.b, b) = ElementSize(k.a) * na
       /\ Offset(k.b, k.a, b) = ElementSize(k.b) * nb
       /\ na \in Nat /\ nb \in Nat
  BY <1>1, <1>4, <1>5, OffsetIs
<1>16. F = [n \in 1 .. numRowB(k) - 0 |->
          Times(mem[k.a][Offset(k.a, k.b, b) + r * Padded(NumCol(k.a))
                           + (0 + n - 1)],
                mem[k.b][Offset(k.b, k.a, b) + (0 + n - 1) * numColB(k) + c])]
  BY <1>14 DEF Products
<1>17. ASSUME NEW n \in 1 .. numRowB(k)
       PROVE  /\ Offset(k.a, k.b, b) + r * Padded(NumCol(k.a))
                   + (0 + n - 1) = Place(k.a, na, r, n - 1)
              /\ Offset(k.b, k.a, b) + (0 + n - 1) * numColB(k) + c =
                   Place(k.b, nb, n - 1, c)
  <2>1. 0 + n - 1 = n - 1 /\ n - 1 \in Nat
    BY <1>7
  <2>2. PICK x \in Nat : x = n - 1
    BY <2>1
  <2> HIDE DEF na, nb
  <2>3. Place(k.a, na, r, x) =
          ElementSize(k.a) * na + (Padded(NumCol(k.a)) * r + x)
    BY <1>1, <1>5, <1>15, PlaceSum
  <2>4. Place(k.b, nb, x, c) =
          ElementSize(k.b) * nb + (Padded(NumCol(k.b)) * x + c)
    BY <1>1, <1>5, <1>15, PlaceSum
  <2>0. /\ ElementSize(k.a) \in Nat /\ Padded(NumCol(k.a)) \in Nat
        /\ ElementSize(k.b) \in Nat /\ Padded(NumCol(k.b)) \in Nat
        /\ numColB(k) = Padded(NumCol(k.b)) /\ na \in Nat /\ nb \in Nat
        /\ r \in Nat
    BY <1>1, <1>5, <1>15, TensorSizes DEF numColB
  <2>5. /\ ElementSize(k.a) * na \in Nat /\ Padded(NumCol(k.a)) * r \in Nat
        /\ ElementSize(k.b) * nb \in Nat /\ Padded(NumCol(k.b)) * x \in Nat
    BY <2>0
  <2>6. /\ r * Padded(NumCol(k.a)) = Padded(NumCol(k.a)) * r
        /\ x * numColB(k) = Padded(NumCol(k.b)) * x
    BY <2>0
  <2> DEFINE u == ElementSize(k.a) * na
             v == Padded(NumCol(k.a)) * r
             y == ElementSize(k.b) * nb
             z == Padded(NumCol(k.b)) * x
  <2>7. /\ u \in Nat /\ v \in Nat /\ y \in Nat /\ z \in Nat
        /\ Place(k.a, na, r, x) = u + (v + x)
        /\ Place(k.b, nb, x, c) = y + (z + c)
        /\ Offset(k.a, k.b, b) = u /\ r * Padded(NumCol(k.a)) = v
        /\ Offset(k.b, k.a, b) = y /\ x * numColB(k) = z
    BY <1>15, <2>3, <2>4, <2>5, <2>6
  <2> HIDE DEF u, v, y, z
  <2>8. QED BY <1>5, <2>1, <2>2, <2>7
<1>18. ASSUME NEW n \in 1 .. numRowB(k)
       PROVE  /\ mem[k.a][Place(k.a, na, r, n - 1)] =
                   Element(M, k.a, b, r, n - 1)
              /\ mem[k.b][Place(k.b, nb, n - 1, c)] =
                   Element(M, k.b, b, n - 1, c)
  BY <1>3 DEF Element
<1> HIDE DEF na, nb
<1>19. numRowB(k) - 0 = numRowB(k)
  BY <1>7
<1>20. F = G
  <2> DEFINE X(n) ==
               Times(mem[k.a][Offset(k.a, k.b, b) + r * Padded(NumCol(k.a))
                                + (0 + n - 1)],
                     mem[k.b][Offset(k.b, k.a, b) + (0 + n - 1) * numColB(k)
                                + c])
             Y(n) == Times(Element(M, k.a, b, r, n - 1),
                           Element(M, k.b, b, n - 1, c))
  <2>1. \A n \in 1 .. numRowB(k) : X(n) = Y(n)
    BY <1>17, <1>18
  <2>2. F = [n \in 1 .. numRowB(k) |-> X(n)]
    BY <1>16, <1>19
  <2>3. G = [n \in 1 .. numRowB(k) |-> Y(n)]
    OBVIOUS
  <2> HIDE DEF F, G, X, Y
  <2>4. QED BY <2>1, <2>2, <2>3
<1>21. ProductResult(k, M, b, r, c) = AddUp(Zero, G)
  BY DEF ProductResult, numRowB
<1> HIDE DEF F, G
<1>22. mem[k.out][cell] = ProductResult(k, M, b, r, c)
  BY <1>12, <1>20, <1>21 DEF F
<1>23. QED BY <1>13, <1>22, ResultIs

(* A finished call is complete. *)
LEMMA FinishedCompletes ==
  ASSUME Invariant, PartialSums, Finished,
         NEW k, k = Program[step], NEW M, Computed(k, M, mem, pc)
  PROVE  Completed(k, M, mem)
<1>1. /\ pass \in Passes /\ step \in 1 .. Len(Program)
      /\ DOMAIN pc = Iterations(k)
  BY DEF Invariant, TypeOK
<1>2. k \in Fitting
  BY <1>1, CurrentCall
<1>3. \A t \in Tensors \ {k.out} : mem[t] = M[t]
  BY ComputedIs
<1>4. ASSUME Exact(k), Shaped(k), NEW b \in Samples(k.out),
             NEW r \in Rows(k.out), NEW c \in Columns(k.out)
      PROVE  mem[k.out][Place(k.out, b, r, c)] = Result(k, M, b, r, c)
  <2>1. CASE k.op = "Multiply"
    BY <1>4, <2>1, ProductCompleted
  <2>2. CASE k.op # "Multiply"
    <3>1. PICK cell, m : cell = Place(k.out, b, r, c)
                         /\ m = Owner(k, b, cell)
      OBVIOUS
    <3>2. mem[k.out][cell] = Outcome(k, M, pc[m], b, r, c)
      BY <1>4, <2>2, <3>1, ComputedIs
    <3>3. CASE k.op = "ShrinkSum"
      <4>1. m = 0 /\ Iterations(k) = {0}
        BY <1>4, <3>1, <3>3, ShrinkOwner
      <4>2. pc[m] = Done
        BY <1>1, <4>1 DEF Finished
      <4>3. Outcome(k, M, Done, b, r, c) =
              ShrinkTo(k, M, r, c, Rounds(k, Done, cell))
        BY <3>1, <3>3, OutcomeIs
      <4>4. Rounds(k, Done, cell) = BatchSize(k.a)
        BY DEF Rounds
      <4>5. Result(k, M, b, r, c) = ShrinkTo(k, M, r, c, BatchSize(k.a))
        BY <3>3, ResultIs
      <4>6. QED BY <3>1, <3>2, <4>2, <4>3, <4>4, <4>5
    <3>4. CASE k.op # "ShrinkSum"
      <4>1. m \in Iterations(k)
        <5>1. pass \in Passes
          BY <1>1
        <5>2. QED BY <1>4, <3>1, <3>4, <5>1, OwnerIterates
      <4>2. pc[m] = Done
        BY <1>1, <4>1 DEF Finished
      <4>3. Reached(k, m, Done, cell)
        BY DEF Reached
      <4>4. Outcome(k, M, Done, b, r, c) = Result(k, M, b, r, c)
        BY <3>1, <3>4, <4>3, OutcomeIs
      <4>5. QED BY <3>1, <3>2, <4>2, <4>4
    <3>5. QED BY <3>3, <3>4
  <2>3. QED BY <2>1, <2>2
<1>5. {k.a, k.b, k.out} \ Scalars \subseteq Tensors
  BY <1>1, CallTensors
<1>6. QED BY <1>3, <1>4, <1>5 DEF Completed, Exact

-----------------------------------------------------------------------------
(* What a call is to compute depends on the pass alone.                    *)

LEMMA ElementFixed ==
  ASSUME pass' = pass, NEW M, NEW t, NEW b, NEW r, NEW c
  PROVE  /\ Element(M, t, b, r, c)' = Element(M, t, b, r, c)
         /\ Place(t, b, r, c)' = Place(t, b, r, c)
         /\ Index(t, b, r, c)' = Index(t, b, r, c)
         /\ Numbered(M, t, b, c)' = Numbered(M, t, b, c)
<1>1. ASSUME NEW s, NEW i, NEW j
      PROVE  /\ Place(t, s, i, j)' = Place(t, s, i, j)
             /\ Index(t, s, i, j)' = Index(t, s, i, j)
  BY LayoutFixed DEF Place, Index, Padded
<1>2. ASSUME NEW i, NEW j
      PROVE  Element(M, t, b, i, j)' = Element(M, t, b, i, j)
  BY <1>1, LayoutFixed DEF Element
<1>3. Numbered(M, t, b, c)' = Numbered(M, t, b, c)
  BY <1>2, LayoutFixed DEF Numbered
<1>4. QED BY <1>1, <1>2, <1>3

LEMMA RangesFixed ==
  ASSUME pass' = pass, NEW t
  PROVE  /\ Samples(t)' = Samples(t) /\ Rows(t)' = Rows(t)
         /\ Columns(t)' = Columns(t)
BY LayoutFixed DEF Samples, Rows, Columns

LEMMA ExactFixed ==
  ASSUME pass' = pass, NEW k
  PROVE  Exact(k)' = Exact(k)
<1>1. \A t : /\ NumRow(t)' = NumRow(t) /\ NumCol(t)' = NumCol(t)
             /\ BatchSize(t)' = BatchSize(t) /\ Layout(t)' = Layout(t)
  BY LayoutFixed
<1>2. Determined(k)' = Determined(k)
  BY <1>1 DEF Determined
<1>3. Stride(k)' = Stride(k)
  BY <1>1 DEF Stride
<1>4. Spread(k)' = Spread(k)
  BY <1>1 DEF Spread
<1>5. \A t, u : SameMatrix(t, u)' = SameMatrix(t, u)
  BY <1>1 DEF SameMatrix
<1>6. Shaped(k)' = Shaped(k)
  BY <1>1, <1>4, <1>5 DEF Shaped
<1>7. QED BY <1>2, <1>3, <1>6 DEF Exact

LEMMA ShrinkFixed ==
  ASSUME pass' = pass, NEW k, NEW M, NEW r, NEW c, NEW n
  PROVE  ShrinkTo(k, M, r, c, n)' = ShrinkTo(k, M, r, c, n)
<1> DEFINE F == [i \in 1 .. n |-> Element(M, k.a, i - 1, r, c)]
<1>1. F' = F
  BY ElementFixed
<1>2. Place(k.out, 0, r, c)' = Place(k.out, 0, r, c)
  BY ElementFixed
<1> HIDE DEF F
<1>3. QED BY <1>1, <1>2 DEF ShrinkTo, F

LEMMA SoftMaxFixed ==
  ASSUME pass' = pass, NEW k, NEW M, NEW b, NEW r, NEW c
  PROVE  /\ SoftMaxResult(k, M, b, r, c)' = SoftMaxResult(k, M, b, r, c)
         /\ SoftMaxGradientResult(k, M, b, r, c)' =
              SoftMaxGradientResult(k, M, b, r, c)
<1>1. /\ Size(k.a)' = Size(k.a) /\ Size(k.out)' = Size(k.out)
      /\ NumCol(k.out)' = NumCol(k.out)
  BY LayoutFixed
<1>2. ASSUME NEW t, NEW n
      PROVE  /\ Numbered(M, t, b, n)' = Numbered(M, t, b, n)
             /\ Element(M, t, b, r, c)' = Element(M, t, b, r, c)
  BY ElementFixed
<1>3. SoftMaxResult(k, M, b, r, c)' = SoftMaxResult(k, M, b, r, c)
  <2> DEFINE F == [n \in 1 .. Size(k.a) |->
                     <<"exp", Numbered(M, k.a, b, n - 1)>>]
  <2>1. F' = F
    BY <1>1, <1>2
  <2> HIDE DEF F
  <2>2. QED BY <1>2, <2>1 DEF SoftMaxResult, F
<1>4. SoftMaxGradientResult(k, M, b, r, c)' =
        SoftMaxGradientResult(k, M, b, r, c)
  <2> DEFINE F == [n \in 1 .. Size(k.out) |->
        Times(Numbered(M, k.a, b, n - 1),
          <<IF /\ (n - 1) \div NumCol(k.out) = r
               /\ (n - 1) % NumCol(k.out) = c THEN "x(1-x)" ELSE "-xy",
            Numbered(M, k.b, b, n - 1), Element(M, k.b, b, r, c)>>)]
  <2>1. F' = F
    BY <1>1, <1>2 DEF Times
  <2>2. /\ SoftMaxGradientResult(k, M, b, r, c) = AddUp(Zero, F)
        /\ SoftMaxGradientResult(k, M, b, r, c)' = AddUp(Zero, F')
    BY DEF SoftMaxGradientResult
  <2> HIDE DEF F
  <2>3. QED BY <2>1, <2>2
<1>5. QED BY <1>3, <1>4

LEMMA LossFixed ==
  ASSUME pass' = pass, NEW k, NEW M
  PROVE  LossResult(k, M)' = LossResult(k, M)
<1> DEFINE F == [n \in 1 .. Size(k.a) * BatchSize(k.a) |->
                   Element(M, k.a, (n - 1) \div Size(k.a),
                           ((n - 1) \div NumCol(k.a)) % NumRow(k.a),
                           (n - 1) % NumCol(k.a))]
<1>1. /\ Size(k.a)' = Size(k.a) /\ NumRow(k.a)' = NumRow(k.a)
      /\ NumCol(k.a)' = NumCol(k.a) /\ BatchSize(k.a)' = BatchSize(k.a)
  BY LayoutFixed
<1>2. \A b, r, c : Element(M, k.a, b, r, c)' = Element(M, k.a, b, r, c)
  BY ElementFixed
<1>3. F' = F
  BY <1>1, <1>2
<1>4. /\ LossResult(k, M) = Over(AddUp(Zero, F), Scalar(k.b))
      /\ LossResult(k, M)' = Over(AddUp(Zero, F'), Scalar(k.b))
  BY DEF LossResult
<1> HIDE DEF F
<1>5. QED BY <1>3, <1>4

LEMMA ProductFixed ==
  ASSUME pass' = pass, NEW k, NEW M, NEW b, NEW r, NEW c
  PROVE  ProductResult(k, M, b, r, c)' = ProductResult(k, M, b, r, c)
<1> DEFINE F == [n \in 1 .. NumRow(k.b) |->
                   Times(Element(M, k.a, b, r, n - 1),
                         Element(M, k.b, b, n - 1, c))]
<1>1. NumRow(k.b)' = NumRow(k.b)
  BY LayoutFixed
<1>2. \A t, i, j : Element(M, t, b, i, j)' = Element(M, t, b, i, j)
  BY ElementFixed
<1>3. F' = F
  BY <1>1, <1>2 DEF Times
<1>4. /\ ProductResult(k, M, b, r, c) = AddUp(Zero, F)
      /\ ProductResult(k, M, b, r, c)' = AddUp(Zero, F')
  BY DEF ProductResult
<1> HIDE DEF F
<1>5. QED BY <1>3, <1>4

LEMMA ResultFixed ==
  ASSUME pass' = pass, NEW k, NEW M, NEW b, NEW r, NEW c
  PROVE  Result(k, M, b, r, c)' = Result(k, M, b, r, c)
<1>1. \A t, i, j : Element(M, t, b, i, j)' = Element(M, t, b, i, j)
  BY ElementFixed
<1>2. /\ Place(k.out, b, r, c)' = Place(k.out, b, r, c)
      /\ Index(k.out, b, r, c)' = Index(k.out, b, r, c)
  BY ElementFixed
<1>3. /\ BatchSize(k.a)' = BatchSize(k.a)
      /\ \A n : ShrinkTo(k, M, r, c, n)' = ShrinkTo(k, M, r, c, n)
  BY LayoutFixed, ShrinkFixed
<1>4. QED
  BY <1>1, <1>2, <1>3, SoftMaxFixed, LossFixed, ProductFixed
     DEF Result, Times, Over, Draw, Datum, Scalar

LEMMA OutcomeFixed ==
  ASSUME pass' = pass, NEW k, NEW M, NEW p, NEW b, NEW r, NEW c
  PROVE  /\ Outcome(k, M, p, b, r, c)' = Outcome(k, M, p, b, r, c)
         /\ \A cell : Owner(k, b, cell)' = Owner(k, b, cell)
<1>1. /\ ElementSize(k.out)' = ElementSize(k.out)
      /\ BatchSize(k.a)' = BatchSize(k.a)
  BY LayoutFixed
<1>2. Serial' = Serial
  BY DEF Serial
<1>3. \A cell : Owner(k, b, cell)' = Owner(k, b, cell)
  BY <1>1, <1>2 DEF Owner
<1>4. \A m : First(k, m)' = First(k, m)
  BY <1>1, <1>2 DEF First
<1>5. \A m, cell : Reached(k, m, p, cell)' = Reached(k, m, p, cell)
  BY <1>4 DEF Reached, Done, Start
<1>6. \A cell : Rounds(k, p, cell)' = Rounds(k, p, cell)
  BY <1>1 DEF Rounds, Done, Start
<1>7. Place(k.out, b, r, c)' = Place(k.out, b, r, c)
  BY ElementFixed
<1>8. /\ Result(k, M, b, r, c)' = Result(k, M, b, r, c)
      /\ \A n : ShrinkTo(k, M, r, c, n)' = ShrinkTo(k, M, r, c, n)
  BY ResultFixed, ShrinkFixed
<1>9. QED BY <1>3, <1>5, <1>6, <1>7, <1>8 DEF Outcome

LEMMA CallFixed ==
  ASSUME pass' = pass, NEW k, NEW M, NEW N, NEW q
  PROVE  /\ Computed(k, M, N, q) => Computed(k, M, N, q)'
         /\ Completed(k, M, N) => Completed(k, M, N)'
<1>1. /\ Samples(k.out)' = Samples(k.out) /\ Rows(k.out)' = Rows(k.out)
      /\ Columns(k.out)' = Columns(k.out) /\ Exact(k)' = Exact(k)
      /\ Tensors' = Tensors
  BY RangesFixed, ExactFixed, ProgramFixed
<1>2. \A p, b, r, c :
        /\ Outcome(k, M, p, b, r, c)' = Outcome(k, M, p, b, r, c)
        /\ Place(k.out, b, r, c)' = Place(k.out, b, r, c)
        /\ Result(k, M, b, r, c)' = Result(k, M, b, r, c)
        /\ \A cell : Owner(k, b, cell)' = Owner(k, b, cell)
  BY OutcomeFixed, ElementFixed, ResultFixed
<1>3. Computed(k, M, N, q) => Computed(k, M, N, q)'
  BY <1>1, <1>2 DEF Computed
<1>4. Completed(k, M, N) => Completed(k, M, N)'
  BY <1>1, <1>2 DEF Completed
<1>5. QED BY <1>3, <1>4

-----------------------------------------------------------------------------
(* The memory, explained by what the calls so far have completed and what  *)
(* the current one has computed.                                           *)

Before == [t \in Tensors |-> Fresh(t)]

(* h[i] is the memory after call i of the pass, of which call s is running,*)
(* at q, and has brought the memory to N.                                  *)
History(h, s, N, q) ==
  /\ h[0] = Before
  /\ \A i \in 1 .. s - 1 :
       \A k : k = Program[i] => Completed(k, h[i - 1], h[i])
  /\ \A k : k = Program[s] => Computed(k, h[s - 1], N, q)

Explained == \E h : \A s, N, q : s = step /\ N = mem /\ q = pc =>
                      History(h, s, N, q)

LEMMA HistoryIs ==
  ASSUME NEW h, NEW s, NEW N, NEW q
  PROVE  History(h, s, N, q) <=>
           /\ h[0] = Before
           /\ \A i \in 1 .. s - 1 :
                \A k : k = Program[i] => Completed(k, h[i - 1], h[i])
           /\ \A k : k = Program[s] => Computed(k, h[s - 1], N, q)
BY DEF History

LEMMA HistoryFixed ==
  ASSUME pass' = pass, NEW h, NEW s, NEW N, NEW q, History(h, s, N, q)
  PROVE  History(h, s, N, q)'
<1>1. /\ Program' = Program /\ Tensors' = Tensors
      /\ \A t : Fresh(t)' = Fresh(t)
  BY ProgramFixed, LayoutFixed
<1>2. Before' = Before
  BY <1>1 DEF Before
<1>3. \A i \in 1 .. s - 1 :
        \A k : k = Program[i] => Completed(k, h[i - 1], h[i])'
  BY CallFixed DEF History
<1>4. \A k : k = Program[s] => Computed(k, h[s - 1], N, q)'
  BY CallFixed DEF History
<1>5. QED BY <1>1, <1>2, <1>3, <1>4 DEF History

LEMMA InitExplained == Init => Explained
<1> SUFFICES ASSUME Init PROVE Explained
  OBVIOUS
<1>1. pass \in Passes /\ step = 1 /\ mem = Before
      /\ pc = [m \in Iterations(Program[1]) |-> Start]
  BY DEF Init, Before
<1>2. PICK k, M : k = Program[1] /\ M = Before
  OBVIOUS
<1>3. k \in Fitting
  <2>1. 1 \in 1 .. Len(Program)
    BY <1>1, CurrentCall
  <2>2. QED BY <1>1, <1>2, <2>1, CurrentCall
<1>4. Computed(k, M, M, [m \in Iterations(k) |-> Start])
  BY <1>1, <1>3, ComputedAtStart
<1>5. PICK h : h = [i \in {0} |-> M]
  OBVIOUS
<1>6. h[0] = M
  BY <1>5
<1>7. ASSUME NEW s, NEW N, NEW q, s = step, N = mem, q = pc
      PROVE  History(h, s, N, q)
  <2>1. s = 1 /\ N = M /\ q = [m \in Iterations(k) |-> Start]
    BY <1>1, <1>2, <1>7
  <2>2. 1 .. s - 1 = {} /\ s - 1 = 0
    BY <2>1
  <2>3. Computed(k, h[s - 1], N, q)
    BY <1>4, <1>6, <2>1, <2>2
  <2>4. QED BY <1>2, <1>6, <2>1, <2>2, <2>3, HistoryIs
<1>8. QED BY <1>7 DEF Explained

LEMMA IterateExplained ==
  ASSUME Invariant, Explained, NEW n \in DOMAIN pc, Iterate(n)
  PROVE  Explained'
<1>1. PICK h : \A s, N, q : s = step /\ N = mem /\ q = pc =>
                 History(h, s, N, q)
  BY DEF Explained
<1>2. pass' = pass /\ step' = step
  BY DEF Iterate
<1>3. PICK k, M : k = Program[step] /\ M = h[step - 1]
  OBVIOUS
<1>4. /\ h[0] = Before
      /\ \A i \in 1 .. step - 1 :
           \A j : j = Program[i] => Completed(j, h[i - 1], h[i])
      /\ Computed(k, M, mem, pc)
  BY <1>1, <1>3, HistoryIs
<1>5. ASSUME NEW s, NEW N, NEW q, s = step', N = mem', q = pc'
      PROVE  History(h, s, N, q)'
  <2>1. Computed(k, M, N, q)
    BY <1>3, <1>4, <1>5, IterateComputes
  <2>2. s = step
    BY <1>2, <1>5
  <2>3. History(h, s, N, q)
    BY <1>3, <1>4, <2>1, <2>2, HistoryIs
  <2>4. QED BY <1>2, <2>3, HistoryFixed
<1>6. QED BY <1>5 DEF Explained

LEMMA NextCallExplained ==
  ASSUME Invariant, PartialSums, Explained, NextCall
  PROVE  Explained'
<1>1. PICK h : \A s, N, q : s = step /\ N = mem /\ q = pc =>
                 History(h, s, N, q)
  BY DEF Explained
<1>2. /\ pass' = pass /\ mem' = mem /\ step' = step + 1
      /\ step < Len(Program) /\ Finished
      /\ pc' = [m \in Iterations(Program[step + 1]) |-> Start]
  BY DEF NextCall
<1>3. /\ pass \in Passes /\ step \in 1 .. Len(Program)
      /\ Len(Program) \in Nat
  BY CurrentCall DEF Invariant, TypeOK
<1>4. PICK k, M : k = Program[step] /\ M = h[step - 1]
  OBVIOUS
<1>5. PICK j : j = Program[step + 1]
  OBVIOUS
<1>6. /\ h[0] = Before
      /\ \A i \in 1 .. step - 1 :
           \A l : l = Program[i] => Completed(l, h[i - 1], h[i])
      /\ Computed(k, M, mem, pc)
  BY <1>1, <1>4, HistoryIs
<1>7. Completed(k, M, mem)
  BY <1>2, <1>4, <1>6, FinishedCompletes
<1>8. j \in Fitting
  <2>1. step + 1 \in 1 .. Len(Program)
    BY <1>2, <1>3
  <2>2. QED BY <1>3, <1>5, <2>1, CurrentCall
<1>9. Computed(j, mem, mem, [m \in Iterations(j) |-> Start])
  BY <1>3, <1>8, ComputedAtStart
<1>10. PICK L : L = mem
  OBVIOUS
<1>11. PICK g : g = [i \in 0 .. step |-> IF i = step THEN L ELSE h[i]]
  OBVIOUS
<1>12. /\ g[step] = L /\ \A i \in 0 .. step - 1 : g[i] = h[i]
  BY <1>3, <1>11
<1>13. ASSUME NEW i \in 1 .. step, NEW l, l = Program[i]
       PROVE  Completed(l, g[i - 1], g[i])
  <2>1. CASE i = step
    <3>1. g[i] = L /\ g[i - 1] = M
      BY <1>3, <1>4, <1>12, <2>1
    <3>2. QED BY <1>4, <1>7, <1>10, <1>13, <2>1, <3>1
  <2>2. CASE i # step
    <3>1. i \in 1 .. step - 1 /\ g[i - 1] = h[i - 1] /\ g[i] = h[i]
      BY <1>3, <1>12, <2>2
    <3>2. QED BY <1>6, <1>13, <3>1
  <2>3. QED BY <2>1, <2>2
<1>14. ASSUME NEW s, NEW N, NEW q, s = step', N = mem', q = pc'
       PROVE  History(g, s, N, q)'
  <2>1. /\ s = step + 1 /\ s - 1 = step /\ N = L
        /\ q = [m \in Iterations(j) |-> Start]
    BY <1>2, <1>3, <1>5, <1>10, <1>14
  <2>2. Computed(j, g[s - 1], N, q)
    BY <1>9, <1>10, <1>12, <2>1
  <2>3. g[0] = Before
    BY <1>3, <1>6, <1>12
  <2>4. \A i \in 1 .. s - 1 :
          \A l : l = Program[i] => Completed(l, g[i - 1], g[i])
    BY <1>13, <2>1
  <2>5. \A l : l = Program[s] => Computed(l, g[s - 1], N, q)
    BY <1>5, <2>1, <2>2
  <2>6. History(g, s, N, q)
    BY <2>3, <2>4, <2>5, HistoryIs
  <2>7. QED BY <1>2, <2>6, HistoryFixed
<1>15. QED BY <1>14 DEF Explained

LEMMA StutterExplained ==
  ASSUME Explained, UNCHANGED vars
  PROVE  Explained'
<1>1. pass' = pass /\ mem' = mem /\ step' = step /\ pc' = pc
  BY DEF vars
<1>2. PICK h : \A s, N, q : s = step /\ N = mem /\ q = pc =>
                 History(h, s, N, q)
  BY DEF Explained
<1>3. ASSUME NEW s, NEW N, NEW q, s = step', N = mem', q = pc'
      PROVE  History(h, s, N, q)'
  <2>1. History(h, s, N, q)
    BY <1>1, <1>2, <1>3
  <2>2. QED BY <1>1, <2>1, HistoryFixed
<1>4. QED BY <1>3 DEF Explained

LEMMA AlwaysExplained == Spec => []Explained
<1>1. ASSUME Invariant, PartialSums, Explained, [Next]_vars
      PROVE  Explained'
  <2>1. CASE \E m \in DOMAIN pc : Iterate(m)
    BY <1>1, <2>1, IterateExplained
  <2>2. CASE NextCall
    BY <1>1, <2>2, NextCallExplained
  <2>3. CASE UNCHANGED vars
    BY <1>1, <2>3, StutterExplained
  <2>4. QED BY <1>1, <2>1, <2>2, <2>3 DEF Next
<1>2. QED
  BY AlwaysInvariant, ProductsSumUp, InitExplained, <1>1, PTL DEF Spec

-----------------------------------------------------------------------------
(* What a sequence of calls leads to.                                      *)

Performed(k, M, N) == Completed(k, M, N) /\ Stride(k) = W

Leads(s, M, N) ==
  \E h : /\ h[0] = M /\ h[Len(s)] = N
         /\ \A i \in 1 .. Len(s) :
              \A k : k = s[i] => Performed(k, h[i - 1], h[i])

LEMMA LeadsInParts ==
  ASSUME NEW S, NEW s \in Seq(S), NEW t \in Seq(S), NEW M, NEW N,
         Leads(s \o t, M, N)
  PROVE  \E L : Leads(s, M, L) /\ Leads(t, L, N)
<1>1. PICK h : /\ h[0] = M /\ h[Len(s \o t)] = N
               /\ \A i \in 1 .. Len(s \o t) :
                    \A k : k = (s \o t)[i] => Performed(k, h[i - 1], h[i])
  BY DEF Leads
<1>2. PICK m, n : m = Len(s) /\ n = Len(t)
  OBVIOUS
<1>3. /\ m \in Nat /\ n \in Nat /\ Len(s \o t) = m + n
      /\ \A i \in 1 .. m : (s \o t)[i] = s[i]
      /\ \A i \in 1 .. n : (s \o t)[m + i] = t[i]
  <2>1. m \in Nat /\ n \in Nat /\ Len(s \o t) = m + n
    BY <1>2, ConcatProperties, LenProperties
  <2>2. \A i \in 1 .. m : i \in 1 .. m + n /\ i <= m
    BY <2>1
  <2>3. \A i \in 1 .. n : m + i \in 1 .. m + n /\ ~(m + i <= m)
                            /\ (m + i) - m = i
    BY <2>1
  <2>4. \A i \in 1 .. m + n :
          (s \o t)[i] = IF i <= m THEN s[i] ELSE t[i - m]
    BY <1>2, ConcatProperties
  <2>5. QED BY <2>1, <2>2, <2>3, <2>4
<1>4. Leads(s, M, h[m])
  <2>1. \A i \in 1 .. m : i \in 1 .. Len(s \o t)
    BY <1>3
  <2>2. \A i \in 1 .. m : \A k : k = s[i] => Performed(k, h[i - 1], h[i])
    BY <1>1, <1>3, <2>1
  <2>3. QED BY <1>1, <1>2, <2>2 DEF Leads
<1>5. Leads(t, h[m], N)
  <2>1. PICK g : g = [i \in 0 .. n |-> h[m + i]]
    OBVIOUS
  <2>2. g[0] = h[m] /\ g[n] = N
    BY <1>1, <1>3, <2>1
  <2>3. ASSUME NEW i \in 1 .. n, NEW k, k = t[i]
        PROVE  Performed(k, g[i - 1], g[i])
    <3>1. m + i \in 1 .. Len(s \o t) /\ (m + i) - 1 = m + (i - 1)
      BY <1>3
    <3>2. k = (s \o t)[m + i]
      BY <1>3, <2>3
    <3>3. Performed(k, h[m + (i - 1)], h[m + i])
      BY <1>1, <3>1, <3>2
    <3>4. g[i - 1] = h[m + (i - 1)] /\ g[i] = h[m + i]
      BY <1>3, <2>1
    <3>5. QED BY <3>3, <3>4
  <2>4. QED BY <1>2, <2>2, <2>3 DEF Leads
<1>6. QED BY <1>4, <1>5

LEMMA LeadsOne ==
  ASSUME NEW op, NEW a, NEW b, NEW out, NEW M, NEW N,
         Leads(Call(op, a, b, out), M, N),
         NEW k, k = [op |-> op, a |-> a, b |-> b, out |-> out]
  PROVE  Performed(k, M, N)
<1>1. PICK s : s = Call(op, a, b, out)
  OBVIOUS
<1>2. s = <<k>>
  BY <1>1 DEF Call
<1>3. Len(s) = 1 /\ s[1] = k
  BY <1>2
<1>4. PICK h : /\ h[0] = M /\ h[Len(s)] = N
               /\ \A i \in 1 .. Len(s) :
                    \A j : j = s[i] => Performed(j, h[i - 1], h[i])
  BY <1>1 DEF Leads
<1>5. 1 \in 1 .. Len(s) /\ h[1 - 1] = M /\ h[1] = N
  BY <1>3, <1>4
<1>6. Performed(k, h[1 - 1], h[1])
  BY <1>3, <1>4, <1>5
<1>7. QED BY <1>5, <1>6

(* The calls of a pass that takes no loss. *)
Known == [op : Functions, a : Names, b : Names, out : Names]
Quiet == {k \in Known : k.a # "loss" /\ k.b # "loss" /\ k.out # "loss"}

(* s then one more call. *)
LEMMA LeadsThen ==
  ASSUME NEW S, NEW s \in Seq(S), NEW M, NEW N,
         NEW op, NEW a, NEW b, NEW out, Call(op, a, b, out) \in Seq(S),
         Leads(s \o Call(op, a, b, out), M, N),
         NEW k, k = [op |-> op, a |-> a, b |-> b, out |-> out]
  PROVE  \E L : Leads(s, M, L) /\ Performed(k, L, N)
<1>1. PICK t : t = Call(op, a, b, out)
  OBVIOUS
<1>2. PICK L : Leads(s, M, L) /\ Leads(t, L, N)
  BY <1>1, LeadsInParts
<1>3. Performed(k, L, N)
  BY <1>1, <1>2, LeadsOne
<1>4. QED BY <1>2, <1>3

(* A pass that has come to its end has led from what was before to what is.*)
LEMMA PassLeads ==
  ASSUME Invariant, PartialSums, Explained, Finished, step = Len(Program),
         ~Deviates
  PROVE  Leads(Program, Before, mem)
<1>1. PICK h : \A s, N, q : s = step /\ N = mem /\ q = pc =>
                 History(h, s, N, q)
  BY DEF Explained
<1>2. step \in 1 .. Len(Program) /\ Len(Program) \in Nat /\ pass \in Passes
  BY CurrentCall DEF Invariant, TypeOK
<1>3. PICK k, M : k = Program[step] /\ M = h[step - 1]
  OBVIOUS
<1>4. /\ h[0] = Before
      /\ \A i \in 1 .. step - 1 :
           \A l : l = Program[i] => Completed(l, h[i - 1], h[i])
      /\ Computed(k, M, mem, pc)
  BY <1>1, <1>3, HistoryIs
<1>5. Completed(k, M, mem)
  BY <1>3, <1>4, FinishedCompletes
<1>6. PICK n : n = step
  OBVIOUS
<1>7. PICK g : g = [i \in 0 .. n |-> IF i = n THEN mem ELSE h[i]]
  OBVIOUS
<1>8. /\ n \in Nat \ {0} /\ n = Len(Program)
      /\ g[n] = mem /\ \A i \in 0 .. n - 1 : g[i] = h[i]
  BY <1>2, <1>6, <1>7
<1>9. g[0] = Before
  BY <1>4, <1>8
<1>10. ASSUME NEW i \in 1 .. n, NEW l, l = Program[i]
       PROVE  Performed(l, g[i - 1], g[i])
  <2>1. Stride(l) = W
    <3>1. i \in DOMAIN Program
      <4>1. PICK S : Program \in Seq(Writing(S))
        BY <1>2, ProgramProper DEF Proper
      <4>2. DOMAIN Program = 1 .. Len(Program)
        BY <4>1, LenProperties
      <4>3. QED BY <1>8, <4>2
    <3>2. QED BY <1>10, <3>1 DEF Deviates
  <2>2. Completed(l, g[i - 1], g[i])
    <3>1. CASE i = n
      <4>1. g[i] = mem /\ g[i - 1] = M /\ l = k
        BY <1>3, <1>6, <1>8, <1>10, <3>1
      <4>2. QED BY <1>5, <4>1
    <3>2. CASE i # n
      <4>1. i \in 1 .. step - 1 /\ g[i - 1] = h[i - 1] /\ g[i] = h[i]
        BY <1>6, <1>8, <3>2
      <4>2. QED BY <1>4, <1>10, <4>1
    <3>3. QED BY <3>1, <3>2
  <2>3. QED BY <2>1, <2>2 DEF Performed
<1>11. QED BY <1>8, <1>9, <1>10 DEF Leads

-----------------------------------------------------------------------------
(* What each function does to the elements of the tensors.                 *)

Within(t, b, r, c) == b \in Samples(t) /\ r \in Rows(t) /\ c \in Columns(t)

(* The tensors t and u have the same matrices, as many of them. *)
SameLayout(t, u) == SameMatrix(t, u) /\ BatchSize(t) = BatchSize(u)

LEMMA PerformedIs ==
  ASSUME pass \in Passes, NEW k, NEW M, NEW N, Performed(k, M, N),
         Shaped(k), Determined(k)
  PROVE  /\ \A b, r, c : Within(k.out, b, r, c) =>
              Element(N, k.out, b, r, c) = Result(k, M, b, r, c)
         /\ \A t \in Tensors \ {k.out} : N[t] = M[t]
         /\ {k.a, k.b, k.out} \ Scalars \subseteq Tensors
<1>1. Exact(k)
  BY DEF Exact, Performed
<1>2. ASSUME NEW b, NEW r, NEW c, Within(k.out, b, r, c)
      PROVE  Element(N, k.out, b, r, c) = Result(k, M, b, r, c)
  <2>1. b \in Samples(k.out) /\ r \in Rows(k.out) /\ c \in Columns(k.out)
    BY <1>2 DEF Within
  <2>2. N[k.out][Place(k.out, b, r, c)] = Result(k, M, b, r, c)
    BY <1>1, <2>1 DEF Performed, Completed
  <2>3. BatchSize(k.out) = 1 => b = 0
    BY <2>1 DEF Samples
  <2>4. QED BY <2>2, <2>3 DEF Element
<1>3. QED BY <1>2 DEF Performed, Completed

LEMMA KindsApart ==
  ASSUME NEW k
  PROVE  /\ k.op \in Binary =>
              /\ k.op \notin Unary \cup AtOnce
              /\ k.op \notin {"Set", "Fill", "Assign", "ShrinkSum",
                   "ShrinkDivide", "Transpose", "Loss", "Multiply",
                   "SoftMax", "SoftMaxGradient"}
         /\ k.op \in Unary =>
              /\ k.op \notin Binary \cup AtOnce
              /\ k.op \notin {"Set", "Fill", "Assign", "ShrinkSum",
                   "ShrinkDivide", "Transpose", "Loss", "Multiply",
                   "SoftMax", "SoftMaxGradient"}
         /\ k.op \in {"Set", "Fill", "ShrinkSum", "ShrinkDivide",
                      "Multiply"} => k.op \notin Binary \cup Unary \cup AtOnce
         /\ k.op \in AtOnce => k.op \notin Binary \cup Unary
BY DEF Binary, Unary, Applied, AtOnce

(* Zeros, Ones: the same number everywhere. *)
LEMMA SetDoes ==
  ASSUME pass \in Passes, NEW k, k.op = "Set", NEW M, NEW N,
         Performed(k, M, N)
  PROVE  \A b, r, c : Within(k.out, b, r, c) =>
           Element(N, k.out, b, r, c) = Scalar(k.a)
<1>1. Shaped(k) /\ Determined(k)
  BY KindsApart DEF Shaped, Determined
<1>2. QED BY <1>1, PerformedIs, ResultIs

(* An element of each operand, the one of b's sample if it has many. *)
LEMMA BinaryDoes ==
  ASSUME pass \in Passes, NEW k, k.op \in Binary, NEW M, NEW N,
         Performed(k, M, N), k.a \notin Scalars, k.b \notin Scalars,
         SameMatrix(k.a, k.out), SameMatrix(k.b, k.out), Spread(k)
  PROVE  \A b, r, c : Within(k.out, b, r, c) =>
           Element(N, k.out, b, r, c) =
             <<Sign(k.op), Element(M, k.a, b, r, c), Element(M, k.b, b, r, c)>>
<1>1. Shaped(k) /\ Determined(k)
  BY KindsApart DEF Shaped, Determined
<1>2. QED BY <1>1, PerformedIs, ResultIs

LEMMA ScaleDoes ==
  ASSUME pass \in Passes, NEW k, k.op = "ScalarMul", NEW M, NEW N,
         Performed(k, M, N), k.a \notin Scalars, SameLayout(k.a, k.out)
  PROVE  \A b, r, c : Within(k.out, b, r, c) =>
           Element(N, k.out, b, r, c) =
             Times(Element(M, k.a, b, r, c), Scalar(k.b))
<1>1. k.op \in Unary
  BY DEF Unary
<1>2. Shaped(k) /\ Determined(k)
  BY <1>1, KindsApart DEF Shaped, Determined, SameLayout
<1>3. QED BY <1>2, PerformedIs, ResultIs

LEMMA DivideDoes ==
  ASSUME pass \in Passes, NEW k, k.op = "ScalarDiv", NEW M, NEW N,
         Performed(k, M, N), k.a \notin Scalars, SameLayout(k.a, k.out)
  PROVE  \A b, r, c : Within(k.out, b, r, c) =>
           Element(N, k.out, b, r, c) =
             Over(Element(M, k.a, b, r, c), Scalar(k.b))
<1>1. k.op \in Unary
  BY DEF Unary
<1>2. Shaped(k) /\ Determined(k)
  BY <1>1, KindsApart DEF Shaped, Determined, SameLayout
<1>3. QED BY <1>2, PerformedIs, ResultIs

LEMMA ApplyDoes ==
  ASSUME pass \in Passes, NEW k, k.op \in Applied, NEW M, NEW N,
         Performed(k, M, N), k.a \notin Scalars, SameLayout(k.a, k.out)
  PROVE  \A b, r, c : Within(k.out, b, r, c) =>
           Element(N, k.out, b, r, c) =
             <<k.op, Element(M, k.a, b, r, c)>>
<1>1. k.op \in Unary
  BY DEF Unary
<1>2. Shaped(k) /\ Determined(k)
  BY <1>1, KindsApart DEF Shaped, Determined, SameLayout
<1>3. QED BY <1>2, PerformedIs, ResultIs

LEMMA FillDoes ==
  ASSUME pass \in Passes, NEW k, k.op = "Fill", NEW M, NEW N,
         Performed(k, M, N)
  PROVE  \A b, r, c : Within(k.out, b, r, c) =>
           Element(N, k.out, b, r, c) =
             Draw(Place(k.out, b, r, c))
<1>1. Shaped(k) /\ Determined(k)
  BY KindsApart DEF Shaped, Determined
<1>2. QED BY <1>1, PerformedIs, ResultIs

LEMMA AssignDoes ==
  ASSUME pass \in Passes, NEW k, k.op = "Assign", NEW M, NEW N,
         Performed(k, M, N), k.a # k.out
  PROVE  \A b, r, c : Within(k.out, b, r, c) =>
           Element(N, k.out, b, r, c) =
             Datum(Index(k.out, b, r, c))
<1>1. k.op \in AtOnce
  BY DEF AtOnce
<1>2. Shaped(k) /\ Determined(k)
  BY <1>1, KindsApart DEF Shaped, Determined
<1>3. QED BY <1>2, PerformedIs, ResultIs

LEMMA TransposeDoes ==
  ASSUME pass \in Passes, NEW k, k.op = "Transpose", NEW M, NEW N,
         Performed(k, M, N), k.a \notin Scalars, k.a # k.out,
         NumRow(k.a) = NumCol(k.out), NumCol(k.a) = NumRow(k.out),
         BatchSize(k.a) = BatchSize(k.out), Determined(k)
  PROVE  \A b, r, c : Within(k.out, b, r, c) =>
           Element(N, k.out, b, r, c) = Element(M, k.a, b, c, r)
<1>1. k.op \in AtOnce
  BY DEF AtOnce
<1>2. Shaped(k)
  BY <1>1, KindsApart DEF Shaped
<1>3. QED BY <1>2, PerformedIs, ResultIs

LEMMA MultiplyDoes ==
  ASSUME pass \in Passes, NEW k, k.op = "Multiply", NEW M, NEW N,
         Performed(k, M, N), k.a \notin Scalars, k.b \notin Scalars,
         Spread(k)
  PROVE  \A b, r, c : Within(k.out, b, r, c) =>
           Element(N, k.out, b, r, c) = ProductResult(k, M, b, r, c)
<1>1. Shaped(k) /\ Determined(k)
  BY KindsApart DEF Shaped, Determined
<1>2. QED BY <1>1, PerformedIs, ResultIs

LEMMA SoftMaxDoes ==
  ASSUME pass \in Passes, NEW k, k.op = "SoftMax", NEW M, NEW N,
         Performed(k, M, N), k.a \notin Scalars, k.a # k.out,
         SameLayout(k.a, k.out)
  PROVE  \A b, r, c : Within(k.out, b, r, c) =>
           Element(N, k.out, b, r, c) =
             SoftMaxResult(k, M, b, r, c)
<1>1. k.op \in AtOnce
  BY DEF AtOnce
<1>2. Shaped(k) /\ Determined(k)
  BY <1>1, KindsApart DEF Shaped, Determined, SameLayout
<1>3. QED BY <1>2, PerformedIs, ResultIs

LEMMA SoftMaxGradientDoes ==
  ASSUME pass \in Passes, NEW k, k.op = "SoftMaxGradient", NEW M, NEW N,
         Performed(k, M, N), k.a \notin Scalars, k.a # k.out,
         k.b \notin Scalars, k.b # k.out, SameLayout(k.a, k.out)
  PROVE  \A b, r, c : Within(k.out, b, r, c) =>
           Element(N, k.out, b, r, c) =
             SoftMaxGradientResult(k, M, b, r, c)
<1>1. k.op \in AtOnce
  BY DEF AtOnce
<1>2. Shaped(k) /\ Determined(k)
  BY <1>1, KindsApart DEF Shaped, Determined, SameLayout
<1>3. QED BY <1>2, PerformedIs, ResultIs

LEMMA LossDoes ==
  ASSUME pass \in Passes, NEW k, k.op = "Loss", NEW M, NEW N,
         Performed(k, M, N), k.a \notin Scalars, k.a # k.out,
         Layout(k.out) = <<1, 1, 1>>
  PROVE  Element(N, k.out, 0, 0, 0) = LossResult(k, M)
<1>1. k.op \in AtOnce
  BY DEF AtOnce
<1>2. Shaped(k) /\ Determined(k)
  BY <1>1, KindsApart DEF Shaped, Determined
<1>3. Within(k.out, 0, 0, 0)
  BY DEF Within, Samples, Rows, Columns, NumRow, NumCol, BatchSize
<1>4. QED BY <1>2, <1>3, PerformedIs, ResultIs

(* A tensor that is not put out keeps its elements. *)
LEMMA OthersKept ==
  ASSUME NEW k, NEW M, NEW N, Performed(k, M, N)
  PROVE  /\ \A t \in Tensors \ {k.out} :
              /\ N[t] = M[t]
              /\ \A b, r, c : Element(N, t, b, r, c) = Element(M, t, b, r, c)
         /\ {k.a, k.b, k.out} \ Scalars \subseteq Tensors
BY ElementKept DEF Performed, Completed

(* Before the pass an element is what its name says. *)
LEMMA BeforeIs ==
  ASSUME pass \in Passes, NEW t \in Tensors, NEW b, NEW r, NEW c,
         r \in Rows(t), c \in Columns(t),
         BatchSize(t) = 1 \/ b \in Samples(t)
  PROVE  Element(Before, t, b, r, c) = Ref(t, b, r, c)
<1>1. PICK s : s = IF BatchSize(t) = 1 THEN 0 ELSE b
  OBVIOUS
<1>2. s \in Samples(t)
  BY <1>1, TensorSizes DEF Samples
<1>3. PICK cell : cell = Place(t, s, r, c)
  OBVIOUS
<1>4. cell \in Room(t)
  BY <1>2, <1>3, PlaceRoom
<1>5. Before[t][cell] = Elem(t, cell)
  BY <1>4 DEF Before, Fresh, Room
<1>6. Element(Before, t, b, r, c) = Before[t][cell]
  BY <1>1, <1>3 DEF Element
<1>7. Ref(t, b, r, c) = Elem(t, cell)
  BY <1>1, <1>3 DEF Ref, Place
<1>8. QED BY <1>5, <1>6, <1>7

-----------------------------------------------------------------------------
(* The sizes of the tensors, and which tensor a pass results in.           *)

Batched == {"output", "delta", "backwardTemp", "label", "prediction",
            "gradient1", "gradient2"}
BatchA == IF pass.cast = "A" THEN 1 ELSE pass.batch
BatchB == IF pass.cast = "B" THEN 1 ELSE pass.batch

LEMMA Shapes ==
  /\ \A t \in Batched : Layout(t) = <<pass.rows, pass.cols, pass.batch>>
  /\ \A t \in {"input", "backwardOutput"} :
       Layout(t) = <<pass.rows, pass.mid, BatchA>>
  /\ Layout("weight") = <<pass.mid, pass.cols, BatchB>>
  /\ Layout("weightUpdateMean") = <<pass.mid, pass.cols, 1>>
  /\ Layout("weightUpdate") = <<pass.mid, pass.cols, pass.batch>>
  /\ Layout("weightTranspose") = <<pass.cols, pass.mid, 1>>
  /\ Layout("previousInputTranspose") = <<pass.mid, 1, pass.batch>>
  /\ \A t \in {"bias", "biasUpdateMean"} : Layout(t) = <<1, pass.cols, 1>>
  /\ Layout("left") = <<pass.rows, pass.cols, BatchA>>
  /\ Layout("right") = <<pass.rows, pass.cols, BatchB>>
  /\ Layout("mean") = <<pass.rows, pass.cols, 1>>
  /\ Layout("loss") = <<1, 1, 1>>
BY DEF Layout, Batched, BatchA, BatchB

LEMMA PassShapes ==
  ASSUME pass \in Passes
  PROVE  /\ pass.kind \in OfDense => pass.rows = 1 /\ pass.cast = "B"
         /\ pass.kind \in (Synchronous \cup Asynchronous) \ OfDense =>
              pass.mid = pass.cols /\ pass.cast # "A"
         /\ pass.cast = "A" =>
              pass.kind \in {"Multiply", "Add", "Sub", "Dot", "Div"}
         /\ pass.cast \in {"none", "A", "B"}
<1>1. pass \in [kind : Kinds, rows : Nat \ {0}, mid : Nat \ {0},
               cols : Nat \ {0}, batch : Nat \ {0},
               cast : {"none", "A", "B"}, consumers : {1, 2},
               number : {"float", "int"}]
  BY PassesAssumption
<1>2. /\ pass.kind \in OfDense => pass.rows = 1 /\ pass.cast = "B"
      /\ pass.kind \in (Synchronous \cup Asynchronous) \ OfDense =>
           pass.mid = pass.cols
      /\ pass.cast = "A" =>
           pass.kind \in {"Multiply", "Add", "Sub", "Dot", "Div"}
  BY PassesAssumption
<1>3. {"Multiply", "Add", "Sub", "Dot", "Div"}
        \cap (Synchronous \cup Asynchronous) = {}
  BY DEF Synchronous, Asynchronous
<1>4. QED BY <1>1, <1>2, <1>3

LEMMA QuietCall ==
  ASSUME NEW op \in Functions, NEW a \in Names \ {"loss"},
         NEW b \in Names \ {"loss"}, NEW out \in Names \ {"loss"}
  PROVE  Call(op, a, b, out) \in Seq(Quiet)
<1> DEFINE k == [op |-> op, a |-> a, b |-> b, out |-> out]
<1>1. k \in Quiet
  BY DEF Quiet, Known
<1>2. Call(op, a, b, out) = <<k>>
  BY DEF Call
<1> HIDE DEF k
<1>3. QED BY <1>1, <1>2

(* A pass without a loss results in what its last call puts out. *)
LEMMA LastOutput ==
  ASSUME ~Deviates, ~BackwardOfDense, NEW s, s = <<>> \/ s \in Seq(Quiet),
         NEW op, NEW a, NEW b, NEW out, Call(op, a, b, out) \in Seq(Quiet),
         Program = s \o Call(op, a, b, out)
  PROVE  Results = {out}
<1>1. PICK k, t : /\ k = [op |-> op, a |-> a, b |-> b, out |-> out]
                  /\ t = Call(op, a, b, out)
  OBVIOUS
<1>2. t = <<k>>
  BY <1>1 DEF Call
<1>3. Len(t) = 1 /\ t[1] = k /\ t \in Seq(Quiet)
  BY <1>1, <1>2
<1>4. s \in Seq(Quiet)
  BY EmptySeq
<1>5. PICK m : m = Len(s)
  OBVIOUS
<1>6. m \in Nat
  BY <1>4, <1>5, LenProperties
<1>7. /\ Program \in Seq(Quiet) /\ Len(Program) = m + 1
      /\ Program[m + 1] = t[(m + 1) - m]
  <2>1. Program = s \o t
    BY <1>1
  <2>2. /\ s \o t \in Seq(Quiet) /\ Len(s \o t) = Len(s) + Len(t)
        /\ \A i \in 1 .. Len(s) + Len(t) :
             (s \o t)[i] = IF i <= Len(s) THEN s[i] ELSE t[i - Len(s)]
    BY <1>3, <1>4, ConcatProperties
  <2>3. m + 1 \in 1 .. m + 1 /\ ~(m + 1 <= m)
    BY <1>6
  <2>4. QED BY <1>3, <1>5, <2>1, <2>2, <2>3
<1>8. Last(Program).out = out
  <2>1. (m + 1) - m = 1
    BY <1>6
  <2>2. Last(Program) = k
    BY <1>3, <1>7, <2>1 DEF Last
  <2>3. QED BY <1>1, <2>2
<1>9. "loss" \notin Tensors
  <2>1. \A k2 \in ToSet(Program) : k2 \in Quiet
    BY <1>7, ElementOfSeq, LenProperties DEF ToSet
  <2>2. QED BY <2>1 DEF Tensors, Quiet
<1>10. QED BY <1>8, <1>9 DEF Results

LEMMA OnlyOutput ==
  ASSUME ~Deviates, ~BackwardOfDense, NEW op \in Functions,
         NEW a \in Names \ {"loss"}, NEW b \in Names \ {"loss"},
         NEW out \in Names \ {"loss"}, Program = Call(op, a, b, out)
  PROVE  Results = {out}
<1>1. Call(op, a, b, out) \in Seq(Quiet)
  BY QuietCall
<1>2. PICK s : s = <<>>
  OBVIOUS
<1>3. Program = s \o Call(op, a, b, out)
  BY <1>1, <1>2, ConcatEmptySeq
<1>4. QED BY <1>1, <1>2, <1>3, LastOutput

-----------------------------------------------------------------------------
(* A call, by the names of its tensors.                                    *)

(* From M to N all tensors but t keep their elements. *)
OnlyChanges(t, M, N) ==
  \A u \in Tensors \ {t} :
    /\ N[u] = M[u]
    /\ \A b, r, c : Element(N, u, b, r, c) = Element(M, u, b, r, c)

LEMMA CallKeeps ==
  ASSUME NEW op, NEW x, NEW y, NEW t, NEW M, NEW N, NEW k,
         k = [op |-> op, a |-> x, b |-> y, out |-> t], Performed(k, M, N)
  PROVE  /\ OnlyChanges(t, M, N)
         /\ x \notin Scalars => x \in Tensors
         /\ y \notin Scalars => y \in Tensors
         /\ t \notin Scalars => t \in Tensors
<1>1. k.a = x /\ k.b = y /\ k.out = t
  OBVIOUS
<1>2. OnlyChanges(t, M, N)
  BY <1>1, OthersKept DEF OnlyChanges
<1>3. {k.a, k.b, k.out} \ Scalars \subseteq Tensors
  BY OthersKept
<1>4. QED BY <1>1, <1>2, <1>3

LEMMA BinaryCall ==
  ASSUME pass \in Passes, NEW op \in Binary, NEW x, NEW y, NEW t,
         x \notin Scalars, y \notin Scalars,
         SameMatrix(x, t), SameMatrix(y, t),
         BatchSize(x) \in {1, BatchSize(t)},
         BatchSize(y) \in {1, BatchSize(t)},
         BatchSize(x) = 1 /\ BatchSize(y) = 1 => BatchSize(t) = 1,
         NEW M, NEW N, NEW k,
         k = [op |-> op, a |-> x, b |-> y, out |-> t], Performed(k, M, N)
  PROVE  \A b, r, c : Within(t, b, r, c) =>
           Element(N, t, b, r, c) =
             <<Sign(op), Element(M, x, b, r, c), Element(M, y, b, r, c)>>
<1>1. k.op = op /\ k.a = x /\ k.b = y /\ k.out = t
  OBVIOUS
<1>2. Shaped(k) /\ Determined(k)
  <2>1. Spread(k)
    BY <1>1 DEF Spread
  <2>2. k.op \in Binary /\ SameMatrix(k.a, k.out) /\ SameMatrix(k.b, k.out)
    BY <1>1
  <2>3. k.a \notin Scalars /\ k.b \notin Scalars
    BY <1>1
  <2>4. QED BY <2>1, <2>2, <2>3, KindsApart DEF Shaped, Determined
<1>3. \A b, r, c : Within(k.out, b, r, c) =>
        Element(N, k.out, b, r, c) = Result(k, M, b, r, c)
  BY <1>2, PerformedIs
<1>4. \A b, r, c : Result(k, M, b, r, c) =
        <<Sign(op), Element(M, x, b, r, c), Element(M, y, b, r, c)>>
  BY <1>1, ResultIs
<1>5. QED BY <1>1, <1>3, <1>4

(* The same with both operands of the output's shape. *)
LEMMA PlainBinaryCall ==
  ASSUME pass \in Passes, NEW op \in Binary, NEW x, NEW y, NEW t,
         x \notin Scalars, y \notin Scalars,
         SameLayout(x, t), SameLayout(y, t), NEW M, NEW N, NEW k,
         k = [op |-> op, a |-> x, b |-> y, out |-> t], Performed(k, M, N)
  PROVE  \A b, r, c : Within(t, b, r, c) =>
           Element(N, t, b, r, c) =
             <<Sign(op), Element(M, x, b, r, c), Element(M, y, b, r, c)>>
<1>1. /\ SameMatrix(x, t) /\ SameMatrix(y, t)
      /\ BatchSize(x) = BatchSize(t) /\ BatchSize(y) = BatchSize(t)
  BY DEF SameLayout
<1>2. QED BY <1>1, BinaryCall

(* One with a number, and one applied to each element. *)
LEMMA ScaleCall ==
  ASSUME pass \in Passes, NEW x, NEW y, NEW t,
         x \notin Scalars, SameLayout(x, t), NEW M, NEW N, NEW k,
         k = [op |-> "ScalarMul", a |-> x, b |-> y, out |-> t],
         Performed(k, M, N)
  PROVE  \A b, r, c : Within(t, b, r, c) =>
           Element(N, t, b, r, c) = Times(Element(M, x, b, r, c), Scalar(y))
<1>1. k.op = "ScalarMul" /\ k.a = x /\ k.b = y /\ k.out = t
  OBVIOUS
<1>2. k.a \notin Scalars /\ SameLayout(k.a, k.out)
  BY <1>1
<1>3. \A b, r, c : Within(k.out, b, r, c) =>
        Element(N, k.out, b, r, c) =
          Times(Element(M, k.a, b, r, c), Scalar(k.b))
  BY <1>1, <1>2, ScaleDoes
<1>4. QED BY <1>1, <1>3

LEMMA DivideCall ==
  ASSUME pass \in Passes, NEW x, NEW y, NEW t,
         x \notin Scalars, SameLayout(x, t), NEW M, NEW N, NEW k,
         k = [op |-> "ScalarDiv", a |-> x, b |-> y, out |-> t],
         Performed(k, M, N)
  PROVE  \A b, r, c : Within(t, b, r, c) =>
           Element(N, t, b, r, c) = Over(Element(M, x, b, r, c), Scalar(y))
<1>1. k.op = "ScalarDiv" /\ k.a = x /\ k.b = y /\ k.out = t
  OBVIOUS
<1>2. k.a \notin Scalars /\ SameLayout(k.a, k.out)
  BY <1>1
<1>3. \A b, r, c : Within(k.out, b, r, c) =>
        Element(N, k.out, b, r, c) =
          Over(Element(M, k.a, b, r, c), Scalar(k.b))
  BY <1>1, <1>2, DivideDoes
<1>4. QED BY <1>1, <1>3

LEMMA ApplyCall ==
  ASSUME pass \in Passes, NEW op \in Applied, NEW x, NEW y, NEW t,
         x \notin Scalars, SameLayout(x, t), NEW M, NEW N, NEW k,
         k = [op |-> op, a |-> x, b |-> y, out |-> t], Performed(k, M, N)
  PROVE  \A b, r, c : Within(t, b, r, c) =>
           Element(N, t, b, r, c) = <<op, Element(M, x, b, r, c)>>
<1>1. k.op = op /\ k.a = x /\ k.b = y /\ k.out = t
  OBVIOUS
<1>2. k.a \notin Scalars /\ SameLayout(k.a, k.out)
  BY <1>1
<1>3. \A b, r, c : Within(k.out, b, r, c) =>
        Element(N, k.out, b, r, c) = <<k.op, Element(M, k.a, b, r, c)>>
  BY <1>1, <1>2, ApplyDoes
<1>4. QED BY <1>1, <1>3

-----------------------------------------------------------------------------
(* The Compute functions and the initializers by themselves.               *)

Exactly(N) ==
  \A t \in Results : \A b, r, c :
    Within(t, b, r, c) => Element(N, t, b, r, c) = Expected(t, b, r, c)

LEMMA ExpectedOfKernel ==
  ASSUME NEW t, NEW b, NEW r, NEW c
  PROVE  /\ pass.kind = "Multiply" => Expected(t, b, r, c) = Product(b, r, c)
         /\ pass.kind \in Binary =>
              Expected(t, b, r, c) =
                <<Sign(pass.kind), Ref("left", b, r, c),
                  Ref("right", b, r, c)>>
         /\ pass.kind = "ScalarMul" =>
              Expected(t, b, r, c) = Times(Ref("left", b, r, c), Scalar("2"))
         /\ pass.kind = "ScalarDiv" =>
              Expected(t, b, r, c) = Over(Ref("left", b, r, c), Scalar("2"))
         /\ pass.kind = "Zeros" => Expected(t, b, r, c) = Scalar("0")
         /\ pass.kind = "Ones" => Expected(t, b, r, c) = Scalar("1")
         /\ pass.kind = "Random" =>
              Expected(t, b, r, c) =
                Draw(Padded(pass.cols) * (pass.rows * b + r) + c)
         /\ pass.kind = "VectorInitializer" =>
              Expected(t, b, r, c) =
                Datum(pass.cols * (pass.rows * b + r) + c)
BY DEF Expected, Binary, Zero, BackwardOfDense, MeanOf, Total, LossOf

LEMMA ExpectedOfShrink ==
  ASSUME pass.kind = "Shrink", NEW t, NEW b, NEW r, NEW c
  PROVE  Expected(t, b, r, c) =
           Over(AddBefore(Ref("mean", 0, r, c),
                  [n \in 1 .. pass.batch |-> Ref("left", n - 1, r, c)]),
                Scalar("batch"))
BY DEF Expected, BackwardOfDense, MeanOf, Total, LossOf

LEMMA ProductIs ==
  ASSUME NEW b, NEW r, NEW c
  PROVE  Product(b, r, c) =
           AddUp(Zero, [n \in 1 .. pass.mid |->
                          Times(Ref("input", b, r, n - 1),
                                Ref("weight", b, n - 1, c))])
BY DEF Product, Total

(* An operand of u's shape, or broadcast against it, before the pass. *)
LEMMA OperandIs ==
  ASSUME pass \in Passes, NEW u, NEW t \in Tensors, SameMatrix(t, u),
         BatchSize(t) \in {1, BatchSize(u)}
  PROVE  \A b, r, c : Within(u, b, r, c) =>
           Element(Before, t, b, r, c) = Ref(t, b, r, c)
<1>1. ASSUME NEW b, NEW r, NEW c, Within(u, b, r, c)
      PROVE  Element(Before, t, b, r, c) = Ref(t, b, r, c)
  <2>1. r \in Rows(t) /\ c \in Columns(t)
    BY <1>1 DEF Within, SameMatrix, Rows, Columns
  <2>2. BatchSize(t) = 1 \/ b \in Samples(t)
    BY <1>1 DEF Within, Samples
  <2>3. QED BY <2>1, <2>2, BeforeIs
<1>2. QED BY <1>1

LEMMA BinaryExact ==
  ASSUME pass \in Passes, ~Deviates, pass.kind \in Binary,
         NEW N, Leads(Program, Before, N)
  PROVE  Exactly(N)
<1>1. /\ Program = Call(pass.kind, "left", "right", "output")
      /\ ~BackwardOfDense /\ pass.kind \in Functions
  <2>1. Program = Call(pass.kind, "left", "right", "output")
    <3>1. Program = KernelAlone
      BY DEF Program, Kernels, Initializers, Binary
    <3>2. QED BY <3>1, SMTT(30) DEF KernelAlone, Binary
  <2>2. ~BackwardOfDense /\ pass.kind \in Functions
    BY DEF BackwardOfDense, Functions, Binary
  <2>3. QED BY <2>1, <2>2
<1>2. PICK k : k = [op |-> pass.kind, a |-> "left", b |-> "right",
                    out |-> "output"]
  OBVIOUS
<1>3. /\ k.op = pass.kind /\ k.a = "left" /\ k.b = "right"
      /\ k.out = "output"
  BY <1>2
<1>4. Results = {"output"}
  BY <1>1, OnlyOutput, AllNames
<1>5. Performed(k, Before, N)
  BY <1>1, <1>2, LeadsOne
<1>6. /\ Layout("left") = <<pass.rows, pass.cols, BatchA>>
      /\ Layout("right") = <<pass.rows, pass.cols, BatchB>>
      /\ Layout("output") = <<pass.rows, pass.cols, pass.batch>>
  BY Shapes DEF Batched
<1>7. /\ SameMatrix("left", "output") /\ SameMatrix("right", "output")
      /\ BatchSize("left") = BatchA /\ BatchSize("right") = BatchB
      /\ BatchSize("output") = pass.batch
  BY <1>6 DEF SameMatrix, NumRow, NumCol, BatchSize
<1>8. /\ BatchA \in {1, pass.batch} /\ BatchB \in {1, pass.batch}
      /\ BatchA = 1 /\ BatchB = 1 => pass.batch = 1
  BY DEF BatchA, BatchB
<1>9. "left" \notin Scalars /\ "right" \notin Scalars
  BY DEF Scalars
<1>10. "left" \in Tensors /\ "right" \in Tensors
  BY <1>3, <1>5, <1>9, OthersKept
<1>11. \A b, r, c : Within("output", b, r, c) =>
         Element(N, "output", b, r, c) =
           <<Sign(pass.kind), Element(Before, "left", b, r, c),
             Element(Before, "right", b, r, c)>>
  BY <1>2, <1>5, <1>7, <1>8, <1>9, BinaryCall
<1>12. \A b, r, c : Within("output", b, r, c) =>
         /\ Element(Before, "left", b, r, c) = Ref("left", b, r, c)
         /\ Element(Before, "right", b, r, c) = Ref("right", b, r, c)
  BY <1>7, <1>8, <1>10, OperandIs
<1>13. QED BY <1>4, <1>11, <1>12, ExpectedOfKernel DEF Exactly

LEMMA ScalarExact ==
  ASSUME pass \in Passes, ~Deviates, pass.kind \in {"ScalarMul", "ScalarDiv"},
         NEW N, Leads(Program, Before, N)
  PROVE  Exactly(N)
<1>1. /\ Program = Call(pass.kind, "left", "2", "output")
      /\ ~BackwardOfDense /\ pass.kind \in Functions /\ pass.kind \in Unary
  <2>1. Program = Call(pass.kind, "left", "2", "output")
    <3>1. Program = KernelAlone
      BY DEF Program, Kernels, Initializers, Binary
    <3>2. QED BY <3>1, SMTT(30) DEF KernelAlone, Binary
  <2>2. ~BackwardOfDense /\ pass.kind \in Functions /\ pass.kind \in Unary
    BY DEF BackwardOfDense, Functions, Unary
  <2>3. QED BY <2>1, <2>2
<1>2. PICK k : k = [op |-> pass.kind, a |-> "left", b |-> "2",
                    out |-> "output"]
  OBVIOUS
<1>3. k.op = pass.kind /\ k.a = "left" /\ k.b = "2" /\ k.out = "output"
  BY <1>2
<1>4. Results = {"output"}
  BY <1>1, OnlyOutput, AllNames
<1>5. Performed(k, Before, N)
  BY <1>1, <1>2, LeadsOne
<1>6. /\ Layout("left") = <<pass.rows, pass.cols, BatchA>>
      /\ Layout("output") = <<pass.rows, pass.cols, pass.batch>>
      /\ BatchA = pass.batch
  BY Shapes, PassShapes DEF Batched, BatchA
<1>7. SameLayout("left", "output")
  BY <1>6 DEF SameLayout, SameMatrix, NumRow, NumCol, BatchSize
<1>8. "left" \notin Scalars
  BY DEF Scalars
<1>9. "left" \in Tensors
  BY <1>3, <1>5, <1>8, OthersKept
<1>10. \A b, r, c : Within("output", b, r, c) =>
         /\ pass.kind = "ScalarMul" =>
              Element(N, "output", b, r, c) =
                Times(Element(Before, "left", b, r, c), Scalar("2"))
         /\ pass.kind = "ScalarDiv" =>
              Element(N, "output", b, r, c) =
                Over(Element(Before, "left", b, r, c), Scalar("2"))
  <2>1. ASSUME pass.kind = "ScalarMul"
        PROVE  \A b, r, c : Within("output", b, r, c) =>
                 Element(N, "output", b, r, c) =
                   Times(Element(Before, "left", b, r, c), Scalar("2"))
    <3>1. k = [op |-> "ScalarMul", a |-> "left", b |-> "2", out |-> "output"]
      BY <1>2, <2>1
    <3>2. QED BY <1>5, <1>7, <1>8, <3>1, ScaleCall
  <2>2. ASSUME pass.kind = "ScalarDiv"
        PROVE  \A b, r, c : Within("output", b, r, c) =>
                 Element(N, "output", b, r, c) =
                   Over(Element(Before, "left", b, r, c), Scalar("2"))
    <3>1. k = [op |-> "ScalarDiv", a |-> "left", b |-> "2", out |-> "output"]
      BY <1>2, <2>2
    <3>2. QED BY <1>5, <1>7, <1>8, <3>1, DivideCall
  <2>3. QED BY <2>1, <2>2
<1>11. \A b, r, c : Within("output", b, r, c) =>
         Element(Before, "left", b, r, c) = Ref("left", b, r, c)
  BY <1>7, <1>9, OperandIs DEF SameLayout
<1>12. QED BY <1>4, <1>10, <1>11, ExpectedOfKernel DEF Exactly

LEMMA InitializerExact ==
  ASSUME pass \in Passes, ~Deviates, pass.kind \in Initializers,
         NEW N, Leads(Program, Before, N)
  PROVE  Exactly(N)
<1>1. /\ NumRow("output") = pass.rows /\ NumCol("output") = pass.cols
      /\ ~BackwardOfDense
  BY Shapes DEF Batched, NumRow, NumCol, BackwardOfDense, Initializers
<1>2. {"Set", "Fill", "Assign"} \subseteq Functions
  BY DEF Functions
<1>3. Program = Initialize
  BY DEF Program, Kernels, Initializers
<1>4. ASSUME NEW op \in {"Set", "Fill", "Assign"},
             NEW x \in {"0", "1", "draw", "data"},
             Program = Call(op, x, x, "output"),
             NEW k, k = [op |-> op, a |-> x, b |-> x, out |-> "output"]
      PROVE  /\ Performed(k, Before, N) /\ Results = {"output"}
             /\ k.op = op /\ k.a = x /\ k.out = "output" /\ k.a # k.out
  <2>1. Performed(k, Before, N)
    BY <1>4, LeadsOne
  <2>2. Results = {"output"}
    BY <1>1, <1>2, <1>4, OnlyOutput, AllNames
  <2>3. k.op = op /\ k.a = x /\ k.out = "output" /\ k.a # k.out
    BY <1>4
  <2>4. QED BY <2>1, <2>2, <2>3
<1>5. CASE pass.kind \in {"Zeros", "Ones"}
  <2>1. PICK x : x = IF pass.kind = "Zeros" THEN "0" ELSE "1"
    OBVIOUS
  <2>2. Program = Call("Set", x, x, "output")
    BY <1>3, <1>5, <2>1 DEF Initialize
  <2>3. PICK k : k = [op |-> "Set", a |-> x, b |-> x, out |-> "output"]
    OBVIOUS
  <2>4. /\ Performed(k, Before, N) /\ Results = {"output"}
        /\ k.op = "Set" /\ k.a = x /\ k.out = "output"
    BY <1>4, <2>1, <2>2, <2>3
  <2>5. \A b, r, c : Within("output", b, r, c) =>
          Element(N, "output", b, r, c) = Scalar(x)
    BY <2>4, SetDoes
  <2>6. QED BY <1>5, <2>1, <2>4, <2>5, ExpectedOfKernel DEF Exactly
<1>6. CASE pass.kind = "Random"
  <2>1. Program = Call("Fill", "draw", "draw", "output")
    BY <1>3, <1>6 DEF Initialize
  <2>2. PICK k : k = [op |-> "Fill", a |-> "draw", b |-> "draw",
                      out |-> "output"]
    OBVIOUS
  <2>3. /\ Performed(k, Before, N) /\ Results = {"output"}
        /\ k.op = "Fill" /\ k.out = "output" /\ k.a # k.out
    BY <1>4, <2>1, <2>2
  <2>4. \A b, r, c : Within("output", b, r, c) =>
          Element(N, "output", b, r, c) = Draw(Place("output", b, r, c))
    <3>1. \A b, r, c : Within(k.out, b, r, c) =>
            Element(N, k.out, b, r, c) = Draw(Place(k.out, b, r, c))
      BY <2>3, FillDoes
    <3>2. QED BY <2>3, <3>1
  <2>5. \A b, r, c : Place("output", b, r, c) =
                       Padded(pass.cols) * (pass.rows * b + r) + c
    BY <1>1 DEF Place
  <2>6. QED BY <1>6, <2>3, <2>4, <2>5, ExpectedOfKernel DEF Exactly
<1>7. CASE pass.kind = "VectorInitializer"
  <2>1. Program = Call("Assign", "data", "data", "output")
    BY <1>3, <1>7 DEF Initialize
  <2>2. PICK k : k = [op |-> "Assign", a |-> "data", b |-> "data",
                      out |-> "output"]
    OBVIOUS
  <2>3. /\ Performed(k, Before, N) /\ Results = {"output"}
        /\ k.op = "Assign" /\ k.out = "output" /\ k.a # k.out
    BY <1>4, <2>1, <2>2
  <2>4. \A b, r, c : Within("output", b, r, c) =>
          Element(N, "output", b, r, c) = Datum(Index("output", b, r, c))
    <3>1. \A b, r, c : Within(k.out, b, r, c) =>
            Element(N, k.out, b, r, c) = Datum(Index(k.out, b, r, c))
      <4>1. PICK M : M = Before
        OBVIOUS
      <4>2. Performed(k, M, N)
        BY <2>3, <4>1
      <4>3. QED BY <2>3, <4>2, AssignDoes
    <3>2. QED BY <2>3, <3>1
  <2>5. \A b, r, c : Index("output", b, r, c) =
                       pass.cols * (pass.rows * b + r) + c
    BY <1>1 DEF Index
  <2>6. QED BY <1>7, <2>3, <2>4, <2>5, ExpectedOfKernel DEF Exactly
<1>8. QED BY <1>5, <1>6, <1>7 DEF Initializers

(* The product of the operands as they were before the pass. *)
LEMMA ProductBefore ==
  ASSUME pass \in Passes, "input" \in Tensors, "weight" \in Tensors,
         NEW k, k.a = "input", k.b = "weight",
         NEW b, NEW r, NEW c, Within("output", b, r, c)
  PROVE  ProductResult(k, Before, b, r, c) = Product(b, r, c)
<1>1. /\ Layout("input") = <<pass.rows, pass.mid, BatchA>>
      /\ Layout("weight") = <<pass.mid, pass.cols, BatchB>>
      /\ Layout("output") = <<pass.rows, pass.cols, pass.batch>>
  BY Shapes DEF Batched
<1>2. /\ Samples("input") = 0 .. BatchA - 1
      /\ Rows("input") = 0 .. pass.rows - 1
      /\ Columns("input") = 0 .. pass.mid - 1
      /\ Samples("weight") = 0 .. BatchB - 1
      /\ Rows("weight") = 0 .. pass.mid - 1
      /\ Columns("weight") = 0 .. pass.cols - 1
      /\ BatchSize("input") = BatchA /\ BatchSize("weight") = BatchB
      /\ NumRow("weight") = pass.mid
  BY <1>1 DEF Samples, Rows, Columns, NumRow, NumCol, BatchSize
<1>3. /\ b \in 0 .. pass.batch - 1 /\ r \in 0 .. pass.rows - 1
      /\ c \in 0 .. pass.cols - 1
  BY <1>1 DEF Within, Samples, Rows, Columns, NumRow, NumCol, BatchSize
<1>4. BatchA \in {1, pass.batch} /\ BatchB \in {1, pass.batch}
  BY DEF BatchA, BatchB
<1>5. pass.mid \in Nat
  BY PassFacts
<1>6. ASSUME NEW n \in 1 .. pass.mid
      PROVE  /\ Element(Before, "input", b, r, n - 1) =
                  Ref("input", b, r, n - 1)
             /\ Element(Before, "weight", b, n - 1, c) =
                  Ref("weight", b, n - 1, c)
  <2>1. n - 1 \in 0 .. pass.mid - 1
    BY <1>5
  <2>2. Element(Before, "input", b, r, n - 1) = Ref("input", b, r, n - 1)
    BY <1>2, <1>3, <1>4, <2>1, BeforeIs
  <2>3. Element(Before, "weight", b, n - 1, c) = Ref("weight", b, n - 1, c)
    BY <1>2, <1>3, <1>4, <2>1, BeforeIs
  <2>4. QED BY <2>2, <2>3
<1> DEFINE X(n) == Times(Element(Before, "input", b, r, n - 1),
                         Element(Before, "weight", b, n - 1, c))
           Y(n) == Times(Ref("input", b, r, n - 1),
                         Ref("weight", b, n - 1, c))
<1>7. \A n \in 1 .. pass.mid : X(n) = Y(n)
  BY <1>6
<1>8. ProductResult(k, Before, b, r, c) =
        AddUp(Zero, [n \in 1 .. pass.mid |-> X(n)])
  BY <1>2 DEF ProductResult
<1>9. Product(b, r, c) = AddUp(Zero, [n \in 1 .. pass.mid |-> Y(n)])
  BY ProductIs
<1> HIDE DEF X, Y
<1>10. [n \in 1 .. pass.mid |-> X(n)] = [n \in 1 .. pass.mid |-> Y(n)]
  BY <1>7
<1>11. QED BY <1>8, <1>9, <1>10

LEMMA MultiplyExact ==
  ASSUME pass \in Passes, ~Deviates, pass.kind = "Multiply",
         NEW N, Leads(Program, Before, N)
  PROVE  Exactly(N)
<1>1. /\ Program = Call("Multiply", "input", "weight", "output")
      /\ ~BackwardOfDense
  <2>1. Program = KernelAlone
    BY DEF Program, Kernels, Initializers
  <2>2. QED BY <2>1 DEF KernelAlone, BackwardOfDense
<1>2. PICK k : k = [op |-> "Multiply", a |-> "input", b |-> "weight",
                    out |-> "output"]
  OBVIOUS
<1>3. k.op = "Multiply" /\ k.a = "input" /\ k.b = "weight" /\ k.out = "output"
  BY <1>2
<1>4. Results = {"output"}
  BY <1>1, OnlyOutput, AllNames, NamesKnown
<1>5. Performed(k, Before, N)
  BY <1>1, <1>2, LeadsOne
<1>6. /\ BatchSize("input") = BatchA /\ BatchSize("weight") = BatchB
      /\ BatchSize("output") = pass.batch
  BY Shapes DEF Batched, BatchSize
<1>7. Spread(k)
  BY <1>3, <1>6 DEF Spread, BatchA, BatchB
<1>8. "input" \notin Scalars /\ "weight" \notin Scalars
  BY DEF Scalars
<1>9. "input" \in Tensors /\ "weight" \in Tensors
  BY <1>3, <1>5, <1>8, OthersKept
<1>10. \A b, r, c : Within("output", b, r, c) =>
         Element(N, "output", b, r, c) = ProductResult(k, Before, b, r, c)
  <2>1. \A b, r, c : Within(k.out, b, r, c) =>
          Element(N, k.out, b, r, c) = ProductResult(k, Before, b, r, c)
    BY <1>3, <1>5, <1>7, <1>8, MultiplyDoes
  <2>2. QED BY <1>3, <2>1
<1>11. \A b, r, c : Within("output", b, r, c) =>
         ProductResult(k, Before, b, r, c) = Product(b, r, c)
  BY <1>3, <1>9, ProductBefore
<1>12. QED BY <1>4, <1>10, <1>11, ExpectedOfKernel DEF Exactly

LEMMA ShrinkSumDoes ==
  ASSUME pass \in Passes, NEW k, k.op = "ShrinkSum", NEW M, NEW N,
         Performed(k, M, N), k.a \notin Scalars, k.a # k.out,
         SameMatrix(k.a, k.out), BatchSize(k.out) = 1
  PROVE  \A b, r, c : Within(k.out, b, r, c) =>
           Element(N, k.out, b, r, c) = ShrinkTo(k, M, r, c, BatchSize(k.a))
<1>1. Shaped(k) /\ Determined(k)
  BY KindsApart DEF Shaped, Determined
<1>2. QED BY <1>1, PerformedIs, ResultIs

LEMMA ShrinkDivideDoes ==
  ASSUME pass \in Passes, NEW t, NEW x, NEW M, NEW N, NEW k,
         k = [op |-> "ShrinkDivide", a |-> t, b |-> x, out |-> t],
         Performed(k, M, N), t \notin Scalars, BatchSize(t) = 1
  PROVE  \A b, r, c : Within(t, b, r, c) =>
           Element(N, t, b, r, c) = Over(Element(M, t, b, r, c), Scalar(x))
<1>1. k.op = "ShrinkDivide" /\ k.a = t /\ k.b = x /\ k.out = t
  OBVIOUS
<1>2. Shaped(k) /\ Determined(k)
  BY <1>1, KindsApart DEF Shaped, Determined
<1>3. \A b, r, c : Within(k.out, b, r, c) =>
        Element(N, k.out, b, r, c) = Result(k, M, b, r, c)
  BY <1>2, PerformedIs
<1>4. \A b, r, c : Result(k, M, b, r, c) =
                     Over(Element(M, t, b, r, c), Scalar(x))
  BY <1>1, ResultIs
<1>5. QED BY <1>1, <1>3, <1>4

(* The mean of element (r, c) of the samples of t, on top of x. *)
MeanOn(x, M, t, r, c) ==
  Over(AddBefore(x, [n \in 1 .. BatchSize(t) |-> Element(M, t, n - 1, r, c)]),
       Scalar("batch"))

LEMMA ShrinkDoes ==
  ASSUME pass \in Passes, NEW t \in Names \ {"loss"},
         NEW mean \in Names \ {"loss"}, t \notin Scalars,
         mean \notin Scalars, t # mean, SameMatrix(t, mean),
         BatchSize(mean) = 1, NEW M, NEW N, Leads(Shrink(t, mean), M, N)
  PROVE  /\ \A b, r, c : Within(mean, b, r, c) =>
              Element(N, mean, b, r, c) =
                MeanOn(Element(M, mean, b, r, c), M, t, r, c)
         /\ \A u \in Tensors \ {mean} :
              /\ N[u] = M[u]
              /\ \A b, r, c : Element(N, u, b, r, c) = Element(M, u, b, r, c)
         /\ t \in Tensors /\ mean \in Tensors
<1>1. PICK j, k :
        /\ j = [op |-> "ShrinkSum", a |-> t, b |-> mean, out |-> mean]
        /\ k = [op |-> "ShrinkDivide", a |-> mean, b |-> "batch",
                out |-> mean]
  OBVIOUS
<1>2. /\ j.op = "ShrinkSum" /\ j.a = t /\ j.out = mean
      /\ k.op = "ShrinkDivide" /\ k.a = mean /\ k.b = "batch"
      /\ k.out = mean
  BY <1>1
<1>3. "ShrinkSum" \in Functions /\ "ShrinkDivide" \in Functions
  BY DEF Functions
<1>4. "batch" \in Names \ {"loss"}
  BY AllNames
<1>5. /\ Call("ShrinkSum", t, mean, mean) \in Seq(Quiet)
      /\ Call("ShrinkDivide", mean, "batch", mean) \in Seq(Quiet)
  BY <1>3, <1>4, QuietCall
<1>6. PICK L : /\ Leads(Call("ShrinkSum", t, mean, mean), M, L)
               /\ Performed(k, L, N)
  BY <1>1, <1>5, LeadsThen DEF Shrink
<1>7. Performed(j, M, L)
  BY <1>1, <1>6, LeadsOne
<1>8. \A u \in Tensors \ {mean} : N[u] = M[u]
  <2>1. \A u \in Tensors \ {mean} : L[u] = M[u]
    BY <1>2, <1>7, OthersKept
  <2>2. \A u \in Tensors \ {mean} : N[u] = L[u]
    BY <1>2, <1>6, OthersKept
  <2>3. QED BY <2>1, <2>2
<1>9. t \in Tensors /\ mean \in Tensors
  BY <1>2, <1>7, OthersKept
<1>10. ASSUME NEW b, NEW r, NEW c, Within(mean, b, r, c)
       PROVE  Element(N, mean, b, r, c) =
                MeanOn(Element(M, mean, b, r, c), M, t, r, c)
  <2>1. Element(L, mean, b, r, c) = ShrinkTo(j, M, r, c, BatchSize(t))
    <3>1. /\ j.op = "ShrinkSum" /\ j.a \notin Scalars /\ j.a # j.out
          /\ SameMatrix(j.a, j.out) /\ BatchSize(j.out) = 1
      BY <1>2
    <3>2. \A b2, r2, c2 : Within(j.out, b2, r2, c2) =>
            Element(L, j.out, b2, r2, c2) =
              ShrinkTo(j, M, r2, c2, BatchSize(j.a))
      BY <1>7, <3>1, ShrinkSumDoes
    <3>3. QED BY <1>2, <1>10, <3>2
  <2>2. Element(N, mean, b, r, c) =
          Over(Element(L, mean, b, r, c), Scalar("batch"))
    BY <1>1, <1>6, <1>10, ShrinkDivideDoes
  <2>3. M[mean][Place(mean, 0, r, c)] = Element(M, mean, b, r, c)
    BY DEF Element
  <2>4. ShrinkTo(j, M, r, c, BatchSize(t)) =
          AddBefore(Element(M, mean, b, r, c),
                    [i \in 1 .. BatchSize(t) |-> Element(M, t, i - 1, r, c)])
    BY <1>2, <2>3 DEF ShrinkTo
  <2>5. QED BY <2>1, <2>2, <2>4 DEF MeanOn
<1>11. QED BY <1>8, <1>9, <1>10, ElementKept

LEMMA ShrinkExact ==
  ASSUME pass \in Passes, ~Deviates, pass.kind = "Shrink",
         NEW N, Leads(Program, Before, N)
  PROVE  Exactly(N)
<1>1. /\ Program = Shrink("left", "mean") /\ ~BackwardOfDense
  <2>1. Program = KernelAlone
    BY DEF Program, Kernels, Initializers
  <2>2. QED BY <2>1 DEF KernelAlone, BackwardOfDense
<1>2. "left" \in Names \ {"loss"} /\ "mean" \in Names \ {"loss"}
  BY AllNames
<1>3. "left" \notin Scalars /\ "mean" \notin Scalars
  BY DEF Scalars
<1>4. /\ Layout("left") = <<pass.rows, pass.cols, BatchA>>
      /\ Layout("mean") = <<pass.rows, pass.cols, 1>>
      /\ BatchA = pass.batch
  BY Shapes, PassShapes DEF BatchA
<1>5. /\ SameMatrix("left", "mean") /\ BatchSize("mean") = 1
      /\ BatchSize("left") = pass.batch
  BY <1>4 DEF SameMatrix, NumRow, NumCol, BatchSize
<1>6. /\ \A b, r, c : Within("mean", b, r, c) =>
           Element(N, "mean", b, r, c) =
             MeanOn(Element(Before, "mean", b, r, c), Before, "left", r, c)
      /\ "left" \in Tensors /\ "mean" \in Tensors
  BY <1>1, <1>2, <1>3, <1>5, ShrinkDoes
<1>7. Results = {"mean"}
  <2>1. "ShrinkSum" \in Functions /\ "ShrinkDivide" \in Functions
    BY DEF Functions
  <2>2. "batch" \in Names \ {"loss"}
    BY AllNames
  <2>3. /\ Call("ShrinkSum", "left", "mean", "mean") \in Seq(Quiet)
        /\ Call("ShrinkDivide", "mean", "batch", "mean") \in Seq(Quiet)
    BY <1>2, <2>1, <2>2, QuietCall
  <2>4. QED BY <1>1, <2>3, LastOutput DEF Shrink
<1>8. ASSUME NEW b, NEW r, NEW c, Within("mean", b, r, c)
      PROVE  Element(N, "mean", b, r, c) = Expected("mean", b, r, c)
  <2>1. /\ r \in Rows("mean") /\ c \in Columns("mean")
        /\ r \in Rows("left") /\ c \in Columns("left")
        /\ b = 0
    BY <1>5, <1>8 DEF Within, SameMatrix, Rows, Columns, Samples
  <2>2. Element(Before, "mean", b, r, c) = Ref("mean", 0, r, c)
    BY <1>5, <1>6, <2>1, BeforeIs
  <2>3. pass.batch \in Nat
    BY PassFacts
  <2>4. ASSUME NEW n \in 1 .. pass.batch
        PROVE  Element(Before, "left", n - 1, r, c) = Ref("left", n - 1, r, c)
    <3>1. n - 1 \in Samples("left")
      BY <1>5, <2>3 DEF Samples
    <3>2. QED BY <1>6, <2>1, <3>1, BeforeIs
  <2> DEFINE X(n) == Element(Before, "left", n - 1, r, c)
             Y(n) == Ref("left", n - 1, r, c)
  <2>5. MeanOn(Element(Before, "mean", b, r, c), Before, "left", r, c) =
          Over(AddBefore(Ref("mean", 0, r, c),
                         [n \in 1 .. pass.batch |-> X(n)]), Scalar("batch"))
    BY <1>5, <2>2 DEF MeanOn
  <2>6. Expected("mean", b, r, c) =
          Over(AddBefore(Ref("mean", 0, r, c),
                         [n \in 1 .. pass.batch |-> Y(n)]), Scalar("batch"))
    BY ExpectedOfShrink
  <2>7. \A n \in 1 .. pass.batch : X(n) = Y(n)
    BY <2>4
  <2> HIDE DEF X, Y
  <2>8. [n \in 1 .. pass.batch |-> X(n)] = [n \in 1 .. pass.batch |-> Y(n)]
    BY <2>7
  <2>9. QED BY <1>6, <1>8, <2>5, <2>6, <2>8
<1>9. QED BY <1>7, <1>8 DEF Exactly

-----------------------------------------------------------------------------
(* Calls of a unit one after another.                                      *)

(* A step of two: the first changes t alone, then so does the second. *)
LEMMA ChangesChain ==
  ASSUME NEW t, NEW L, NEW M, NEW N,
         OnlyChanges(t, L, M), OnlyChanges(t, M, N)
  PROVE  OnlyChanges(t, L, N)
BY DEF OnlyChanges

-----------------------------------------------------------------------------
(* The sum of the gradients, and their mean.                               *)

LEMMA QuietNames ==
  {"input", "label", "prediction", "gradient1", "gradient2", "weight", "bias",
   "output", "delta", "backwardTemp", "backwardOutput", "weightTranspose",
   "previousInputTranspose", "weightUpdate", "weightUpdateMean",
   "biasUpdateMean", "consumers", "epsilon", "0", "2"}
    \subseteq Names \ {"loss"}
BY DEF Names, Internal, Operands, Scalars

LEMMA AddGradient ==
  ASSUME pass \in Passes, NEW t \in {"delta", "backwardTemp"},
         NEW g \in {"gradient1", "gradient2"}, NEW M, NEW N, NEW k,
         k = [op |-> "Add", a |-> t, b |-> g, out |-> t], Performed(k, M, N)
  PROVE  /\ \A b, r, c : Within(t, b, r, c) =>
              Element(N, t, b, r, c) =
                Plus(Element(M, t, b, r, c), Element(M, g, b, r, c))
         /\ OnlyChanges(t, M, N) /\ g \in Tensors /\ SameLayout(g, t)
<1>1. t \notin Scalars /\ g \notin Scalars
  BY DEF Scalars
<1>2. Layout(t) = Layout(g)
  BY Shapes DEF Batched
<1>3. SameLayout(t, t) /\ SameLayout(g, t)
  BY <1>2 DEF SameLayout, SameMatrix, NumRow, NumCol, BatchSize
<1>4. "Add" \in Binary /\ Sign("Add") = "+"
  BY DEF Binary, Sign
<1>5. \A b, r, c : Within(t, b, r, c) =>
        Element(N, t, b, r, c) =
          <<Sign("Add"), Element(M, t, b, r, c), Element(M, g, b, r, c)>>
  BY <1>1, <1>3, <1>4, PlainBinaryCall
<1>6. OnlyChanges(t, M, N) /\ g \in Tensors
  BY <1>1, CallKeeps
<1>7. QED BY <1>3, <1>4, <1>5, <1>6 DEF Plus

LEMMA ClearTensor ==
  ASSUME pass \in Passes, NEW t, NEW M, NEW N,
         Leads(Call("Set", "0", "0", t), M, N)
  PROVE  /\ \A b, r, c : Within(t, b, r, c) =>
              Element(N, t, b, r, c) = Zero
         /\ OnlyChanges(t, M, N)
<1>1. PICK k : k = [op |-> "Set", a |-> "0", b |-> "0", out |-> t]
  OBVIOUS
<1>2. k.op = "Set" /\ k.a = "0" /\ k.out = t
  BY <1>1
<1>3. Performed(k, M, N)
  BY <1>1, LeadsOne
<1>4. \A b, r, c : Within(k.out, b, r, c) =>
        Element(N, k.out, b, r, c) = Scalar(k.a)
  BY <1>2, <1>3, SetDoes
<1>5. OnlyChanges(t, M, N)
  BY <1>1, <1>3, CallKeeps
<1>6. QED BY <1>2, <1>4, <1>5 DEF Zero

LEMMA GradientSumIs ==
  ASSUME NEW b, NEW r, NEW c
  PROVE  /\ Gradients = <<"gradient1">> =>
              GradientSum(b, r, c) = Plus(Zero, Ref("gradient1", b, r, c))
         /\ Gradients = <<"gradient1", "gradient2">> =>
              GradientSum(b, r, c) =
                Plus(Plus(Zero, Ref("gradient1", b, r, c)),
                     Ref("gradient2", b, r, c))
<1> DEFINE R(n) == Ref(Gradients[n], b, r, c)
           x(n) == [i \in 1 .. n |-> R(i)]
<1>1. GradientSum(b, r, c) = AddUp(Zero, [n \in DOMAIN Gradients |-> R(n)])
  BY DEF GradientSum
<1>2. /\ Gradients = <<"gradient1">> =>
           DOMAIN Gradients = 1 .. 1 /\ R(1) = Ref("gradient1", b, r, c)
      /\ Gradients = <<"gradient1", "gradient2">> =>
           /\ DOMAIN Gradients = 1 .. 2 /\ R(1) = Ref("gradient1", b, r, c)
           /\ R(2) = Ref("gradient2", b, r, c)
  OBVIOUS
<1> HIDE DEF R
<1>3. ASSUME NEW n \in Nat
      PROVE  AddUp(Zero, x(n + 1)) = Plus(AddUp(Zero, x(n)), R(n + 1))
  <2>1. n + 1 \in 1 .. n + 1 /\ \A i \in 1 .. n : i \in 1 .. n + 1
    OBVIOUS
  <2>2. /\ DOMAIN x(n + 1) = 1 .. n + 1 /\ DOMAIN x(n) = 1 .. n
        /\ \A i \in 1 .. n : x(n)[i] = x(n + 1)[i]
        /\ x(n + 1)[n + 1] = R(n + 1)
    BY <2>1
  <2> HIDE DEF x
  <2>3. QED BY <2>2, AddOneMore
<1>4. AddUp(Zero, x(0)) = Zero
  BY AddNothing
<1>5. AddUp(Zero, x(1)) = Plus(Zero, R(1))
  <2>1. AddUp(Zero, x(0 + 1)) = Plus(AddUp(Zero, x(0)), R(0 + 1))
    BY <1>3
  <2> HIDE DEF x
  <2>2. 0 + 1 = 1
    OBVIOUS
  <2>3. QED BY <1>4, <2>1, <2>2
<1>6. AddUp(Zero, x(2)) = Plus(Plus(Zero, R(1)), R(2))
  <2>1. AddUp(Zero, x(1 + 1)) = Plus(AddUp(Zero, x(1)), R(1 + 1))
    BY <1>3
  <2> HIDE DEF x
  <2>2. 1 + 1 = 2
    OBVIOUS
  <2>3. QED BY <1>5, <2>1, <2>2
<1>7. CASE Gradients = <<"gradient1">>
  <2>1. [n \in DOMAIN Gradients |-> R(n)] = x(1)
    BY <1>2, <1>7
  <2>2. Gradients # <<"gradient1", "gradient2">>
    BY <1>7
  <2> HIDE DEF x
  <2>3. QED BY <1>1, <1>2, <1>5, <1>7, <2>1, <2>2
<1>8. CASE Gradients = <<"gradient1", "gradient2">>
  <2>1. [n \in DOMAIN Gradients |-> R(n)] = x(2)
    BY <1>2, <1>8
  <2>2. Gradients # <<"gradient1">>
    BY <1>8
  <2> HIDE DEF x
  <2>3. QED BY <1>1, <1>2, <1>6, <1>8, <2>1, <2>2
<1>9. QED BY <1>7, <1>8

LEMMA SumGradientsDoes ==
  ASSUME pass \in Passes, NEW t \in {"delta", "backwardTemp"}, NEW N,
         Leads(SumGradients(t), Before, N)
  PROVE  /\ \A b, r, c : Within(t, b, r, c) =>
              Element(N, t, b, r, c) = GradientSum(b, r, c)
         /\ OnlyChanges(t, Before, N)
<1>1. PICK s : s = Call("Set", "0", "0", t)
  OBVIOUS
<1>2. PICK j, k : /\ j = [op |-> "Add", a |-> t, b |-> "gradient1", out |-> t]
                  /\ k = [op |-> "Add", a |-> t, b |-> "gradient2", out |-> t]
  OBVIOUS
<1>3. /\ s \in Seq(Quiet)
      /\ Call("Add", t, "gradient1", t) \in Seq(Quiet)
      /\ Call("Add", t, "gradient2", t) \in Seq(Quiet)
  <2>1. "Set" \in Functions /\ "Add" \in Functions
    BY DEF Functions
  <2>2. {"0", "delta", "backwardTemp", "gradient1", "gradient2"}
          \subseteq Names \ {"loss"}
    BY QuietNames
  <2>3. QED BY <1>1, <2>1, <2>2, QuietCall
<1>4. SumGradients(t) = s \o GradientCalls(t)
  BY <1>1 DEF SumGradients, GradientCalls
<1>5. CASE /\ Gradients = <<"gradient1">>
           /\ GradientCalls(t) = Call("Add", t, "gradient1", t)
  <2>1. PICK L : Leads(s, Before, L) /\ Performed(j, L, N)
    BY <1>2, <1>3, <1>4, <1>5, LeadsThen
  <2>2. /\ \A b, r, c : Within(t, b, r, c) =>
             Element(L, t, b, r, c) = Zero
        /\ OnlyChanges(t, Before, L)
    BY <1>1, <2>1, ClearTensor
  <2>3. /\ \A b, r, c : Within(t, b, r, c) =>
             Element(N, t, b, r, c) =
               Plus(Element(L, t, b, r, c), Element(L, "gradient1", b, r, c))
        /\ OnlyChanges(t, L, N) /\ "gradient1" \in Tensors
        /\ SameLayout("gradient1", t)
    BY <1>2, <2>1, AddGradient
  <2>4. \A b, r, c : Within(t, b, r, c) =>
          Element(L, "gradient1", b, r, c) = Ref("gradient1", b, r, c)
    <3>1. \A b, r, c : Within(t, b, r, c) =>
            Element(Before, "gradient1", b, r, c) = Ref("gradient1", b, r, c)
      BY <2>3, OperandIs DEF SameLayout
    <3>2. "gradient1" # t
      OBVIOUS
    <3>3. QED BY <2>2, <2>3, <3>1, <3>2 DEF OnlyChanges
  <2>5. OnlyChanges(t, Before, N)
    BY <2>2, <2>3, ChangesChain
  <2>6. QED BY <1>5, <2>2, <2>3, <2>4, <2>5, GradientSumIs
<1>6. CASE /\ Gradients = <<"gradient1", "gradient2">>
           /\ GradientCalls(t) = Call("Add", t, "gradient1", t) \o
                                 Call("Add", t, "gradient2", t)
  <2>1. PICK L, K : /\ Leads(s, Before, L) /\ Performed(j, L, K)
                    /\ Performed(k, K, N)
    <3>1. Call("Add", t, "gradient1", t) \o Call("Add", t, "gradient2", t)
            \in Seq(Quiet)
      BY <1>3, ConcatProperties
    <3>2. PICK L : /\ Leads(s, Before, L)
                   /\ Leads(Call("Add", t, "gradient1", t) \o
                            Call("Add", t, "gradient2", t), L, N)
      BY <1>3, <1>4, <1>6, <3>1, LeadsInParts
    <3>3. PICK K : /\ Leads(Call("Add", t, "gradient1", t), L, K)
                   /\ Performed(k, K, N)
      BY <1>2, <1>3, <3>2, LeadsThen
    <3>4. Performed(j, L, K)
      BY <1>2, <3>3, LeadsOne
    <3>5. QED BY <3>2, <3>3, <3>4
  <2>2. /\ \A b, r, c : Within(t, b, r, c) =>
             Element(L, t, b, r, c) = Zero
        /\ OnlyChanges(t, Before, L)
    BY <1>1, <2>1, ClearTensor
  <2>3. /\ \A b, r, c : Within(t, b, r, c) =>
             Element(K, t, b, r, c) =
               Plus(Element(L, t, b, r, c), Element(L, "gradient1", b, r, c))
        /\ OnlyChanges(t, L, K) /\ "gradient1" \in Tensors
        /\ SameLayout("gradient1", t)
    BY <1>2, <2>1, AddGradient
  <2>4. /\ \A b, r, c : Within(t, b, r, c) =>
             Element(N, t, b, r, c) =
               Plus(Element(K, t, b, r, c), Element(K, "gradient2", b, r, c))
        /\ OnlyChanges(t, K, N) /\ "gradient2" \in Tensors
        /\ SameLayout("gradient2", t)
    BY <1>2, <2>1, AddGradient
  <2>5. OnlyChanges(t, Before, K) /\ OnlyChanges(t, Before, N)
    BY <2>2, <2>3, <2>4, ChangesChain
  <2>6. "gradient1" # t /\ "gradient2" # t
    OBVIOUS
  <2>7. \A b, r, c : Within(t, b, r, c) =>
          Element(L, "gradient1", b, r, c) = Ref("gradient1", b, r, c)
    <3>1. \A b, r, c : Within(t, b, r, c) =>
            Element(Before, "gradient1", b, r, c) = Ref("gradient1", b, r, c)
      BY <2>3, OperandIs DEF SameLayout
    <3>2. QED BY <2>2, <2>3, <2>6, <3>1 DEF OnlyChanges
  <2>8. \A b, r, c : Within(t, b, r, c) =>
          Element(K, "gradient2", b, r, c) = Ref("gradient2", b, r, c)
    <3>1. \A b, r, c : Within(t, b, r, c) =>
            Element(Before, "gradient2", b, r, c) = Ref("gradient2", b, r, c)
      BY <2>4, OperandIs DEF SameLayout
    <3>2. QED BY <2>4, <2>5, <2>6, <3>1 DEF OnlyChanges
  <2>9. QED BY <1>6, <2>2, <2>3, <2>4, <2>5, <2>7, <2>8, GradientSumIs
<1>7. QED BY <1>5, <1>6, GradientCallsAre

(* The calls that add the gradients up and divide by their number. *)
LEMMA GradientsQuiet ==
  ASSUME pass \in Passes, NEW t \in {"delta", "backwardTemp"}
  PROVE  SumGradients(t) \in Seq(Quiet) /\ MeanGradient(t) \in Seq(Quiet)
<1>1. /\ Call("Set", "0", "0", t) \in Seq(Quiet)
      /\ Call("Add", t, "gradient1", t) \in Seq(Quiet)
      /\ Call("Add", t, "gradient2", t) \in Seq(Quiet)
      /\ Call("ScalarDiv", t, "consumers", t) \in Seq(Quiet)
  <2>1. "Set" \in Functions /\ "Add" \in Functions /\ "ScalarDiv" \in Functions
    BY DEF Functions
  <2>2. {"0", "delta", "backwardTemp", "gradient1", "gradient2", "consumers"}
          \subseteq Names \ {"loss"}
    BY QuietNames
  <2>3. QED BY <2>1, <2>2, QuietCall
<1>2. GradientCalls(t) \in Seq(Quiet)
  <2>1. Call("Add", t, "gradient1", t) \o Call("Add", t, "gradient2", t)
          \in Seq(Quiet)
    BY <1>1, ConcatProperties
  <2>2. QED BY <1>1, <2>1, GradientCallsAre
<1>3. SumGradients(t) = Call("Set", "0", "0", t) \o GradientCalls(t)
  BY DEF SumGradients, GradientCalls
<1>4. SumGradients(t) \in Seq(Quiet)
  BY <1>1, <1>2, <1>3, ConcatProperties
<1>5. MeanGradient(t) = SumGradients(t) \o Call("ScalarDiv", t, "consumers", t)
  BY DEF MeanGradient
<1>6. QED BY <1>1, <1>4, <1>5, ConcatProperties

LEMMA MeanGradientDoes ==
  ASSUME pass \in Passes, NEW t \in {"delta", "backwardTemp"}, NEW N,
         Leads(MeanGradient(t), Before, N)
  PROVE  /\ \A b, r, c : Within(t, b, r, c) =>
              Element(N, t, b, r, c) = Delta(b, r, c)
         /\ OnlyChanges(t, Before, N)
<1>1. PICK k : k = [op |-> "ScalarDiv", a |-> t, b |-> "consumers", out |-> t]
  OBVIOUS
<1>2. Call("ScalarDiv", t, "consumers", t) \in Seq(Quiet)
  <2>1. "ScalarDiv" \in Functions
    BY DEF Functions
  <2>2. {"delta", "backwardTemp", "consumers"} \subseteq Names \ {"loss"}
    BY QuietNames
  <2>3. QED BY <2>1, <2>2, QuietCall
<1>3. MeanGradient(t) = SumGradients(t) \o Call("ScalarDiv", t, "consumers", t)
  BY DEF MeanGradient
<1>4. PICK L : Leads(SumGradients(t), Before, L) /\ Performed(k, L, N)
  BY <1>1, <1>2, <1>3, GradientsQuiet, LeadsThen
<1>5. /\ \A b, r, c : Within(t, b, r, c) =>
           Element(L, t, b, r, c) = GradientSum(b, r, c)
      /\ OnlyChanges(t, Before, L)
  BY <1>4, SumGradientsDoes
<1>6. t \notin Scalars /\ SameLayout(t, t)
  BY DEF Scalars, SameLayout, SameMatrix
<1>7. \A b, r, c : Within(t, b, r, c) =>
        Element(N, t, b, r, c) =
          Over(Element(L, t, b, r, c), Scalar("consumers"))
  BY <1>1, <1>4, <1>6, DivideCall
<1>8. OnlyChanges(t, L, N)
  BY <1>1, <1>4, CallKeeps
<1>9. OnlyChanges(t, Before, N)
  BY <1>5, <1>8, ChangesChain
<1>10. QED BY <1>5, <1>7, <1>9 DEF Delta

-----------------------------------------------------------------------------
(* The units that put out the shape they are given.                        *)

Shaping == (Synchronous \cup Asynchronous) \ OfDense
UnitTensors == Batched \cup {"input", "backwardOutput"}

LEMMA UnitShapes ==
  ASSUME pass \in Passes, pass.kind \in Shaping
  PROVE  /\ pass.mid = pass.cols
         /\ \A t \in UnitTensors :
              /\ Layout(t) = <<pass.rows, pass.cols, pass.batch>>
              /\ NumRow(t) = pass.rows /\ NumCol(t) = pass.cols
              /\ BatchSize(t) = pass.batch /\ t \notin Scalars
         /\ \A t, u \in UnitTensors :
              /\ SameLayout(t, u)
              /\ \A b, r, c : Within(t, b, r, c) <=> Within(u, b, r, c)
<1>1. pass.mid = pass.cols /\ BatchA = pass.batch
  BY PassShapes DEF Shaping, BatchA
<1>2. \A t \in UnitTensors :
        Layout(t) = <<pass.rows, pass.cols, pass.batch>>
  BY <1>1, Shapes DEF UnitTensors
<1>3. \A t \in UnitTensors : t \notin Scalars
  BY DEF UnitTensors, Batched, Scalars
<1>4. \A t \in UnitTensors :
        /\ NumRow(t) = pass.rows /\ NumCol(t) = pass.cols
        /\ BatchSize(t) = pass.batch
  BY <1>2 DEF NumRow, NumCol, BatchSize
<1>5. \A t, u \in UnitTensors :
        /\ SameLayout(t, u)
        /\ \A b, r, c : Within(t, b, r, c) <=> Within(u, b, r, c)
  BY <1>4 DEF SameLayout, SameMatrix, Within, Samples, Rows, Columns
<1>6. QED BY <1>1, <1>2, <1>3, <1>4, <1>5

LEMMA UnitBefore ==
  ASSUME pass \in Passes, pass.kind \in Shaping,
         NEW t \in UnitTensors, t \in Tensors, NEW u \in UnitTensors
  PROVE  \A b, r, c : Within(u, b, r, c) =>
           Element(Before, t, b, r, c) = Ref(t, b, r, c)
<1>1. SameMatrix(t, u) /\ BatchSize(t) = BatchSize(u)
  BY UnitShapes DEF SameLayout
<1>2. QED BY <1>1, OperandIs

LEMMA ExpectedOfReLU ==
  ASSUME pass.kind \in {"ReLUForward", "ReLUAsyncForward"},
         NEW t, NEW b, NEW r, NEW c
  PROVE  Expected(t, b, r, c) = <<"ReLU", Ref("input", b, r, c)>>
BY DEF Expected, BackwardOfDense, MeanOf, Total, LossOf

LEMMA ExpectedOfSigmoid ==
  ASSUME pass.kind \in {"SigmoidForward", "SigmoidAsyncForward"},
         NEW t, NEW b, NEW r, NEW c
  PROVE  Expected(t, b, r, c) = <<"sigmoid", Ref("input", b, r, c)>>
BY DEF Expected, BackwardOfDense, MeanOf, Total, LossOf

LEMMA ExpectedOfReLUBackward ==
  ASSUME pass.kind \in {"ReLUBackward", "ReLUAsyncBackward"},
         NEW t, NEW b, NEW r, NEW c
  PROVE  Expected(t, b, r, c) =
           Times(Delta(b, r, c), <<"ReLU'", Ref("input", b, r, c)>>)
BY DEF Expected, BackwardOfDense, MeanOf, Total, LossOf

LEMMA ExpectedOfSigmoidBackward ==
  ASSUME pass.kind \in {"SigmoidBackward"},
         NEW t, NEW b, NEW r, NEW c
  PROVE  Expected(t, b, r, c) =
           Times(Delta(b, r, c), <<"sigmoid'", Ref("input", b, r, c)>>)
BY DEF Expected, BackwardOfDense, MeanOf, Total, LossOf

LEMMA ExpectedOfMSEBackward ==
  ASSUME pass.kind \in {"MSEBackward"},
         NEW t, NEW b, NEW r, NEW c
  PROVE  Expected(t, b, r, c) =
           <<"-", Ref("label", b, r, c), Ref("prediction", b, r, c)>>
BY DEF Expected, BackwardOfDense, MeanOf, Total, LossOf

LEMMA ExpectedOfCrossEntropyBackward ==
  ASSUME pass.kind \in {"CrossEntropyBackward",
                        "CrossEntropyAsyncBackward"},
         NEW t, NEW b, NEW r, NEW c
  PROVE  Expected(t, b, r, c) =
           Over(Ref("label", b, r, c), Ref("prediction", b, r, c))
BY DEF Expected, BackwardOfDense, MeanOf, Total, LossOf

LEMMA ExpectedOfSoftMax ==
  ASSUME pass.kind \in {"SoftMaxForward", "SoftMaxAsyncForward"},
         NEW t, NEW b, NEW r, NEW c
  PROVE  Expected(t, b, r, c) = SoftMaxOf(b, r, c)
BY DEF Expected, BackwardOfDense, MeanOf, Total, LossOf

LEMMA ExpectedOfSoftMaxBackward ==
  ASSUME pass.kind \in {"SoftMaxBackward", "SoftMaxAsyncBackward"},
         NEW t, NEW b, NEW r, NEW c
  PROVE  Expected(t, b, r, c) = SoftMaxGradientOf(b, r, c)
BY DEF Expected, BackwardOfDense, MeanOf, Total, LossOf

LEMMA ActivateExact ==
  ASSUME pass \in Passes, ~Deviates,
         pass.kind \in {"ReLUForward", "ReLUAsyncForward",
                        "SigmoidForward", "SigmoidAsyncForward"},
         NEW N, Leads(Program, Before, N)
  PROVE  Exactly(N)
<1>1. PICK f : f = IF pass.kind \in {"ReLUForward", "ReLUAsyncForward"}
                   THEN "ReLU" ELSE "sigmoid"
  OBVIOUS
<1>2. Program = Call(f, "input", "input", "output")
  BY <1>1 DEF Program, Kernels, Initializers, Activate, ReLUForward,
              ReLUAsyncForward, SigmoidForward, SigmoidAsyncForward
<1>3. f \in Functions /\ f \in Applied
  BY <1>1 DEF Functions, Applied
<1>4. pass.kind \in Shaping /\ ~BackwardOfDense
  BY DEF Shaping, Synchronous, Asynchronous, OfDense, BackwardOfDense
<1>5. "input" \in UnitTensors /\ "output" \in UnitTensors
  BY DEF UnitTensors, Batched
<1>6. Results = {"output"}
  BY <1>2, <1>3, <1>4, OnlyOutput, QuietNames
<1>7. PICK k : k = [op |-> f, a |-> "input", b |-> "input", out |-> "output"]
  OBVIOUS
<1>8. Performed(k, Before, N)
  BY <1>2, <1>7, LeadsOne
<1>9. "input" \notin Scalars /\ SameLayout("input", "output")
  BY <1>4, <1>5, UnitShapes
<1>10. \A b, r, c : Within("output", b, r, c) =>
         Element(N, "output", b, r, c) =
           <<f, Element(Before, "input", b, r, c)>>
  BY <1>3, <1>7, <1>8, <1>9, ApplyCall
<1>11. "input" \in Tensors
  BY <1>7, <1>8, <1>9, CallKeeps
<1>12. \A b, r, c : Within("output", b, r, c) =>
         Element(Before, "input", b, r, c) = Ref("input", b, r, c)
  BY <1>4, <1>5, <1>11, UnitBefore
<1>13. ASSUME NEW b, NEW r, NEW c
       PROVE  Expected("output", b, r, c) = <<f, Ref("input", b, r, c)>>
  <2>1. CASE f = "ReLU"
    <3>1. pass.kind \in {"ReLUForward", "ReLUAsyncForward"}
      BY <1>1, <2>1
    <3>2. QED BY <2>1, <3>1, ExpectedOfReLU
  <2>2. CASE f # "ReLU"
    <3>1. pass.kind \in {"SigmoidForward", "SigmoidAsyncForward"}
      BY <1>1, <2>2
    <3>2. f = "sigmoid"
      BY <1>1, <2>2
    <3>3. QED BY <3>1, <3>2, ExpectedOfSigmoid
  <2>3. QED BY <2>1, <2>2
<1>14. QED BY <1>6, <1>10, <1>12, <1>13 DEF Exactly

LEMMA LossGradientExact ==
  ASSUME pass \in Passes, ~Deviates,
         pass.kind \in {"MSEBackward", "CrossEntropyBackward",
                        "CrossEntropyAsyncBackward"},
         NEW N, Leads(Program, Before, N)
  PROVE  Exactly(N)
<1>1. PICK f : f = IF pass.kind = "MSEBackward" THEN "Sub" ELSE "Div"
  OBVIOUS
<1>2. Program = Call(f, "label", "prediction", "backwardOutput")
  BY <1>1 DEF Program, Kernels, Initializers, MSEBackward,
              CrossEntropyBackward, CrossEntropyAsyncBackward
<1>3. /\ f \in Functions /\ f \in Binary
      /\ pass.kind = "MSEBackward" => Sign(f) = "-"
      /\ pass.kind # "MSEBackward" => Sign(f) = "/"
  BY <1>1 DEF Functions, Binary, Sign
<1>4. pass.kind \in Shaping /\ ~BackwardOfDense
  BY DEF Shaping, Synchronous, Asynchronous, OfDense, BackwardOfDense
<1>5. /\ "label" \in UnitTensors /\ "prediction" \in UnitTensors
      /\ "backwardOutput" \in UnitTensors
  BY DEF UnitTensors, Batched
<1>6. Results = {"backwardOutput"}
  BY <1>2, <1>3, <1>4, OnlyOutput, QuietNames
<1>7. PICK k : k = [op |-> f, a |-> "label", b |-> "prediction",
                    out |-> "backwardOutput"]
  OBVIOUS
<1>8. Performed(k, Before, N)
  BY <1>2, <1>7, LeadsOne
<1>9. /\ "label" \notin Scalars /\ SameLayout("label", "backwardOutput")
      /\ "prediction" \notin Scalars
      /\ SameLayout("prediction", "backwardOutput")
  BY <1>4, <1>5, UnitShapes
<1>10. \A b, r, c : Within("backwardOutput", b, r, c) =>
         Element(N, "backwardOutput", b, r, c) =
           <<Sign(f), Element(Before, "label", b, r, c),
             Element(Before, "prediction", b, r, c)>>
  BY <1>3, <1>7, <1>8, <1>9, PlainBinaryCall
<1>11. "label" \in Tensors /\ "prediction" \in Tensors
  BY <1>7, <1>8, <1>9, CallKeeps
<1>12. \A b, r, c : Within("backwardOutput", b, r, c) =>
         /\ Element(Before, "label", b, r, c) = Ref("label", b, r, c)
         /\ Element(Before, "prediction", b, r, c) =
              Ref("prediction", b, r, c)
  BY <1>4, <1>5, <1>11, UnitBefore
<1>13. ASSUME NEW b, NEW r, NEW c
       PROVE  Expected("backwardOutput", b, r, c) =
                <<Sign(f), Ref("label", b, r, c), Ref("prediction", b, r, c)>>
  <2>1. CASE pass.kind = "MSEBackward"
    BY <1>3, <2>1, ExpectedOfMSEBackward
  <2>2. CASE pass.kind # "MSEBackward"
    <3>1. pass.kind \in {"CrossEntropyBackward",
                         "CrossEntropyAsyncBackward"}
      BY <2>2
    <3>2. Expected("backwardOutput", b, r, c) =
            Over(Ref("label", b, r, c), Ref("prediction", b, r, c))
      BY <3>1, ExpectedOfCrossEntropyBackward
    <3>3. QED BY <1>3, <2>2, <3>2 DEF Over
  <2>3. QED BY <2>1, <2>2
<1>14. QED BY <1>6, <1>10, <1>12, <1>13 DEF Exactly

LEMMA DeriveExact ==
  ASSUME pass \in Passes, ~Deviates,
         pass.kind \in {"ReLUBackward", "ReLUAsyncBackward",
                        "SigmoidBackward"},
         NEW N, Leads(Program, Before, N)
  PROVE  Exactly(N)
<1>1. PICK f : f = IF pass.kind = "SigmoidBackward" THEN "sigmoid'"
                   ELSE "ReLU'"
  OBVIOUS
<1>2. PICK x, y, z :
        /\ x = MeanGradient("backwardTemp")
        /\ y = Call(f, "input", "input", "backwardOutput")
        /\ z = Call("Dot", "backwardTemp", "backwardOutput", "backwardOutput")
  OBVIOUS
<1>3. Program = x \o y \o z
  BY <1>1, <1>2
     DEF Program, Kernels, Initializers, Derive, ReLUBackward,
                    ReLUAsyncBackward, SigmoidBackward
<1>4. /\ f \in Functions /\ f \in Applied /\ "Dot" \in Functions
      /\ "Dot" \in Binary /\ Sign("Dot") = "*"
  BY <1>1 DEF Functions, Applied, Binary, Sign
<1>5. pass.kind \in Shaping /\ ~BackwardOfDense
  BY DEF Shaping, Synchronous, Asynchronous, OfDense, BackwardOfDense
<1>6. /\ "input" \in UnitTensors /\ "backwardTemp" \in UnitTensors
      /\ "backwardOutput" \in UnitTensors
  BY DEF UnitTensors, Batched
<1>7. x \in Seq(Quiet) /\ y \in Seq(Quiet) /\ z \in Seq(Quiet)
  BY <1>2, <1>4, GradientsQuiet, QuietCall, QuietNames
<1>8. x \o y \in Seq(Quiet)
  BY <1>7, ConcatProperties
<1>9. Results = {"backwardOutput"}
  BY <1>2, <1>3, <1>5, <1>7, <1>8, LastOutput
<1>10. PICK j, k :
         /\ j = [op |-> f, a |-> "input", b |-> "input",
                 out |-> "backwardOutput"]
         /\ k = [op |-> "Dot", a |-> "backwardTemp", b |-> "backwardOutput",
                 out |-> "backwardOutput"]
  OBVIOUS
<1>11. PICK K, L : /\ Leads(x, Before, K) /\ Performed(j, K, L)
                   /\ Performed(k, L, N)
  <2>1. PICK L : Leads(x \o y, Before, L) /\ Performed(k, L, N)
    BY <1>2, <1>3, <1>7, <1>8, <1>10, LeadsThen
  <2>2. PICK K : Leads(x, Before, K) /\ Performed(j, K, L)
    BY <1>2, <1>7, <1>10, <2>1, LeadsThen
  <2>3. QED BY <2>1, <2>2
<1>12. /\ "input" \notin Scalars /\ "backwardTemp" \notin Scalars
       /\ "backwardOutput" \notin Scalars
       /\ SameLayout("input", "backwardOutput")
       /\ SameLayout("backwardTemp", "backwardOutput")
       /\ SameLayout("backwardOutput", "backwardOutput")
  BY <1>5, <1>6, UnitShapes
<1>13. /\ \A b, r, c : Within("backwardTemp", b, r, c) =>
            Element(K, "backwardTemp", b, r, c) = Delta(b, r, c)
       /\ OnlyChanges("backwardTemp", Before, K)
  BY <1>2, <1>11, MeanGradientDoes
<1>14. \A b, r, c : Within("backwardOutput", b, r, c) =>
         Element(L, "backwardOutput", b, r, c) =
           <<f, Element(K, "input", b, r, c)>>
  BY <1>4, <1>10, <1>11, <1>12, ApplyCall
<1>15. \A b, r, c : Within("backwardOutput", b, r, c) =>
         Element(N, "backwardOutput", b, r, c) =
           <<Sign("Dot"), Element(L, "backwardTemp", b, r, c),
             Element(L, "backwardOutput", b, r, c)>>
  BY <1>4, <1>10, <1>11, <1>12, PlainBinaryCall
<1>16. /\ OnlyChanges("backwardOutput", K, L)
       /\ "input" \in Tensors /\ "backwardTemp" \in Tensors
  BY <1>10, <1>11, <1>12, CallKeeps
<1>17. \A b, r, c : Within("backwardOutput", b, r, c) =>
         /\ Element(K, "input", b, r, c) = Ref("input", b, r, c)
         /\ Element(L, "backwardTemp", b, r, c) = Delta(b, r, c)
  <2>1. \A b, r, c : Within("backwardOutput", b, r, c) =>
          Element(Before, "input", b, r, c) = Ref("input", b, r, c)
    BY <1>5, <1>6, <1>16, UnitBefore
  <2>2. \A b, r, c : Within("backwardOutput", b, r, c) =>
          Within("backwardTemp", b, r, c)
    BY <1>5, <1>6, UnitShapes
  <2>3. \A b, r, c : Element(K, "input", b, r, c) =
                       Element(Before, "input", b, r, c)
    BY <1>13, <1>16 DEF OnlyChanges
  <2>4. \A b, r, c : Element(L, "backwardTemp", b, r, c) =
                       Element(K, "backwardTemp", b, r, c)
    BY <1>16 DEF OnlyChanges
  <2>5. QED BY <1>13, <2>1, <2>2, <2>3, <2>4
<1>18. ASSUME NEW b, NEW r, NEW c
       PROVE  Expected("backwardOutput", b, r, c) =
                <<Sign("Dot"), Delta(b, r, c), <<f, Ref("input", b, r, c)>>>>
  <2>1. CASE pass.kind = "SigmoidBackward"
    BY <1>1, <1>4, <2>1, ExpectedOfSigmoidBackward DEF Times
  <2>2. CASE pass.kind # "SigmoidBackward"
    <3>1. pass.kind \in {"ReLUBackward", "ReLUAsyncBackward"}
      BY <2>2
    <3>2. QED BY <1>1, <1>4, <2>2, <3>1, ExpectedOfReLUBackward DEF Times
  <2>3. QED BY <2>1, <2>2
<1>19. QED BY <1>9, <1>14, <1>15, <1>17, <1>18 DEF Exactly

-----------------------------------------------------------------------------
(* SoftMax.                                                                *)

LEMMA NumberedWithin ==
  ASSUME pass \in Passes, NEW t, NEW b \in Samples(t),
         NEW n \in 1 .. Size(t)
  PROVE  Within(t, b, (n - 1) \div NumCol(t), (n - 1) % NumCol(t))
<1> DEFINE cols == NumCol(t)
           rows == NumRow(t)
           x == n - 1
           r == x \div cols
           c == x % cols
<1>1. rows \in Nat \ {0} /\ cols \in Nat \ {0} /\ Size(t) = rows * cols
      /\ x \in Nat /\ x < Size(t)
  <2>1. Size(t) \in Nat
    BY TensorSizes
  <2>2. QED BY <2>1, TensorSizes DEF Size
<1>2. r \in Nat /\ c \in 0 .. cols - 1 /\ x = cols * r + c
  <2> HIDE DEF cols, x
  <2>1. QED BY <1>1, Division
<1>3. r \in 0 .. rows - 1
  <2> HIDE DEF r, c, rows, cols, x
  <2>1. rows < r => cols * rows + cols <= cols * r
    BY <1>1, <1>2, Scaling
  <2>2. cols * rows \in Nat /\ cols * r \in Nat /\ rows * cols = cols * rows
    BY <1>1, <1>2
  <2>3. x < cols * rows
    BY <1>1, <2>2
  <2>4. ~(rows < r) /\ rows # r
    BY <1>1, <1>2, <2>1, <2>2, <2>3
  <2>5. QED BY <1>1, <1>2, <2>4
<1>4. r \in Rows(t) /\ c \in Columns(t)
  BY <1>2, <1>3 DEF Rows, Columns
<1>5. QED BY <1>4 DEF Within

LEMMA SoftMaxIs ==
  ASSUME pass \in Passes, pass.kind \in Shaping, NEW b, NEW r, NEW c,
         Within("output", b, r, c)
  PROVE  SoftMaxOf(b, r, c) =
           Over(<<"exp", Ref("input", b, r, c)>>,
                AddUp(Zero, [n \in 1 .. pass.rows * pass.cols |->
                  <<"exp", Ref("input", b, (n - 1) \div pass.cols,
                               (n - 1) % pass.cols)>>]))
<1>1. PICK i : i = r * pass.cols + c
  OBVIOUS
<1>2. i \div pass.cols = r /\ i % pass.cols = c
  <2>1. "output" \in UnitTensors
    BY DEF UnitTensors, Batched
  <2>2. NumRow("output") = pass.rows /\ NumCol("output") = pass.cols
    BY <2>1, UnitShapes
  <2>3. /\ pass.cols \in Nat /\ pass.rows \in Nat
        /\ r \in 0 .. pass.rows - 1 /\ c \in 0 .. pass.cols - 1
    BY <2>2, PassFacts DEF Within, Rows, Columns
  <2>4. r \in Nat /\ i = pass.cols * r + c
    BY <1>1, <2>3
  <2>5. QED BY <2>3, <2>4, Quotient
<1>3. SoftMaxOf(b, r, c) =
        Over(<<"exp", Ref("input", b, i \div pass.cols, i % pass.cols)>>,
             AddUp(Zero, [n \in 1 .. pass.rows * pass.cols |->
               <<"exp", Ref("input", b, (n - 1) \div pass.cols,
                            (n - 1) % pass.cols)>>]))
  BY <1>1 DEF SoftMaxOf, Total
<1>4. QED BY <1>2, <1>3

LEMMA SoftMaxForwardExact ==
  ASSUME pass \in Passes, ~Deviates,
         pass.kind \in {"SoftMaxForward", "SoftMaxAsyncForward"},
         NEW N, Leads(Program, Before, N)
  PROVE  Exactly(N)
<1>1. Program = Call("SoftMax", "input", "input", "output")
  BY DEF Program, Kernels, Initializers, SoftMaxForward, SoftMaxAsyncForward
<1>2. pass.kind \in Shaping /\ ~BackwardOfDense
  BY DEF Shaping, Synchronous, Asynchronous, OfDense, BackwardOfDense
<1>3. "input" \in UnitTensors /\ "output" \in UnitTensors
  BY DEF UnitTensors, Batched
<1>4. Results = {"output"}
  <2>1. "SoftMax" \in Functions
    BY DEF Functions
  <2>2. QED BY <1>1, <1>2, <2>1, OnlyOutput, QuietNames
<1>5. PICK k : k = [op |-> "SoftMax", a |-> "input", b |-> "input",
                    out |-> "output"]
  OBVIOUS
<1>6. k.op = "SoftMax" /\ k.a = "input" /\ k.out = "output"
  BY <1>5
<1>7. Performed(k, Before, N)
  BY <1>1, <1>5, LeadsOne
<1>8. /\ "input" \notin Scalars /\ SameLayout("input", "output")
      /\ NumRow("input") = pass.rows /\ NumCol("input") = pass.cols
      /\ "input" \in Tensors
  BY <1>2, <1>3, <1>5, <1>7, UnitShapes, CallKeeps
<1>9. \A b, r, c : Within("output", b, r, c) =>
        Element(N, "output", b, r, c) = SoftMaxResult(k, Before, b, r, c)
  <2>1. k.a \notin Scalars /\ k.a # k.out /\ SameLayout(k.a, k.out)
    BY <1>6, <1>8
  <2>2. \A b, r, c : Within(k.out, b, r, c) =>
          Element(N, k.out, b, r, c) = SoftMaxResult(k, Before, b, r, c)
    BY <1>6, <1>7, <2>1, SoftMaxDoes
  <2>3. QED BY <1>6, <2>2
<1>10. ASSUME NEW b, NEW r, NEW c, Within("output", b, r, c)
       PROVE  SoftMaxResult(k, Before, b, r, c) = Expected("output", b, r, c)
  <2>1. Size("input") = pass.rows * pass.cols
    BY <1>8 DEF Size
  <2>2. Within("input", b, r, c)
    BY <1>2, <1>3, <1>10, UnitShapes
  <2> DEFINE X(n) == <<"exp", Numbered(Before, "input", b, n - 1)>>
             Y(n) == <<"exp", Ref("input", b, (n - 1) \div pass.cols,
                                  (n - 1) % pass.cols)>>
  <2>3. ASSUME NEW n \in 1 .. Size("input")
        PROVE  X(n) = Y(n)
    <3>1. b \in Samples("input")
      BY <2>2 DEF Within
    <3>2. Within("input", b, (n - 1) \div NumCol("input"),
                 (n - 1) % NumCol("input"))
      BY <3>1, NumberedWithin
    <3>3. Element(Before, "input", b, (n - 1) \div NumCol("input"),
                  (n - 1) % NumCol("input")) =
            Ref("input", b, (n - 1) \div NumCol("input"),
                (n - 1) % NumCol("input"))
      BY <1>2, <1>3, <1>8, <3>2, UnitBefore
    <3>4. QED BY <1>8, <3>3 DEF Numbered
  <2>4. Element(Before, "input", b, r, c) = Ref("input", b, r, c)
    BY <1>2, <1>3, <1>8, <1>10, UnitBefore
  <2>5. SoftMaxResult(k, Before, b, r, c) =
          Over(<<"exp", Element(Before, "input", b, r, c)>>,
               AddUp(Zero, [n \in 1 .. Size("input") |-> X(n)]))
    BY <1>6 DEF SoftMaxResult
  <2>6. SoftMaxOf(b, r, c) =
          Over(<<"exp", Ref("input", b, r, c)>>,
               AddUp(Zero, [n \in 1 .. pass.rows * pass.cols |-> Y(n)]))
    BY <1>2, <1>10, SoftMaxIs
  <2> HIDE DEF X, Y
  <2>7. [n \in 1 .. Size("input") |-> X(n)] =
          [n \in 1 .. pass.rows * pass.cols |-> Y(n)]
    BY <2>1, <2>3
  <2>8. QED BY <2>4, <2>5, <2>6, <2>7, ExpectedOfSoftMax
<1>11. QED BY <1>4, <1>9, <1>10 DEF Exactly

LEMMA SoftMaxGradientIs ==
  ASSUME NEW b, NEW r, NEW c
  PROVE  SoftMaxGradientOf(b, r, c) =
           AddUp(Zero, [n \in 1 .. pass.rows * pass.cols |->
             Times(GradientSum(b, (n - 1) \div pass.cols,
                               (n - 1) % pass.cols),
                   <<IF /\ (n - 1) \div pass.cols = r
                        /\ (n - 1) % pass.cols = c THEN "x(1-x)" ELSE "-xy",
                     Ref("output", b, (n - 1) \div pass.cols,
                         (n - 1) % pass.cols),
                     Ref("output", b, r, c)>>)])
BY DEF SoftMaxGradientOf, Total

LEMMA SoftMaxBackwardExact ==
  ASSUME pass \in Passes, ~Deviates,
         pass.kind \in {"SoftMaxBackward", "SoftMaxAsyncBackward"},
         NEW N, Leads(Program, Before, N)
  PROVE  Exactly(N)
<1>1. PICK s : s = SumGradients("backwardTemp")
  OBVIOUS
<1>2. Program = s \o Call("SoftMaxGradient", "backwardTemp", "output",
                          "backwardOutput")
  BY <1>1 DEF Program, Kernels, Initializers, SoftMaxBackward,
              SoftMaxAsyncBackward
<1>3. pass.kind \in Shaping /\ ~BackwardOfDense
  BY DEF Shaping, Synchronous, Asynchronous, OfDense, BackwardOfDense
<1>4. /\ "backwardTemp" \in UnitTensors /\ "output" \in UnitTensors
      /\ "backwardOutput" \in UnitTensors
  BY DEF UnitTensors, Batched
<1>5. /\ s \in Seq(Quiet)
      /\ Call("SoftMaxGradient", "backwardTemp", "output", "backwardOutput")
           \in Seq(Quiet)
  BY <1>1, GradientsQuiet, QuietCall, QuietNames, NamesKnown
<1>6. Results = {"backwardOutput"}
  BY <1>2, <1>3, <1>5, LastOutput
<1>7. PICK k : k = [op |-> "SoftMaxGradient", a |-> "backwardTemp",
                    b |-> "output", out |-> "backwardOutput"]
  OBVIOUS
<1>8. /\ k.op = "SoftMaxGradient" /\ k.a = "backwardTemp"
      /\ k.b = "output" /\ k.out = "backwardOutput"
  BY <1>7
<1>9. PICK L : Leads(s, Before, L) /\ Performed(k, L, N)
  BY <1>2, <1>5, <1>7, LeadsThen
<1>10. /\ "backwardTemp" \notin Scalars /\ "output" \notin Scalars
       /\ SameLayout("backwardTemp", "backwardOutput")
       /\ NumRow("backwardOutput") = pass.rows
       /\ NumCol("backwardOutput") = pass.cols
       /\ NumCol("backwardTemp") = pass.cols
       /\ NumCol("output") = pass.cols
  BY <1>3, <1>4, UnitShapes
<1>11. "output" \in Tensors
  BY <1>7, <1>9, <1>10, CallKeeps
<1>12. /\ \A b, r, c : Within("backwardTemp", b, r, c) =>
            Element(L, "backwardTemp", b, r, c) = GradientSum(b, r, c)
       /\ OnlyChanges("backwardTemp", Before, L)
  BY <1>1, <1>9, SumGradientsDoes
<1>13. \A b, r, c : Within("backwardOutput", b, r, c) =>
         /\ Element(L, "output", b, r, c) = Ref("output", b, r, c)
         /\ Element(L, "backwardTemp", b, r, c) = GradientSum(b, r, c)
  <2>1. \A b, r, c : Within("backwardOutput", b, r, c) =>
          Element(Before, "output", b, r, c) = Ref("output", b, r, c)
    BY <1>3, <1>4, <1>11, UnitBefore
  <2>2. \A b, r, c : Within("backwardOutput", b, r, c) =>
          Within("backwardTemp", b, r, c)
    BY <1>3, <1>4, UnitShapes
  <2>3. \A b, r, c : Element(L, "output", b, r, c) =
                       Element(Before, "output", b, r, c)
    BY <1>11, <1>12 DEF OnlyChanges
  <2>4. QED BY <1>12, <2>1, <2>2, <2>3
<1>14. \A b, r, c : Within("backwardOutput", b, r, c) =>
         Element(N, "backwardOutput", b, r, c) =
           SoftMaxGradientResult(k, L, b, r, c)
  <2>1. /\ k.a \notin Scalars /\ k.a # k.out /\ SameLayout(k.a, k.out)
        /\ k.b \notin Scalars /\ k.b # k.out
    BY <1>8, <1>10
  <2>2. \A b, r, c : Within(k.out, b, r, c) =>
          Element(N, k.out, b, r, c) = SoftMaxGradientResult(k, L, b, r, c)
    BY <1>8, <1>9, <2>1, SoftMaxGradientDoes
  <2>3. QED BY <1>8, <2>2
<1>15. ASSUME NEW b, NEW r, NEW c, Within("backwardOutput", b, r, c)
       PROVE  SoftMaxGradientResult(k, L, b, r, c) =
                Expected("backwardOutput", b, r, c)
  <2>1. Size("backwardOutput") = pass.rows * pass.cols
    BY <1>10 DEF Size
  <2> DEFINE X(n) ==
               Times(Numbered(L, "backwardTemp", b, n - 1),
                     <<IF /\ (n - 1) \div pass.cols = r
                          /\ (n - 1) % pass.cols = c
                       THEN "x(1-x)" ELSE "-xy",
                       Numbered(L, "output", b, n - 1),
                       Element(L, "output", b, r, c)>>)
             Y(n) ==
               Times(GradientSum(b, (n - 1) \div pass.cols,
                                 (n - 1) % pass.cols),
                     <<IF /\ (n - 1) \div pass.cols = r
                          /\ (n - 1) % pass.cols = c
                       THEN "x(1-x)" ELSE "-xy",
                       Ref("output", b, (n - 1) \div pass.cols,
                           (n - 1) % pass.cols),
                       Ref("output", b, r, c)>>)
  <2>2. ASSUME NEW n \in 1 .. Size("backwardOutput")
        PROVE  X(n) = Y(n)
    <3>1. PICK row, col : row = (n - 1) \div pass.cols
                          /\ col = (n - 1) % pass.cols
      OBVIOUS
    <3>2. Within("backwardOutput", b, row, col)
      BY <1>10, <1>15, <3>1, NumberedWithin DEF Within
    <3>3. /\ Numbered(L, "backwardTemp", b, n - 1) = GradientSum(b, row, col)
          /\ Numbered(L, "output", b, n - 1) = Ref("output", b, row, col)
          /\ Element(L, "output", b, r, c) = Ref("output", b, r, c)
      BY <1>10, <1>13, <1>15, <3>1, <3>2 DEF Numbered
    <3>4. QED BY <3>1, <3>3
  <2>3. SoftMaxGradientResult(k, L, b, r, c) =
          AddUp(Zero, [n \in 1 .. Size("backwardOutput") |-> X(n)])
    BY <1>8, <1>10 DEF SoftMaxGradientResult
  <2>4. SoftMaxGradientOf(b, r, c) =
          AddUp(Zero, [n \in 1 .. pass.rows * pass.cols |-> Y(n)])
    BY SoftMaxGradientIs
  <2> HIDE DEF X, Y
  <2>5. [n \in 1 .. Size("backwardOutput") |-> X(n)] =
          [n \in 1 .. pass.rows * pass.cols |-> Y(n)]
    BY <2>1, <2>2
  <2>6. QED BY <2>3, <2>4, <2>5, ExpectedOfSoftMaxBackward
<1>16. QED BY <1>6, <1>14, <1>15 DEF Exactly

-----------------------------------------------------------------------------
(* The losses.                                                             *)

LEMMA KnownCall ==
  ASSUME NEW op \in Functions, NEW a \in Names, NEW b \in Names,
         NEW out \in Names
  PROVE  Call(op, a, b, out) \in Seq(Known)
<1> DEFINE k == [op |-> op, a |-> a, b |-> b, out |-> out]
<1>1. k \in Known
  BY DEF Known
<1>2. Call(op, a, b, out) = <<k>>
  BY DEF Call
<1> HIDE DEF k
<1>3. QED BY <1>1, <1>2

(* The sample, row and column of the n-th element of a unit's output. *)
SampleOf(n) == (n - 1) \div (pass.rows * pass.cols)
RowOf(n) == ((n - 1) \div pass.cols) % pass.rows
ColumnOf(n) == (n - 1) % pass.cols
Elements == 1 .. (pass.rows * pass.cols) * pass.batch

LEMMA ElementsWithin ==
  ASSUME pass \in Passes, pass.kind \in Shaping, NEW n \in Elements
  PROVE  Within("output", SampleOf(n), RowOf(n), ColumnOf(n))
<1>1. "output" \in UnitTensors
  BY DEF UnitTensors, Batched
<1>2. /\ NumRow("output") = pass.rows /\ NumCol("output") = pass.cols
      /\ BatchSize("output") = pass.batch
      /\ Size("output") = pass.rows * pass.cols
  BY <1>1, UnitShapes DEF Size
<1>3. Size("output") * BatchSize("output") \in Nat
  BY TensorSizes
<1>4. n - 1 \in Nat /\ n - 1 < Size("output") * BatchSize("output")
  BY <1>2, <1>3 DEF Elements
<1>5. PICK i : i = n - 1
  OBVIOUS
<1>6. /\ (i \div NumCol("output")) % NumRow("output") \in Rows("output")
      /\ i % NumCol("output") \in Columns("output")
      /\ i \div Size("output") \in Samples("output")
  BY <1>4, <1>5, IndexCovers
<1>7. QED BY <1>2, <1>5, <1>6 DEF Within, SampleOf, RowOf, ColumnOf

LEMMA LossCall ==
  ASSUME pass \in Passes, pass.kind \in Shaping, NEW M, NEW N, NEW k,
         k = [op |-> "Loss", a |-> "output", b |-> "batch", out |-> "loss"],
         Performed(k, M, N)
  PROVE  /\ Element(N, "loss", 0, 0, 0) =
              Over(AddUp(Zero, [n \in Elements |->
                Element(M, "output", SampleOf(n), RowOf(n), ColumnOf(n))]),
                   Scalar("batch"))
         /\ "loss" \in Tensors
         /\ \A b, r, c : Within("loss", b, r, c) =>
              b = 0 /\ r = 0 /\ c = 0
<1>1. k.op = "Loss" /\ k.a = "output" /\ k.b = "batch" /\ k.out = "loss"
  OBVIOUS
<1>2. "output" \notin Scalars /\ "loss" \notin Scalars
  BY DEF Scalars
<1>3. "output" \in UnitTensors
  BY DEF UnitTensors, Batched
<1>4. /\ NumRow("output") = pass.rows /\ NumCol("output") = pass.cols
      /\ BatchSize("output") = pass.batch
      /\ Size("output") = pass.rows * pass.cols
  BY <1>3, UnitShapes DEF Size
<1>5. Layout("loss") = <<1, 1, 1>>
  BY Shapes
<1>6. Element(N, "loss", 0, 0, 0) = LossResult(k, M)
  <2>1. k.a \notin Scalars /\ k.a # k.out /\ Layout(k.out) = <<1, 1, 1>>
    BY <1>1, <1>2, <1>5
  <2>2. Element(N, k.out, 0, 0, 0) = LossResult(k, M)
    BY <1>1, <2>1, LossDoes
  <2>3. QED BY <1>1, <2>2
<1>7. LossResult(k, M) =
        Over(AddUp(Zero, [n \in Elements |->
          Element(M, "output", SampleOf(n), RowOf(n), ColumnOf(n))]),
             Scalar("batch"))
  BY <1>1, <1>4 DEF LossResult, Elements, SampleOf, RowOf, ColumnOf
<1>8. "loss" \in Tensors
  BY <1>2, CallKeeps
<1>9. \A b, r, c : Within("loss", b, r, c) => b = 0 /\ r = 0 /\ c = 0
  BY <1>5 DEF Within, Samples, Rows, Columns, NumRow, NumCol, BatchSize
<1>10. QED BY <1>6, <1>7, <1>8, <1>9

LEMMA ExpectedOfMSE ==
  ASSUME pass.kind \in {"MSEForward", "MSEAsyncForward"},
         NEW t, NEW b, NEW r, NEW c
  PROVE  Expected(t, b, r, c) =
           Over(AddUp(Zero, [n \in Elements |->
             SquaredError(SampleOf(n), RowOf(n), ColumnOf(n))]),
                Scalar("batch"))
<1>1. Expected(t, b, r, c) = LossOf(SquaredError)
  BY DEF Expected, BackwardOfDense, MeanOf, Total, LossOf
<1>2. QED BY <1>1 DEF LossOf, Total, Elements, SampleOf, RowOf, ColumnOf

LEMMA ExpectedOfCrossEntropy ==
  ASSUME pass.kind \in {"CrossEntropyForward", "CrossEntropyAsyncForward"},
         NEW t, NEW b, NEW r, NEW c
  PROVE  Expected(t, b, r, c) =
           Over(AddUp(Zero, [n \in Elements |->
             Surprise(SampleOf(n), RowOf(n), ColumnOf(n))]),
                Scalar("batch"))
<1>1. Expected(t, b, r, c) = LossOf(Surprise)
  BY DEF Expected, BackwardOfDense, MeanOf, Total, LossOf
<1>2. QED BY <1>1 DEF LossOf, Total, Elements, SampleOf, RowOf, ColumnOf

LEMMA MSEForwardExact ==
  ASSUME pass \in Passes, ~Deviates,
         pass.kind \in {"MSEForward", "MSEAsyncForward"},
         NEW N, Leads(Program, Before, N)
  PROVE  Exactly(N)
<1>1. PICK w, x, y, z :
        /\ w = Call("Sub", "label", "prediction", "output")
        /\ x = Call("Dot", "output", "output", "output")
        /\ y = Call("ScalarDiv", "output", "2", "output")
        /\ z = Call("Loss", "output", "batch", "loss")
  OBVIOUS
<1>2. Program = ((w \o x) \o y) \o z
  BY <1>1
     DEF Program, Kernels, Initializers, MSEForward, MSEAsyncForward
<1>3. /\ w \in Seq(Known) /\ x \in Seq(Known) /\ y \in Seq(Known)
      /\ z \in Seq(Known)
  <2>1. {"Sub", "Dot", "ScalarDiv", "Loss"} \subseteq Functions
    BY DEF Functions
  <2>2. {"label", "prediction", "output", "2", "batch", "loss"}
          \subseteq Names
    BY QuietNames, AllNames
  <2>3. QED BY <1>1, <2>1, <2>2, KnownCall
<1>4. w \o x \in Seq(Known) /\ (w \o x) \o y \in Seq(Known)
  BY <1>3, ConcatProperties
<1>5. PICK f, g, h, k :
        /\ f = [op |-> "Sub", a |-> "label", b |-> "prediction",
                out |-> "output"]
        /\ g = [op |-> "Dot", a |-> "output", b |-> "output",
                out |-> "output"]
        /\ h = [op |-> "ScalarDiv", a |-> "output", b |-> "2",
                out |-> "output"]
        /\ k = [op |-> "Loss", a |-> "output", b |-> "batch",
                out |-> "loss"]
  OBVIOUS
<1>6. PICK J, K, L : /\ Performed(f, Before, J) /\ Performed(g, J, K)
                     /\ Performed(h, K, L) /\ Performed(k, L, N)
  <2>1. PICK L : Leads((w \o x) \o y, Before, L) /\ Performed(k, L, N)
    BY <1>1, <1>2, <1>3, <1>4, <1>5, LeadsThen
  <2>2. PICK K : Leads(w \o x, Before, K) /\ Performed(h, K, L)
    BY <1>1, <1>3, <1>4, <1>5, <2>1, LeadsThen
  <2>3. PICK J : Leads(w, Before, J) /\ Performed(g, J, K)
    BY <1>1, <1>3, <1>5, <2>2, LeadsThen
  <2>4. Performed(f, Before, J)
    BY <1>1, <1>5, <2>3, LeadsOne
  <2>5. QED BY <2>1, <2>2, <2>3, <2>4
<1>7. pass.kind \in Shaping /\ ~BackwardOfDense
  BY DEF Shaping, Synchronous, Asynchronous, OfDense, BackwardOfDense
<1>8. {"label", "prediction", "output"} \subseteq UnitTensors
  BY DEF UnitTensors, Batched
<1>9. /\ "label" \notin Scalars /\ "prediction" \notin Scalars
      /\ "output" \notin Scalars /\ SameLayout("label", "output")
      /\ SameLayout("prediction", "output") /\ SameLayout("output", "output")
  BY <1>7, <1>8, UnitShapes
<1>10. /\ "Sub" \in Binary /\ Sign("Sub") = "-"
       /\ "Dot" \in Binary /\ Sign("Dot") = "*"
  BY DEF Binary, Sign
<1>11. \A b, r, c : Within("output", b, r, c) =>
         Element(J, "output", b, r, c) =
           <<Sign("Sub"), Element(Before, "label", b, r, c),
             Element(Before, "prediction", b, r, c)>>
  BY <1>5, <1>6, <1>9, <1>10, PlainBinaryCall
<1>12. \A b, r, c : Within("output", b, r, c) =>
         Element(K, "output", b, r, c) =
           <<Sign("Dot"), Element(J, "output", b, r, c),
             Element(J, "output", b, r, c)>>
  BY <1>5, <1>6, <1>9, <1>10, PlainBinaryCall
<1>13. \A b, r, c : Within("output", b, r, c) =>
         Element(L, "output", b, r, c) =
           Over(Element(K, "output", b, r, c), Scalar("2"))
  BY <1>5, <1>6, <1>9, DivideCall
<1>14. "label" \in Tensors /\ "prediction" \in Tensors
  BY <1>5, <1>6, <1>9, CallKeeps
<1>15. \A b, r, c : Within("output", b, r, c) =>
         /\ Element(Before, "label", b, r, c) = Ref("label", b, r, c)
         /\ Element(Before, "prediction", b, r, c) =
              Ref("prediction", b, r, c)
  BY <1>7, <1>8, <1>14, UnitBefore
<1>16. \A b, r, c : Within("output", b, r, c) =>
         Element(L, "output", b, r, c) = SquaredError(b, r, c)
  BY <1>10, <1>11, <1>12, <1>13, <1>15 DEF SquaredError, Times
<1>17. /\ Element(N, "loss", 0, 0, 0) =
            Over(AddUp(Zero, [n \in Elements |->
              Element(L, "output", SampleOf(n), RowOf(n), ColumnOf(n))]),
                 Scalar("batch"))
       /\ "loss" \in Tensors
       /\ \A b, r, c : Within("loss", b, r, c) => b = 0 /\ r = 0 /\ c = 0
  BY <1>5, <1>6, <1>7, LossCall
<1>18. Results = {"loss"}
  BY <1>7, <1>17 DEF Results
<1> DEFINE X(n) == Element(L, "output", SampleOf(n), RowOf(n), ColumnOf(n))
           Y(n) == SquaredError(SampleOf(n), RowOf(n), ColumnOf(n))
<1>19. \A n \in Elements : X(n) = Y(n)
  BY <1>7, <1>16, ElementsWithin
<1>20. Element(N, "loss", 0, 0, 0) =
         Over(AddUp(Zero, [n \in Elements |-> X(n)]), Scalar("batch"))
  BY <1>17
<1>21. Expected("loss", 0, 0, 0) =
         Over(AddUp(Zero, [n \in Elements |-> Y(n)]), Scalar("batch"))
  BY ExpectedOfMSE
<1> HIDE DEF X, Y
<1>22. [n \in Elements |-> X(n)] = [n \in Elements |-> Y(n)]
  BY <1>19
<1>23. Element(N, "loss", 0, 0, 0) = Expected("loss", 0, 0, 0)
  BY <1>20, <1>21, <1>22
<1>24. QED BY <1>17, <1>18, <1>23 DEF Exactly

LEMMA CrossEntropyForwardExact ==
  ASSUME pass \in Passes, ~Deviates,
         pass.kind \in {"CrossEntropyForward", "CrossEntropyAsyncForward"},
         NEW N, Leads(Program, Before, N)
  PROVE  Exactly(N)
<1>1. PICK x, y, z :
        /\ x = Call("-log", "prediction", "prediction", "output")
        /\ y = Call("Dot", "label", "output", "output")
        /\ z = Call("Loss", "output", "batch", "loss")
  OBVIOUS
<1>2. Program = (x \o y) \o z
  BY <1>1 DEF Program, Kernels, Initializers, CrossEntropyForward,
              CrossEntropyAsyncForward
<1>3. x \in Seq(Known) /\ y \in Seq(Known) /\ z \in Seq(Known)
  <2>1. {"-log", "Dot", "Loss"} \subseteq Functions
    BY DEF Functions
  <2>2. {"label", "prediction", "output", "batch", "loss"} \subseteq Names
    BY QuietNames, AllNames
  <2>3. QED BY <1>1, <2>1, <2>2, KnownCall
<1>4. x \o y \in Seq(Known)
  BY <1>3, ConcatProperties
<1>5. PICK g, h, k :
        /\ g = [op |-> "-log", a |-> "prediction", b |-> "prediction",
                out |-> "output"]
        /\ h = [op |-> "Dot", a |-> "label", b |-> "output",
                out |-> "output"]
        /\ k = [op |-> "Loss", a |-> "output", b |-> "batch",
                out |-> "loss"]
  OBVIOUS
<1>6. PICK K, L : /\ Performed(g, Before, K) /\ Performed(h, K, L)
                  /\ Performed(k, L, N)
  <2>1. PICK L : Leads(x \o y, Before, L) /\ Performed(k, L, N)
    BY <1>1, <1>2, <1>3, <1>4, <1>5, LeadsThen
  <2>2. PICK K : Leads(x, Before, K) /\ Performed(h, K, L)
    BY <1>1, <1>3, <1>5, <2>1, LeadsThen
  <2>3. Performed(g, Before, K)
    BY <1>1, <1>5, <2>2, LeadsOne
  <2>4. QED BY <2>1, <2>2, <2>3
<1>7. pass.kind \in Shaping /\ ~BackwardOfDense
  BY DEF Shaping, Synchronous, Asynchronous, OfDense, BackwardOfDense
<1>8. {"label", "prediction", "output"} \subseteq UnitTensors
  BY DEF UnitTensors, Batched
<1>9. /\ "label" \notin Scalars /\ "prediction" \notin Scalars
      /\ "output" \notin Scalars /\ SameLayout("label", "output")
      /\ SameLayout("prediction", "output") /\ SameLayout("output", "output")
  BY <1>7, <1>8, UnitShapes
<1>10. "Dot" \in Binary /\ Sign("Dot") = "*" /\ "-log" \in Applied
  BY DEF Binary, Sign, Applied
<1>11. \A b, r, c : Within("output", b, r, c) =>
         Element(K, "output", b, r, c) =
           <<"-log", Element(Before, "prediction", b, r, c)>>
  BY <1>5, <1>6, <1>9, <1>10, ApplyCall
<1>12. \A b, r, c : Within("output", b, r, c) =>
         Element(L, "output", b, r, c) =
           <<Sign("Dot"), Element(K, "label", b, r, c),
             Element(K, "output", b, r, c)>>
  BY <1>5, <1>6, <1>9, <1>10, PlainBinaryCall
<1>13. /\ "label" \in Tensors /\ "prediction" \in Tensors
       /\ OnlyChanges("output", Before, K)
  BY <1>5, <1>6, <1>9, CallKeeps
<1>14. \A b, r, c : Element(K, "label", b, r, c) =
                      Element(Before, "label", b, r, c)
  BY <1>13 DEF OnlyChanges
<1>15. \A b, r, c : Within("output", b, r, c) =>
         /\ Element(Before, "label", b, r, c) = Ref("label", b, r, c)
         /\ Element(Before, "prediction", b, r, c) =
              Ref("prediction", b, r, c)
  BY <1>7, <1>8, <1>13, UnitBefore
<1>16. \A b, r, c : Within("output", b, r, c) =>
         Element(L, "output", b, r, c) = Surprise(b, r, c)
  BY <1>10, <1>11, <1>12, <1>14, <1>15 DEF Surprise, Times
<1>17. /\ Element(N, "loss", 0, 0, 0) =
            Over(AddUp(Zero, [n \in Elements |->
              Element(L, "output", SampleOf(n), RowOf(n), ColumnOf(n))]),
                 Scalar("batch"))
       /\ "loss" \in Tensors
       /\ \A b, r, c : Within("loss", b, r, c) => b = 0 /\ r = 0 /\ c = 0
  BY <1>5, <1>6, <1>7, LossCall
<1>18. Results = {"loss"}
  BY <1>7, <1>17 DEF Results
<1> DEFINE X(n) == Element(L, "output", SampleOf(n), RowOf(n), ColumnOf(n))
           Y(n) == Surprise(SampleOf(n), RowOf(n), ColumnOf(n))
<1>19. \A n \in Elements : X(n) = Y(n)
  BY <1>7, <1>16, ElementsWithin
<1>20. Element(N, "loss", 0, 0, 0) =
         Over(AddUp(Zero, [n \in Elements |-> X(n)]), Scalar("batch"))
  BY <1>17
<1>21. Expected("loss", 0, 0, 0) =
         Over(AddUp(Zero, [n \in Elements |-> Y(n)]), Scalar("batch"))
  BY ExpectedOfCrossEntropy
<1> HIDE DEF X, Y
<1>22. [n \in Elements |-> X(n)] = [n \in Elements |-> Y(n)]
  BY <1>19
<1>23. Element(N, "loss", 0, 0, 0) = Expected("loss", 0, 0, 0)
  BY <1>20, <1>21, <1>22
<1>24. QED BY <1>17, <1>18, <1>23 DEF Exactly

-----------------------------------------------------------------------------
(* The fully connected unit.                                               *)

Sized(t, m, n, b) == NumRow(t) = m /\ NumCol(t) = n /\ BatchSize(t) = b

LEMMA DenseShapes ==
  ASSUME pass \in Passes, pass.kind \in OfDense
  PROVE  /\ pass.rows = 1
         /\ Sized("input", 1, pass.mid, pass.batch)
         /\ Sized("backwardOutput", 1, pass.mid, pass.batch)
         /\ Sized("weight", pass.mid, pass.cols, 1)
         /\ Sized("weightUpdateMean", pass.mid, pass.cols, 1)
         /\ Sized("weightUpdate", pass.mid, pass.cols, pass.batch)
         /\ Sized("weightTranspose", pass.cols, pass.mid, 1)
         /\ Sized("previousInputTranspose", pass.mid, 1, pass.batch)
         /\ Sized("bias", 1, pass.cols, 1)
         /\ Sized("biasUpdateMean", 1, pass.cols, 1)
         /\ Sized("output", 1, pass.cols, pass.batch)
         /\ Sized("delta", 1, pass.cols, pass.batch)
         /\ {"input", "backwardOutput", "weight", "weightUpdateMean",
             "weightUpdate", "weightTranspose", "previousInputTranspose",
             "bias", "biasUpdateMean", "output", "delta"} \cap Scalars = {}
<1>1. pass.rows = 1 /\ BatchA = pass.batch /\ BatchB = 1
  BY PassShapes DEF BatchA, BatchB
<1>2. /\ Layout("output") = <<1, pass.cols, pass.batch>>
      /\ Layout("delta") = <<1, pass.cols, pass.batch>>
      /\ Layout("input") = <<1, pass.mid, pass.batch>>
      /\ Layout("backwardOutput") = <<1, pass.mid, pass.batch>>
  BY <1>1, Shapes DEF Batched
<1>3. /\ Layout("weight") = <<pass.mid, pass.cols, 1>>
      /\ Layout("bias") = <<1, pass.cols, 1>>
      /\ Layout("biasUpdateMean") = <<1, pass.cols, 1>>
  BY <1>1, Shapes
<1>4. {"input", "backwardOutput", "weight", "weightUpdateMean",
       "weightUpdate", "weightTranspose", "previousInputTranspose",
       "bias", "biasUpdateMean", "output", "delta"} \cap Scalars = {}
  BY DEF Scalars
<1>5. QED BY <1>1, <1>2, <1>3, <1>4, Shapes
             DEF Sized, NumRow, NumCol, BatchSize

LEMMA ExpectedOfDenseForward ==
  ASSUME pass.kind \in {"DenseForward", "DenseAsyncForward"},
         NEW t, NEW b, NEW r, NEW c
  PROVE  Expected(t, b, r, c) = Plus(Ref("bias", b, r, c), Product(b, r, c))
BY DEF Expected, BackwardOfDense, MeanOf, Total, LossOf

LEMMA DenseForwardExact ==
  ASSUME pass \in Passes, ~Deviates,
         pass.kind \in {"DenseForward", "DenseAsyncForward"},
         NEW N, Leads(Program, Before, N)
  PROVE  Exactly(N)
<1>1. PICK x, y : /\ x = Call("Multiply", "input", "weight", "output")
                  /\ y = Call("Add", "bias", "output", "output")
  OBVIOUS
<1>2. Program = x \o y
  BY <1>1
     DEF Program, Kernels, Initializers, DenseForward, DenseAsyncForward
<1>3. x \in Seq(Quiet) /\ y \in Seq(Quiet)
  <2>1. "Multiply" \in Functions /\ "Add" \in Functions
    BY DEF Functions
  <2>2. QED BY <1>1, <2>1, QuietCall, QuietNames
<1>4. ~BackwardOfDense /\ pass.kind \in OfDense
  BY DEF BackwardOfDense, OfDense
<1>5. Results = {"output"}
  BY <1>1, <1>2, <1>3, <1>4, LastOutput
<1>6. PICK j, k : /\ j = [op |-> "Multiply", a |-> "input", b |-> "weight",
                          out |-> "output"]
                  /\ k = [op |-> "Add", a |-> "bias", b |-> "output",
                          out |-> "output"]
  OBVIOUS
<1>7. PICK L : Performed(j, Before, L) /\ Performed(k, L, N)
  <2>1. PICK L : Leads(x, Before, L) /\ Performed(k, L, N)
    BY <1>1, <1>2, <1>3, <1>6, LeadsThen
  <2>2. Performed(j, Before, L)
    BY <1>1, <1>6, <2>1, LeadsOne
  <2>3. QED BY <2>1, <2>2
<1>8. /\ Sized("input", 1, pass.mid, pass.batch)
      /\ Sized("weight", pass.mid, pass.cols, 1)
      /\ Sized("bias", 1, pass.cols, 1)
      /\ Sized("output", 1, pass.cols, pass.batch)
      /\ "input" \notin Scalars /\ "weight" \notin Scalars
      /\ "bias" \notin Scalars /\ "output" \notin Scalars
  BY <1>4, DenseShapes
<1>9. /\ "input" \in Tensors /\ "weight" \in Tensors /\ "bias" \in Tensors
      /\ OnlyChanges("output", Before, L)
  BY <1>6, <1>7, <1>8, CallKeeps
<1>10. \A b, r, c : Within("output", b, r, c) =>
         Element(L, "output", b, r, c) = Product(b, r, c)
  <2>1. /\ j.op = "Multiply" /\ j.a = "input" /\ j.b = "weight"
        /\ j.out = "output"
    BY <1>6
  <2>2. Spread(j)
    BY <1>8, <2>1 DEF Spread, Sized
  <2>3. j.a \notin Scalars /\ j.b \notin Scalars
    BY <1>8, <2>1
  <2>4. \A b, r, c : Within(j.out, b, r, c) =>
          Element(L, j.out, b, r, c) = ProductResult(j, Before, b, r, c)
    BY <1>7, <2>1, <2>2, <2>3, MultiplyDoes
  <2>5. \A b, r, c : Within("output", b, r, c) =>
          ProductResult(j, Before, b, r, c) = Product(b, r, c)
    BY <1>9, <2>1, ProductBefore
  <2>6. QED BY <2>1, <2>4, <2>5
<1>11. /\ SameMatrix("bias", "output") /\ SameMatrix("output", "output")
       /\ BatchSize("bias") = 1
  BY <1>8 DEF SameMatrix, Sized
<1>12. \A b, r, c : Within("output", b, r, c) =>
         Element(N, "output", b, r, c) =
           <<Sign("Add"), Element(L, "bias", b, r, c),
             Element(L, "output", b, r, c)>>
  <2>1. "Add" \in Binary
    BY DEF Binary
  <2>2. QED BY <1>6, <1>7, <1>8, <1>11, <2>1, BinaryCall
<1>13. \A b, r, c : Within("output", b, r, c) =>
         Element(L, "bias", b, r, c) = Ref("bias", b, r, c)
  <2>1. \A b, r, c : Within("output", b, r, c) =>
          Element(Before, "bias", b, r, c) = Ref("bias", b, r, c)
    BY <1>9, <1>11, OperandIs
  <2>2. \A b, r, c : Element(L, "bias", b, r, c) =
                       Element(Before, "bias", b, r, c)
    BY <1>9 DEF OnlyChanges
  <2>3. QED BY <2>1, <2>2
<1>14. Sign("Add") = "+"
  BY DEF Sign
<1>15. \A b, r, c : Expected("output", b, r, c) =
                      <<"+", Ref("bias", b, r, c), Product(b, r, c)>>
  BY ExpectedOfDenseForward DEF Plus
<1>16. QED BY <1>5, <1>10, <1>12, <1>13, <1>14, <1>15 DEF Exactly

-----------------------------------------------------------------------------
(* Its Backward.                                                           *)

LEMMA OptimizeDoes ==
  ASSUME pass \in Passes, NEW t \in {"weight", "bias"},
         NEW u \in {"weightUpdateMean", "biasUpdateMean"},
         SameLayout(u, t), NEW M, NEW N, Leads(Optimize(t, u), M, N)
  PROVE  /\ \A b, r, c : Within(t, b, r, c) =>
              Element(N, t, b, r, c) =
                Plus(Element(M, t, b, r, c),
                     Times(Element(M, u, b, r, c), Scalar("epsilon")))
         /\ \A v \in Tensors \ {t, u} : \A b, r, c :
              Element(N, v, b, r, c) = Element(M, v, b, r, c)
         /\ t \in Tensors /\ u \in Tensors
<1>1. PICK j, k :
        /\ j = [op |-> "ScalarMul", a |-> u, b |-> "epsilon", out |-> u]
        /\ k = [op |-> "Add", a |-> t, b |-> u, out |-> t]
  OBVIOUS
<1>2. /\ Call("ScalarMul", u, "epsilon", u) \in Seq(Quiet)
      /\ Call("Add", t, u, t) \in Seq(Quiet)
  <2>1. "ScalarMul" \in Functions /\ "Add" \in Functions
    BY DEF Functions
  <2>2. {"weight", "bias", "weightUpdateMean", "biasUpdateMean", "epsilon"}
          \subseteq Names \ {"loss"}
    BY QuietNames
  <2>3. QED BY <2>1, <2>2, QuietCall
<1>3. PICK L : Performed(j, M, L) /\ Performed(k, L, N)
  <2>1. Optimize(t, u) = Call("ScalarMul", u, "epsilon", u) \o
                         Call("Add", t, u, t)
    BY DEF Optimize
  <2>2. PICK L : /\ Leads(Call("ScalarMul", u, "epsilon", u), M, L)
                 /\ Performed(k, L, N)
    BY <1>1, <1>2, <2>1, LeadsThen
  <2>3. Performed(j, M, L)
    BY <1>1, <2>2, LeadsOne
  <2>4. QED BY <2>2, <2>3
<1>4. t \notin Scalars /\ u \notin Scalars /\ t # u
  BY DEF Scalars
<1>5. /\ SameLayout(t, t) /\ SameLayout(u, u)
      /\ \A b, r, c : Within(t, b, r, c) => Within(u, b, r, c)
  BY DEF SameLayout, SameMatrix, Within, Samples, Rows, Columns
<1>6. \A b, r, c : Within(u, b, r, c) =>
        Element(L, u, b, r, c) =
          Times(Element(M, u, b, r, c), Scalar("epsilon"))
  BY <1>1, <1>3, <1>4, <1>5, ScaleCall
<1>7. \A b, r, c : Within(t, b, r, c) =>
        Element(N, t, b, r, c) =
          <<Sign("Add"), Element(L, t, b, r, c), Element(L, u, b, r, c)>>
  <2>1. "Add" \in Binary
    BY DEF Binary
  <2>2. QED BY <1>1, <1>3, <1>4, <1>5, <2>1, PlainBinaryCall
<1>8. OnlyChanges(u, M, L) /\ u \in Tensors
  BY <1>1, <1>3, <1>4, CallKeeps
<1>9. OnlyChanges(t, L, N) /\ t \in Tensors
  BY <1>1, <1>3, <1>4, CallKeeps
<1>10. \A b, r, c : Element(L, t, b, r, c) = Element(M, t, b, r, c)
  BY <1>4, <1>8, <1>9 DEF OnlyChanges
<1>11. \A v \in Tensors \ {t, u} : \A b, r, c :
         Element(N, v, b, r, c) = Element(M, v, b, r, c)
  BY <1>8, <1>9 DEF OnlyChanges
<1>12. Sign("Add") = "+"
  BY DEF Sign
<1>13. QED BY <1>5, <1>6, <1>7, <1>8, <1>9, <1>10, <1>11, <1>12 DEF Plus

(* The memories between the nine steps of Backward. *)
DenseSteps(g, N) ==
  /\ Leads(MeanGradient("delta"), Before, g[1])
  /\ Leads(Call("Transpose", "weight", "weight", "weightTranspose"),
           g[1], g[2])
  /\ Leads(Call("Multiply", "delta", "weightTranspose", "backwardOutput"),
           g[2], g[3])
  /\ Leads(Call("Transpose", "input", "input", "previousInputTranspose"),
           g[3], g[4])
  /\ Leads(Call("Multiply", "previousInputTranspose", "delta",
                "weightUpdate"), g[4], g[5])
  /\ Leads(Shrink("weightUpdate", "weightUpdateMean"), g[5], g[6])
  /\ Leads(Shrink("delta", "biasUpdateMean"), g[6], g[7])
  /\ Leads(Optimize("weight", "weightUpdateMean"), g[7], g[8])
  /\ Leads(Optimize("bias", "biasUpdateMean"), g[8], N)

LEMMA QuietTwo ==
  ASSUME NEW s, NEW x \in Seq(Quiet), NEW y \in Seq(Quiet), s = x \o y
  PROVE  s \in Seq(Quiet)
BY ConcatProperties

LEMMA DenseBackwardSteps ==
  ASSUME pass \in Passes,
         pass.kind \in {"DenseBackward", "DenseAsyncBackward"},
         NEW N, Leads(Program, Before, N)
  PROVE  \E g : DenseSteps(g, N)
<1>1. PICK s1, s2, s3, s4, s5, s6, s7, s8, s9 :
        /\ s1 = MeanGradient("delta")
        /\ s2 = Call("Transpose", "weight", "weight", "weightTranspose")
        /\ s3 = Call("Multiply", "delta", "weightTranspose",
                     "backwardOutput")
        /\ s4 = Call("Transpose", "input", "input",
                     "previousInputTranspose")
        /\ s5 = Call("Multiply", "previousInputTranspose", "delta",
                     "weightUpdate")
        /\ s6 = Shrink("weightUpdate", "weightUpdateMean")
        /\ s7 = Shrink("delta", "biasUpdateMean")
        /\ s8 = Optimize("weight", "weightUpdateMean")
        /\ s9 = Optimize("bias", "biasUpdateMean")
  OBVIOUS
<1>2. Program = (((((((s1 \o s2) \o s3) \o s4) \o s5) \o s6) \o s7) \o s8)
                  \o s9
  <2>1. Program = DenseBackward
    BY DEF Program, Kernels, Initializers, DenseAsyncBackward
  <2>2. QED BY <1>1, <2>1 DEF DenseBackward, MeanGradient
<1>3. /\ s1 \in Seq(Quiet) /\ s2 \in Seq(Quiet) /\ s3 \in Seq(Quiet)
      /\ s4 \in Seq(Quiet) /\ s5 \in Seq(Quiet)
  <2>1. "Transpose" \in Functions /\ "Multiply" \in Functions
    BY NamesKnown
  <2>2. QED BY <1>1, <2>1, GradientsQuiet, QuietCall, QuietNames
<1>4. /\ s6 \in Seq(Quiet) /\ s7 \in Seq(Quiet)
      /\ s8 \in Seq(Quiet) /\ s9 \in Seq(Quiet)
  <2>1. {"ShrinkSum", "ShrinkDivide", "ScalarMul", "Add"} \subseteq Functions
    BY DEF Functions
  <2>2. {"weightUpdate", "weightUpdateMean", "delta", "biasUpdateMean",
         "weight", "bias", "epsilon", "batch"} \subseteq Names \ {"loss"}
    BY DEF Names, Internal, Operands, Scalars
  <2>3. ASSUME NEW t \in {"weightUpdate", "delta"},
               NEW u \in {"weightUpdateMean", "biasUpdateMean"}
        PROVE  Shrink(t, u) \in Seq(Quiet)
    <3>1. /\ Call("ShrinkSum", t, u, u) \in Seq(Quiet)
          /\ Call("ShrinkDivide", u, "batch", u) \in Seq(Quiet)
      BY <2>1, <2>2, QuietCall
    <3>2. QED BY <3>1, QuietTwo DEF Shrink
  <2>4. ASSUME NEW t \in {"weight", "bias"},
               NEW u \in {"weightUpdateMean", "biasUpdateMean"}
        PROVE  Optimize(t, u) \in Seq(Quiet)
    <3>1. /\ Call("ScalarMul", u, "epsilon", u) \in Seq(Quiet)
          /\ Call("Add", t, u, t) \in Seq(Quiet)
      BY <2>1, <2>2, QuietCall
    <3>2. QED BY <3>1, QuietTwo DEF Optimize
  <2>5. QED BY <1>1, <2>3, <2>4
<1>5. PICK p2, p3, p4, p5, p6, p7, p8 :
        /\ p2 = s1 \o s2 /\ p3 = p2 \o s3 /\ p4 = p3 \o s4
        /\ p5 = p4 \o s5 /\ p6 = p5 \o s6 /\ p7 = p6 \o s7
        /\ p8 = p7 \o s8
  OBVIOUS
<1>6. /\ p2 \in Seq(Quiet) /\ p3 \in Seq(Quiet) /\ p4 \in Seq(Quiet)
      /\ p5 \in Seq(Quiet) /\ p6 \in Seq(Quiet) /\ p7 \in Seq(Quiet)
      /\ p8 \in Seq(Quiet)
  <2>1. p2 \in Seq(Quiet)
    BY <1>3, <1>5, QuietTwo
  <2>2. p3 \in Seq(Quiet)
    BY <1>3, <1>5, <2>1, QuietTwo
  <2>3. p4 \in Seq(Quiet)
    BY <1>3, <1>5, <2>2, QuietTwo
  <2>4. p5 \in Seq(Quiet)
    BY <1>3, <1>5, <2>3, QuietTwo
  <2>5. p6 \in Seq(Quiet)
    BY <1>4, <1>5, <2>4, QuietTwo
  <2>6. p7 \in Seq(Quiet)
    BY <1>4, <1>5, <2>5, QuietTwo
  <2>7. p8 \in Seq(Quiet)
    BY <1>4, <1>5, <2>6, QuietTwo
  <2>8. QED BY <2>1, <2>2, <2>3, <2>4, <2>5, <2>6, <2>7
<1>7. Leads(p8 \o s9, Before, N)
  BY <1>2, <1>5
<1>8. PICK M8 : Leads(p8, Before, M8) /\ Leads(s9, M8, N)
  BY <1>4, <1>6, <1>7, LeadsInParts
<1>9. PICK M7 : Leads(p7, Before, M7) /\ Leads(s8, M7, M8)
  BY <1>4, <1>5, <1>6, <1>8, LeadsInParts
<1>10. PICK M6 : Leads(p6, Before, M6) /\ Leads(s7, M6, M7)
  BY <1>4, <1>5, <1>6, <1>9, LeadsInParts
<1>11. PICK M5 : Leads(p5, Before, M5) /\ Leads(s6, M5, M6)
  BY <1>4, <1>5, <1>6, <1>10, LeadsInParts
<1>12. PICK M4 : Leads(p4, Before, M4) /\ Leads(s5, M4, M5)
  BY <1>3, <1>5, <1>6, <1>11, LeadsInParts
<1>13. PICK M3 : Leads(p3, Before, M3) /\ Leads(s4, M3, M4)
  BY <1>3, <1>5, <1>6, <1>12, LeadsInParts
<1>14. PICK M2 : Leads(p2, Before, M2) /\ Leads(s3, M2, M3)
  BY <1>3, <1>5, <1>6, <1>13, LeadsInParts
<1>15. PICK M1 : Leads(s1, Before, M1) /\ Leads(s2, M1, M2)
  BY <1>3, <1>5, <1>14, LeadsInParts
<1>16. PICK g : g = <<M1, M2, M3, M4, M5, M6, M7, M8>>
  OBVIOUS
<1>17. /\ g[1] = M1 /\ g[2] = M2 /\ g[3] = M3 /\ g[4] = M4
       /\ g[5] = M5 /\ g[6] = M6 /\ g[7] = M7 /\ g[8] = M8
  BY <1>16
<1>18. DenseSteps(g, N)
  BY <1>1, <1>8, <1>9, <1>10, <1>11, <1>12, <1>13, <1>14, <1>15, <1>17
     DEF DenseSteps
<1>19. QED BY <1>18

Kept(t, M, N) == \A b, r, c : Element(N, t, b, r, c) = Element(M, t, b, r, c)

LEMMA KeptChain ==
  ASSUME NEW t, NEW L, NEW M, NEW N, Kept(t, L, M), Kept(t, M, N)
  PROVE  Kept(t, L, N)
BY DEF Kept

(* What the nine steps change. *)
LEMMA DenseChanges ==
  ASSUME pass \in Passes, pass.kind \in OfDense, NEW g, NEW N,
         DenseSteps(g, N)
  PROVE  /\ OnlyChanges("delta", Before, g[1])
         /\ OnlyChanges("weightTranspose", g[1], g[2])
         /\ OnlyChanges("backwardOutput", g[2], g[3])
         /\ OnlyChanges("previousInputTranspose", g[3], g[4])
         /\ OnlyChanges("weightUpdate", g[4], g[5])
         /\ OnlyChanges("weightUpdateMean", g[5], g[6])
         /\ OnlyChanges("biasUpdateMean", g[6], g[7])
         /\ \A t \in Tensors \ {"weight", "weightUpdateMean"} :
              Kept(t, g[7], g[8])
         /\ \A t \in Tensors \ {"bias", "biasUpdateMean"} : Kept(t, g[8], N)
         /\ {"weight", "bias", "delta", "weightTranspose", "input",
             "previousInputTranspose", "weightUpdate", "weightUpdateMean",
             "biasUpdateMean", "backwardOutput"} \subseteq Tensors
<1>1. OnlyChanges("delta", Before, g[1])
  BY MeanGradientDoes DEF DenseSteps
<1>2. /\ OnlyChanges("weightTranspose", g[1], g[2])
      /\ "weight" \in Tensors /\ "weightTranspose" \in Tensors
  <2>1. PICK k : k = [op |-> "Transpose", a |-> "weight", b |-> "weight",
                      out |-> "weightTranspose"]
    OBVIOUS
  <2>2. Performed(k, g[1], g[2])
    BY <2>1, LeadsOne DEF DenseSteps
  <2>3. "weight" \notin Scalars /\ "weightTranspose" \notin Scalars
    BY DEF Scalars
  <2>4. QED BY <2>1, <2>2, <2>3, CallKeeps
<1>3. /\ OnlyChanges("backwardOutput", g[2], g[3])
      /\ "delta" \in Tensors /\ "backwardOutput" \in Tensors
  <2>1. PICK k : k = [op |-> "Multiply", a |-> "delta",
                      b |-> "weightTranspose", out |-> "backwardOutput"]
    OBVIOUS
  <2>2. Performed(k, g[2], g[3])
    BY <2>1, LeadsOne DEF DenseSteps
  <2>3. "delta" \notin Scalars /\ "backwardOutput" \notin Scalars
    BY DEF Scalars
  <2>4. QED BY <2>1, <2>2, <2>3, CallKeeps
<1>4. /\ OnlyChanges("previousInputTranspose", g[3], g[4])
      /\ "input" \in Tensors /\ "previousInputTranspose" \in Tensors
  <2>1. PICK k : k = [op |-> "Transpose", a |-> "input", b |-> "input",
                      out |-> "previousInputTranspose"]
    OBVIOUS
  <2>2. Performed(k, g[3], g[4])
    BY <2>1, LeadsOne DEF DenseSteps
  <2>3. "input" \notin Scalars /\ "previousInputTranspose" \notin Scalars
    BY DEF Scalars
  <2>4. QED BY <2>1, <2>2, <2>3, CallKeeps
<1>5. /\ OnlyChanges("weightUpdate", g[4], g[5])
      /\ "weightUpdate" \in Tensors
  <2>1. PICK k : k = [op |-> "Multiply", a |-> "previousInputTranspose",
                      b |-> "delta", out |-> "weightUpdate"]
    OBVIOUS
  <2>2. Performed(k, g[4], g[5])
    BY <2>1, LeadsOne DEF DenseSteps
  <2>3. "weightUpdate" \notin Scalars
    BY DEF Scalars
  <2>4. QED BY <2>1, <2>2, <2>3, CallKeeps
<1>6. /\ Sized("weightUpdate", pass.mid, pass.cols, pass.batch)
      /\ Sized("weightUpdateMean", pass.mid, pass.cols, 1)
      /\ Sized("delta", 1, pass.cols, pass.batch)
      /\ Sized("biasUpdateMean", 1, pass.cols, 1)
      /\ Sized("weight", pass.mid, pass.cols, 1)
      /\ Sized("bias", 1, pass.cols, 1)
  BY DenseShapes
<1>7. /\ OnlyChanges("weightUpdateMean", g[5], g[6])
      /\ "weightUpdateMean" \in Tensors
  <2>1. /\ SameMatrix("weightUpdate", "weightUpdateMean")
        /\ BatchSize("weightUpdateMean") = 1
    BY <1>6 DEF Sized, SameMatrix
  <2>2. /\ "weightUpdate" \in Names \ {"loss"}
        /\ "weightUpdateMean" \in Names \ {"loss"}
    BY QuietNames
  <2>3. "weightUpdate" \notin Scalars /\ "weightUpdateMean" \notin Scalars
    BY DEF Scalars
  <2>4. Leads(Shrink("weightUpdate", "weightUpdateMean"), g[5], g[6])
    BY DEF DenseSteps
  <2>5. QED BY <2>1, <2>2, <2>3, <2>4, ShrinkDoes DEF OnlyChanges
<1>8. /\ OnlyChanges("biasUpdateMean", g[6], g[7])
      /\ "biasUpdateMean" \in Tensors
  <2>1. /\ SameMatrix("delta", "biasUpdateMean")
        /\ BatchSize("biasUpdateMean") = 1
    BY <1>6 DEF Sized, SameMatrix
  <2>2. /\ "delta" \in Names \ {"loss"}
        /\ "biasUpdateMean" \in Names \ {"loss"}
    BY QuietNames
  <2>3. "delta" \notin Scalars /\ "biasUpdateMean" \notin Scalars
    BY DEF Scalars
  <2>4. Leads(Shrink("delta", "biasUpdateMean"), g[6], g[7])
    BY DEF DenseSteps
  <2>5. QED BY <2>1, <2>2, <2>3, <2>4, ShrinkDoes DEF OnlyChanges
<1>9. /\ SameLayout("weightUpdateMean", "weight")
      /\ SameLayout("biasUpdateMean", "bias")
  BY <1>6 DEF Sized, SameLayout, SameMatrix
<1>10. \A t \in Tensors \ {"weight", "weightUpdateMean"} :
         Kept(t, g[7], g[8])
  BY <1>9, OptimizeDoes DEF DenseSteps, Kept
<1>11. /\ \A t \in Tensors \ {"bias", "biasUpdateMean"} : Kept(t, g[8], N)
       /\ "bias" \in Tensors
  BY <1>9, OptimizeDoes DEF DenseSteps, Kept
<1>12. QED BY <1>1, <1>2, <1>3, <1>4, <1>5, <1>7, <1>8, <1>10, <1>11

LEMMA OnlyKept ==
  ASSUME NEW t, NEW u \in Tensors, u # t, NEW M, NEW N, OnlyChanges(t, M, N)
  PROVE  Kept(u, M, N)
BY DEF OnlyChanges, Kept

(* The tensors as the later steps find them. *)
LEMMA DenseKept ==
  ASSUME pass \in Passes, pass.kind \in OfDense, NEW g, NEW N,
         DenseSteps(g, N)
  PROVE  /\ Kept("weight", Before, g[1]) /\ Kept("weight", Before, g[7])
         /\ Kept("bias", Before, g[8]) /\ Kept("input", Before, g[3])
         /\ Kept("weightUpdateMean", Before, g[5])
         /\ Kept("biasUpdateMean", Before, g[6])
         /\ Kept("weightUpdateMean", g[6], g[7])
         /\ Kept("biasUpdateMean", g[7], g[8])
         /\ Kept("delta", g[1], g[2]) /\ Kept("delta", g[1], g[4])
         /\ Kept("delta", g[1], g[6])
         /\ Kept("backwardOutput", g[3], N) /\ Kept("weight", g[8], N)
<1> DEFINE S == {"weight", "bias", "delta", "weightTranspose", "input",
                 "previousInputTranspose", "weightUpdate",
                 "weightUpdateMean", "biasUpdateMean", "backwardOutput"}
<1>1. S \subseteq Tensors
  BY DenseChanges
<1>2. \A t \in S :
        /\ t # "delta" => Kept(t, Before, g[1])
        /\ t # "weightTranspose" => Kept(t, g[1], g[2])
        /\ t # "backwardOutput" => Kept(t, g[2], g[3])
        /\ t # "previousInputTranspose" => Kept(t, g[3], g[4])
        /\ t # "weightUpdate" => Kept(t, g[4], g[5])
        /\ t # "weightUpdateMean" => Kept(t, g[5], g[6])
        /\ t # "biasUpdateMean" => Kept(t, g[6], g[7])
        /\ t \notin {"weight", "weightUpdateMean"} => Kept(t, g[7], g[8])
        /\ t \notin {"bias", "biasUpdateMean"} => Kept(t, g[8], N)
  BY <1>1, DenseChanges, OnlyKept
<1>3. \A t \in {"weight", "bias", "input", "weightUpdateMean",
                "biasUpdateMean"} :
        /\ Kept(t, Before, g[1]) /\ Kept(t, Before, g[2])
        /\ Kept(t, Before, g[3]) /\ Kept(t, Before, g[4])
        /\ Kept(t, Before, g[5])
  <2> SUFFICES ASSUME NEW t \in {"weight", "bias", "input",
                                 "weightUpdateMean", "biasUpdateMean"}
               PROVE  /\ Kept(t, Before, g[1]) /\ Kept(t, Before, g[2])
                      /\ Kept(t, Before, g[3]) /\ Kept(t, Before, g[4])
                      /\ Kept(t, Before, g[5])
    OBVIOUS
  <2>1. /\ Kept(t, Before, g[1]) /\ Kept(t, g[1], g[2])
        /\ Kept(t, g[2], g[3]) /\ Kept(t, g[3], g[4])
        /\ Kept(t, g[4], g[5])
    BY <1>2
  <2>2. Kept(t, Before, g[2])
    BY <2>1, KeptChain
  <2>3. Kept(t, Before, g[3])
    BY <2>1, <2>2, KeptChain
  <2>4. Kept(t, Before, g[4])
    BY <2>1, <2>3, KeptChain
  <2>5. QED BY <2>1, <2>2, <2>3, <2>4, KeptChain
<1>4. Kept("biasUpdateMean", Before, g[6])
  BY <1>2, <1>3, KeptChain
<1>5. Kept("weight", Before, g[7])
  <2>1. Kept("weight", g[5], g[6]) /\ Kept("weight", g[6], g[7])
    BY <1>2
  <2>2. Kept("weight", Before, g[6])
    BY <1>3, <2>1, KeptChain
  <2>3. QED BY <2>1, <2>2, KeptChain
<1>6. Kept("bias", Before, g[8])
  <2>1. /\ Kept("bias", g[5], g[6]) /\ Kept("bias", g[6], g[7])
        /\ Kept("bias", g[7], g[8])
    BY <1>2
  <2>2. Kept("bias", Before, g[6])
    BY <1>3, <2>1, KeptChain
  <2>3. Kept("bias", Before, g[7])
    BY <2>1, <2>2, KeptChain
  <2>4. QED BY <2>1, <2>3, KeptChain
<1>7. Kept("delta", g[1], g[4]) /\ Kept("delta", g[1], g[6])
  <2>1. /\ Kept("delta", g[1], g[2]) /\ Kept("delta", g[2], g[3])
        /\ Kept("delta", g[3], g[4]) /\ Kept("delta", g[4], g[5])
        /\ Kept("delta", g[5], g[6])
    BY <1>2
  <2>2. Kept("delta", g[1], g[3])
    BY <2>1, KeptChain
  <2>3. Kept("delta", g[1], g[4])
    BY <2>1, <2>2, KeptChain
  <2>4. Kept("delta", g[1], g[5])
    BY <2>1, <2>3, KeptChain
  <2>5. QED BY <2>1, <2>3, <2>4, KeptChain
<1>8. Kept("backwardOutput", g[3], N)
  <2>1. /\ Kept("backwardOutput", g[3], g[4])
        /\ Kept("backwardOutput", g[4], g[5])
        /\ Kept("backwardOutput", g[5], g[6])
        /\ Kept("backwardOutput", g[6], g[7])
        /\ Kept("backwardOutput", g[7], g[8])
        /\ Kept("backwardOutput", g[8], N)
    BY <1>2
  <2>2. Kept("backwardOutput", g[3], g[5])
    BY <2>1, KeptChain
  <2>3. Kept("backwardOutput", g[3], g[6])
    BY <2>1, <2>2, KeptChain
  <2>4. Kept("backwardOutput", g[3], g[7])
    BY <2>1, <2>3, KeptChain
  <2>5. Kept("backwardOutput", g[3], g[8])
    BY <2>1, <2>4, KeptChain
  <2>6. QED BY <2>1, <2>5, KeptChain
<1>9. /\ Kept("weightUpdateMean", g[6], g[7])
      /\ Kept("biasUpdateMean", g[7], g[8])
      /\ Kept("delta", g[1], g[2]) /\ Kept("weight", g[8], N)
  BY <1>2
<1>10. QED BY <1>3, <1>4, <1>5, <1>6, <1>7, <1>8, <1>9

(* Of a tensor before the pass. *)
LEMMA KeptBefore ==
  ASSUME pass \in Passes, NEW t \in Tensors, NEW M, Kept(t, Before, M)
  PROVE  \A b, r, c : Within(t, b, r, c) =>
           Element(M, t, b, r, c) = Ref(t, b, r, c)
<1>1. \A b, r, c : Within(t, b, r, c) =>
        Element(Before, t, b, r, c) = Ref(t, b, r, c)
  BY OperandIs DEF SameMatrix
<1>2. QED BY <1>1 DEF Kept

LEMMA DenseDelta ==
  ASSUME pass \in Passes, pass.kind \in OfDense, NEW g, NEW N,
         DenseSteps(g, N), NEW i \in {2, 4, 6}
  PROVE  \A b, r, c : Within("delta", b, r, c) =>
           Element(g[i], "delta", b, r, c) = Delta(b, r, c)
<1>1. \A b, r, c : Within("delta", b, r, c) =>
        Element(g[1], "delta", b, r, c) = Delta(b, r, c)
  BY MeanGradientDoes DEF DenseSteps
<1>2. Kept("delta", g[1], g[i])
  BY DenseKept
<1>3. QED BY <1>1, <1>2 DEF Kept

(* The textbook's gradient, weights and bias. *)
GradientOf(b, r, c) ==
  AddUp(Zero, [n \in 1 .. pass.cols |->
                 Times(Delta(b, r, n - 1), Ref("weight", 0, c, n - 1))])

WeightMean(r, c) ==
  Over(AddBefore(Ref("weightUpdateMean", 0, r, c),
         [n \in 1 .. pass.batch |->
            Plus(Zero, Times(Ref("input", n - 1, 0, r),
                             Delta(n - 1, 0, c)))]),
       Scalar("batch"))

BiasMean(r, c) ==
  Over(AddBefore(Ref("biasUpdateMean", 0, r, c),
                 [n \in 1 .. pass.batch |-> Delta(n - 1, 0, c)]),
       Scalar("batch"))

LEMMA ExpectedOfGradient ==
  ASSUME pass.kind \in {"DenseBackward", "DenseAsyncBackward"},
         NEW b, NEW r, NEW c
  PROVE  Expected("backwardOutput", b, r, c) = GradientOf(b, r, c)
BY DEF Expected, BackwardOfDense, MeanOf, Total, LossOf, GradientOf

LEMMA ExpectedOfWeight ==
  ASSUME pass.kind \in {"DenseBackward", "DenseAsyncBackward"},
         NEW b, NEW r, NEW c
  PROVE  Expected("weight", b, r, c) =
           Plus(Ref("weight", 0, r, c),
                Times(WeightMean(r, c), Scalar("epsilon")))
BY DEF Expected, BackwardOfDense, MeanOf, Total, LossOf, Updated, WeightMean

LEMMA ExpectedOfBias ==
  ASSUME pass.kind \in {"DenseBackward", "DenseAsyncBackward"},
         NEW b, NEW r, NEW c
  PROVE  Expected("bias", b, r, c) =
           Plus(Ref("bias", 0, r, c),
                Times(BiasMean(r, c), Scalar("epsilon")))
BY DEF Expected, BackwardOfDense, MeanOf, Total, LossOf, Updated, BiasMean

LEMMA DenseKinds ==
  ASSUME pass.kind \in {"DenseBackward", "DenseAsyncBackward"}
  PROVE  pass.kind \in OfDense
BY DEF OfDense

(* The bias. *)
LEMMA DenseBias ==
  ASSUME pass \in Passes,
         pass.kind \in {"DenseBackward", "DenseAsyncBackward"}, NEW g, NEW N,
         DenseSteps(g, N)
  PROVE  \A b, r, c : Within("bias", b, r, c) =>
           Element(N, "bias", b, r, c) = Expected("bias", b, r, c)
<1>1. /\ Sized("delta", 1, pass.cols, pass.batch)
      /\ Sized("biasUpdateMean", 1, pass.cols, 1)
      /\ Sized("bias", 1, pass.cols, 1)
      /\ "delta" \notin Scalars /\ "biasUpdateMean" \notin Scalars
  BY DenseKinds, DenseShapes
<1>2. /\ SameLayout("biasUpdateMean", "bias")
      /\ SameMatrix("delta", "biasUpdateMean")
      /\ BatchSize("biasUpdateMean") = 1 /\ BatchSize("delta") = pass.batch
      /\ \A b, r, c : Within("bias", b, r, c) =>
           /\ Within("biasUpdateMean", b, r, c) /\ b = 0 /\ r = 0
           /\ \A n \in 1 .. pass.batch : Within("delta", n - 1, 0, c)
  <2>1. pass.batch \in Nat /\ \A n \in 1 .. pass.batch :
                                n - 1 \in 0 .. pass.batch - 1
    BY PassFacts
  <2>2. 0 \in 0 .. 1 - 1 /\ \A x \in 0 .. 1 - 1 : x = 0
    OBVIOUS
  <2>3. QED BY <1>1, <2>1, <2>2 DEF Sized, SameLayout, SameMatrix, Within,
                                    Samples, Rows, Columns
<1>3. /\ "bias" \in Tensors /\ "biasUpdateMean" \in Tensors
      /\ Kept("bias", Before, g[8])
      /\ Kept("biasUpdateMean", Before, g[6])
      /\ Kept("biasUpdateMean", g[7], g[8])
  BY DenseKinds, DenseChanges, DenseKept
<1>4. \A b, r, c : Within("bias", b, r, c) =>
        Element(N, "bias", b, r, c) =
          Plus(Element(g[8], "bias", b, r, c),
               Times(Element(g[8], "biasUpdateMean", b, r, c),
                     Scalar("epsilon")))
  BY <1>2, OptimizeDoes DEF DenseSteps
<1>5. \A b, r, c : Within("biasUpdateMean", b, r, c) =>
        Element(g[7], "biasUpdateMean", b, r, c) =
          MeanOn(Element(g[6], "biasUpdateMean", b, r, c), g[6],
                 "delta", r, c)
  <2>1. Leads(Shrink("delta", "biasUpdateMean"), g[6], g[7])
    BY DEF DenseSteps
  <2>2. /\ "delta" \in Names \ {"loss"}
        /\ "biasUpdateMean" \in Names \ {"loss"}
    BY QuietNames
  <2>3. QED BY <1>1, <1>2, <2>1, <2>2, ShrinkDoes
<1>6. ASSUME NEW b, NEW r, NEW c, Within("bias", b, r, c)
      PROVE  Element(N, "bias", b, r, c) = Expected("bias", b, r, c)
  <2>1. Within("biasUpdateMean", b, r, c) /\ b = 0 /\ r = 0
    BY <1>2, <1>6
  <2>2. Element(g[8], "bias", b, r, c) = Ref("bias", 0, r, c)
    BY <1>3, <1>6, <2>1, KeptBefore
  <2>3. Element(g[6], "biasUpdateMean", b, r, c) =
          Ref("biasUpdateMean", 0, r, c)
    BY <1>3, <2>1, KeptBefore
  <2>4. Element(g[8], "biasUpdateMean", b, r, c) =
          MeanOn(Ref("biasUpdateMean", 0, r, c), g[6], "delta", r, c)
    BY <1>3, <1>5, <2>1, <2>3 DEF Kept
  <2> DEFINE X(n) == Element(g[6], "delta", n - 1, r, c)
             Y(n) == Delta(n - 1, 0, c)
  <2>5. \A n \in 1 .. pass.batch : X(n) = Y(n)
    BY <1>2, <1>6, <2>1, DenseKinds, DenseDelta
  <2>6. MeanOn(Ref("biasUpdateMean", 0, r, c), g[6], "delta", r, c) =
          Over(AddBefore(Ref("biasUpdateMean", 0, r, c),
                         [n \in 1 .. pass.batch |-> X(n)]), Scalar("batch"))
    BY <1>2 DEF MeanOn
  <2>7. BiasMean(r, c) =
          Over(AddBefore(Ref("biasUpdateMean", 0, r, c),
                         [n \in 1 .. pass.batch |-> Y(n)]), Scalar("batch"))
    BY DEF BiasMean
  <2> HIDE DEF X, Y
  <2>8. [n \in 1 .. pass.batch |-> X(n)] = [n \in 1 .. pass.batch |-> Y(n)]
    BY <2>5
  <2>9. Element(g[8], "biasUpdateMean", b, r, c) = BiasMean(r, c)
    BY <2>4, <2>6, <2>7, <2>8
  <2>10. QED BY <1>4, <1>6, <2>2, <2>9, ExpectedOfBias
<1>7. QED BY <1>6

(* The gradient handed to the previous unit. *)
LEMMA DenseGradient ==
  ASSUME pass \in Passes, Transposable,
         pass.kind \in {"DenseBackward", "DenseAsyncBackward"}, NEW g, NEW N,
         DenseSteps(g, N)
  PROVE  \A b, r, c : Within("backwardOutput", b, r, c) =>
           Element(N, "backwardOutput", b, r, c) =
             Expected("backwardOutput", b, r, c)
<1>1. /\ Sized("delta", 1, pass.cols, pass.batch)
      /\ Sized("weight", pass.mid, pass.cols, 1)
      /\ Sized("weightTranspose", pass.cols, pass.mid, 1)
      /\ Sized("backwardOutput", 1, pass.mid, pass.batch)
      /\ "delta" \notin Scalars /\ "weight" \notin Scalars
      /\ "weightTranspose" \notin Scalars
  BY DenseKinds, DenseShapes
<1>2. /\ "weight" \in Tensors /\ Kept("weight", Before, g[1])
      /\ Kept("backwardOutput", g[3], N)
  BY DenseKinds, DenseChanges, DenseKept
<1>3. PICK j, k :
        /\ j = [op |-> "Transpose", a |-> "weight", b |-> "weight",
                out |-> "weightTranspose"]
        /\ k = [op |-> "Multiply", a |-> "delta", b |-> "weightTranspose",
                out |-> "backwardOutput"]
  OBVIOUS
<1>4. /\ j.op = "Transpose" /\ j.a = "weight" /\ j.out = "weightTranspose"
      /\ k.op = "Multiply" /\ k.a = "delta" /\ k.b = "weightTranspose"
      /\ k.out = "backwardOutput"
  BY <1>3
<1>5. Performed(j, g[1], g[2]) /\ Performed(k, g[2], g[3])
  BY <1>3, LeadsOne DEF DenseSteps
<1>6. \A b, r, c : Within("weightTranspose", b, r, c) =>
        Element(g[2], "weightTranspose", b, r, c) =
          Element(g[1], "weight", b, c, r)
  <2>1. Determined(j)
    BY <1>1, <1>4 DEF Determined, Transposable, Sized
  <2>2. /\ j.a \notin Scalars /\ j.a # j.out
        /\ NumRow(j.a) = NumCol(j.out) /\ NumCol(j.a) = NumRow(j.out)
        /\ BatchSize(j.a) = BatchSize(j.out)
    BY <1>1, <1>4 DEF Sized
  <2>3. \A b, r, c : Within(j.out, b, r, c) =>
          Element(g[2], j.out, b, r, c) = Element(g[1], j.a, b, c, r)
    BY <1>4, <1>5, <2>1, <2>2, TransposeDoes
  <2>4. QED BY <1>4, <2>3
<1>7. \A b, r, c : Within("backwardOutput", b, r, c) =>
        Element(g[3], "backwardOutput", b, r, c) =
          ProductResult(k, g[2], b, r, c)
  <2>1. Spread(k)
    BY <1>1, <1>4 DEF Spread, Sized
  <2>2. k.a \notin Scalars /\ k.b \notin Scalars
    BY <1>1, <1>4
  <2>3. \A b, r, c : Within(k.out, b, r, c) =>
          Element(g[3], k.out, b, r, c) = ProductResult(k, g[2], b, r, c)
    BY <1>4, <1>5, <2>1, <2>2, MultiplyDoes
  <2>4. QED BY <1>4, <2>3
<1>8. ASSUME NEW b, NEW r, NEW c, Within("backwardOutput", b, r, c),
             NEW n \in 1 .. pass.cols
      PROVE  /\ Element(g[2], "delta", b, r, n - 1) = Delta(b, r, n - 1)
             /\ Element(g[2], "weightTranspose", b, n - 1, c) =
                  Ref("weight", 0, c, n - 1)
  <2>1. n - 1 \in 0 .. pass.cols - 1
    BY PassFacts
  <2>2. Within("delta", b, r, n - 1)
    BY <1>1, <1>8, <2>1 DEF Within, Sized, Samples, Rows, Columns
  <2>3. Element(g[2], "delta", b, r, n - 1) = Delta(b, r, n - 1)
    BY <2>2, DenseKinds, DenseDelta
  <2>4. 0 \in 0 .. 1 - 1
    OBVIOUS
  <2>5. /\ Within("weightTranspose", 0, n - 1, c)
        /\ Within("weight", 0, c, n - 1)
    BY <1>1, <1>8, <2>1, <2>4 DEF Within, Sized, Samples, Rows, Columns
  <2>6. Element(g[2], "weightTranspose", 0, n - 1, c) =
          Element(g[1], "weight", 0, c, n - 1)
    BY <1>6, <2>5
  <2>7. Element(g[1], "weight", 0, c, n - 1) = Ref("weight", 0, c, n - 1)
    BY <1>2, <2>5, KeptBefore
  <2>8. Element(g[2], "weightTranspose", b, n - 1, c) =
          Element(g[2], "weightTranspose", 0, n - 1, c)
    BY <1>1 DEF Element, Sized
  <2>9. QED BY <2>3, <2>6, <2>7, <2>8
<1>9. ASSUME NEW b, NEW r, NEW c, Within("backwardOutput", b, r, c)
      PROVE  Element(N, "backwardOutput", b, r, c) =
               Expected("backwardOutput", b, r, c)
  <2> DEFINE X(n) == Times(Element(g[2], "delta", b, r, n - 1),
                           Element(g[2], "weightTranspose", b, n - 1, c))
             Y(n) == Times(Delta(b, r, n - 1), Ref("weight", 0, c, n - 1))
  <2>1. \A n \in 1 .. pass.cols : X(n) = Y(n)
    BY <1>8, <1>9
  <2>2. NumRow("weightTranspose") = pass.cols
    BY <1>1 DEF Sized
  <2>3. ProductResult(k, g[2], b, r, c) =
          AddUp(Zero, [n \in 1 .. pass.cols |-> X(n)])
    BY <1>4, <2>2 DEF ProductResult
  <2>4. GradientOf(b, r, c) = AddUp(Zero, [n \in 1 .. pass.cols |-> Y(n)])
    BY DEF GradientOf
  <2> HIDE DEF X, Y
  <2>5. [n \in 1 .. pass.cols |-> X(n)] = [n \in 1 .. pass.cols |-> Y(n)]
    BY <2>1
  <2>6. Element(g[3], "backwardOutput", b, r, c) = GradientOf(b, r, c)
    BY <1>7, <1>9, <2>3, <2>4, <2>5
  <2>7. Element(N, "backwardOutput", b, r, c) =
          Element(g[3], "backwardOutput", b, r, c)
    BY <1>2 DEF Kept
  <2>8. QED BY <2>6, <2>7, ExpectedOfGradient
<1>10. QED BY <1>9

(* The weights. *)
LEMMA AddUpOne ==
  ASSUME NEW x
  PROVE  AddUp(Zero, [n \in 1 .. 1 |-> x]) = Plus(Zero, x)
<1> DEFINE f(n) == [i \in 1 .. n |-> x]
<1>1. ASSUME NEW n \in Nat
      PROVE  AddUp(Zero, f(n + 1)) = Plus(AddUp(Zero, f(n)), x)
  <2>1. n + 1 \in 1 .. n + 1 /\ \A i \in 1 .. n : i \in 1 .. n + 1
    OBVIOUS
  <2>2. /\ DOMAIN f(n + 1) = 1 .. n + 1 /\ DOMAIN f(n) = 1 .. n
        /\ \A i \in 1 .. n : f(n)[i] = f(n + 1)[i]
        /\ f(n + 1)[n + 1] = x
    BY <2>1
  <2> HIDE DEF f
  <2>3. QED BY <2>2, AddOneMore
<1>2. AddUp(Zero, f(0)) = Zero
  BY AddNothing
<1>3. AddUp(Zero, f(0 + 1)) = Plus(AddUp(Zero, f(0)), x)
  BY <1>1
<1> HIDE DEF f
<1>4. AddUp(Zero, f(1)) = Plus(Zero, x)
  <2>1. 0 + 1 = 1
    OBVIOUS
  <2>2. QED BY <1>2, <1>3, <2>1
<1>5. QED BY <1>4 DEF f

LEMMA DenseUpdate ==
  ASSUME pass \in Passes,
         pass.kind \in {"DenseBackward", "DenseAsyncBackward"}, NEW g, NEW N,
         DenseSteps(g, N)
  PROVE  \A b, r, c : Within("weightUpdate", b, r, c) =>
           Element(g[5], "weightUpdate", b, r, c) =
             Plus(Zero, Times(Ref("input", b, 0, r), Delta(b, 0, c)))
<1>1. /\ Sized("delta", 1, pass.cols, pass.batch)
      /\ Sized("input", 1, pass.mid, pass.batch)
      /\ Sized("previousInputTranspose", pass.mid, 1, pass.batch)
      /\ Sized("weightUpdate", pass.mid, pass.cols, pass.batch)
      /\ "delta" \notin Scalars /\ "input" \notin Scalars
      /\ "previousInputTranspose" \notin Scalars
  BY DenseKinds, DenseShapes
<1>2. "input" \in Tensors /\ Kept("input", Before, g[3])
  BY DenseKinds, DenseChanges, DenseKept
<1>3. PICK j, k :
        /\ j = [op |-> "Transpose", a |-> "input", b |-> "input",
                out |-> "previousInputTranspose"]
        /\ k = [op |-> "Multiply", a |-> "previousInputTranspose",
                b |-> "delta", out |-> "weightUpdate"]
  OBVIOUS
<1>4. /\ j.op = "Transpose" /\ j.a = "input"
      /\ j.out = "previousInputTranspose"
      /\ k.op = "Multiply" /\ k.a = "previousInputTranspose"
      /\ k.b = "delta" /\ k.out = "weightUpdate"
  BY <1>3
<1>5. Performed(j, g[3], g[4]) /\ Performed(k, g[4], g[5])
  BY <1>3, LeadsOne DEF DenseSteps
<1>6. \A b, r, c : Within("previousInputTranspose", b, r, c) =>
        Element(g[4], "previousInputTranspose", b, r, c) =
          Element(g[3], "input", b, c, r)
  <2>1. Determined(j)
    BY <1>1, <1>4 DEF Determined, Sized
  <2>2. /\ j.a \notin Scalars /\ j.a # j.out
        /\ NumRow(j.a) = NumCol(j.out) /\ NumCol(j.a) = NumRow(j.out)
        /\ BatchSize(j.a) = BatchSize(j.out)
    BY <1>1, <1>4 DEF Sized
  <2>3. \A b, r, c : Within(j.out, b, r, c) =>
          Element(g[4], j.out, b, r, c) = Element(g[3], j.a, b, c, r)
    BY <1>4, <1>5, <2>1, <2>2, TransposeDoes
  <2>4. QED BY <1>4, <2>3
<1>7. \A b, r, c : Within("weightUpdate", b, r, c) =>
        Element(g[5], "weightUpdate", b, r, c) =
          ProductResult(k, g[4], b, r, c)
  <2>1. Spread(k)
    BY <1>1, <1>4 DEF Spread, Sized
  <2>2. k.a \notin Scalars /\ k.b \notin Scalars
    BY <1>1, <1>4
  <2>3. \A b, r, c : Within(k.out, b, r, c) =>
          Element(g[5], k.out, b, r, c) = ProductResult(k, g[4], b, r, c)
    BY <1>4, <1>5, <2>1, <2>2, MultiplyDoes
  <2>4. QED BY <1>4, <2>3
<1>8. ASSUME NEW b, NEW r, NEW c, Within("weightUpdate", b, r, c)
      PROVE  Element(g[5], "weightUpdate", b, r, c) =
               Plus(Zero, Times(Ref("input", b, 0, r), Delta(b, 0, c)))
  <2>1. 0 \in 0 .. 1 - 1
    OBVIOUS
  <2>2. /\ Within("previousInputTranspose", b, r, 0)
        /\ Within("input", b, 0, r) /\ Within("delta", b, 0, c)
    BY <1>1, <1>8, <2>1 DEF Within, Sized, Samples, Rows, Columns
  <2>3. Element(g[4], "previousInputTranspose", b, r, 0) =
          Ref("input", b, 0, r)
    BY <1>2, <1>6, <2>2, KeptBefore
  <2>4. Element(g[4], "delta", b, 0, c) = Delta(b, 0, c)
    BY <2>2, DenseKinds, DenseDelta
  <2> DEFINE X(n) == Times(Element(g[4], "previousInputTranspose", b, r,
                                   n - 1),
                           Element(g[4], "delta", b, n - 1, c))
             y == Times(Ref("input", b, 0, r), Delta(b, 0, c))
  <2>5. \A n \in 1 .. 1 : X(n) = y
    <3>1. \A n \in 1 .. 1 : n - 1 = 0
      OBVIOUS
    <3>2. QED BY <2>3, <2>4, <3>1
  <2>6. ProductResult(k, g[4], b, r, c) =
          AddUp(Zero, [n \in 1 .. 1 |-> X(n)])
    BY <1>1, <1>4 DEF ProductResult, Sized
  <2> HIDE DEF X
  <2>7. [n \in 1 .. 1 |-> X(n)] = [n \in 1 .. 1 |-> y]
    BY <2>5
  <2> HIDE DEF y
  <2>8. ProductResult(k, g[4], b, r, c) = Plus(Zero, y)
    BY <2>6, <2>7, AddUpOne
  <2>9. QED BY <1>7, <1>8, <2>8 DEF y
<1>9. QED BY <1>8

LEMMA DenseWeight ==
  ASSUME pass \in Passes,
         pass.kind \in {"DenseBackward", "DenseAsyncBackward"}, NEW g, NEW N,
         DenseSteps(g, N)
  PROVE  \A b, r, c : Within("weight", b, r, c) =>
           Element(N, "weight", b, r, c) = Expected("weight", b, r, c)
<1>1. /\ Sized("weightUpdate", pass.mid, pass.cols, pass.batch)
      /\ Sized("weightUpdateMean", pass.mid, pass.cols, 1)
      /\ Sized("weight", pass.mid, pass.cols, 1)
      /\ "weightUpdate" \notin Scalars /\ "weightUpdateMean" \notin Scalars
  BY DenseKinds, DenseShapes
<1>2. /\ SameLayout("weightUpdateMean", "weight")
      /\ SameMatrix("weightUpdate", "weightUpdateMean")
      /\ BatchSize("weightUpdateMean") = 1
      /\ BatchSize("weightUpdate") = pass.batch
      /\ \A b, r, c : Within("weight", b, r, c) =>
           /\ Within("weightUpdateMean", b, r, c) /\ b = 0
           /\ \A n \in 1 .. pass.batch : Within("weightUpdate", n - 1, r, c)
  <2>1. pass.batch \in Nat /\ \A n \in 1 .. pass.batch :
                                n - 1 \in 0 .. pass.batch - 1
    BY PassFacts
  <2>2. \A x \in 0 .. 1 - 1 : x = 0
    OBVIOUS
  <2>3. QED BY <1>1, <2>1, <2>2 DEF Sized, SameLayout, SameMatrix, Within,
                                    Samples, Rows, Columns
<1>3. /\ "weight" \in Tensors /\ "weightUpdateMean" \in Tensors
      /\ Kept("weight", Before, g[7]) /\ Kept("weight", g[8], N)
      /\ Kept("weightUpdateMean", Before, g[5])
      /\ Kept("weightUpdateMean", g[6], g[7])
  BY DenseKinds, DenseChanges, DenseKept
<1>4. \A b, r, c : Within("weight", b, r, c) =>
        Element(g[8], "weight", b, r, c) =
          Plus(Element(g[7], "weight", b, r, c),
               Times(Element(g[7], "weightUpdateMean", b, r, c),
                     Scalar("epsilon")))
  BY <1>2, OptimizeDoes DEF DenseSteps
<1>5. \A b, r, c : Within("weightUpdateMean", b, r, c) =>
        Element(g[6], "weightUpdateMean", b, r, c) =
          MeanOn(Element(g[5], "weightUpdateMean", b, r, c), g[5],
                 "weightUpdate", r, c)
  <2>1. Leads(Shrink("weightUpdate", "weightUpdateMean"), g[5], g[6])
    BY DEF DenseSteps
  <2>2. /\ "weightUpdate" \in Names \ {"loss"}
        /\ "weightUpdateMean" \in Names \ {"loss"}
    BY QuietNames
  <2>3. QED BY <1>1, <1>2, <2>1, <2>2, ShrinkDoes
<1>6. ASSUME NEW b, NEW r, NEW c, Within("weight", b, r, c)
      PROVE  Element(N, "weight", b, r, c) = Expected("weight", b, r, c)
  <2>1. Within("weightUpdateMean", b, r, c) /\ b = 0
    BY <1>2, <1>6
  <2>2. Element(g[7], "weight", b, r, c) = Ref("weight", 0, r, c)
    BY <1>3, <1>6, <2>1, KeptBefore
  <2>3. Element(g[5], "weightUpdateMean", b, r, c) =
          Ref("weightUpdateMean", 0, r, c)
    BY <1>3, <2>1, KeptBefore
  <2>4. Element(g[7], "weightUpdateMean", b, r, c) =
          MeanOn(Ref("weightUpdateMean", 0, r, c), g[5], "weightUpdate",
                 r, c)
    BY <1>3, <1>5, <2>1, <2>3 DEF Kept
  <2> DEFINE X(n) == Element(g[5], "weightUpdate", n - 1, r, c)
             Y(n) == Plus(Zero, Times(Ref("input", n - 1, 0, r),
                                      Delta(n - 1, 0, c)))
  <2>5. \A n \in 1 .. pass.batch : X(n) = Y(n)
    BY <1>2, <1>6, DenseUpdate
  <2>6. MeanOn(Ref("weightUpdateMean", 0, r, c), g[5], "weightUpdate",
               r, c) =
          Over(AddBefore(Ref("weightUpdateMean", 0, r, c),
                         [n \in 1 .. pass.batch |-> X(n)]), Scalar("batch"))
    BY <1>2 DEF MeanOn
  <2>7. WeightMean(r, c) =
          Over(AddBefore(Ref("weightUpdateMean", 0, r, c),
                         [n \in 1 .. pass.batch |-> Y(n)]), Scalar("batch"))
    BY DEF WeightMean
  <2> HIDE DEF X, Y
  <2>8. [n \in 1 .. pass.batch |-> X(n)] = [n \in 1 .. pass.batch |-> Y(n)]
    BY <2>5
  <2>9. Element(g[7], "weightUpdateMean", b, r, c) = WeightMean(r, c)
    BY <2>4, <2>6, <2>7, <2>8
  <2>10. Element(N, "weight", b, r, c) = Element(g[8], "weight", b, r, c)
    BY <1>3 DEF Kept
  <2>11. QED BY <1>4, <1>6, <2>2, <2>9, <2>10, ExpectedOfWeight
<1>7. QED BY <1>6

LEMMA DenseBackwardExact ==
  ASSUME pass \in Passes, ~Deviates,
         pass.kind \in {"DenseBackward", "DenseAsyncBackward"},
         NEW N, Leads(Program, Before, N)
  PROVE  Exactly(N)
<1>1. PICK g : DenseSteps(g, N)
  BY DenseBackwardSteps
<1>2. Results = {"weight", "bias"}
                  \cup (IF Transposable THEN {"backwardOutput"} ELSE {})
  BY DEF Results, BackwardOfDense
<1>3. ASSUME NEW t \in Results, NEW b, NEW r, NEW c, Within(t, b, r, c)
      PROVE  Element(N, t, b, r, c) = Expected(t, b, r, c)
  <2>1. CASE t = "weight"
    BY <1>1, <1>3, <2>1, DenseWeight
  <2>2. CASE t = "bias"
    BY <1>1, <1>3, <2>2, DenseBias
  <2>3. CASE t = "backwardOutput" /\ Transposable
    BY <1>1, <1>3, <2>3, DenseGradient
  <2>4. QED BY <1>2, <2>1, <2>2, <2>3
<1>4. QED BY <1>3 DEF Exactly

-----------------------------------------------------------------------------
(* Every pass.                                                             *)

LEMMA PassExact ==
  ASSUME pass \in Passes, ~Deviates, NEW N, Leads(Program, Before, N)
  PROVE  Exactly(N)
<1>1. CASE pass.kind \in Kernels
  BY <1>1, MultiplyExact, BinaryExact, ScalarExact, ShrinkExact
     DEF Kernels, Binary
<1>2. CASE pass.kind \in Initializers
  BY <1>2, InitializerExact
<1>3. CASE pass.kind \in Synchronous
  BY <1>3, DenseForwardExact, DenseBackwardExact, ActivateExact, DeriveExact,
     SoftMaxForwardExact, SoftMaxBackwardExact, MSEForwardExact,
     CrossEntropyForwardExact, LossGradientExact DEF Synchronous
<1>4. CASE pass.kind \in Asynchronous
  <2>1. pass.kind \notin {"SigmoidAsyncBackward", "MSEAsyncBackward"}
    BY DEF Deviates
  <2>2. QED BY <1>4, <2>1, DenseForwardExact, DenseBackwardExact,
     ActivateExact, DeriveExact, SoftMaxForwardExact, SoftMaxBackwardExact,
     MSEForwardExact, CrossEntropyForwardExact, LossGradientExact
     DEF Asynchronous
<1>5. QED BY <1>1, <1>2, <1>3, <1>4, PassFacts DEF Kinds

LEMMA EndsExact ==
  ASSUME Invariant, PartialSums, Explained
  PROVE  ResultExact
<1>1. SUFFICES ASSUME Finished, step = Len(Program), NEW t \in Results,
                      NEW b \in 0 .. BatchSize(t) - 1,
                      NEW r \in 0 .. NumRow(t) - 1,
                      NEW c \in 0 .. NumCol(t) - 1
               PROVE  mem[t][Padded(NumCol(t)) * (NumRow(t) * b + r) + c] =
                        Expected(t, b, r, c)
  BY DEF ResultExact
<1>2. ~Deviates
  BY <1>1 DEF Results
<1>3. pass \in Passes
  BY DEF Invariant, TypeOK
<1>4. Exactly(mem)
  BY <1>1, <1>2, <1>3, PassLeads, PassExact
<1>5. b \in Samples(t) /\ r \in Rows(t) /\ c \in Columns(t)
  BY DEF Samples, Rows, Columns
<1>6. Element(mem, t, b, r, c) = Expected(t, b, r, c)
  BY <1>1, <1>4, <1>5 DEF Exactly, Within
<1>7. Element(mem, t, b, r, c) = mem[t][Place(t, b, r, c)]
  BY <1>3, <1>5, ElementIs
<1>8. QED BY <1>6, <1>7 DEF Place

(* A pass that has come to its end has computed what the textbook says, in *)
(* every element, for every size of its tensors, every size of a vector    *)
(* and of the blocks of a product, and every order in which the iterations *)
(* of its parallel loops may be executed; the updates of a DenseUnit come  *)
(* on top of what its two means held. Results leaves out the passes        *)
(* whose code computes something else (Deviates) and the gradient a        *)
(* DenseUnit hands back if Transpose does not transpose its weights.       *)
THEOREM ResultsAreExact == Spec => []ResultExact
<1>1. Spec => []Invariant
  BY AlwaysInvariant
<1>2. Spec => []PartialSums
  BY ProductsSumUp
<1>3. Spec => []Explained
  BY AlwaysExplained
<1>4. Invariant /\ PartialSums /\ Explained => ResultExact
  BY EndsExact
<1>5. QED BY <1>1, <1>2, <1>3, <1>4, PTL
=============================================================================
