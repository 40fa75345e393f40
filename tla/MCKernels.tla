------------------------------ MODULE MCKernels ------------------------------
(* Instances of Kernels for TLC: vectors of two elements and blocks of    *)
(* four columns and two rows, so that each loop has whole and partial      *)
(* blocks, and rows are padded or not.                                     *)
EXTENDS Kernels

Sizes(kinds, rows, mids, cols, casts, consumers, numbers) ==
  [kind : kinds, rows : rows, mid : mids, cols : cols, batch : 1 .. 2,
   cast : casts, consumers : consumers, number : numbers]

ProductPasses(numbers, rows, mids, cols) ==
  Sizes({"Multiply"}, rows, mids, cols, {"none", "A", "B"}, {1}, numbers)

Floats == {"float"}
AnyNumbers == {"float", "int"}
AnyCast == {"none", "A", "B"}

BothOperands == {"Add", "Sub", "Dot", "Div"}

DensePasses ==
  Sizes({"DenseForward"}, {1}, 1 .. 3, 1 .. 5, {"B"}, {1}, Floats)
    \cup Sizes({"DenseBackward"}, {1}, 1 .. 3, 1 .. 3, {"B"}, 1 .. 2, Floats)

(* mid counts for nothing in these. *)
ElementwisePasses ==
  UNION {
    Sizes(Synchronous \ {"DenseForward", "DenseBackward"}, 1 .. 2, {n}, {n},
          {"none"}, 1 .. 2, Floats)
      \cup Sizes(BothOperands, {2}, {n}, {n}, AnyCast, {1}, AnyNumbers)
      \cup Sizes(Kernels \ (BothOperands \cup {"Multiply"}), {2}, {n}, {n},
                 {"none"}, {1}, AnyNumbers)
      \cup Sizes(Initializers, {2}, {n}, {n}, {"none"}, {1}, AnyNumbers)
    : n \in 1 .. 3}

(* The same calls once more: two sizes of each. *)
AsyncPasses ==
  {p \in Sizes(Asynchronous, {1}, 2 .. 3, {2}, {"B"}, {2}, Floats) :
     p.mid = p.cols \/ p.kind \in {"DenseAsyncForward", "DenseAsyncBackward"}}

SmallPasses ==
  ProductPasses(Floats, 1 .. 2, 1 .. 5, 1 .. 6)
    \cup ProductPasses({"int"}, {2}, {1, 3}, {3, 5})
    \cup DensePasses \cup ElementwisePasses \cup AsyncPasses
=============================================================================
