-------------------------------- MODULE Shapes --------------------------------
(***************************************************************************)
(* The Shape class as far as units and tensors use it.  A Shape is the     *)
(* sequence of its extents, m_shapeVector.  Pure operators only.           *)
(***************************************************************************)
EXTENDS Naturals, Sequences

(* The constructors refuse a zero extent; Shape() has no extents at all.   *)
IsShape(s) == s \in Seq(Nat \ {0})

Dim(s) == Len(s)

NumRow(s) == CASE s = <<>>   -> 0
               [] Len(s) = 1 -> 1
               [] OTHER      -> s[Len(s) - 1]

NumCol(s) == IF s = <<>> THEN 0 ELSE s[Len(s)]

Size(s) ==
  LET product[i \in 0 .. Len(s)] == IF i = 0 THEN 1 ELSE product[i - 1] * s[i]
  IN  product[Len(s)]

(* A vector becomes a matrix of so many equal rows. *)
SetNumRows(s, row) ==
  IF Len(s) = 1 THEN <<row, s[1]>> ELSE [s EXCEPT ![Len(s) - 1] = row]

SetNumCols(s, col) == [s EXCEPT ![Len(s)] = col]

(* Rows and columns come from the shape itself, not from the copy that is  *)
(* being widened.                                                          *)
GetTransposedShape(s) == SetNumCols(SetNumRows(s, NumCol(s)), NumRow(s))
=============================================================================
