----------------------------- MODULE MCSharedPtr -----------------------------
(* SharedPtr on one or two threads with a few variables each. *)
EXTENDS SharedPtr, TLC

CONSTANTS t1, t2, a, b

One == {t1}
Two == {t1, t2}
OneObject == {a}
TwoObjects == {a, b}
OfOne == {<<t1, 1>>}
OneEach == {<<t1, 1>>, <<t2, 1>>}
TwoAndOne == {<<t1, 1>>, <<t1, 2>>, <<t2, 1>>}
Symmetric == Permutations(TwoObjects)
=============================================================================
