------------------------------ MODULE MCTensor ------------------------------
(* Instances of Tensor for TLC: three tensors over buffers of the same     *)
(* number; tensors and buffers are interchangeable.                        *)
EXTENDS Tensor, TLC

Interchangeable == Permutations(Names) \cup Permutations(Buffers)
=============================================================================
