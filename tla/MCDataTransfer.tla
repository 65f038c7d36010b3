--------------------------- MODULE MCDataTransfer ---------------------------
(***************************************************************************)
(* Instances of DataTransfer for TLC: blocks and pictures are              *)
(* interchangeable.                                                        *)
(***************************************************************************)
EXTENDS DataTransfer, TLC

Symmetry == Permutations(Viewers) \cup Permutations(Pictures)
=============================================================================
