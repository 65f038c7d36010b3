----------------------------- MODULE MCSession -----------------------------
(***************************************************************************)
(* Instances of Session for TLC: three viewers of two images, so that some *)
(* image is shared, and two questions waiting at once.                     *)
(***************************************************************************)
EXTENDS Session

(* Blocks and images are interchangeable.                                  *)
Symmetry == Permutations(Viewers) \cup Permutations(Images)
=============================================================================
