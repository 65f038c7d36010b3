---------------------------- MODULE MCImageCache ----------------------------
(***************************************************************************)
(* Instances of ImageCache for TLC: a file of one byte and one of two, so  *)
(* that one image may fill the idle space, fit beside another, or never    *)
(* fit. The program's size_t is far larger than any sum of sizes: Word.    *)
(***************************************************************************)
EXTENDS ImageCache

CONSTANTS f1, f2

MCFileSize == [f \in Files |-> IF f = f2 THEN 2 ELSE 1]

(* Addresses and windows are interchangeable.                              *)
Symmetry == Permutations(Images) \cup Permutations(Viewers)
=============================================================================
