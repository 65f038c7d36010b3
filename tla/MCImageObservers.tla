-------------------------- MODULE MCImageObservers --------------------------
(***************************************************************************)
(* Instances of ImageObservers for TLC: an image with every window, and    *)
(* one which can only be viewed, and take its place in the cache.          *)
(***************************************************************************)
EXTENDS ImageObservers, TLC

CONSTANTS jpeg, drawing

AllForOne == jpeg :> {"hist", "meta", "effects"} @@ drawing :> {}
=============================================================================
