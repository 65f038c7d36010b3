-------------------------- MODULE ReadThroughCache --------------------------
(***************************************************************************)
(* What imagecache.h:6 promises, without the array that implements it: a   *)
(* cache that holds the images its clients view and, besides them, up to   *)
(* `limit' bytes of images that nobody views.                              *)
(*                                                                         *)
(* An idle image is a pair <<image, bytes>>. If somebody turns an image    *)
(* that idles then it may take another size. While what idles does not     *)
(* fit because of that the cache is disturbed and the limit not promised.  *)
(***************************************************************************)
EXTENDS Naturals, FiniteSets

CONSTANTS Images, Viewers, None

VARIABLES
  held,      \* the image each viewer holds, None if it holds none
  idle,      \* the idle images with their sizes
  limit,     \* the number of bytes which may idle
  disturbed  \* more idles than may since an idle image was turned

vars == <<held, idle, limit, disturbed>>

Bytes(S) == UNION { {e} \X (1 .. e[2]) : e \in S }

FitsLimit(S, n) == Cardinality(Bytes(S)) <= n

Init ==
  /\ held = [v \in Viewers |-> None]
  /\ idle = {}
  /\ limit \in Nat
  /\ disturbed = FALSE

(* A viewer takes an image: one that idles, one that another viewer holds, *)
(* or one read through from its file. An image it takes no longer idles.   *)
Acquire(v, i) ==
  /\ held[v] = None
  /\ held' = [held EXCEPT ![v] = i]
  /\ idle' = { e \in idle : e[1] # i }
  /\ UNCHANGED limit

(* A viewer lets its image go. If it was the last to hold the image then   *)
(* the image may stay to idle, should it fit.                              *)
Release(v) ==
  /\ held[v] # None
  /\ held' = [held EXCEPT ![v] = None]
  /\ \/ idle' = idle
     \/ /\ \A w \in Viewers \ {v} : held[w] # held[v]
        /\ \E e \in idle' : /\ e[1] = held[v] /\ e[2] \in Nat
                            /\ idle' = idle \cup {e}
        /\ disturbed \/ FitsLimit(idle', limit)
  /\ UNCHANGED limit

(* An idle image may be discarded at any time: to make room for another,   *)
(* to find memory, or because the user empties the cache.                  *)
Forget(e) ==
  /\ e \in idle
  /\ idle' = idle \ {e}
  /\ UNCHANGED <<held, limit>>

(* The limit changes only to one which what idles respects, unless the     *)
(* cache is disturbed.                                                     *)
SetLimit ==
  /\ limit' \in Nat
  /\ disturbed \/ FitsLimit(idle, limit')
  /\ UNCHANGED <<held, idle>>

(* An idle image changes its size.                                         *)
Disturb(e) ==
  /\ \E f \in idle' : /\ f[1] = e[1] /\ f[2] \in Nat
                      /\ idle' = (idle \ {e}) \cup {f}
  /\ disturbed' = ~ FitsLimit(idle', limit)
  /\ UNCHANGED <<held, limit>>

(* The disturbance ends only with what idles within the limit.             *)
Steady == disturbed' = disturbed \/ (~ disturbed' /\ FitsLimit(idle', limit'))

(* What the clients and the cache do.                                      *)
Work ==
  \/ UNCHANGED <<held, idle, limit>>
  \/ \E v \in Viewers : Release(v) \/ \E i \in Images : Acquire(v, i)
  \/ \E e \in idle : Forget(e)
  \/ SetLimit

Next ==
  \/ Work /\ Steady
  \/ \E e \in idle : Disturb(e)

Spec == Init /\ [][Next]_vars

=============================================================================
