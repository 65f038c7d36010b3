--------------------------- MODULE EventDispatch ----------------------------
(***************************************************************************)
(* How events and messages are handed to the handlers registered for them: *)
(* event-wimp.c and event-message.c. The handlers are in arrays, which are *)
(* walked with a pointer that stays where it is while a handler runs,      *)
(* whatever that does to the array. One array of an event and one of       *)
(* messages are modelled; the others are alike. In the latter the messages *)
(* are of one kind: the array is sorted by kind first.                     *)
(*                                                                         *)
(* A handler may poll for events itself, so walks nest: `walks' holds      *)
(* those under way, innermost last.                                        *)
(*                                                                         *)
(* Handlers are external, and are held to this: one which has the part of  *)
(* the array changed that was walked already, or has the array moved to a  *)
(* bigger block, handles the event. The comment in event-wimp.c (115)      *)
(* assumes it of those that deregister themselves; those of PrivateEye and *)
(* TagCloud which do more do so too (save.c, eye.c, dataxfer.c).           *)
(***************************************************************************)
EXTENDS Naturals, FiniteSets, SequencesExt

CONSTANTS
  Handlers,   \* the (handler, handle) pairs, each with its window
  ClassOf,    \* of each, whether it is for the event or for the message
  WindowOf,   \* the window that each is for, or AnyWindow
  Windows, AnyWindow,
  Smallest,   \* the number of entries first allocated (8 in the code)
  MaxDepth    \* bounds the walks under way at once

ASSUME DispatchAssumption ==
  /\ ClassOf \in [Handlers -> {"event", "message"}]
  /\ WindowOf \in [Handlers -> Windows \cup {AnyWindow}]
  /\ AnyWindow \notin Windows
  /\ Smallest \in Nat \ {0} /\ MaxDepth \in Nat \ {0}

VARIABLES
  entries,   \* the handlers of each array, in order
  allocated, \* the number of entries each array has room for
  walks,     \* the walks under way
  outcome    \* what the last one to end returned

vars == <<entries, allocated, walks, outcome>>

Classes == {"event", "message"}

(* due are the handlers which are yet to be asked, whatever their place;   *)
(* shifted says that the pointer is no longer where the walk has got to.   *)
Walks == [class: Classes, window: Windows, at: Nat \ {0},
          asking: Handlers, due: SUBSET Handlers, shifted: BOOLEAN]

TypeOK ==
  /\ \A c \in Classes :
       /\ entries[c] \in Seq({ h \in Handlers : ClassOf[h] = c })
       /\ IsInjective(entries[c])
       /\ Len(entries[c]) <= allocated[c]
  /\ allocated \in [Classes -> Nat]
  /\ walks \in Seq(Walks)
  /\ outcome \in {"none", "handled", "not handled"}

-----------------------------------------------------------------------------
(* Walks *)

Matches(h, w) == WindowOf[h] \in {AnyWindow, w}

(* Slip: the last entry is not reached.                                    *)
RemainingButLast(class, w, at) ==
  { i \in at + 1 .. Len(entries[class]) - 1 : Matches(entries[class][i], w) }

(* The entries beyond one that are for a window.                           *)
Remaining(class, w, at) ==
  { i \in at + 1 .. Len(entries[class]) : Matches(entries[class][i], w) }

First(S) == CHOOSE i \in S : \A j \in S : i <= j

Current == Last(walks)

(* A walk moves to an entry, whose handler is called.                      *)
CallFrom(walk, i) ==
  LET h == entries[walk.class][i]
  IN [walk EXCEPT !.at = i, !.asking = h, !.due = @ \ {h}]

(* wimp_handler_vague and the others: an event comes, or is polled for.    *)
Deliver(class, w) ==
  /\ Len(walks) < MaxDepth
  /\ LET left == Remaining(class, w, 0)
         begun == [class |-> class, window |-> w, at |-> 0, asking |-> AnyWindow,
                   due |-> { h \in ToSet(entries[class]) : Matches(h, w) }, shifted |-> FALSE]
     IN IF left = {}
        THEN outcome' = "not handled" /\ UNCHANGED walks
        ELSE walks' = Append(walks, CallFrom(begun, First(left))) /\ UNCHANGED outcome
  /\ UNCHANGED <<entries, allocated>>

(* The handler returns event_HANDLED.                                      *)
Handled ==
  /\ walks # << >>
  /\ walks' = Front(walks)
  /\ outcome' = "handled"
  /\ UNCHANGED <<entries, allocated>>

(* The handler returns event_NOT_HANDLED: the bound is that of the array   *)
(* as it is by now.                                                        *)
PassOn ==
  /\ walks # << >> /\ ~ Current.shifted
  /\ LET left == Remaining(Current.class, Current.window, Current.at)
     IN IF left = {}
        THEN walks' = Front(walks) /\ outcome' = "not handled"
        ELSE /\ walks' = Append(Front(walks), CallFrom(Current, First(left)))
             /\ UNCHANGED outcome
  /\ UNCHANGED <<entries, allocated>>

-----------------------------------------------------------------------------
(* What handlers do *)

(* An array becomes new: each walk of it keeps its pointer.                *)
Rearrange(class, new, moved) ==
  /\ entries' = [entries EXCEPT ![class] = new]
  /\ UNCHANGED outcome
  /\ walks' = [k \in DOMAIN walks |->
       LET walk == walks[k]
           added == ToSet(new) \ ToSet(entries[class])
           behind(s) == SubSeq(s, 1, walk.at)
       IN IF walk.class # class THEN walk
          ELSE [walk EXCEPT
                 !.due = (@ \cap ToSet(new)) \cup { h \in added : Matches(h, walk.window) },
                 !.shifted = \/ @ \/ moved
                             \/ Len(new) < walk.at
                             \/ behind(new) # behind(entries[class])]]

MoreSpecific(k, h) == WindowOf[k] # AnyWindow /\ WindowOf[h] = AnyWindow

(* qsort: entries that compare equal come in any order.                    *)
Sorted(s) ==
  { p \in SetToSeqs(ToSet(s)) :
      \A i, j \in DOMAIN p : i < j => ~ MoreSpecific(p[j], p[i]) }

(* Slip: it is not looked for.                                             *)
Whatever(h) == TRUE

New(h) == h \notin ToSet(entries[ClassOf[h]])

(* event_register_wimp_handler and register_message_handler. What is there *)
(* already, and what there is no memory for, changes nothing.              *)
Register(h) ==
  LET class == ClassOf[h]
      full == Len(entries[class]) = allocated[class]
      added == Append(entries[class], h)
  IN /\ New(h)
     /\ allocated' = IF ~ full THEN allocated
                     ELSE [allocated EXCEPT ![class] = IF 2 * @ < Smallest THEN Smallest ELSE 2 * @]
     /\ \E new \in (IF class = "message" THEN Sorted(added) ELSE {added}) :
          Rearrange(class, new, full)

(* event_deregister_wimp_handler and deregister_message_handler: those     *)
(* behind close up.                                                        *)
Deregister(h) ==
  LET class == ClassOf[h]
  IN /\ \E i \in DOMAIN entries[class] :
          /\ entries[class][i] = h
          /\ Rearrange(class, RemoveAt(entries[class], i), FALSE)
     /\ UNCHANGED allocated

-----------------------------------------------------------------------------
Init ==
  /\ entries = [c \in Classes |-> << >>]
  /\ allocated = [c \in Classes |-> 0]
  /\ walks = << >> /\ outcome = "none"

Next ==
  \/ Handled \/ PassOn
  \/ \E class \in Classes, w \in Windows : Deliver(class, w)
  \/ \E h \in Handlers : Register(h) \/ Deregister(h)

Spec == Init /\ [][Next]_vars

-----------------------------------------------------------------------------
(* Properties *)

(* However handlers come and go and walks nest, an event is offered once   *)
(* to every handler which is for it, the specific before the general if it *)
(* is a message, and to no other (event-wimp.c, 112; event-message.c,      *)
(* 247).                                                                   *)
Promised == INSTANCE Delivery WITH
  registered <- UNION { ToSet(entries[c]) : c \in Classes },
  deliveries <- [k \in DOMAIN walks |->
                   [class |-> walks[k].class, window |-> walks[k].window,
                    asking |-> walks[k].asking, due |-> walks[k].due]]
Promise == Promised!Spec
=============================================================================
