------------------------------ MODULE Delivery ------------------------------
(***************************************************************************)
(* What a program may rely on when events are handed round: each handler   *)
(* registered for an event is asked once, and no other is, until one has   *)
(* handled it. Of those for a message the ones which are for the window    *)
(* that it concerns come first. Before it answers, a handler may register  *)
(* and deregister handlers, and poll for other events.                     *)
(***************************************************************************)
EXTENDS Naturals, Sequences, SequencesExt

CONSTANTS
  Handlers,
  ClassOf,    \* of each, whether it is for an event or for a message
  WindowOf,   \* the window that each is for, or AnyWindow
  Windows, AnyWindow

VARIABLES
  registered, \* the handlers there are
  deliveries, \* the events being handed round, innermost last: the handler
              \* which has not answered, and those still to be asked
  outcome     \* of the last one to end

Classes == {"event", "message"}

Concerns(h, d) == ClassOf[h] = d.class /\ WindowOf[h] \in {AnyWindow, d.window}

MoreSpecific(k, h) == WindowOf[k] # AnyWindow /\ WindowOf[h] = AnyWindow

(* The handler to ask next in a delivery.                                  *)
May(h, d) ==
  /\ h \in d.due
  /\ d.class = "message" => \A k \in d.due : ~ MoreSpecific(k, h)

Ask(h, d) == [d EXCEPT !.asking = h, !.due = @ \ {h}]

Innermost == Last(deliveries)

Init == registered = {} /\ deliveries = << >> /\ outcome = "none"

Deliver(class, w) ==
  /\ LET all == { h \in registered : Concerns(h, [class |-> class, window |-> w]) }
     IN IF all = {}
        THEN outcome' = "not handled" /\ UNCHANGED deliveries
        ELSE /\ \E h \in all :
                  LET new == [class |-> class, window |-> w, asking |-> h, due |-> all]
                  IN May(h, new) /\ deliveries' = Append(deliveries, Ask(h, new))
             /\ UNCHANGED outcome
  /\ UNCHANGED registered

Handled ==
  /\ deliveries # << >>
  /\ deliveries' = Front(deliveries)
  /\ outcome' = "handled"
  /\ UNCHANGED registered

PassOn ==
  /\ deliveries # << >>
  /\ IF Innermost.due = {}
     THEN deliveries' = Front(deliveries) /\ outcome' = "not handled"
     ELSE /\ \E h \in Innermost.due :
               /\ May(h, Innermost)
               /\ deliveries' = Append(Front(deliveries), Ask(h, Innermost))
          /\ UNCHANGED outcome
  /\ UNCHANGED registered

Register(h) ==
  /\ h \notin registered
  /\ registered' = registered \cup {h}
  /\ deliveries' = [i \in DOMAIN deliveries |->
       IF Concerns(h, deliveries[i])
       THEN [deliveries[i] EXCEPT !.due = @ \cup {h}] ELSE deliveries[i]]
  /\ UNCHANGED outcome

Deregister(h) ==
  /\ h \in registered
  /\ registered' = registered \ {h}
  /\ deliveries' = [i \in DOMAIN deliveries |-> [deliveries[i] EXCEPT !.due = @ \ {h}]]
  /\ UNCHANGED outcome

Next ==
  \/ Handled \/ PassOn
  \/ \E class \in Classes, w \in Windows : Deliver(class, w)
  \/ \E h \in Handlers : Register(h) \/ Deregister(h)

Spec == Init /\ [][Next]_<<registered, deliveries, outcome>>
=============================================================================
