-------------------------- MODULE MCEventDispatch ---------------------------
(***************************************************************************)
(* An instance of EventDispatch for TLC: a general and a specific handler  *)
(* of the event, and three of the message.                                 *)
(***************************************************************************)
EXTENDS EventDispatch

CONSTANTS e1, e2, m1, m2, m3, w1, w2

MCHandlers == {e1, e2, m1, m2, m3}

MCClassOf == [h \in MCHandlers |-> IF h \in {e1, e2} THEN "event" ELSE "message"]

MCWindowOf == [h \in MCHandlers |-> IF h \in {e2, m3} THEN w1 ELSE AnyWindow]
=============================================================================
