----------------------------- MODULE Documents -----------------------------
(***************************************************************************)
(* What a user relies on when pictures go from program to program: one     *)
(* that is not shown as modified is kept in a file, so that its viewer may *)
(* be closed without a thought.                                            *)
(***************************************************************************)
CONSTANTS Viewers, Pictures, None

VARIABLES
  shown, \* what each viewer shows, and whether as modified
  kept   \* the pictures that are, or were, in a file of the user's

Documents == [picture: Pictures, modified: BOOLEAN]

Init ==
  /\ shown = [v \in Viewers |-> None]
  /\ kept \subseteq Pictures

(* A picture from a file.                                                  *)
Load(v, p) ==
  /\ p \in kept
  /\ shown' = [shown EXCEPT ![v] = [picture |-> p, modified |-> FALSE]]
  /\ UNCHANGED kept

(* A picture from elsewhere, or an edited one.                             *)
Take(v, p) ==
  /\ shown' = [shown EXCEPT ![v] = [picture |-> p, modified |-> TRUE]]
  /\ UNCHANGED kept

Keep(v) ==
  /\ shown[v] # None
  /\ kept' = kept \cup {shown[v].picture}
  /\ \E m \in BOOLEAN : shown' = [shown EXCEPT ![v].modified = m]

Close(v) ==
  /\ shown[v] # None
  /\ shown' = [shown EXCEPT ![v] = None]
  /\ UNCHANGED kept

Next ==
  \E v \in Viewers :
    Keep(v) \/ Close(v) \/ \E p \in Pictures : Load(v, p) \/ Take(v, p)

Spec == Init /\ [][Next]_<<shown, kept>>
=============================================================================
