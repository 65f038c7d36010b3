------------------------------- MODULE MCTags -------------------------------
(***************************************************************************)
(* Tags for TLC, with what the code does not read again left out of what   *)
(* tells two states apart: the size of the search window's table, and how  *)
(* large a lost one was; what the highlights are of no image; which tags a *)
(* cloud shows, other than none, while its table is lost, and which tag a  *)
(* menu was about then or once its place is forgotten, for none is found;  *)
(* the same, once the window which would act on it is closed, for opening  *)
(* it sets both again; a title which is known to be wrong; and all that a  *)
(* use of a missing table leaves behind.                                   *)
(***************************************************************************)
EXTENDS Tags

Some(S) == IF S = {} THEN {} ELSE {0}

Sign(i) == IF i < 0 THEN -1 ELSE 0

SomeTag(id) == IF id = NoTag THEN NoTag ELSE 0

View ==
  LET c == cloud["tags"]
      s == cloud["search"]
      idle == ~ c.open /\ menu.of # "tags" IN
  IF undefined THEN <<undefined>>
  ELSE <<dbVars, image, shaded, behind,
         IF "title" \in behind THEN None ELSE titled,
         IF menu.of = "search" /\ (s.menued < 0 \/ s.map = Null) THEN [menu EXCEPT !.about = SomeTag(@)] ELSE menu,
         IF idle \/ (c.menued < 0 /\ menu.of # "tags") THEN NoTag
         ELSE IF c.menued < 0 \/ c.map = Null THEN SomeTag(asked) ELSE asked,
         [c EXCEPT !.nmap = IF @ > 0 THEN 1 ELSE 0,
                   !.lit = IF image = None THEN {} ELSE @,
                   !.menued = IF idle THEN -1 ELSE IF c.map = Null THEN Sign(@) ELSE @,
                   !.shown = IF idle THEN {} ELSE IF c.map = Null THEN Some(@) ELSE @],
         [s EXCEPT !.nmap = 0,
                   !.menued = IF menu.of # "search" THEN -1 ELSE IF s.map = Null THEN Sign(@) ELSE @,
                   !.shown = IF s.map = Null THEN Some(@) ELSE @]>>

=============================================================================
