--------------------------- MODULE EffectsProofs ---------------------------
(***************************************************************************)
(* Proofs about Effects, for any settings, levels and lengths of the list  *)
(* of effects, and any kinds of effects among those modelled.              *)
(***************************************************************************)
EXTENDS Effects, SequenceTheorems, TLAPS

(* What the indices that are kept between events stand for: each row of    *)
(* the list is an effect, a slot that a drag or an editor took is one      *)
(* still, and neither outlives the window. A dragged row falls off the     *)
(* list by at most one: the row that is deleted leaves no other selected.  *)
IndicesInv ==
  /\ \A k \in 1 .. nentries : entries[k] \in Elements
  /\ drag.op = "move" =>
       /\ drag.row \in Slots /\ entries[drag.row] \in Elements
       /\ drag.row <= nentries \/ (drag.row = nentries + 1 /\ selection = 0)
  /\ drag.op = "insert" => drag.kind \in Kinds
  /\ drag.op # "none" => open
  /\ dialogue \in {"tone", "picker"} => open /\ element \in Slots

(* What the sprites show, as long as no effect failed.                     *)
SpritesInv ==
  open /\ degenerate # Spoilt =>
    /\ degenerate = Listed(entries, nentries)
    /\ result = Blend(picture, degenerate, level)

(* The inductive invariant.                                                *)
IInv == TypeOK /\ IndicesInv /\ SpritesInv /\ ClosedShowsPicture /\ EditorsExclude

(* The invariant is stronger than what the runs check.                     *)
LEMMA IInvImplies ==
  IInv => TypeOK /\ PreviewIsCurrent /\ ClosedShowsPicture /\ EditorsExclude
BY DEF IInv, SpritesInv, PreviewIsCurrent

-----------------------------------------------------------------------------
(* Lists and pictures *)

LEMMA ListedIsList ==
  ASSUME NEW ents \in [Slots -> Elements \cup {NoEffect}], NEW n \in 0 .. MaxEffects,
         \A k \in 1 .. n : ents[k] \in Elements
  PROVE  Listed(ents, n) \in Lists
BY DEF Listed, Lists

LEMMA NoneListed ==
  ASSUME NEW ents
  PROVE  Listed(ents, 0) = << >>
BY DEF Listed

LEMMA EmptyIsList == << >> \in Lists
<1>1. << >> \in [1 .. 0 -> Elements]
  OBVIOUS
<1> QED
  BY <1>1, EffectsAssumption DEF Lists, EffectsAssumption

LEMMA BlendIsPicture ==
  ASSUME NEW p \in Pictures, NEW by \in Lists \cup {Spoilt}, NEW lev \in Levels
  PROVE  Blend(p, by, lev) \in Pictures
<1>1. [by |-> by, level |-> lev] \in Stages
  BY DEF Stages
<1> QED
  BY <1>1, AppendProperties DEF Blend, Pictures

LEMMA InitialIsElement ==
  ASSUME NEW kind \in Kinds
  PROVE  Initial(kind) \in Elements
BY EffectsAssumption DEF EffectsAssumption, Initial, Elements

(* Whatever the list becomes, the sprites follow it.                       *)
LEMMA ApplyStep ==
  ASSUME TypeOK,
         entries' \in [Slots -> Elements \cup {NoEffect}], nentries' \in 0 .. MaxEffects,
         \A k \in 1 .. nentries' : entries'[k] \in Elements,
         ApplyEffects(entries', nentries', picture, level),
         UNCHANGED <<picture, level>>
  PROVE  /\ degenerate' \in Lists \cup {Spoilt}
         /\ result' \in Pictures
         /\ SpritesInv'
<1>1. Listed(entries', nentries') \in Lists
  BY ListedIsList
<1>2. Blend(picture, Listed(entries', nentries'), level) \in Pictures
  BY <1>1, BlendIsPicture DEF TypeOK
<1> QED
  BY <1>1, <1>2 DEF ApplyEffects, SpritesInv, TypeOK

-----------------------------------------------------------------------------
(* Steps of the list *)

(* What the list, its rows and the sprites are after a step.               *)
ListOK ==
  /\ entries \in [Slots -> Elements \cup {NoEffect}]
  /\ nentries \in 0 .. MaxEffects
  /\ \A k \in 1 .. nentries : entries[k] \in Elements
  /\ selection \in 0 .. nentries
  /\ level \in Levels
  /\ degenerate \in Lists \cup {Spoilt}
  /\ result \in Pictures
  /\ SpritesInv

LEMMA InsertStep ==
  ASSUME IInv, NEW e \in Elements, NEW w \in 1 .. nentries + 1, InsertEffect(e, w),
         UNCHANGED picture
  PROVE  ListOK'
<1> USE EffectsAssumption DEF EffectsAssumption
<1>1. /\ entries' \in [Slots -> Elements \cup {NoEffect}]
      /\ nentries' \in 0 .. MaxEffects
      /\ \A k \in 1 .. nentries' : entries'[k] \in Elements
  BY DEF IInv, IndicesInv, TypeOK, InsertEffect, Slots
<1>2. selection' \in 0 .. nentries' /\ level' \in Levels
  BY DEF IInv, TypeOK, InsertEffect
<1> QED
  BY <1>1, <1>2, ApplyStep DEF IInv, InsertEffect, ListOK

LEMMA MoveStep ==
  ASSUME IInv, NEW from \in Slots, NEW to \in 1 .. nentries, entries[from] \in Elements,
         MoveEffect(from, to), UNCHANGED picture
  PROVE  ListOK'
<1> USE EffectsAssumption DEF EffectsAssumption
<1>1. /\ entries' \in [Slots -> Elements \cup {NoEffect}]
      /\ nentries' \in 0 .. MaxEffects
      /\ \A k \in 1 .. nentries' : entries'[k] \in Elements
  BY DEF IInv, IndicesInv, TypeOK, MoveEffect, Slots
<1>2. selection' \in 0 .. nentries' /\ level' \in Levels
  BY DEF IInv, TypeOK, MoveEffect, MoveSelection, Clamp, Slots
<1>3. ApplyEffects(entries', nentries', picture, level)
  BY DEF MoveEffect
<1> QED
  BY <1>1, <1>2, <1>3, ApplyStep DEF IInv, MoveEffect, ListOK

(* The slot of a drag under way, and of an editor, still has an effect.    *)
LEMMA RemoveStep ==
  ASSUME IInv, NEW k \in 1 .. nentries, k = selection, RemoveEffect(k), UNCHANGED picture
  PROVE  /\ ListOK'
         /\ drag.op = "move" =>
              /\ entries'[drag.row] \in Elements
              /\ drag.row <= nentries' \/ (drag.row = nentries' + 1 /\ selection' = 0)
<1> USE EffectsAssumption DEF EffectsAssumption
<1>1. /\ entries' \in [Slots -> Elements \cup {NoEffect}]
      /\ nentries' \in 0 .. MaxEffects
      /\ \A j \in 1 .. nentries' : entries'[j] \in Elements
  BY DEF IInv, IndicesInv, TypeOK, RemoveEffect, Slots
<1>2. selection' \in 0 .. nentries' /\ level' \in Levels
  BY DEF IInv, TypeOK, RemoveEffect, SelectionWithout
<1>3. drag.op = "move" => entries'[drag.row] \in Elements
  BY DEF IInv, IndicesInv, TypeOK, RemoveEffect, Slots
<1>4. drag.op = "move" => drag.row <= nentries' \/ (drag.row = nentries' + 1 /\ selection' = 0)
  BY DEF IInv, IndicesInv, TypeOK, RemoveEffect, SelectionWithout, Slots
<1> QED
  BY <1>1, <1>2, <1>3, <1>4, ApplyStep DEF IInv, RemoveEffect, ListOK

LEMMA EditedStep ==
  ASSUME IInv, NEW s \in Slots, NEW arg \in Args, entries[s] # NoEffect,
         entries[s].kind # "grey", EffectEdited(s, arg), UNCHANGED picture
  PROVE  /\ ListOK'
         /\ \A k \in Slots : entries[k] \in Elements => entries'[k] \in Elements
<1>1. entries[s] \in Elements
  BY DEF IInv, TypeOK
<1>2. [entries[s] EXCEPT !.arg = arg] \in Elements
  BY <1>1, EffectsAssumption DEF EffectsAssumption, Elements
<1>3. /\ entries' \in [Slots -> Elements \cup {NoEffect}]
      /\ \A k \in Slots : entries[k] \in Elements => entries'[k] \in Elements
  BY <1>2 DEF IInv, TypeOK, EffectEdited
<1>4. \A k \in 1 .. nentries : k \in Slots /\ entries'[k] \in Elements
  BY <1>3, EffectsAssumption DEF IInv, IndicesInv, TypeOK, Slots, EffectsAssumption
<1>5. ApplyEffects(entries', nentries', picture, level) /\ UNCHANGED <<nentries, selection, level>>
  BY DEF EffectEdited
<1> QED
  BY <1>3, <1>4, <1>5, ApplyStep DEF IInv, TypeOK, ListOK

-----------------------------------------------------------------------------
(* Steps of the window, the editors and the image *)

Drags == [op: {"none", "insert", "move"}, row: 0 .. MaxEffects, kind: Kinds \cup {"any"}]

LEMMA DragTypes ==
  /\ NoDrag \in Drags /\ NoDrag.op = "none"
  /\ \A k \in Slots :
       LET d == [op |-> "move", row |-> k, kind |-> "any"]
       IN d \in Drags /\ d.op = "move" /\ d.row = k
  /\ \A kind \in Kinds :
       LET d == [op |-> "insert", row |-> 0, kind |-> kind]
       IN d \in Drags /\ d.op = "insert" /\ d.kind = kind
BY EffectsAssumption DEF NoDrag, Drags, Slots, EffectsAssumption

(* The invariant's other half.                                             *)
ControlOK ==
  /\ image \in {"viewed", "idle", "gone"} /\ picture \in Pictures
  /\ editing \in BOOLEAN /\ open \in BOOLEAN /\ listening \in BOOLEAN
  /\ selected \in {0, 2}
  /\ dialogue \in {"none", "add", "tone", "picker", "rotate", "orphan"}
  /\ element \in Slots \cup {0} /\ copied \in BOOLEAN
  /\ drag \in Drags
  /\ orphans \subseteq {"dialogue", "handler"}
  /\ undefined \in BOOLEAN
  /\ drag.op = "move" =>
       /\ drag.row \in Slots /\ entries[drag.row] \in Elements
       /\ drag.row <= nentries \/ (drag.row = nentries + 1 /\ selection = 0)
  /\ drag.op = "insert" => drag.kind \in Kinds
  /\ drag.op # "none" => open
  /\ dialogue \in {"tone", "picker"} => open /\ element \in Slots
  /\ ClosedShowsPicture
  /\ EditorsExclude

LEMMA Halves ==
  /\ IInv <=> ListOK /\ ControlOK
  /\ IInv' <=> ListOK' /\ ControlOK'
BY DEF IInv, TypeOK, IndicesInv, ListOK, ControlOK, Drags

LEMMA ListKept ==
  ASSUME ListOK, UNCHANGED <<picture, entries, nentries, previewVars>>,
         open' => open, selection' \in 0 .. nentries
  PROVE  ListOK'
BY DEF ListOK, SpritesInv, previewVars

(* What an empty list shows is the picture.                                *)
LEMMA ListCleared ==
  ASSUME picture' \in Pictures, entries' = [k \in Slots |-> NoEffect],
         nentries' = 0, selection' = 0, level' = FullLevel,
         degenerate' = << >>, result' = picture'
  PROVE  ListOK'
<1> USE EffectsAssumption DEF EffectsAssumption
<1>1. SpritesInv'
  BY NoneListed DEF SpritesInv, Blend
<1> QED
  BY <1>1, EmptyIsList DEF ListOK

LEMMA NeitherShown ==
  /\ selected = 0 /\ open = FALSE => ClosedShowsPicture
  /\ selected' = 0 /\ open' = FALSE => ClosedShowsPicture'
<1>1. (0 = 2) = FALSE
  OBVIOUS
<1> QED
  BY <1>1 DEF ClosedShowsPicture

LEMMA DestroyStep ==
  ASSUME IInv, Destroy, picture' \in Pictures, image' \in {"viewed", "idle", "gone"}
  PROVE  IInv'
<1>1. ListOK'
  BY ListCleared DEF Destroy, Dismantle
<1>2. /\ drag' \in Drags /\ drag'.op = "none"
      /\ orphans' \subseteq {"dialogue", "handler"}
  BY DragTypes, Halves DEF ControlOK, Destroy, Dismantle, LeftBehind
<1>3. ControlOK'
  BY <1>2, Halves, NeitherShown DEF ControlOK, Destroy, Dismantle, EditorsExclude
<1> QED
  BY <1>1, <1>3, Halves

LEMMA FinishStep ==
  ASSUME IInv, Clickable, Finish, picture' \in Pictures, UNCHANGED image
  PROVE  IInv'
<1>1. CASE Destroy
  BY <1>1, DestroyStep DEF IInv, TypeOK
<1>2. CASE Reset
  <2>1. ListOK'
    BY <1>2, ListCleared DEF Reset
  <2>2. ControlOK'
    BY <1>2, Halves DEF ControlOK, Reset, Clickable, ClosedShowsPicture, EditorsExclude
  <2> QED
    BY <2>1, <2>2, Halves
<1> QED
  BY <1>1, <1>2 DEF Finish

LEMMA WindowSteps ==
  ASSUME IInv, WindowStep
  PROVE  IInv'
<1> USE EffectsAssumption DEF EffectsAssumption
<1>0. ListOK /\ ControlOK
  BY Halves
<1>1. CASE OpenEffects
  <2>1. ListOK'
    BY <1>0, <1>1, ListCleared, ListKept
       DEF OpenEffects, Available, ControlOK, EditorsExclude, listVars, ListOK, previewVars
  <2>2. ControlOK'
    BY <1>0, <1>1
       DEF ControlOK, OpenEffects, Available, listVars, ClosedShowsPicture, EditorsExclude
  <2> QED
    BY <2>1, <2>2, Halves
<1>2. CASE ClickApply
  BY <1>2, FinishStep DEF ClickApply, IInv, TypeOK
<1>3. CASE ClickCancel
  BY <1>3, FinishStep DEF ClickCancel, IInv, TypeOK
<1>4. CASE ClickAdd
  <2>1. ListOK'
    BY <1>0, <1>4, ListKept DEF ClickAdd, imageVars, listVars, ListOK
  <2>2. ControlOK'
    BY <1>0, <1>4
       DEF ControlOK, ClickAdd, ShowMenu, Clickable, imageVars, listVars, ClosedShowsPicture,
           EditorsExclude
  <2> QED
    BY <2>1, <2>2, Halves
<1>5. ASSUME NEW lev \in Levels, SlideTo(lev) PROVE IInv'
  <2>1. Blend(picture, degenerate, lev) \in Pictures
    BY <1>0, BlendIsPicture DEF ListOK, ControlOK
  <2>2. ListOK'
    BY <1>0, <1>5, <2>1
       DEF SlideTo, ApplyBlend, imageVars, listVars, ListOK, SpritesInv
  <2>3. ControlOK'
    BY <1>0, <1>5
       DEF ControlOK, SlideTo, imageVars, listVars, editorVars, ClosedShowsPicture, EditorsExclude
  <2> QED
    BY <2>2, <2>3, Halves
<1>6. ASSUME NEW k \in Slots, Select(k) \/ StartMove(k) PROVE IInv'
  <2>1. k \in 1 .. nentries /\ selection' = k
    BY <1>6 DEF Select, StartMove
  <2>2. ListOK'
    BY <1>0, <1>6, <2>1, ListKept DEF Select, StartMove, imageVars, ListOK
  <2>3. entries[k] \in Elements
    BY <1>0, <2>1 DEF ListOK
  <2>4. CASE Select(k)
    <3>1. drag.op = "move" => selection # 0 /\ drag.row <= nentries
      BY <1>0, <2>4 DEF Select, Clickable, ControlOK
    <3>2. ControlOK'
      BY <1>0, <2>4, <3>1
         DEF ControlOK, Select, imageVars, editorVars, ClosedShowsPicture, EditorsExclude
    <3> QED
      BY <2>2, <3>2, Halves
  <2>5. CASE StartMove(k)
    <3>1. drag' \in Drags /\ drag'.op = "move" /\ drag'.row = k
      BY <2>5, DragTypes DEF StartMove
    <3>2. /\ dialogue = "none" /\ open /\ UNCHANGED <<imageVars, open, entries, nentries>>
          /\ UNCHANGED <<dialogue, element, copied, listening, orphans, undefined>>
      BY <2>5 DEF StartMove, Clickable
    <3>3. drag'.row \in Slots /\ entries'[drag'.row] \in Elements /\ drag'.row <= nentries'
      BY <1>0, <2>1, <2>3, <3>1, <3>2 DEF ListOK
    <3>4. ControlOK'
      BY <1>0, <3>1, <3>2, <3>3
         DEF ControlOK, imageVars, ClosedShowsPicture, EditorsExclude
    <3> QED
      BY <2>2, <3>4, Halves
  <2> QED
    BY <1>6, <2>4, <2>5
<1>7. CASE Deselect
  <2>1. ListOK'
    BY <1>0, <1>7, ListKept DEF Deselect, imageVars, ListOK
  <2>2. ControlOK'
    BY <1>0, <1>7
       DEF ControlOK, Deselect, imageVars, editorVars, ClosedShowsPicture, EditorsExclude
  <2> QED
    BY <2>1, <2>2, Halves
<1>8. CASE Delete
  <2>1. selection \in 1 .. nentries /\ UNCHANGED picture /\ RemoveEffect(selection)
    BY <1>0, <1>8 DEF Delete, ListOK, imageVars
  <2>2. /\ ListOK'
        /\ drag.op = "move" =>
             /\ entries'[drag.row] \in Elements
             /\ drag.row <= nentries' \/ (drag.row = nentries' + 1 /\ selection' = 0)
    BY <2>1, RemoveStep
  <2>3. ControlOK'
    BY <1>0, <1>8, <2>2
       DEF ControlOK, Delete, SharedWithout, imageVars, ClosedShowsPicture, EditorsExclude
  <2> QED
    BY <2>2, <2>3, Halves
<1>9. ASSUME NEW kind \in Kinds, StartInsert(kind) PROVE IInv'
  <2>1. ListOK'
    BY <1>0, <1>9, ListKept DEF StartInsert, imageVars, listVars, ListOK
  <2>2. drag' \in Drags /\ drag'.op = "insert" /\ drag'.kind = kind
    BY <1>9, DragTypes DEF StartInsert
  <2>3. ControlOK'
    BY <1>0, <1>9, <2>2
       DEF ControlOK, StartInsert, imageVars, listVars, ClosedShowsPicture, EditorsExclude
  <2> QED
    BY <2>1, <2>3, Halves
<1>10. CASE DragEnd
  <2>1. ListOK'
    <3>1. CASE UNCHANGED <<listVars, previewVars>>
      BY <1>0, <1>10, <3>1, ListKept DEF DragEnd, imageVars, listVars, ListOK
    <3>2. ASSUME NEW w \in 1 .. nentries + 1, drag.op = "insert",
                 InsertEffect(Initial(drag.kind), w)
          PROVE  ListOK'
      BY <1>0, <1>10, <3>2, InitialIsElement, InsertStep DEF DragEnd, imageVars, ControlOK
    <3>3. ASSUME NEW w \in 1 .. nentries + 1, drag.op = "move", w \notin {drag.row, drag.row + 1},
                 MoveEffect(drag.row, IF w > drag.row THEN w - 1 ELSE w)
          PROVE  ListOK'
      <4>1. PICK to : to = IF w > drag.row THEN w - 1 ELSE w
        OBVIOUS
      <4>2. to \in 1 .. nentries
        BY <1>0, <3>3, <4>1 DEF ControlOK, ListOK, Slots
      <4> QED
        BY <1>0, <1>10, <3>3, <4>1, <4>2, MoveStep DEF DragEnd, imageVars, ControlOK
    <3> QED
      BY <1>10, <3>1, <3>2, <3>3 DEF DragEnd
  <2>2. ControlOK'
    <3>1. /\ dialogue' \in {dialogue, "none"} /\ drag' = NoDrag
          /\ UNCHANGED <<image, picture, editing, selected, open, element, copied, listening,
                         orphans, undefined>>
      BY <1>10 DEF DragEnd, imageVars
    <3> QED
      BY <1>0, <3>1, DragTypes DEF ControlOK, ClosedShowsPicture, EditorsExclude
  <2> QED
    BY <2>1, <2>2, Halves
<1> QED
  BY <1>1, <1>2, <1>3, <1>4, <1>5, <1>6, <1>7, <1>8, <1>9, <1>10 DEF WindowStep

LEMMA EditorSteps ==
  ASSUME IInv, EditorStep
  PROVE  IInv'
<1> USE EffectsAssumption DEF EffectsAssumption
<1>0. ListOK /\ ControlOK
  BY Halves
<1>1. CASE ClickEdit
  <2>1. ListOK'
    BY <1>0, <1>1, ListKept DEF ClickEdit, imageVars, listVars, ListOK
  <2>2. /\ selection \in Slots
        /\ \/ ShowMenu("tone") /\ UNCHANGED listening
           \/ ShowMenu("picker") /\ listening' = TRUE
    BY <1>0, <1>1 DEF ClickEdit, ListOK, Slots
  <2>3. ControlOK'
    BY <1>0, <1>1, <2>2
       DEF ControlOK, ClickEdit, ShowMenu, Clickable, imageVars, listVars, ClosedShowsPicture,
           EditorsExclude
  <2> QED
    BY <2>1, <2>3, Halves
<1>2. ASSUME NEW arg \in Args, EditApply(arg) \/ ColourChosen(arg) PROVE IInv'
  <2>1. \/ \E kind \in {"tone", "clear"} : Settle(kind, arg)
        \/ undefined' = TRUE /\ UNCHANGED <<listVars, previewVars>>
    BY <1>2 DEF EditApply, ColourChosen
  <2>2. /\ element \in Slots /\ UNCHANGED <<imageVars, open, drag, orphans>>
        /\ dialogue' \in {dialogue, "none"} /\ element' \in {element, 0}
        /\ element' = 0 => dialogue' = "none"
        /\ listening' \in {listening, FALSE} /\ copied' \in {copied, FALSE}
    <3>1. element \in Slots /\ element # 0
      BY <1>0, <1>2 DEF ControlOK, EditApply, ColourChosen, Slots
    <3> QED
      BY <1>2, <3>1 DEF EditApply, ColourChosen
  <2>3. /\ ListOK' /\ undefined' \in BOOLEAN /\ UNCHANGED <<nentries, selection>>
        /\ \A k \in Slots : entries[k] \in Elements => entries'[k] \in Elements
    <3>1. ASSUME NEW kind \in {"tone", "clear"}, EffectEdited(element, arg), UNCHANGED undefined,
                 entries[element] # NoEffect, entries[element].kind = kind
          PROVE  /\ ListOK' /\ undefined' \in BOOLEAN /\ UNCHANGED <<nentries, selection>>
                 /\ \A k \in Slots : entries[k] \in Elements => entries'[k] \in Elements
      BY <1>0, <2>2, <3>1, EditedStep DEF ControlOK, imageVars, EffectEdited
    <3>2. CASE undefined' = TRUE /\ UNCHANGED <<listVars, previewVars>>
      BY <1>0, <2>2, <3>2, ListKept DEF imageVars, listVars, ListOK
    <3> QED
      BY <2>1, <3>1, <3>2 DEF Settle
  <2>4. ControlOK'
    BY <1>0, <2>2, <2>3 DEF ControlOK, imageVars, ClosedShowsPicture, EditorsExclude
  <2> QED
    BY <2>3, <2>4, Halves
<1>3. CASE OpenRotate
  <2>1. ListOK'
    BY <1>0, <1>3, ListKept DEF OpenRotate, listVars, ListOK
  <2>2. ControlOK'
    BY <1>0, <1>3
       DEF ControlOK, OpenRotate, RotateAvailable, Available, ShowMenu, listVars,
           ClosedShowsPicture, EditorsExclude
  <2> QED
    BY <2>1, <2>2, Halves
<1>4. CASE RotateNow \/ RotateChosen
  <2>1. ~ open /\ TurnPicture /\ UNCHANGED <<dialogue, orphans>>
    BY <1>0, <1>4
       DEF RotateNow, RotateChosen, RotateAvailable, Available, ControlOK, EditorsExclude
  <2>2. picture' \in Pictures
    BY <1>0, <2>1, AppendProperties DEF ControlOK, TurnPicture, Pictures, Stages
  <2>3. ListOK'
    BY <1>0, <2>1 DEF ListOK, TurnPicture, listVars, previewVars, SpritesInv
  <2>4. ControlOK'
    BY <1>0, <2>1, <2>2
       DEF ControlOK, TurnPicture, listVars, ClosedShowsPicture, EditorsExclude
  <2> QED
    BY <2>3, <2>4, Halves
<1>5. CASE Dismiss
  <2>1. ListOK'
    BY <1>0, <1>5, ListKept DEF Dismiss, listVars, ListOK
  <2>2. ControlOK'
    BY <1>0, <1>5
       DEF ControlOK, Dismiss, EditingGoesOn, listVars, ClosedShowsPicture, EditorsExclude
  <2> QED
    BY <2>1, <2>2, Halves
<1> QED
  BY <1>1, <1>2, <1>3, <1>4, <1>5 DEF EditorStep

LEMMA ImageSteps ==
  ASSUME IInv, ImageStep
  PROVE  IInv'
<1>0. ListOK /\ ControlOK
  BY Halves
<1>1. CASE open /\ HideImage
  BY <1>0, <1>1, DestroyStep DEF HideImage, ControlOK
<1>2. CASE (HideImage /\ ~ open) \/ Reveal \/ Evict \/ UseOrphan
  <2>1. ListOK'
    BY <1>0, <1>2, ListKept
       DEF HideImage, Reveal, Evict, UseOrphan, imageVars, listVars, ListOK
  <2>2. ControlOK'
    <3>1. CASE HideImage /\ ~ open
      <4>1. /\ image' \in {"idle", "gone"}
            /\ dialogue' \in {dialogue, "orphan"}
            /\ UNCHANGED <<picture, editing, selected, open, listVars, element, copied, listening,
                           drag, orphans, undefined>>
        BY <3>1 DEF HideImage
      <4> QED
        BY <1>0, <3>1, <4>1 DEF ControlOK, listVars, ClosedShowsPicture, EditorsExclude
    <3>2. CASE Reveal
      BY <1>0, <3>2
         DEF ControlOK, Reveal, listVars, editorVars, ClosedShowsPicture, EditorsExclude
    <3>3. CASE Evict
      BY <1>0, <3>3 DEF ControlOK, Evict, listVars, ClosedShowsPicture, EditorsExclude
    <3>4. CASE UseOrphan
      BY <1>0, <3>4
         DEF ControlOK, UseOrphan, imageVars, listVars, editorVars, ClosedShowsPicture,
             EditorsExclude
    <3> QED
      BY <1>2, <3>1, <3>2, <3>3, <3>4
  <2> QED
    BY <2>1, <2>2, Halves
<1> QED
  BY <1>1, <1>2 DEF ImageStep

-----------------------------------------------------------------------------
(* Whatever is dragged, deleted, edited, slid, applied or cancelled, and   *)
(* whenever the viewers go, the inductive invariant holds.                 *)
THEOREM Invariance == Spec => []IInv
<1>1. Init => IInv
  <2> SUFFICES ASSUME Init PROVE IInv
    OBVIOUS
  <2> USE EffectsAssumption DEF EffectsAssumption
  <2>1. picture \in Pictures /\ result \in Pictures
    BY DEF Init, Pictures
  <2>2. ListOK
    BY <2>1, EmptyIsList DEF Init, ListOK, SpritesInv
  <2>3. ClosedShowsPicture /\ EditorsExclude
    BY NeitherShown DEF Init, EditorsExclude
  <2>4. ControlOK
    BY <2>1, <2>3, DragTypes DEF Init, ControlOK
  <2> QED
    BY <2>2, <2>4, Halves
<1>2. IInv /\ [Next]_vars => IInv'
  <2>1. ASSUME IInv, UNCHANGED vars PROVE IInv'
    BY <2>1
       DEF vars, imageVars, listVars, previewVars, editorVars, IInv, TypeOK, IndicesInv,
           SpritesInv, ClosedShowsPicture, EditorsExclude
  <2> QED
    BY <2>1, WindowSteps, EditorSteps, ImageSteps DEF Next
<1> QED
  BY <1>1, <1>2, PTL DEF Spec

(* Every variable keeps its type; the selection is a row of the list.      *)
THEOREM TypeCorrect == Spec => []TypeOK
BY Invariance, IInvImplies, PTL

(* The viewers show the effects on the list, to the extent of the slider,  *)
(* unless an effect failed or a freed tone map was used: effects.c:474.    *)
THEOREM PreviewAlwaysCurrent == Spec => []PreviewIsCurrent
BY Invariance, IInvImplies, PTL

(* The viewers never show a sprite that went with its window, nor the bare *)
(* picture while there is one: effects.c:2175.                             *)
THEOREM SpriteGoesWithWindow == Spec => []ClosedShowsPicture
BY Invariance, IInvImplies, PTL

(* The effects window and the rotate dialogue are never both at one image, *)
(* and neither is there with the image's EDITING flag down: rotate.c:768.  *)
THEOREM EditorsAlwaysExclude == Spec => []EditorsExclude
BY Invariance, IInvImplies, PTL

(* While the window is there the picture changes only to what the viewers  *)
(* showed.                                                                 *)
THEOREM OnlyWhatYouSee == Spec => WhatYouSeeIsApplied
<1>1. IInv /\ [Next]_vars => [open /\ picture' # picture => picture' = result]_vars
  <2> SUFFICES ASSUME IInv, Next, open, picture' # picture PROVE picture' = result
    OBVIOUS
  <2>1. ~ (RotateNow \/ RotateChosen)
    BY DEF IInv, EditorsExclude, RotateNow, RotateChosen, RotateAvailable, Available
  <2>2. CASE WindowStep
    BY <2>2
       DEF WindowStep, OpenEffects, ClickApply, ClickCancel, ClickAdd, SlideTo, Select, StartMove,
           Deselect, Delete, StartInsert, DragEnd, imageVars
  <2>3. CASE EditorStep
    BY <2>1, <2>3
       DEF EditorStep, ClickEdit, EditApply, ColourChosen, OpenRotate, Dismiss, imageVars
  <2>4. CASE ImageStep
    BY <2>4 DEF ImageStep, HideImage, Reveal, Evict, UseOrphan, imageVars
  <2> QED
    BY <2>2, <2>3, <2>4 DEF Next
<1> QED
  BY Invariance, <1>1, PTL DEF Spec, WhatYouSeeIsApplied
=============================================================================
