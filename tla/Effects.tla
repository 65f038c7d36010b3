------------------------------- MODULE Effects -------------------------------
(***************************************************************************)
(* The effects window of one image, for as long as the image lives         *)
(* (gadgets/effects, gadgets/scroll-list), and what competes with it: the  *)
(* rotate dialogue (rotate.c), and the viewers of the image, which may go  *)
(* while something is dragged or edited in the window.                     *)
(*                                                                         *)
(* While the window is open the image's sprite area holds three sprites:   *)
(* the picture, the `degenerate' (the picture with the effects applied)    *)
(* and the result, their blend, which is what the viewers then show.       *)
(*                                                                         *)
(* The list of effects is an array which never shrinks: a slot beyond the  *)
(* number in use keeps its last contents, as a drag or an editor that took *)
(* an index before a deletion can see.                                     *)
(*                                                                         *)
(* A dialogue is shown as a menu, which a click elsewhere closes. Keys     *)
(* reach the list even while one is shown, or during a drag; messages that *)
(* close the viewers come at any time.                                     *)
(***************************************************************************)
EXTENDS Integers, SequencesExt

CONSTANTS
  Kinds,       \* the kinds of effects that the palette offers
  Args,        \* the settings of an effect that has some
  Default,     \* those it has at first
  Levels,      \* the positions of the level slider
  FullLevel,   \* blendslider_DEFAULT
  Spoilt,      \* what an effect that fails leaves in the degenerate
  NoEffect,    \* what a slot holds before it is first used
  Turn,        \* a rotation of the picture
  MaxEffects,  \* bounds the number of effects in the list
  MaxStages    \* bounds the effects and turns that are made permanent

ASSUME EffectsAssumption ==
  /\ MaxEffects \in Nat \ {0} /\ MaxStages \in Nat
  /\ FullLevel \in Levels /\ Default \in Args /\ NoEffect \notin Args
  /\ Kinds \subseteq {"clear", "tone", "grey"}

Slots == 1 .. MaxEffects

(* An effect is of a kind; a greyscale has no settings and no editor, and  *)
(* stands for the other kinds like it.                                     *)
Elements ==
  { e \in [kind: Kinds, arg: Args \cup {NoEffect}] : e.arg = NoEffect <=> e.kind = "grey" }

(* clear_defaults, tone_defaults                                           *)
Initial(kind) == [kind |-> kind, arg |-> IF kind = "grey" THEN NoEffect ELSE Default]

VARIABLES
  image,       \* "viewed", "idle" in the cache, or "gone"
  picture,     \* the first sprite: what was done to the image for good
  editing,     \* image_FLAG_EDITING
  selected,    \* the sprite that viewers show: details.sprite.index
  open,        \* there is an effects window
  entries,     \* effects.entries
  nentries,    \* effects.nentries: the rows of the scroll list
  selection,   \* the selected row, or 0
  level,       \* blendval
  degenerate,  \* the effects which the second sprite shows applied
  result,      \* the third sprite
  dialogue,    \* what is shown as a menu
  element,     \* editing_element: the slot that the shown editor acts on, or 0
  copied,      \* that slot is off the list, and shares the last row's tone map
  listening,   \* handles the next choice of a colour
  drag,        \* what is dragged
  orphans,     \* handlers in place for a window that was freed
  undefined    \* a freed block was used, or an effect's settings taken for another's

imageVars == <<image, picture, editing, selected>>
listVars == <<entries, nentries, selection>>
previewVars == <<level, degenerate, result>>
editorVars == <<dialogue, element, copied, listening, drag, orphans>>
vars == <<imageVars, open, listVars, previewVars, editorVars, undefined>>

Lists == UNION { [1 .. n -> Elements] : n \in 0 .. MaxEffects }

Stages == [by: Lists \cup {Spoilt}, level: Levels] \cup {Turn}

(* How many effects and turns have been made permanent in picture p        *)
Weight(p) ==
  LET Of(st) == IF st = Turn \/ st.by = Spoilt THEN 1 ELSE Len(st.by)
  IN  FoldLeft(LAMBDA sum, st : sum + Of(st), 0, p)

Pictures == Seq(Stages)

NoDrag == [op |-> "none", row |-> 0, kind |-> "any"]

TypeOK ==
  /\ image \in {"viewed", "idle", "gone"}
  /\ picture \in Pictures /\ result \in Pictures
  /\ editing \in BOOLEAN /\ open \in BOOLEAN /\ listening \in BOOLEAN
  /\ selected \in {0, 2}
  /\ entries \in [Slots -> Elements \cup {NoEffect}]
  /\ nentries \in 0 .. MaxEffects
  /\ selection \in 0 .. nentries
  /\ level \in Levels
  /\ degenerate \in Lists \cup {Spoilt}
  /\ dialogue \in {"none", "add", "tone", "picker", "rotate", "orphan"}
  /\ element \in Slots \cup {0} /\ copied \in BOOLEAN
  /\ drag \in [op: {"none", "insert", "move"}, row: 0 .. MaxEffects, kind: Kinds \cup {"any"}]
  /\ orphans \subseteq {"dialogue", "handler"}
  /\ undefined \in BOOLEAN

-----------------------------------------------------------------------------
(* The preview *)

(* The first n entries, as the list which the user sees.                   *)
Listed(ents, n) == [k \in 1 .. n |-> ents[k]]

(* Picture p with the effects `by', to the extent of lev.                  *)
Blend(p, by, lev) ==
  IF by = << >> THEN p ELSE Append(p, [by |-> by, level |-> lev])

(* Slip: the blender is not kicked.                                        *)
ApplyEffectsUnblended(ents, n, p, lev) ==
  \/ degenerate' = Listed(ents, n) /\ UNCHANGED result
  \/ n > 0 /\ degenerate' = Spoilt /\ UNCHANGED result

(* apply_effects. An effect may fail, which ends the run with the          *)
(* degenerate half done and the result as it was: the callers ignore it.   *)
ApplyEffects(ents, n, p, lev) ==
  \/ /\ degenerate' = Listed(ents, n)
     /\ result' = Blend(p, Listed(ents, n), lev)
  \/ /\ n > 0
     /\ degenerate' = Spoilt
     /\ UNCHANGED result

ApplyBlend(lev) ==
  /\ level' = lev
  /\ result' = Blend(picture, degenerate, lev)

-----------------------------------------------------------------------------
(* The list of effects *)

(* clamp of a row to the list                                              *)
Clamp(k) == IF k < 1 THEN 1 ELSE IF k > nentries THEN nentries ELSE k

MoveSelection(by) ==
  selection' = IF selection = 0 THEN 0 ELSE Clamp(selection + by)

(* insert_effect of a new element before row w                             *)
InsertEffect(e, w) ==
  /\ nentries < MaxEffects
  /\ entries' = [k \in Slots |->
                   IF k = w THEN e
                   ELSE IF k > w /\ k <= nentries + 1 THEN entries[k - 1]
                   ELSE entries[k]]
  /\ nentries' = nentries + 1
  /\ UNCHANGED <<selection, level>>
  /\ ApplyEffects(entries', nentries', picture, level)

(* move_effect. Row `from' is the one that was dragged, whether or not it  *)
(* is still on the list.                                                   *)
MoveEffect(from, to) ==
  /\ entries' = [k \in Slots |->
                   IF k = to THEN entries[from]
                   ELSE IF from <= k /\ k < to THEN entries[k + 1]
                   ELSE IF to < k /\ k <= from THEN entries[k - 1]
                   ELSE entries[k]]
  /\ MoveSelection(to - from)
  /\ UNCHANGED <<nentries, level>>
  /\ ApplyEffects(entries', nentries, picture, level)

(* Slip: the selection stays although its row is deleted.                  *)
KeepSelection(k) == selection

(* scroll_list_delete_rows of a single row                                 *)
SelectionWithout(k) ==
  IF selection = k THEN 0 ELSE IF selection > k THEN selection - 1 ELSE selection

(* remove_effect. The slot that falls free is only ever looked at again by *)
(* a drag or an editor which is under way.                                 *)
RemoveEffect(k) ==
  /\ entries' = [j \in Slots |->
                   IF k <= j /\ j < nentries THEN entries[j + 1]
                   ELSE IF j = nentries /\ drag.op = "none" /\ element = 0 THEN NoEffect
                   ELSE entries[j]]
  /\ nentries' = nentries - 1
  /\ selection' = SelectionWithout(k)
  /\ UNCHANGED level
  /\ ApplyEffects(entries', nentries', picture, level)

(* A tone effect holds a pointer to its tone map. The rows above row k are *)
(* copied down one, pointers and all: if the last was being edited, the    *)
(* editor's slot is from now on a second holder of a listed effect's map.  *)
SharedWithout(k) == k < nentries /\ (element = nentries \/ copied)

(* effect_edited, once a slot has got new settings                         *)
EffectEdited(s, arg) ==
  /\ entries' = [entries EXCEPT ![s] = [@ EXCEPT !.arg = arg]]
  /\ UNCHANGED <<nentries, selection, level>>
  /\ ApplyEffects(entries', nentries, picture, level)
-----------------------------------------------------------------------------
(* Opening and destroying *)

Init ==
  /\ image = "viewed" /\ picture = << >> /\ editing = FALSE /\ selected = 0
  /\ open = FALSE
  /\ entries = [k \in Slots |-> NoEffect] /\ nentries = 0 /\ selection = 0
  /\ level = FullLevel /\ degenerate = << >> /\ result = << >>
  /\ dialogue = "none" /\ element = 0 /\ copied = FALSE /\ listening = FALSE
  /\ drag = NoDrag /\ orphans = {} /\ undefined = FALSE

Available == image = "viewed" /\ ~editing

(* A menu takes the place of the one that is shown.                        *)
ShowMenu(d) ==
  /\ dialogue' = d
  /\ orphans' = orphans \ {"dialogue"}

(* effects_open, effectswin_create. A failure to copy the sprites comes    *)
(* after image_start_editing, and leaves the image so.                     *)
OpenEffects ==
  /\ Available /\ ~open
  /\ editing' = TRUE
  /\ \/ /\ open' = TRUE /\ selected' = 2
        /\ entries' = [k \in Slots |-> NoEffect] /\ nentries' = 0 /\ selection' = 0
        /\ level' = FullLevel /\ degenerate' = << >> /\ result' = picture
        /\ element' = 0 /\ copied' = FALSE
     \/ UNCHANGED <<open, selected, listVars, previewVars, element, copied>>
  /\ UNCHANGED <<image, picture, dialogue, listening, drag, orphans, undefined>>

(* What a window that is destroyed leaves behind: a dialogue which acts on *)
(* it, until that is dismissed, and the handlers of a drag or of a colour. *)
LeftBehind ==
  { h \in {"dialogue", "handler"} :
      \/ h = "dialogue" /\ dialogue \in {"add", "tone"}
      \/ h = "handler" /\ (drag.op # "none" \/ listening) }

Dismantle ==
  /\ open' = FALSE /\ editing' = FALSE
  /\ entries' = [k \in Slots |-> NoEffect] /\ nentries' = 0 /\ selection' = 0
  /\ level' = FullLevel /\ degenerate' = << >> /\ result' = picture'
  /\ dialogue' = "none" /\ element' = 0 /\ copied' = FALSE
  /\ listening' = FALSE /\ drag' = NoDrag
  /\ orphans' = orphans \cup LeftBehind
  /\ UNCHANGED undefined

(* Slip: the viewers go on showing the third sprite.                       *)
DestroyUnselected == Dismantle /\ UNCHANGED selected

(* effectswin_destroy                                                      *)
Destroy == Dismantle /\ selected' = 0

(* remove_all_effects and reset_main_dialogue                              *)
Reset ==
  /\ entries' = [k \in Slots |-> NoEffect] /\ nentries' = 0 /\ selection' = 0
  /\ level' = FullLevel /\ degenerate' = << >> /\ result' = picture'
  /\ UNCHANGED <<editing, selected, open, dialogue, element, copied,
                 listening, drag, orphans, undefined>>

(* What follows Apply or Cancel: Select closes the window, Adjust does not. *)
Finish == Destroy \/ Reset

-----------------------------------------------------------------------------
(* Clicks and keys in the window. A click closes a dialogue shown as a     *)
(* menu first; a key does not.                                             *)

Clickable == open /\ drag.op = "none" /\ dialogue = "none"

(* The keyboard reaches the list also while a dialogue is shown or         *)
(* something is dragged; the colour picker takes it.                       *)
Typable == open /\ dialogue # "picker"

(* effects_apply                                                           *)
ClickApply ==
  /\ Clickable /\ nentries > 0 /\ Weight(result) <= MaxStages
  /\ picture' = result
  /\ Finish
  /\ UNCHANGED image

(* effects_cancel                                                          *)
ClickCancel ==
  /\ Clickable
  /\ UNCHANGED <<picture, image>>
  /\ Finish

ClickAdd ==
  /\ Clickable
  /\ ShowMenu("add")
  /\ UNCHANGED <<imageVars, open, listVars, previewVars, element, copied, listening, drag,
                 undefined>>

(* main_slider_update, as the slider is dragged                            *)
SlideTo(lev) ==
  /\ Clickable /\ lev # level
  /\ ApplyBlend(lev)
  /\ UNCHANGED <<imageVars, open, listVars, degenerate, editorVars, undefined>>

Select(k) ==
  /\ \/ Clickable
     \/ Typable /\ selection # 0
  /\ k \in 1 .. nentries /\ k # selection
  /\ selection' = k
  /\ UNCHANGED <<imageVars, open, entries, nentries, previewVars, editorVars, undefined>>

(* A click with Adjust on the selected row                                 *)
Deselect ==
  /\ Clickable /\ selection # 0
  /\ selection' = 0
  /\ UNCHANGED <<imageVars, open, entries, nentries, previewVars, editorVars, undefined>>

(* The Delete key, or the button                                           *)
Delete ==
  /\ Typable /\ selection # 0
  /\ RemoveEffect(selection)
  /\ copied' = SharedWithout(selection)
  /\ UNCHANGED <<imageVars, open, dialogue, element, listening, drag, orphans, undefined>>

(* drageffect_box, from a row of the list                                  *)
StartMove(k) ==
  /\ Clickable /\ k \in 1 .. nentries
  /\ drag' = [op |-> "move", row |-> k, kind |-> "any"]
  /\ selection' = k
  /\ UNCHANGED <<imageVars, open, entries, nentries, previewVars, dialogue,
                 element, copied, listening, orphans, undefined>>

(* drageffect_icon, from the dialogue of effects to add                    *)
StartInsert(kind) ==
  /\ open /\ dialogue = "add" /\ drag.op = "none"
  /\ drag' = [op |-> "insert", row |-> 0, kind |-> kind]
  /\ UNCHANGED <<imageVars, open, listVars, previewVars, dialogue, element, copied,
                 listening, orphans, undefined>>

(* drageffect_event_user_drag_box. The effect is dropped before row w, or  *)
(* outside the list; a drag with Select closes the menu.                   *)
DragEnd ==
  /\ drag.op # "none"
  /\ drag' = NoDrag
  /\ \/ UNCHANGED <<listVars, previewVars, dialogue>>
     \/ /\ dialogue' \in {dialogue, "none"}
        /\ \E w \in 1 .. nentries + 1 :
             \/ /\ drag.op = "insert"
                /\ InsertEffect(Initial(drag.kind), w)
             \/ /\ drag.op = "move" /\ w \notin {drag.row, drag.row + 1}
                /\ MoveEffect(drag.row, IF w > drag.row THEN w - 1 ELSE w)
             \/ /\ drag.op = "move" /\ w \in {drag.row, drag.row + 1}
                /\ UNCHANGED <<listVars, previewVars>>
  /\ UNCHANGED <<imageVars, open, element, copied, listening, orphans, undefined>>

-----------------------------------------------------------------------------
(* The editors *)

(* edit_effect, for the kinds which have an editor                         *)
ClickEdit ==
  /\ Clickable /\ selection # 0
  /\ element' = selection /\ copied' = FALSE
  /\ CASE entries[selection].kind = "tone" ->
            ShowMenu("tone") /\ UNCHANGED listening
       [] entries[selection].kind = "clear" ->
            ShowMenu("picker") /\ listening' = TRUE
       [] OTHER -> FALSE
  /\ UNCHANGED <<imageVars, open, listVars, previewVars, drag, undefined>>

(* The settings go to the slot which the editor was opened for, whatever   *)
(* is there by now.                                                        *)
Settle(kind, arg) ==
  IF entries[element] # NoEffect /\ entries[element].kind = kind
  THEN EffectEdited(element, arg) /\ UNCHANGED undefined
  ELSE undefined' = TRUE /\ UNCHANGED <<listVars, previewVars>>

(* EFFECTS_CRV_B_APPLY in tone_event_mouse_click. The slot's tone map is   *)
(* destroyed before a new one is put there, and a row of the list that     *)
(* shares it is then applied. Select closes the editor.                    *)
EditApply(arg) ==
  /\ open /\ dialogue = "tone"
  /\ IF copied
     THEN undefined' = TRUE /\ UNCHANGED <<listVars, previewVars>>
     ELSE Settle("tone", arg)
  /\ \/ UNCHANGED <<dialogue, element, copied>>
     \/ dialogue' = "none" /\ element' = 0 /\ copied' = FALSE
  /\ UNCHANGED <<imageVars, open, listening, drag, orphans>>

(* clear_message_colour_picker_colour_choice. The handler listens until a  *)
(* choice arrives, be it from a picker which another effect opened.        *)
ColourChosen(arg) ==
  /\ open /\ dialogue = "picker" /\ listening
  /\ Settle("clear", arg)
  /\ listening' = FALSE
  /\ UNCHANGED <<imageVars, open, dialogue, element, copied, drag, orphans>>

-----------------------------------------------------------------------------
(* The rotate dialogue *)

(* Slip: whether the image is being edited is not asked.                   *)
RotateAnyway == image = "viewed"

(* rotate_available                                                        *)
RotateAvailable == Available

(* rotate_open                                                             *)
OpenRotate ==
  /\ RotateAvailable
  /\ drag.op = "none" /\ dialogue # "rotate"
  /\ editing' = TRUE
  /\ ShowMenu("rotate")
  /\ UNCHANGED <<image, picture, selected, open, listVars, previewVars,
                 element, copied, listening, drag, undefined>>

(* rotate__internal. Under an effects window it would turn the sprite that *)
(* the effects are applied to.                                             *)
TurnPicture ==
  /\ Weight(picture) < MaxStages
  /\ picture' = Append(picture, Turn)
  /\ UNCHANGED <<image, editing, selected, open, listVars, previewVars,
                 element, copied, listening, drag, undefined>>

(* rotate, from the keyboard or the menu                                   *)
RotateNow ==
  /\ RotateAvailable
  /\ TurnPicture
  /\ UNCHANGED <<dialogue, orphans>>

(* ROTATE_B_ROTATE. The image need not be on view any more.                *)
RotateChosen ==
  /\ dialogue = "rotate"
  /\ TurnPicture
  /\ UNCHANGED <<dialogue, orphans>>

(* Slip: it is not asked which menu has gone.                              *)
AnyEnds == FALSE

(* Of the menus that may be shown, only the rotate dialogue's own message  *)
(* reaches rotate_message_menus_deleted.                                   *)
EditingGoesOn == editing /\ dialogue # "rotate"

(* A menu is closed. The image that the rotate dialogue was for may have   *)
(* been destroyed.                                                         *)
Dismiss ==
  /\ dialogue # "none"
  /\ dialogue' = "none" /\ element' = 0 /\ copied' = FALSE
  /\ editing' = EditingGoesOn
  /\ orphans' = orphans \ {"dialogue"}
  /\ undefined' = (undefined \/ dialogue = "orphan")
  /\ UNCHANGED <<image, picture, selected, open, listVars, previewVars,
                 listening, drag>>

-----------------------------------------------------------------------------
(* The image, its viewers and what is left of a window *)

(* The last viewer goes. The effects window, an observer, goes with it.    *)
HideImage ==
  /\ image = "viewed"
  /\ image' \in {"idle", "gone"}
  /\ UNCHANGED picture
  /\ \/ open /\ Destroy
     \/ /\ ~open
        /\ dialogue' = IF image' = "gone" /\ dialogue = "rotate" THEN "orphan" ELSE dialogue
        /\ UNCHANGED <<editing, selected, open, listVars, previewVars,
                       element, copied, listening, drag, orphans, undefined>>

Reveal ==
  /\ image = "idle"
  /\ image' = "viewed"
  /\ UNCHANGED <<picture, editing, selected, open, listVars, previewVars,
                 editorVars, undefined>>

(* The cache destroys the image.                                           *)
Evict ==
  /\ image = "idle"
  /\ image' = "gone"
  /\ dialogue' = IF dialogue = "rotate" THEN "orphan" ELSE dialogue
  /\ UNCHANGED <<picture, editing, selected, open, listVars, previewVars,
                 element, copied, listening, drag, orphans, undefined>>

(* A click, a drop or a choice reaches a handler of the freed window.      *)
UseOrphan ==
  /\ orphans # {}
  /\ undefined' = TRUE
  /\ UNCHANGED <<imageVars, open, listVars, previewVars, editorVars>>

-----------------------------------------------------------------------------
WindowStep ==
  \/ OpenEffects \/ ClickApply \/ ClickCancel \/ ClickAdd
  \/ \E lev \in Levels : SlideTo(lev)
  \/ \E k \in Slots : Select(k) \/ StartMove(k)
  \/ Deselect \/ Delete
  \/ \E kind \in Kinds : StartInsert(kind)
  \/ DragEnd

EditorStep ==
  \/ ClickEdit
  \/ \E arg \in Args : EditApply(arg) \/ ColourChosen(arg)
  \/ OpenRotate \/ RotateNow \/ RotateChosen
  \/ Dismiss

ImageStep == HideImage \/ Reveal \/ Evict \/ UseOrphan

Next == ~undefined /\ (WindowStep \/ EditorStep \/ ImageStep)

Spec == Init /\ [][Next]_vars

-----------------------------------------------------------------------------
(* Properties *)

(* The viewers show the effects on the list, each applied to the last, to  *)
(* the extent of the slider: whatever is dragged, deleted, edited or slid  *)
(* in whatever order, as long as no effect failed and no freed tone map    *)
(* was applied.                                                            *)
PreviewIsCurrent ==
  open /\ degenerate # Spoilt /\ ~undefined => result = Blend(picture, Listed(entries, nentries), level)

(* While the window is open the picture changes to what the viewers show,  *)
(* and in no other way: not by a rotation underneath.                      *)
WhatYouSeeIsApplied == [][open /\ picture' # picture => picture' = result]_vars

(* The viewers show the third sprite exactly while the window is there to  *)
(* own it, however the window goes.                                        *)
ClosedShowsPicture == (selected = 2) = open

(* Effects and rotation never edit one image at once, and the flag that    *)
(* keeps them apart stays up for as long as either edits.                  *)
EditorsExclude ==
  /\ open => editing /\ dialogue # "rotate" /\ image = "viewed"
  /\ dialogue = "rotate" => editing
=============================================================================
