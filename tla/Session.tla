------------------------------ MODULE Session ------------------------------
(***************************************************************************)
(* A session with the viewers of PrivateEye: opening, editing, saving and  *)
(* closing images, and the questions asked before an edited image goes     *)
(* (viewer.c, dcs-quit.c, and the handlers of display.c, dataxfer.c,       *)
(* iconbar.c, eye.c, clipboard.c and save.c which call them).              *)
(*                                                                         *)
(* A question is a loop inside a handler, which polls for events until the *)
(* global dcs_command says that an answer came. Events are dispatched from *)
(* that loop too, so handlers nest: `stack' holds those which wait for an  *)
(* answer, innermost last. A handler that asks nothing is one step.        *)
(*                                                                         *)
(* The question is shown as a menu: to click elsewhere is to dismiss it.   *)
(* So the user only starts something while no question is shown, whereas   *)
(* the messages of other programs come at any poll.                        *)
(*                                                                         *)
(* The image cache is not seen here but for what ReadThroughCache says of  *)
(* it: an image is shared by the viewers which loaded the same file, and   *)
(* is forgotten, or idles unedited, once no viewer has it. An idle image   *)
(* matters here only if a rotate dialogue (rotate.c) was left behind on it,*)
(* which may edit it although no viewer shows it.                          *)
(***************************************************************************)
EXTENDS Naturals, FiniteSets, SequencesExt

CONSTANTS
  Viewers,     \* the viewer_t blocks malloc may return
  Images,      \* the images the cache may give
  Files,       \* the files on disk
  None,        \* no viewer, no image
  NoName,      \* an image which has no file of its own
  MaxQueries   \* bounds the number of questions waiting at once

ASSUME SessionAssumption ==
  /\ IsFiniteSet(Viewers)
  /\ None \notin Viewers /\ None \notin Images
  /\ NoName \notin Files
  /\ MaxQueries \in Nat \ {0}

VARIABLES
  open,       \* the viewers on viewer.c's list
  image,      \* the image each viewer has
  idle,       \* the images left to idle by a viewer but not by a rotate dialogue
  edited,     \* the images with image_FLAG_MODIFIED
  name,       \* the file each viewed or idle image is named after
  clipboard,  \* GLOBALS.clipboard_viewer
  current,    \* GLOBALS.current_viewer: the last viewer clicked
  stack,      \* the handlers which wait for an answer
  command,    \* dcs_command
  shown,      \* what is shown as a menu
  rotating,   \* the image of the rotate dialogue, while that is shown
  quitting,   \* Flag_Quit: "chosen" by the user, or "told" by a Message_Quit
  undefined   \* a viewer block was used after it was freed, or through NULL

viewerVars == <<open, image, idle, edited, name, clipboard>>
menuVars == <<shown, rotating, undefined>>
vars == <<viewerVars, current, stack, command, menuVars, quitting>>

Answers == {"discard", "cancel", "save"}

(* A waiting handler: what it is, and what it does if it may go on.        *)
Unloads == [op: {"close"}, viewer: Viewers, file: {NoName}, unsafe: {FALSE}, answered: BOOLEAN]
             \cup
           [op: {"replace"}, viewer: Viewers, file: Files, unsafe: BOOLEAN, answered: BOOLEAN]

Quits == [op: {"quit", "closeall", "prequit"}, viewer: {None}, file: {NoName},
          unsafe: {FALSE}, answered: BOOLEAN]

Frame == Unloads \cup Quits

Handler(op) == [op |-> op, viewer |-> None, file |-> NoName,
                unsafe |-> FALSE, answered |-> FALSE]

ViewedIn(img) == { img[v] : v \in Viewers } \ {None}

Viewed == ViewedIn(image)

TypeOK ==
  /\ open \subseteq Viewers
  /\ image \in [Viewers -> Images \cup {None}]
  /\ idle \subseteq Images \ Viewed
  /\ edited \subseteq Viewed \cup idle
  /\ name \in [Images -> Files \cup {NoName}]
  /\ clipboard \in Viewers \cup {None}
  /\ current \in Viewers \cup {None}
  /\ stack \in Seq(Frame)
  /\ command \in {"waiting"} \cup Answers
  /\ shown \in {"nothing", "dcs", "quit", "save", "menu", "rotate"}
  /\ rotating \in Images \cup {None}
  /\ quitting \in {"no", "chosen", "told"}
  /\ undefined \in BOOLEAN

-----------------------------------------------------------------------------
(* Viewers and their images *)

Without(v) == [image EXCEPT ![v] = None]

(* What nobody views any more is destroyed if it is edited. Otherwise it   *)
(* may idle, which matters if it is the rotate dialogue's image; and what  *)
(* idles may be evicted for whatever the viewers get instead.              *)
MayIdle(img) == (idle \cup ({rotating} \cap (Viewed \ edited))) \ ViewedIn(img)

(* Slip: an image which nobody views any more stays edited.                *)
HoldFlags(img, ed, nm) ==
  /\ image' = img
  /\ idle' \in SUBSET MayIdle(img)
  /\ edited' = ed
  /\ name' = [i \in Images |-> IF i \in ViewedIn(img) \cup idle' THEN nm[i] ELSE NoName]

(* The viewers hold img from now on: what nobody views is forgotten.       *)
Hold(img, ed, nm) ==
  /\ image' = img
  /\ idle' \in SUBSET MayIdle(img)
  /\ edited' = ed \cap (ViewedIn(img) \cup idle')
  /\ name' = [i \in Images |-> IF i \in ViewedIn(img) \cup idle' THEN nm[i] ELSE NoName]

(* Slip: the viewer stays the owner of the clipboard.                      *)
ViewerDisposeKeeps(v) == UNCHANGED clipboard

(* viewer_dispose: a viewer whose image goes gives up the clipboard.       *)
ViewerDispose(v) == clipboard' = IF clipboard = v THEN None ELSE clipboard

(* Slip: the viewer stays, without an image, when its load fails.          *)
LoadFileOrLinger(v, img, f, unsafe, template) ==
  /\ ViewerDispose(v)
  /\ open' = open \cup {v}
  /\ \/ \E i \in Images \ ViewedIn(img) :
          Hold([img EXCEPT ![v] = i], IF unsafe THEN edited \cup {i} ELSE edited,
               [name EXCEPT ![i] = f])
     \/ Hold(img, edited, name)

(* The edits which outlast the viewers which do not hold img.              *)
EditsIn(img) == edited \cap (ViewedIn(img) \cup idle)

(* viewer_load into a viewer without an image, followed by viewer_open, or *)
(* by viewer_destroy where the load fails. The image may be one which      *)
(* another viewer loaded from that file, or one that idles, edited or not. *)
LoadFile(v, img, f, unsafe, template) ==
  /\ ViewerDispose(v)
  /\ \/ \E i \in Images :
          /\ i \in ViewedIn(img) \cup idle => name[i] = f
          /\ open' = open \cup {v}
          /\ Hold([img EXCEPT ![v] = i],
                  IF unsafe THEN EditsIn(img) \cup {i} ELSE EditsIn(img),
                  [name EXCEPT ![i] = IF unsafe \/ template THEN NoName ELSE f])
     \/ /\ open' = open \ {v}
        /\ Hold(img, edited, name)

(* viewer_unload and viewer_destroy.                                       *)
CloseViewer(v) ==
  /\ ViewerDispose(v)
  /\ open' = open \ {v}
  /\ Hold(Without(v), edited, name)

(* viewer_close_all *)
CloseAll ==
  /\ clipboard' = None
  /\ open' = {}
  /\ Hold([v \in Viewers |-> None], edited, name)

-----------------------------------------------------------------------------
(* What is shown *)

(* The rotate dialogue's image was freed under it.                         *)
Dangling == rotating \notin Viewed \cup idle \cup {None}

(* Something else, or nothing, is shown. If that ends the rotate dialogue  *)
(* then it lets its image go, a freed block or not.                        *)
Show(s) ==
  /\ shown' = s
  /\ \/ s = "rotate" /\ UNCHANGED <<rotating, undefined>>
     \/ s # "rotate" /\ rotating' = None /\ undefined' \in {undefined, Dangling}

(* A click closes what is shown as a menu, a key leaves it there.          *)
ByClickOrKey == {"nothing", shown}

-----------------------------------------------------------------------------
(* Questions *)

(* The program polls in its main loop, or in the loop of a question which  *)
(* has no answer yet.                                                      *)
Polling ==
  /\ ~ undefined
  /\ \/ stack = <<>> /\ quitting = "no"
     \/ stack # <<>> /\ command = "waiting"

UserFree == Polling /\ shown \notin {"dcs", "quit"}

(* Slip: asks about the images which other viewers show too.               *)
MustAskIfShared(v) ==
  /\ image[v] \in edited
  /\ Cardinality({ w \in open : image[w] = image[v] }) # 1

(* viewer_query_unload asks if the only view of an edited image would go.  *)
MustAsk(v) ==
  /\ image[v] \in edited
  /\ Cardinality({ w \in open : image[w] = image[v] }) = 1

(* Slip: a question is not opened over one which is shown.                 *)
AskBehind(question, frame) ==
  /\ Len(stack) < MaxQueries
  /\ stack' = Append(stack, frame)
  /\ command' = "waiting"
  /\ Show(IF stack = <<>> THEN question ELSE shown)
  /\ UNCHANGED <<viewerVars, quitting>>

Ask(question, frame) ==
  /\ Len(stack) < MaxQueries
  /\ stack' = Append(stack, frame)
  /\ command' = "waiting"
  /\ Show(question)
  /\ UNCHANGED <<viewerVars, quitting>>

(* Slip: every answer but a cancellation lets the handler go on.           *)
GoesAheadUncancelled(c) == command # "cancel"

GoesAhead(c) == command = c

(* What a handler does once nothing, or no answer, holds it back.          *)
Perform(fr) ==
  \/ /\ fr.op = "close"
     /\ CloseViewer(fr.viewer)
     /\ UNCHANGED quitting
  \/ /\ fr.op = "replace"
     /\ LoadFile(fr.viewer, Without(fr.viewer), fr.file, fr.unsafe, FALSE)
     /\ UNCHANGED quitting
  \/ /\ fr.op = "closeall"
     /\ CloseAll
     /\ UNCHANGED quitting
  \/ /\ fr.op = "quit"
     /\ quitting' = "chosen"
     /\ UNCHANGED viewerVars
  \/ /\ fr.op = "prequit"
     /\ CloseAll
     /\ quitting' = "chosen"

(* A handler which would unload a viewer starts: viewer_query_unload. If it *)
(* asks nothing then `after' is what is left shown.                        *)
StartUnload(fr, after) ==
  \/ MustAsk(fr.viewer) /\ Ask("dcs", fr)
  \/ ~ MustAsk(fr.viewer) /\ Perform(fr) /\ Show(after) /\ UNCHANGED <<stack, command>>

(* A handler which would throw everything away starts: can_quit.           *)
StartQuit(fr, after) ==
  \/ edited # {} /\ Ask("quit", fr)
  \/ edited = {} /\ Perform(fr) /\ Show(after) /\ UNCHANGED <<stack, command>>

(* A click on a button of the question that is shown.                      *)
Answer(c) ==
  /\ Polling /\ shown \in {"dcs", "quit"}
  /\ c = "save" => shown = "dcs"
  /\ command' = c
  /\ stack' = [stack EXCEPT ![Len(stack)].answered = TRUE]
  /\ UNCHANGED <<viewerVars, current, menuVars, quitting>>

(* dcs_message_menus_deleted: the question is dismissed.                   *)
Dismiss ==
  /\ Polling /\ shown \in {"dcs", "quit"}
  /\ command' = "cancel"
  /\ Show("nothing")
  /\ UNCHANGED <<viewerVars, current, stack, quitting>>

(* The innermost handler finds that dcs_command is set, and goes on. The   *)
(* answer stays there for the handlers beneath it.                         *)
Resume ==
  LET fr == Last(stack)
      gone == fr.viewer # None /\ fr.viewer \notin open
  IN  /\ ~ undefined /\ stack # <<>> /\ command # "waiting"
      /\ stack' = Front(stack)
      /\ UNCHANGED <<current, command>>
      /\ \/ /\ GoesAhead("discard") /\ ~ gone
            /\ Perform(fr) /\ Show("nothing")
         \/ /\ ~ GoesAhead("discard")
            /\ command = "save" => fr.viewer = None
            /\ Show("nothing") /\ UNCHANGED <<viewerVars, quitting>>
         \/ /\ command = "save" /\ fr.viewer # None /\ current \in open
            /\ Show("save") /\ UNCHANGED <<viewerVars, quitting>>
         \/ /\ \/ command = "discard" /\ gone
               \/ command = "save" /\ fr.viewer # None /\ current \notin open
            /\ undefined' = TRUE /\ shown' = "nothing" /\ rotating' = None
            /\ UNCHANGED <<viewerVars, quitting>>

-----------------------------------------------------------------------------
(* What the user does *)

(* A click on a viewer, which may open its menu.                           *)
Click(v) ==
  /\ UserFree /\ v \in open
  /\ current' = v
  /\ \E s \in {"nothing", "menu"} : Show(s)
  /\ UNCHANGED <<viewerVars, stack, command, quitting>>

(* A choice from the menu acts on the current viewer, if it is still there.*)
ChooseForGone ==
  /\ UserFree /\ shown = "menu" /\ current \notin open
  /\ undefined' = TRUE
  /\ UNCHANGED <<viewerVars, current, stack, command, shown, rotating, quitting>>

(* An image changes. The viewers of it are disposed of what belonged to it *)
(* as it was: one of them may own the clipboard.                           *)
Change(i) ==
  /\ edited' = edited \cup {i}
  /\ clipboard' = IF clipboard # None /\ image[clipboard] = i THEN None ELSE clipboard

(* A rotation, or effects applied, but not to an image being edited.       *)
Modify(v) ==
  /\ UserFree /\ v \in open
  /\ Change(image[v])
  /\ \E s \in ByClickOrKey : (s = "rotate" => rotating # image[v]) /\ Show(s)
  /\ UNCHANGED <<open, image, idle, name, current, stack, command, quitting>>

(* rotate_open, for an image that is not being edited.                     *)
OpenRotate(v) ==
  /\ UserFree /\ v \in open /\ rotating # image[v]
  /\ shown' = "rotate"
  /\ rotating' = image[v]
  /\ undefined' \in {undefined, Dangling}
  /\ UNCHANGED <<viewerVars, current, stack, command, quitting>>

(* A click on Rotate turns the dialogue's image, whether a viewer shows it,*)
(* it idles or it was freed. With Adjust the dialogue stays.               *)
RotateChosen ==
  /\ UserFree /\ shown = "rotate"
  /\ \/ ~ Dangling /\ Change(rotating) /\ \E s \in ByClickOrKey : Show(s)
     \/ Dangling /\ undefined' = TRUE /\ UNCHANGED <<edited, clipboard, shown, rotating>>
  /\ UNCHANGED <<open, image, idle, name, current, stack, command, quitting>>

NewView(v, w) ==
  /\ UserFree /\ v \in open /\ w \notin open
  /\ open' = open \cup {w}
  /\ image' = [image EXCEPT ![w] = image[v]]
  /\ \E s \in ByClickOrKey : Show(s)
  /\ UNCHANGED <<idle, edited, name, clipboard, current, stack, command, quitting>>

Copy(v) ==
  /\ UserFree /\ v \in open
  /\ clipboard' = v
  /\ \E s \in ByClickOrKey : Show(s)
  /\ UNCHANGED <<open, image, idle, edited, name, current, stack, command, quitting>>

(* F3 in any viewer shows the save window, for the current viewer.         *)
ShowSave ==
  /\ UserFree /\ open # {}
  /\ \/ current \in open /\ Show("save")
     \/ current \notin open /\ undefined' = TRUE /\ UNCHANGED <<shown, rotating>>
  /\ UNCHANGED <<viewerVars, current, stack, command, quitting>>

(* The button of the save window: viewer_save of the current viewer.       *)
Save(f) ==
  /\ UserFree /\ shown = "save"
  /\ \/ /\ current \in open
        /\ edited' = edited \ {image[current]}
        /\ name' = [name EXCEPT ![image[current]] = f]
        /\ Show("nothing")
     \/ /\ current \notin open
        /\ undefined' = TRUE
        /\ UNCHANGED <<edited, name, shown, rotating>>
  /\ UNCHANGED <<open, image, idle, clipboard, current, stack, command, quitting>>

(* A click elsewhere, or Escape.                                           *)
CloseMenu ==
  /\ UserFree /\ shown # "nothing"
  /\ Show("nothing")
  /\ UNCHANGED <<viewerVars, current, stack, command, quitting>>

(* A click elsewhere closes the viewer's menu, and so does the key that    *)
(* closes the viewer or steps: but it leaves a dialogue there.             *)
Leaves == ByClickOrKey \ {"menu"}

(* display_event_close_window_request, and the key                         *)
Close(v) ==
  /\ UserFree /\ v \in open
  /\ \E s \in Leaves : StartUnload([Handler("close") EXCEPT !.viewer = v], s)
  /\ UNCHANGED current

(* step: the next file of the directory, found before the question.        *)
Step(v, f) ==
  /\ UserFree /\ v \in open /\ name[image[v]] \notin {NoName, f}
  /\ \E s \in Leaves :
       StartUnload([Handler("replace") EXCEPT !.viewer = v, !.file = f], s)
  /\ UNCHANGED current

(* The icon bar menu: quit, and close every viewer.                        *)
ChooseQuit(op) ==
  /\ UserFree
  /\ StartQuit(Handler(op), "nothing")
  /\ UNCHANGED current

(* Emptying the cache, or a smaller one, evicts what idles.                *)
ShrinkCache ==
  /\ UserFree
  /\ Hold(image, edited, name)
  /\ Show("nothing")
  /\ UNCHANGED <<open, clipboard, current, stack, command, quitting>>

-----------------------------------------------------------------------------
(* What other programs send *)

(* message_data_load: into the viewer it was dropped on, or a new one.     *)
DataLoad(v, f, unsafe) ==
  /\ Polling
  /\ \/ /\ v \in open
        /\ StartUnload([Handler("replace") EXCEPT !.viewer = v, !.file = f, !.unsafe = unsafe],
                       shown)
     \/ /\ v \notin open
        /\ LoadFile(v, image, f, unsafe, FALSE)
        /\ UNCHANGED <<stack, command, menuVars, quitting>>
  /\ UNCHANGED current

(* message_data_open of a file which no viewer shows.                      *)
DataOpen(v, f, template) ==
  /\ Polling /\ v \notin open
  /\ \A w \in open : name[image[w]] # f
  /\ LoadFile(v, image, f, FALSE, template)
  /\ UNCHANGED <<current, stack, command, menuVars, quitting>>

(* message_pre_quit, which objects to the shutdown before it asks.         *)
PreQuit ==
  /\ Polling
  /\ StartQuit(Handler("prequit"), shown)
  /\ UNCHANGED current

(* message_quit *)
Quit ==
  /\ Polling
  /\ quitting' = "told"
  /\ UNCHANGED <<viewerVars, current, stack, command, menuVars>>

(* message_claim_entity, and Release from the viewer's menu.               *)
LoseClipboard ==
  /\ Polling /\ clipboard # None
  /\ clipboard' = None
  /\ UNCHANGED <<open, image, idle, edited, name, current, stack, command, menuVars, quitting>>

-----------------------------------------------------------------------------

Init ==
  /\ open = {}
  /\ image = [v \in Viewers |-> None]
  /\ idle = {}
  /\ edited = {}
  /\ name = [i \in Images |-> NoName]
  /\ clipboard = None
  /\ current = None
  /\ stack = <<>>
  /\ command = "cancel"
  /\ shown = "nothing"
  /\ rotating = None
  /\ quitting = "no"
  /\ undefined = FALSE

User ==
  \/ \E c \in Answers : Answer(c)
  \/ Dismiss
  \/ \E v \in Viewers :
       \/ Click(v) \/ Modify(v) \/ OpenRotate(v) \/ Copy(v) \/ Close(v)
       \/ \E w \in Viewers : NewView(v, w)
       \/ \E f \in Files : Step(v, f)
  \/ RotateChosen
  \/ ChooseForGone
  \/ ShowSave
  \/ \E f \in Files : Save(f)
  \/ CloseMenu
  \/ \E op \in {"quit", "closeall"} : ChooseQuit(op)
  \/ ShrinkCache

Others ==
  \/ \E v \in Viewers, f \in Files :
       \/ \E unsafe \in BOOLEAN : DataLoad(v, f, unsafe)
       \/ \E template \in BOOLEAN : DataOpen(v, f, template)
  \/ PreQuit
  \/ Quit
  \/ LoseClipboard

Next == Resume \/ User \/ Others

Spec == Init /\ [][Next]_vars

-----------------------------------------------------------------------------
(* Properties *)

(* Whenever events are dispatched every viewer on the list has an image:   *)
(* the handlers, and the searches of the list, look into it unchecked.     *)
ViewersHaveImages == \A v \in Viewers : v \in open <=> image[v] # None

(* The owner of the clipboard is a viewer on the list: a request to paste  *)
(* may come long after the copy, and looks into the viewer's image.        *)
ClipboardIsOpen == clipboard \in open \cup {None}

(* While a handler waits for an answer its question is there to be         *)
(* answered, whatever messages came meanwhile.                             *)
QuestionIsShown ==
  stack # <<>> /\ command = "waiting" =>
    shown = IF Last(stack).viewer = None THEN "quit" ELSE "dcs"

(* An answer to discard lets a waiting handler go on.                      *)
Discards == Len(stack') < Len(stack) /\ command = "discard"

(* An edit of an image that a viewer shows is lost only by a handler which *)
(* asked, when the last answer was to discard: never by a dismissal, a     *)
(* message, a failed load, a file loaded over it, an eviction or the       *)
(* closing of one of two views. It may be saved.                           *)
LostByConsent ==
  [][\A i \in (edited \ edited') \cap Viewed : image' = image \/ Discards]_vars

(* The program chooses to quit over edited images, whenever they came to   *)
(* be edited, only after it asked and the last answer was to discard.      *)
QuitByConsent ==
  [][quitting = "no" /\ quitting' = "chosen" => edited = {} \/ Discards]_vars

(* dcs-quit.c:250: a question whose menu closed before the user made a     *)
(* choice is taken as cancelled.                                           *)
OwnAnswer ==
  [][Discards => Last(stack).answered]_vars
=============================================================================
