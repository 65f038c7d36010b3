---------------------------- MODULE DataTransfer ----------------------------
(***************************************************************************)
(* How PrivateEye exchanges pictures with other programs, by the desktop's *)
(* messages: dataxfer.c, ffg.c, clipboard.c, save.c and dialogues/save.    *)
(*                                                                         *)
(*   to save        DataSave -> DataSaveAck (file it there) -> DataLoad    *)
(*   to receive     the same, with a scrap file for "there"                *)
(*   to paste       DataRequest -> DataSave -> ... as for a save           *)
(*   to translate   TranslateFFG -> TranslateFFGAck, DataLoad              *)
(*                                                                         *)
(* What the program must remember between an offer and its answer is in    *)
(* one static variable of each kind. Messages arrive in the order in which *)
(* they were sent; a program may leave one unanswered. The messages for a  *)
(* transfer under way are all in `mail'. A save that is dropped on the     *)
(* program's own icon is answered by the program itself.                   *)
(*                                                                         *)
(* The question before an edited picture goes is Session's: here it is     *)
(* answered at once. Other programs are external: they keep to the         *)
(* protocol, but for an est_size that they forget to set in a DataSaveAck  *)
(* (dataxfer.c, 160), and for a translator that is not Faithful, which     *)
(* loses the reference it is given (ffg.c, 13) or does not say that what   *)
(* it delivers is saved nowhere.                                           *)
(***************************************************************************)
EXTENDS Naturals, FiniteSets, SequencesExt

CONSTANTS
  Viewers,      \* the viewer_t blocks malloc may return
  Pictures,     \* what there is to see
  Programs,     \* the other tasks
  Faithful,     \* the translators among them which answer as they should
  Self,         \* this one
  None,         \* no viewer, no picture, no task
  MaxTransfers  \* bounds the transfers under way at once

ASSUME TransferAssumption ==
  /\ Faithful \subseteq Programs
  /\ Self \notin Programs /\ None \notin Programs \cup {Self}
  /\ None \notin Viewers /\ None \notin Pictures
  /\ None \notin [picture: Pictures, modified: BOOLEAN]
  /\ MaxTransfers \in Nat \ {0}

VARIABLES
  image,     \* what each viewer shows: a picture, and image_FLAG_MODIFIED
  kept,      \* the pictures that are, or were, in a file of the user's
  scrap,     \* the picture in the file <Wimp$Scrap>
  mail,      \* the messages that have not been delivered
  lastRef,   \* dataxfer.c: last_datasave_ref
  saving,    \* save.c: saving_viewer
  closes,    \* dialogues/save: saving_close_menu has wimp_DRAG_SELECT
  translator,\* ffg.c: ffg_task
  clipboard, \* GLOBALS.clipboard_viewer
  current,   \* GLOBALS.current_viewer
  menu,      \* what is shown as a menu
  dragging,  \* the save dialogue's icon is being dragged
  undefined  \* a viewer was used which there is not (any more)

pictureVars == <<image, kept, scrap>>
dialogueVars == <<saving, closes, current, menu, dragging>>
vars == <<pictureVars, mail, lastRef, translator, clipboard, dialogueVars, undefined>>

Images == [picture: Pictures, modified: BOOLEAN]

Refs == 0 .. MaxTransfers + 3     \* 0: the message is no reply

(* my is the reference of a message, as far as anyone looks at it. of is   *)
(* the viewer whose icon was dropped, if any, which no program sees.       *)
Messages ==
  [action: {"DataSave", "DataSaveAck", "DataLoad", "DataRequest", "TranslateFFG", "TranslateFFGAck"},
   from: Programs \cup {Self}, to: Programs \cup {Self}, my: Refs, your: Refs,
   file: {"file", "scrap", "none"}, unsaved: BOOLEAN,
   type: {"image", "foreign", "unset"}, of: Viewers \cup {None}]

Message(action, from, to) ==
  [action |-> action, from |-> from, to |-> to, my |-> 0, your |-> 0,
   file |-> "none", unsaved |-> FALSE, type |-> "image", of |-> None]

Open == { v \in Viewers : image[v] # None }

TypeOK ==
  /\ image \in [Viewers -> Images \cup {None}]
  /\ kept \subseteq Pictures
  /\ scrap \in Pictures \cup {None}
  /\ mail \in Seq(Messages)
  /\ lastRef \in Refs
  /\ saving \in Viewers \cup {None} /\ clipboard \in Open \cup {None}
  /\ current \in Viewers \cup {None}
  /\ translator \in Programs \cup {None}
  /\ menu \in {"nothing", "save", "other"}
  /\ {closes, dragging, undefined} \subseteq BOOLEAN

-----------------------------------------------------------------------------
(* Mail *)

ForOf(to) == { i \in DOMAIN mail : mail[i].to = to }

(* The next message for a task, if there is one.                           *)
NextFor(to) == CHOOSE i \in ForOf(to) : \A j \in ForOf(to) : i <= j

Gets(to, action) == ForOf(to) # {} /\ mail[NextFor(to)].action = action /\ ~ undefined

Got(to) == mail[NextFor(to)]

Without(to) == RemoveAt(mail, NextFor(to))

Reply(to, replies) == mail' = Without(to) \o replies

LiveRefs == {lastRef} \cup UNION { {mail[i].my, mail[i].your} : i \in DOMAIN mail }

(* The window manager gives every message a reference of its own.          *)
NewRef == CHOOSE r \in Refs \ {0} : r \notin LiveRefs

(* A transfer may begin, as far as the bound goes.                         *)
MayBegin == Len(mail) < MaxTransfers /\ ~ undefined

New(p) ==
  /\ p \notin kept /\ p # scrap
  /\ \A v \in Open : image[v].picture # p

-----------------------------------------------------------------------------
(* Viewers *)

Show(p, modified) == [picture |-> p, modified |-> modified]

(* Slip: the clipboard stays.                                              *)
DisposeKeeps(v) == UNCHANGED clipboard

(* viewer_dispose, for a viewer that is about to show something else, or   *)
(* nothing.                                                                *)
Dispose(v) == clipboard' = IF clipboard = v THEN None ELSE clipboard

(* viewer_unload and viewer_destroy.                                       *)
Destroy(v) ==
  /\ Dispose(v)
  /\ image' = [image EXCEPT ![v] = None]

Load(v, img) ==
  /\ Dispose(v)
  /\ image' = [image EXCEPT ![v] = img]

(* Slip: what is saved for another program is saved for good.              *)
SavedAlways(m) == TRUE

(* viewer_save's unsafe, denied: only est_size and the file's name say so. *)
SavedForGood(m) == ~ m.unsaved /\ m.file # "scrap"

Written(v, m) ==
  /\ IF m.file = "scrap"
     THEN scrap' = image[v].picture /\ UNCHANGED kept
     ELSE kept' = kept \cup {image[v].picture} /\ UNCHANGED scrap
  /\ image' = IF SavedForGood(m)
              THEN [image EXCEPT ![v].modified = FALSE] ELSE image

-----------------------------------------------------------------------------
(* Messages to this program *)

(* message_data_save: no <Wimp$Scrap>, or a type that it cannot load; or a *)
(* request to put the file there, remembered by the reply's reference.     *)
DataSave ==
  /\ Gets(Self, "DataSave")
  /\ \/ Reply(Self, << >>) /\ UNCHANGED lastRef
     \/ /\ Reply(Self, <<[Message("DataSaveAck", Self, Got(Self).from) EXCEPT
                           !.my = NewRef, !.file = "scrap", !.unsaved = TRUE, !.of = Got(Self).of]>>)
        /\ lastRef' = NewRef
  /\ UNCHANGED <<pictureVars, translator, clipboard, dialogueVars, undefined>>

(* The viewer whose picture an answer is taken to be about.                *)
AskedFor == IF saving # None THEN saving ELSE clipboard

(* The menu closes, for which the save dialogue forgets its viewer.        *)
MenuCloses ==
  /\ menu' = "nothing"
  /\ saving' = IF menu = "save" THEN None ELSE saving

(* save_done                                                               *)
SaveDone ==
  /\ IF closes THEN MenuCloses ELSE UNCHANGED <<saving, menu>>
  /\ closes' = FALSE

(* message_data_save_ack: nothing was offered, or it cannot be written; or *)
(* it is, and the other program told.                                      *)
DataSaveAck ==
  /\ Gets(Self, "DataSaveAck")
  /\ \/ /\ AskedFor \in Open
        /\ Written(AskedFor, Got(Self))
        /\ Reply(Self, <<[Message("DataLoad", Self, Got(Self).from) EXCEPT
                           !.your = Got(Self).my, !.file = Got(Self).file,
                           !.unsaved = Got(Self).unsaved]>>)
        /\ SaveDone
        /\ UNCHANGED <<current, dragging, undefined>>
     \/ /\ Reply(Self, << >>)
        /\ undefined' = (AskedFor \notin Open \cup {None})
        /\ UNCHANGED <<pictureVars, dialogueVars>>
  /\ UNCHANGED <<lastRef, translator, clipboard>>

(* Slip: the reference is not looked at.                                   *)
UnsafeUnlessSaved(m) == m.unsaved /\ lastRef = 0

(* Is it an app-to-app transfer?                                           *)
Unsafe(m) == lastRef # 0 /\ m.your = lastRef /\ m.unsaved

(* ffg_apposite                                                            *)
Apposite(m) == m.from = translator

(* A picture which is loaded from a file of that name.                     *)
InFile(file) == IF file = "scrap" THEN {scrap} \ {None} ELSE kept

(* The rest of message_data_load: into the viewer it was dropped on, whose *)
(* picture may go, or a new one. The types of files which this program     *)
(* cannot load fail, as do translated ones whose type nobody set.          *)
LoadInto(v, m) ==
  \/ /\ \E p \in InFile(m.file) :
          Load(v, Show(p, Unsafe(m)))
     /\ m.type = "image" \/ (m.type = "unset" /\ Apposite(m))
     /\ IF Unsafe(m)
        THEN lastRef' = 0 /\ scrap' = IF m.file = "scrap" THEN None ELSE scrap
        ELSE UNCHANGED <<lastRef, scrap>>
  \/ Destroy(v) /\ UNCHANGED <<lastRef, scrap>>

(* message_data_load of a file that can be loaded, or was translated for   *)
(* this program.                                                           *)
DataLoad ==
  /\ Gets(Self, "DataLoad")
  /\ Got(Self).type # "foreign" \/ Apposite(Got(Self))
  /\ Reply(Self, << >>)
  /\ translator' = IF Apposite(Got(Self)) THEN None ELSE translator
  /\ \/ \E v \in Viewers : LoadInto(v, Got(Self)) /\ UNCHANGED menu
     \/ \E v \in Open :
          /\ image[v].modified
          /\ menu' \in {"nothing", "save"}
          /\ UNCHANGED <<image, scrap, lastRef, clipboard>>
     \/ UNCHANGED <<image, scrap, lastRef, clipboard, menu>>
  /\ saving' = IF menu' = menu THEN saving ELSE IF menu = "save" THEN None ELSE saving
  /\ UNCHANGED <<kept, closes, current, dragging, undefined>>

(* ffg_convert: a task is started, and every task is asked to translate.   *)
(* Of the offer that the file answers only the reference is passed on.     *)
Convert ==
  /\ Gets(Self, "DataLoad")
  /\ Got(Self).type = "foreign" /\ ~ Apposite(Got(Self))
  /\ \/ Reply(Self, << >>) /\ UNCHANGED translator
     \/ /\ \E t \in Programs :
             Reply(Self, <<[Message("TranslateFFG", Self, t) EXCEPT
                             !.your = Got(Self).your, !.file = Got(Self).file]>>)
        /\ translator' = None
  /\ UNCHANGED <<pictureVars, lastRef, clipboard, dialogueVars, undefined>>

(* message_translate_ffg_ack                                               *)
TranslateAck ==
  /\ Gets(Self, "TranslateFFGAck")
  /\ translator' = Got(Self).from
  /\ Reply(Self, << >>)
  /\ UNCHANGED <<pictureVars, lastRef, clipboard, dialogueVars, undefined>>

(* message_data_request: the clipboard is not here, or in no type that was *)
(* asked for; or it is offered.                                            *)
DataRequest ==
  /\ Gets(Self, "DataRequest")
  /\ \/ Reply(Self, << >>)
     \/ /\ clipboard # None
        /\ Reply(Self, <<Message("DataSave", Self, Got(Self).from)>>)
  /\ UNCHANGED <<pictureVars, lastRef, translator, clipboard, dialogueVars, undefined>>

(* message_data_open of a file which no viewer shows.                      *)
DataOpen(v) ==
  /\ ~ undefined /\ v \notin Open
  /\ \/ \E p \in kept : Load(v, Show(p, FALSE))
     \/ Destroy(v)
  /\ UNCHANGED <<kept, scrap, mail, lastRef, translator, dialogueVars, undefined>>

(* message_claim_entity of another program; Release from the menu.         *)
LoseClipboard ==
  /\ clipboard # None /\ ~ undefined
  /\ clipboard' = None
  /\ UNCHANGED <<pictureVars, mail, lastRef, translator, dialogueVars, undefined>>

-----------------------------------------------------------------------------
(* Other programs *)

(* Another program offers a picture, asks for the clipboard, or gives a    *)
(* file of the user's.                                                     *)
Begin(t) ==
  /\ MayBegin
  /\ \E m \in {Message("DataSave", t, Self), Message("DataRequest", t, Self)}
               \cup { [Message("DataLoad", t, Self) EXCEPT !.file = "file", !.type = type]
                      : type \in {"image", "foreign"} } :
       mail' = Append(mail, m)
  /\ UNCHANGED <<pictureVars, lastRef, translator, clipboard, dialogueVars, undefined>>

(* Another program takes an offer, for the scrap file or one of the user's.*)
TakeOffer(t) ==
  /\ Gets(t, "DataSave")
  /\ \E w \in {<<"scrap", TRUE>>, <<"scrap", FALSE>>, <<"file", FALSE>>} :
       Reply(t, <<[Message("DataSaveAck", t, Self) EXCEPT
                    !.file = w[1], !.unsaved = w[2], !.of = Got(t).of]>>)
  /\ UNCHANGED <<pictureVars, lastRef, translator, clipboard, dialogueVars, undefined>>

(* It puts what it offered in the scrap file.                              *)
PutInScrap(t) ==
  /\ Gets(t, "DataSaveAck")
  /\ \E p \in Pictures, type \in {"image", "foreign"} :
       /\ New(p)
       /\ scrap' = p
       /\ Reply(t, <<[Message("DataLoad", t, Self) EXCEPT
                       !.your = Got(t).my, !.file = "scrap", !.unsaved = TRUE, !.type = type]>>)
  /\ UNCHANGED <<image, kept, lastRef, translator, clipboard, dialogueVars, undefined>>

(* It takes what it was given, and the scrap file away.                    *)
TakeFile(t) ==
  /\ Gets(t, "DataLoad")
  /\ scrap' = IF Got(t).file = "scrap" THEN None ELSE scrap
  /\ Reply(t, << >>)
  /\ UNCHANGED <<image, kept, lastRef, translator, clipboard, dialogueVars, undefined>>

(* It translates a file, to the scrap file, whose type it may not set. One *)
(* that is not faithful gives any reference, and may leave est_size alone. *)
Translate(t) ==
  /\ Gets(t, "TranslateFFG")
  /\ \E p \in InFile(Got(t).file), type \in {"image", "unset"},
        your \in Refs, unsaved \in BOOLEAN :
       /\ t \in Faithful => your = Got(t).your /\ unsaved
       /\ scrap' = p
       /\ Reply(t, <<Message("TranslateFFGAck", t, Self),
                     [Message("DataLoad", t, Self) EXCEPT
                       !.your = your, !.file = "scrap", !.unsaved = unsaved, !.type = type]>>)
  /\ UNCHANGED <<image, kept, lastRef, translator, clipboard, dialogueVars, undefined>>

(* Nobody answers: the message is returned, to which this program does     *)
(* nothing but to report that a translator died.                           *)
Ignore(t) ==
  /\ ForOf(t) # {} /\ ~ undefined
  /\ Reply(t, << >>)
  /\ UNCHANGED <<pictureVars, lastRef, translator, clipboard, dialogueVars, undefined>>

-----------------------------------------------------------------------------
(* The user *)

(* A click on a viewer, which may open its menu.                           *)
Click(v) ==
  /\ v \in Open /\ ~ undefined /\ ~ dragging
  /\ MenuCloses
  /\ current' = v
  /\ UNCHANGED <<pictureVars, mail, lastRef, translator, clipboard, closes, dragging, undefined>>

(* The dialogue is filled out for the current viewer; or the icon bar's    *)
(* menu is opened.                                                         *)
OpenMenu(m) ==
  /\ ~ undefined /\ ~ dragging
  /\ m = "save" => Open # {}
  /\ menu' = m
  /\ saving' = IF menu = "save" THEN None ELSE saving
  /\ undefined' = (m = "save" /\ current \notin Open)
  /\ UNCHANGED <<pictureVars, mail, lastRef, translator, clipboard, closes, current, dragging>>

(* Escape, or a click elsewhere. Keys work during a drag.                  *)
CloseMenu ==
  /\ menu # "nothing" /\ ~ undefined
  /\ MenuCloses
  /\ UNCHANGED <<pictureVars, mail, lastRef, translator, clipboard, closes, current, dragging, undefined>>

(* viewer_savedlg_save_handler, and the dialogue goes or stays.            *)
PressSave ==
  /\ menu = "save" /\ ~ undefined /\ ~ dragging
  /\ IF current \in Open
     THEN /\ kept' = kept \cup {image[current].picture}
          /\ image' = [image EXCEPT ![current] = Show(@.picture, FALSE)]
     ELSE UNCHANGED <<image, kept>>
  /\ undefined' = (current \notin Open)
  /\ MenuCloses \/ UNCHANGED <<menu, saving>>
  /\ UNCHANGED <<scrap, mail, lastRef, translator, clipboard, closes, current, dragging>>

(* save_event_mouse_click: the icon is dragged, by Select or Adjust.       *)
DragIcon ==
  /\ menu = "save" /\ ~ undefined /\ ~ dragging
  /\ dragging' = TRUE
  /\ closes' \in BOOLEAN
  /\ UNCHANGED <<pictureVars, mail, lastRef, translator, clipboard, saving, current, menu, undefined>>

(* save_event_user_drag_box: on the dialogue, or a window of this program. *)
DropAtHome ==
  /\ dragging /\ ~ undefined
  /\ dragging' = FALSE
  /\ UNCHANGED <<pictureVars, mail, lastRef, translator, clipboard, saving, closes, current, menu, undefined>>

(* save_event_user_drag_box and viewer_savedlg_dataxfer_handler: on a      *)
(* window of another program, or any icon of the icon bar.                 *)
Drop(t) ==
  /\ dragging /\ MayBegin
  /\ dragging' = FALSE
  /\ saving' = current
  /\ undefined' = (current \notin Open)
  /\ mail' = Append(mail, [Message("DataSave", Self, t) EXCEPT !.of = current])
  /\ UNCHANGED <<pictureVars, lastRef, translator, clipboard, closes, current, menu>>

(* A rotation, or effects applied.                                         *)
Edit(v) ==
  /\ v \in Open /\ ~ undefined /\ ~ dragging
  /\ \E p \in Pictures : New(p) /\ image' = [image EXCEPT ![v].picture = p, ![v].modified = TRUE]
  /\ Dispose(v)
  /\ MenuCloses
  /\ UNCHANGED <<kept, scrap, mail, lastRef, translator, closes, current, dragging, undefined>>

(* clipboard_claim                                                         *)
Copy(v) ==
  /\ v \in Open /\ ~ undefined /\ ~ dragging
  /\ clipboard' = v
  /\ MenuCloses
  /\ UNCHANGED <<pictureVars, mail, lastRef, translator, closes, current, dragging, undefined>>

Close(v) ==
  /\ v \in Open /\ ~ undefined /\ ~ dragging
  /\ Destroy(v)
  /\ MenuCloses
  /\ UNCHANGED <<kept, scrap, mail, lastRef, translator, closes, current, dragging, undefined>>

-----------------------------------------------------------------------------
Init ==
  /\ image = [v \in Viewers |-> None]
  /\ kept \in SUBSET Pictures
  /\ scrap = None /\ mail = << >> /\ lastRef = 0
  /\ saving = None /\ clipboard = None /\ current = None /\ translator = None
  /\ closes = FALSE /\ dragging = FALSE /\ undefined = FALSE
  /\ menu = "nothing"

Next ==
  \/ DataSave \/ DataSaveAck \/ DataLoad \/ Convert \/ TranslateAck \/ DataRequest \/ LoseClipboard
  \/ CloseMenu \/ PressSave \/ DragIcon \/ DropAtHome \/ Drop(Self)
  \/ \E m \in {"save", "other"} : OpenMenu(m)
  \/ \E t \in Programs :
       Begin(t) \/ TakeOffer(t) \/ PutInScrap(t) \/ TakeFile(t) \/ Translate(t) \/ Ignore(t) \/ Drop(t)
  \/ \E v \in Viewers :
       Click(v) \/ Edit(v) \/ Copy(v) \/ Close(v) \/ DataOpen(v)

Spec == Init /\ [][Next]_vars

-----------------------------------------------------------------------------
(* Properties *)

(* A viewer which is not marked as modified shows a picture that the user  *)
(* has, or had, in a file: it may be closed without a question             *)
(* (dataxfer.c, 125, 222; viewer.c, 962).                                  *)
UnmodifiedIsKept ==
  \A v \in Open : image[v].modified \/ image[v].picture \in kept

(* Whatever the messages, viewers come by pictures, keep them and lose     *)
(* them as Documents says: one which is told to be saved is in a file then *)
(* (dataxfer.c, 159; save.c, 66).                                          *)
Desk == INSTANCE Documents WITH shown <- image
Promise == Desk!Spec

(* A drop saves the picture of the viewer whose icon was dropped: "Find    *)
(* out what we were attempting to send" (dataxfer.c, 149).                 *)
DropSavesWhatWasDropped ==
  [][DataSaveAck /\ pictureVars' # pictureVars => Got(Self).of \in {None, AskedFor}]_vars

=============================================================================
