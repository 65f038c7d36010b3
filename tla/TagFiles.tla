------------------------------ MODULE TagFiles ------------------------------
(***************************************************************************)
(* The two databases behind PrivateEye's tags, in memory and on disc       *)
(* (tags-common.c): which tags each image has, by its digest, and the file *)
(* each digest was last met in. They are opened when the first of the two  *)
(* windows that use them is, written one after the other on request and    *)
(* when the program ends, and copied before they are first written.        *)
(*                                                                         *)
(* A file may fail to be copied or written, and the program may stop       *)
(* between any two steps; a session begins with what the files hold. The   *)
(* databases are a library: their calls are modelled by what they do.      *)
(***************************************************************************)
EXTENDS Integers, FiniteSets, Sequences

CONSTANTS
  Images,   \* the images, by their digests
  Tags      \* the tags

ASSUME TagFilesAssumption == IsFiniteSet(Images) /\ IsFiniteSet(Tags)

VARIABLES
  store,     \* the databases in memory
  disk,      \* the databases' files
  backup,    \* the copies of the files
  backedUp,  \* LOCALS.backed_up
  found,     \* what the files held when the session began
  spoilt,    \* a copy failed in this session, or a file could not be written
  unnamed,   \* images which were tagged, but whose naming failed
  opened,    \* tags_lazyrefcount and tags_search_lazyrefcount are above 0
  refs,      \* tags_common_lazyrefcount
  step,      \* what the program is about to do
  fins       \* the subsystems left to finalise, once it is ending

sessionVars == <<backedUp, found, spoilt, opened, refs, step, fins>>
vars == <<store, disk, backup, unnamed, sessionVars>>

Windows == {"tags", "search"}

(* tagdb and filenamedb                                                    *)
Databases == [marks: SUBSET (Images \X Tags), names: SUBSET Images]

Subsystems == <<"tags", "search", "common">>

TypeOK ==
  /\ store \in Databases /\ disk \in Databases /\ backup \in Databases
  /\ found \in Databases
  /\ backedUp \in BOOLEAN /\ spoilt \in SUBSET {"copy", "write"}
  /\ unnamed \subseteq Images
  /\ opened \subseteq Windows
  /\ refs \in 0 .. Cardinality(opened)
  /\ step \in {"running", "backup", "names", "tags", "ending", "stopped"}
  /\ fins \in {Subsystems, <<"search", "common">>, <<"common">>, << >>}
  /\ step = "running" => fins = Subsystems

Tagged(db) == { m[1] : m \in db.marks }

Nothing == [marks |-> {}, names |-> {}]

Init ==
  /\ disk = Nothing /\ backup = Nothing /\ store = Nothing /\ found = Nothing
  /\ unnamed = {}
  /\ backedUp = FALSE /\ spoilt = {}
  /\ opened = {} /\ refs = 0
  /\ step = "running" /\ fins = Subsystems

-----------------------------------------------------------------------------
(* Opening the windows and tagging *)

(* tags_lazyinit and tags_search_lazyinit. The window's own count goes up  *)
(* first; opening the databases may fail, and later whatever follows it.   *)
Open(w) ==
  /\ step = "running"
  /\ w \notin opened
  /\ opened' = opened \cup {w}
  /\ refs' \in {refs + 1} \cup (IF refs = 0 THEN {0} ELSE {})
  /\ UNCHANGED <<store, disk, backup, unnamed, backedUp, found, spoilt, step, fins>>

(* tags_common_tag and tags_common_tagfile: the tag, then the name, which  *)
(* may fail.                                                               *)
Tag(img, t) ==
  /\ step = "running" /\ refs > 0
  /\ \E named \in BOOLEAN :
       /\ store' = [marks |-> store.marks \cup {<<img, t>>},
                    names |-> IF named THEN store.names \cup {img} ELSE store.names]
       /\ unnamed' = IF img \in store'.names THEN unnamed ELSE unnamed \cup {img}
  /\ UNCHANGED <<disk, backup, sessionVars>>

(* tags_common_detag and tags_common_detagfile: the name is kept, as other *)
(* tags may need it.                                                       *)
Detag(img, t) ==
  /\ step = "running" /\ refs > 0
  /\ store' = [store EXCEPT !.marks = @ \ {<<img, t>>}]
  /\ UNCHANGED <<disk, backup, unnamed, sessionVars>>

(* tags_common_delete_tag                                                  *)
DeleteTag(t) ==
  /\ step = "running" /\ refs > 0
  /\ store' = [store EXCEPT !.marks = { m \in @ : m[2] # t }]
  /\ UNCHANGED <<disk, backup, unnamed, sessionVars>>

-----------------------------------------------------------------------------
(* Writing *)

(* tag_cloud_EVENT_COMMIT                                                  *)
Commit ==
  /\ step = "running" /\ refs > 0
  /\ step' = "backup"
  /\ UNCHANGED <<store, disk, backup, unnamed, backedUp, found, spoilt, opened, refs, fins>>

(* Slip: a copy is made each time.                                         *)
BackUpAgain ==
  /\ step = "backup" /\ step' = "names"
  /\ backup' = disk /\ backedUp' = TRUE
  /\ UNCHANGED <<store, disk, unnamed, found, spoilt, opened, refs, fins>>

(* Slip: a copy counts even if the second file could not be copied.        *)
BackUpHalf ==
  /\ step = "backup" /\ step' = "names"
  /\ \/ backedUp /\ UNCHANGED <<backup, backedUp, spoilt>>
     \/ /\ ~ backedUp
        /\ backup' \in {disk, [backup EXCEPT !.marks = disk.marks]}
        /\ backedUp' = TRUE
        /\ UNCHANGED spoilt
  /\ UNCHANGED <<store, disk, unnamed, found, opened, refs, fins>>

(* backup: done once in a session, unless it fails; then nothing of it may *)
(* be done, or just the tags copied.                                       *)
BackUp ==
  /\ step = "backup" /\ step' = "names"
  /\ \/ backedUp /\ UNCHANGED <<backup, backedUp, spoilt>>
     \/ /\ ~ backedUp
        /\ backup' = disk /\ backedUp' = TRUE
        /\ UNCHANGED spoilt
     \/ /\ ~ backedUp
        /\ backup' \in {backup, [backup EXCEPT !.marks = disk.marks]}
        /\ spoilt' = spoilt \cup {"copy"}
        /\ UNCHANGED backedUp
  /\ UNCHANGED <<store, disk, unnamed, found, opened, refs, fins>>

(* Slip: the program goes on as if it had not been ending.                 *)
AfterTagsRunning == "running"

(* What the program was about when it began to write                       *)
AfterTags == IF fins = Subsystems THEN "running" ELSE "ending"

WriteNames(from, to) ==
  /\ step = from /\ step' = to
  /\ \/ /\ disk' = [disk EXCEPT !.names = store.names]
        /\ UNCHANGED <<unnamed, spoilt>>
     \/ /\ unnamed' = unnamed \cup (store.names \ disk.names)
        /\ spoilt' = spoilt \cup {"write"}
        /\ UNCHANGED disk
  /\ UNCHANGED <<store, backup, backedUp, found, opened, refs, fins>>

WriteTags(from, to) ==
  /\ step = from /\ step' = to
  /\ \/ /\ disk' = [disk EXCEPT !.marks = store.marks]
        /\ UNCHANGED spoilt
     \/ /\ spoilt' = spoilt \cup {"write"}
        /\ UNCHANGED disk
  /\ UNCHANGED <<store, backup, unnamed, backedUp, found, opened, refs, fins>>

(* Slip: the tags are written before the names.                            *)
WriteTagsFirst == WriteTags("names", "tags") \/ WriteNames("tags", AfterTags)

(* filenamedb_commit and tagdb_commit, or the calls which close the two:   *)
(* nobody looks at what they return.                                       *)
Write == WriteNames("names", "tags") \/ WriteTags("tags", AfterTags)

-----------------------------------------------------------------------------
(* The end *)

(* finalise_subsystems begins.                                             *)
Quit ==
  /\ step = "running"
  /\ step' = "ending"
  /\ UNCHANGED <<store, disk, backup, unnamed, backedUp, found, spoilt, opened, refs, fins>>

(* Slip: what was not taken is given back, too.                            *)
RefsAfterFailure(s) ==
  CASE s = "common" -> 0
    [] s \in opened -> refs - 1
    [] OTHER -> refs

(* The count after s is finalised: tags_lazyfin and tags_search_lazyfin    *)
(* give back what they took, or what they failed to take; the end of       *)
(* tags_common forces it to 0.                                             *)
RefsAfter(s) ==
  CASE s = "common" -> 0
    [] s \in opened /\ refs > 0 -> refs - 1
    [] OTHER -> refs

(* Slip: only the forced end closes the databases.                         *)
FinaliseForced ==
  /\ step = "ending" /\ fins # << >>
  /\ fins' = Tail(fins)
  /\ opened' = opened \ {Head(fins)}
  /\ refs' = RefsAfter(Head(fins))
  /\ step' = IF Head(fins) = "common" /\ refs > 0 THEN "backup" ELSE "ending"
  /\ UNCHANGED <<store, disk, backup, unnamed, backedUp, found, spoilt>>

(* tags_fin, tags_search_fin, and the tags_common_fin in the second: who   *)
(* takes the count to 0 backs up and closes the databases.                 *)
Finalise ==
  /\ step = "ending" /\ fins # << >>
  /\ fins' = Tail(fins)
  /\ opened' = opened \ {Head(fins)}
  /\ refs' = RefsAfter(Head(fins))
  /\ step' = IF refs > 0 /\ refs' = 0 THEN "backup" ELSE "ending"
  /\ UNCHANGED <<store, disk, backup, unnamed, backedUp, found, spoilt>>

End ==
  /\ step = "ending" /\ fins = << >>
  /\ step' = "stopped"
  /\ UNCHANGED <<store, disk, backup, unnamed, backedUp, found, spoilt, opened, refs, fins>>

(* The program, or the machine, dies.                                      *)
Crash ==
  /\ step # "stopped"
  /\ step' = "stopped" /\ fins' = Subsystems
  /\ UNCHANGED <<store, disk, backup, unnamed, backedUp, found, spoilt, opened, refs>>

(* A session begins: the databases are read when they are opened.          *)
Restart ==
  /\ step = "stopped"
  /\ store' = disk /\ found' = disk
  /\ backedUp' = FALSE /\ spoilt' = {}
  /\ opened' = {} /\ refs' = 0
  /\ step' = "running" /\ fins' = Subsystems
  /\ UNCHANGED <<disk, backup, unnamed>>

Next ==
  \/ \E w \in Windows : Open(w)
  \/ \E img \in Images, t \in Tags : Tag(img, t) \/ Detag(img, t)
  \/ \E t \in Tags : DeleteTag(t)
  \/ Commit \/ BackUp \/ Write
  \/ Quit \/ Finalise \/ End \/ Crash \/ Restart

Spec == Init /\ [][Next]_vars

(* The one thread gets on with what it has begun: all but the user's       *)
(* events, a crash and the next session.                                   *)
FairSpec == Spec /\ WF_vars(BackUp \/ Write \/ Finalise \/ End)

-----------------------------------------------------------------------------
(* Properties *)

(* Wherever the writing is interrupted, an image which has tags on disc    *)
(* has a file there by which a search can find it, unless naming it failed *)
(* (the order of the two commits).                                         *)
OnDiskNamed == Tagged(disk) \subseteq disk.names \cup unnamed

(* A copy that counts as one holds two files which go together (backup,    *)
(* which copies one after the other, and gives up in between).             *)
BackupIsConsistent == backedUp => Tagged(backup) \subseteq backup.names \cup unnamed

(* However often the databases are written, the copy is of what they were  *)
(* when the session began, unless it could not be made at first (the       *)
(* question in tags_common_event).                                         *)
BackupIsOfStart == (backedUp /\ "copy" \notin spoilt) => backup = found

(* A session which ends, and which could write its files, leaves all it    *)
(* did on disc, whichever windows were opened or failed to (the counts of  *)
(* tags_common_lazyinit and its users).                                    *)
EndSaves == (step = "stopped" /\ fins = << >> /\ "write" \notin spoilt) => disk = store

(* A session which is told to end does end, through whatever it has yet to *)
(* copy, write and finalise, and leaves all it did on disc unless it       *)
(* crashed or could not write (finalise_subsystems, tags_common_lazyfin).  *)
EndsAndSaves ==
  step = "ending" ~>
    step = "stopped" /\ (fins = Subsystems \/ "write" \in spoilt \/ disk = store)

=============================================================================
