--------------------------- MODULE ImageObservers ---------------------------
(***************************************************************************)
(* Who is told of what happens to an image in PrivateEye, and what they do *)
(* about it: the one list of observers (graphics/image/image-observer.c),  *)
(* which is walked while the callbacks close their windows, and so leave   *)
(* it; and its clients: the viewers, the histogram and metadata windows    *)
(* (gadgets/imageobwin), the effects window and the tags window.           *)
(*                                                                         *)
(* Saving and the focus are told, too, to which nobody here changes the    *)
(* list: they are left out.                                                *)
(*                                                                         *)
(* A callback may start a walk of its own. What the program is in the      *)
(* middle of is kept as a sequence of tasks, the first of them the one     *)
(* that runs; a walk is a task which knows the observer it will call next. *)
(***************************************************************************)
EXTENDS Integers, Sequences, SequencesExt, FiniteSets

CONSTANTS
  Images,     \* the blocks that images are kept in
  MaxViewers, \* bounds the viewers of one image
  MaxObservers, \* bounds the list
  MaxDeaf,    \* bounds the registrations that fail
  Possible,   \* the windows that the format of each image's file allows
  Every         \* the image of an observer which is told of all of them

ASSUME ObserversAssumption ==
  /\ IsFiniteSet(Images) /\ Every \notin Images
  /\ MaxViewers \in Nat \ {0} /\ MaxObservers \in Nat \ {0} /\ MaxDeaf \in Nat
  /\ Possible \in [Images -> SUBSET {"hist", "meta", "effects"}]

VARIABLES
  observers, \* first_observer: a sequence of records of image, who and nrefs
  tasks,     \* what is left to do before the next event is polled for
  live,      \* the images there are
  viewers,   \* how many viewers each is loaded into, its refcount
  avail,     \* the windows that there may be for each
  win,       \* the windows there are: opened, or just "listed"
  shows,     \* what each window's data is: of the image as it is, or was, or none
             \* because the last attempt to compute it failed
  hists,     \* image_t's hists, by which image data they were computed
  deaf       \* those whose registration ran out of memory

windowVars == <<avail, win, shows, hists>>
vars == <<observers, tasks, live, viewers, deaf, windowVars>>

Computed == {"hist", "meta"}            \* the windows of imageobwin.c
Windows == Computed \cup {"effects"}

Keys == ((Images \X (Windows \cup {"viewers"})) \cup {<<Every, "tags">>})
Nobody == <<Every, "nobody">>            \* a NULL next pointer

Changes == {"preview", "about to modify", "modified", "hidden", "revealed",
            "about to destroy"}

Data == {"none", "failed", "old", "current"}

Walks == [op: {"walk"}, image: Images, change: Changes, next: Keys \cup {Nobody}]
Tasks ==
  Walks \cup [op: {"event"}, image: Images, change: Changes]
        \cup [op: {"change", "unwatch", "release", "free"}, image: Images]

KeyOf(o) == <<o.image, o.who>>
Registered == { KeyOf(observers[i]) : i \in DOMAIN observers }

TypeOK ==
  /\ \A i \in DOMAIN observers : KeyOf(observers[i]) \in Keys /\ observers[i].nrefs \in Nat \ {0}
  /\ \A i, j \in DOMAIN observers : KeyOf(observers[i]) = KeyOf(observers[j]) => i = j
  /\ tasks \in Seq(Tasks)
  /\ live \subseteq Images
  /\ viewers \in [Images -> 0 .. MaxViewers]
  /\ \A img \in Images : avail[img] \subseteq Possible[img]
  /\ DOMAIN avail = Images
  /\ win \in [Images -> [Windows -> {"none", "listed", "open"}]]
  /\ shows \in [Images -> [Computed -> Data]]
  /\ hists \in [Images -> Data]
  /\ deaf \subseteq Images \X (Windows \cup {"viewers"})

-----------------------------------------------------------------------------
(* The list *)

PlaceOf(l, k) == CHOOSE i \in DOMAIN l : KeyOf(l[i]) = k

Has(l, k) == \E i \in DOMAIN l : KeyOf(l[i]) = k

(* Slip: an observer who is there already is put in again.                 *)
InsertAnother(l, img, who) == <<[image |-> img, who |-> who, nrefs |-> 1]>> \o l

(* imageobserver_register, when there is memory.                           *)
Insert(l, img, who) ==
  IF Has(l, <<img, who>>)
  THEN [l EXCEPT ![PlaceOf(l, <<img, who>>)].nrefs = @ + 1]
  ELSE <<[image |-> img, who |-> who, nrefs |-> 1]>> \o l

(* Slip: the first of its users to leave takes the observer out.           *)
RemoveAtOnce(l, img, who) == SelectSeq(l, LAMBDA o : KeyOf(o) # <<img, who>>)

(* imageobserver_deregister                                                *)
Leave(l, img, who) ==
  IF ~ Has(l, <<img, who>>) THEN l
  ELSE LET i == PlaceOf(l, <<img, who>>) IN
       IF l[i].nrefs > 1 THEN [l EXCEPT ![i].nrefs = @ - 1] ELSE RemoveAt(l, i)

(* The callers look not at whether registering ran out of memory.          *)
Register(img, who) ==
  \/ /\ observers' = Insert(observers, img, who)
     /\ Len(observers') <= MaxObservers
     /\ UNCHANGED deaf
  \/ /\ ~ Has(observers, <<img, who>>)
     /\ Cardinality(deaf) < MaxDeaf
     /\ deaf' = deaf \cup {<<img, who>>}
     /\ UNCHANGED observers

Deregister(img, who) ==
  /\ observers' = Leave(observers, img, who)
  /\ deaf' = IF who = "viewers" /\ viewers[img] > 1 THEN deaf ELSE deaf \ {<<img, who>>}

FirstOf(l) == IF l = << >> THEN Nobody ELSE KeyOf(l[1])

AfterIn(l, k) ==
  IF ~ Has(l, k) THEN Nobody
  ELSE LET i == PlaceOf(l, k) IN IF i = Len(l) THEN Nobody ELSE KeyOf(l[i + 1])

Event(img, change) == [op |-> "event", image |-> img, change |-> change]

Do(op, img) == [op |-> op, image |-> img]

-----------------------------------------------------------------------------
Init ==
  /\ observers = << >>
  /\ tasks = << >> /\ live = {} /\ deaf = {}
  /\ viewers = [i \in Images |-> 0]
  /\ avail = [i \in Images |-> {}]
  /\ win = [i \in Images |-> [w \in Windows |-> "none"]]
  /\ shows = [i \in Images |-> [w \in Computed |-> "none"]]
  /\ hists = [i \in Images |-> "none"]

Idle == tasks = << >>

Doing(op) == tasks # << >> /\ tasks[1].op = op

-----------------------------------------------------------------------------
(* Walks *)

(* Slip: the next observer is looked for once the callback has returned,   *)
(* in the one it was called for, which may have been freed.                *)
StepAfterwards(k) == IF Has(observers', k) THEN AfterIn(observers', k) ELSE k

(* imageobserver_event takes the next observer before it calls this one.   *)
Step(k) == AfterIn(observers, k)

Advanced(t) == [t EXCEPT !.next = Step(t.next)]

WalkBegins ==
  /\ Doing("event")
  /\ tasks' = <<[op |-> "walk", image |-> tasks[1].image, change |-> tasks[1].change,
                next |-> FirstOf(observers)]>> \o Tail(tasks)
  /\ UNCHANGED <<observers, live, viewers, deaf, windowVars>>

WalkEnds ==
  /\ Doing("walk") /\ tasks[1].next = Nobody
  /\ tasks' = Tail(tasks)
  /\ UNCHANGED <<observers, live, viewers, deaf, windowVars>>

(* The walk calls observer k.                                              *)
Calls(k) == Doing("walk") /\ tasks[1].next = k /\ Has(observers, k)

(* An observer of another image; or of this one which does not care, or    *)
(* does nothing to the list: the viewers redraw, the tags window looks at  *)
(* the focus.                                                              *)
Quiet(k, t) ==
  \/ k[1] \notin {Every, t.image}
  \/ k[2] \in {"viewers", "tags"}
  \/ k[2] = "effects" /\ t.change \notin {"hidden", "about to destroy"}
  \/ k[2] \in Computed /\ t.change \notin {"modified", "hidden", "about to destroy"}

CallQuiet ==
  \E k \in Keys :
    /\ Calls(k) /\ Quiet(k, tasks[1])
    /\ UNCHANGED <<observers, live, viewers, deaf, windowVars>>
    /\ tasks' = <<Advanced(tasks[1])>> \o Tail(tasks)

(* imageobwin_close                                                        *)
CloseComputed(img, w) ==
  /\ Deregister(img, w)
  /\ win' = [win EXCEPT ![img][w] = "none"]
  /\ shows' = [shows EXCEPT ![img][w] = "none"]
  /\ UNCHANGED <<avail, hists>>

(* The histograms that are kept with the image are made if need be.        *)
HistsMade(img, w) ==
  IF w = "hist" /\ hists[img] = "none" THEN [hists EXCEPT ![img] = "current"] ELSE hists

(* hist_compute and metadata_compute. Either may fail, hist_compute before *)
(* or after it has the histograms.                                         *)
Compute(img, w) ==
  \/ /\ hists' = HistsMade(img, w)
     /\ shows' = [shows EXCEPT ![img][w] = IF w = "hist" THEN hists'[img] ELSE "current"]
  \/ /\ hists' \in {hists, HistsMade(img, w)}
     /\ shows' = [shows EXCEPT ![img][w] = "failed"]

(* Slip: the window stays when its image is hidden or destroyed.           *)
OnChangeStaying(t, img, w) ==
  IF t.change = "modified"
  THEN Compute(img, w) /\ UNCHANGED <<observers, deaf, avail, win>>
  ELSE UNCHANGED <<observers, deaf, windowVars>>

(* imageobwin_image_changed_callback, imageobwin_kick                      *)
OnChange(t, img, w) ==
  IF t.change = "modified" /\ w \in avail[img]
  THEN Compute(img, w) /\ UNCHANGED <<observers, deaf, avail, win>>
  ELSE CloseComputed(img, w)

CallComputed(img, w) ==
  /\ Calls(<<img, w>>) /\ ~ Quiet(<<img, w>>, tasks[1])
  /\ OnChange(tasks[1], img, w)
  /\ tasks' = <<Advanced(tasks[1])>> \o Tail(tasks)
  /\ UNCHANGED <<live, viewers>>

(* effectswin_destroy: the effects are removed, which shows; the window    *)
(* stops watching; that its image shows itself again is told once more.    *)
Closing(img) == <<Event(img, "preview"), Do("unwatch", img), Event(img, "preview")>>

(* image_changed_callback of effects.c                                     *)
CallEffects(img) ==
  /\ Calls(<<img, "effects">>) /\ ~ Quiet(<<img, "effects">>, tasks[1])
  /\ win' = [win EXCEPT ![img]["effects"] = "none"]
  /\ UNCHANGED <<observers, live, viewers, deaf, avail, shows, hists>>
  /\ tasks' = Closing(img) \o <<Advanced(tasks[1])>> \o Tail(tasks)

Unwatch ==
  /\ Doing("unwatch")
  /\ Deregister(tasks[1].image, "effects")
  /\ tasks' = Tail(tasks)
  /\ UNCHANGED <<live, viewers, windowVars>>

-----------------------------------------------------------------------------
(* Viewers *)

(* viewer_load and viewer_clone: the image comes from its file, with the   *)
(* windows there may be for it, or from the cache, or another viewer. A    *)
(* cached image is told that it is active.                                 *)
LoadViewer(img) ==
  /\ Idle
  /\ viewers[img] < MaxViewers
  /\ Register(img, "viewers")
  /\ viewers' = [viewers EXCEPT ![img] = @ + 1]
  /\ live' = live \cup {img}
  /\ avail' = IF img \in live THEN avail ELSE [avail EXCEPT ![img] = Possible[img]]
  /\ tasks' = IF img \in live /\ viewers[img] = 0 THEN <<Event(img, "revealed")>> ELSE << >>
  /\ UNCHANGED <<win, shows, hists>>

(* viewer_unload: the viewer stops watching, and the image's last one puts *)
(* it away (imagecache_dispose): hidden it stays in the cache, for which   *)
(* others may have to go; or it is destroyed.                              *)
UnloadViewer(img) ==
  /\ Idle
  /\ viewers[img] > 0
  /\ Deregister(img, "viewers")
  /\ IF viewers[img] > 1 THEN tasks' = <<Do("release", img)>>
     ELSE \/ tasks' = <<Event(img, "hidden"), Do("release", img),
                       Event(img, "about to destroy"), Do("free", img)>>
          \/ tasks' = <<Event(img, "hidden"), Do("release", img)>>
          \/ \E i \in live : /\ viewers[i] = 0
                            /\ tasks' = <<Event(i, "about to destroy"), Do("free", i),
                                         Event(img, "hidden"), Do("release", img)>>
  /\ UNCHANGED <<live, viewers, windowVars>>

(* image_deleteref, or the count's decrement in image_destroy.             *)
Release ==
  /\ Doing("release")
  /\ viewers' = [viewers EXCEPT ![tasks[1].image] = @ - 1]
  /\ tasks' = Tail(tasks)
  /\ UNCHANGED <<observers, live, deaf, windowVars>>

(* The end of image_destroy: the histograms go with the image.             *)
Free ==
  /\ Doing("free")
  /\ live' = live \ {tasks[1].image}
  /\ hists' = [hists EXCEPT ![tasks[1].image] = "none"]
  /\ tasks' = Tail(tasks)
  /\ UNCHANGED <<observers, viewers, deaf, avail, win, shows>>

(* The cache makes room: evict_nbytes, imagecache_empty.                   *)
Evict(img) ==
  /\ Idle
  /\ img \in live /\ viewers[img] = 0
  /\ tasks' = <<Event(img, "about to destroy"), Do("free", img)>>
  /\ UNCHANGED <<observers, live, viewers, deaf, windowVars>>

-----------------------------------------------------------------------------
(* Changes *)

(* The image is rotated, converted, or has its effects applied:            *)
(* image_about_to_modify, the change, image_modified.                      *)
Modify(img) ==
  /\ Idle
  /\ viewers[img] > 0
  /\ tasks' = <<Event(img, "about to modify"), Do("change", img), Event(img, "modified")>>
  /\ UNCHANGED <<observers, live, viewers, deaf, windowVars>>

Aged(d) == IF d = "current" THEN "old" ELSE d

(* Slip: what was computed of the image is kept.                           *)
ChangeKeepingHists ==
  /\ Doing("change")
  /\ LET img == tasks[1].image IN
       /\ avail' \in { [avail EXCEPT ![img] = a] : a \in SUBSET avail[img] }
       /\ shows' = [shows EXCEPT ![img] = [w \in Computed |-> Aged(@[w])]]
       /\ hists' = [hists EXCEPT ![img] = Aged(@)]
  /\ tasks' = Tail(tasks)
  /\ UNCHANGED <<observers, live, viewers, deaf, win>>

(* The picture changes, perhaps to a format for which there are fewer      *)
(* windows; image_modified throws away what was computed of it.            *)
Change ==
  /\ Doing("change")
  /\ LET img == tasks[1].image IN
       /\ avail' \in { [avail EXCEPT ![img] = a] : a \in SUBSET avail[img] }
       /\ shows' = [shows EXCEPT ![img] = [w \in Computed |-> Aged(@[w])]]
       /\ hists' = [hists EXCEPT ![img] = "none"]
  /\ tasks' = Tail(tasks)
  /\ UNCHANGED <<observers, live, viewers, deaf, win>>

-----------------------------------------------------------------------------
(* Windows *)

(* imageobwin_open: a window that is listed is just opened. A new one is   *)
(* registered and listed before its data is computed; if that fails it is  *)
(* left there.                                                             *)
OpenComputed(img, w) ==
  /\ Idle
  /\ viewers[img] > 0 /\ w \in avail[img]
  /\ \/ /\ win[img][w] # "none"
        /\ win' = [win EXCEPT ![img][w] = "open"]
        /\ UNCHANGED <<observers, deaf, shows, hists>>
     \/ /\ win[img][w] = "none"
        /\ Register(img, w)
        /\ Compute(img, w)
        /\ win' = [win EXCEPT ![img][w] = IF shows'[img][w] = "failed" THEN "listed" ELSE "open"]
  /\ UNCHANGED <<tasks, live, viewers, avail>>

(* The histogram's choices, by its menu or a click: imageobwin_kick.       *)
Kick(img) ==
  /\ Idle
  /\ win[img]["hist"] = "open" /\ "hist" \in avail[img]
  /\ Compute(img, "hist")
  /\ UNCHANGED <<observers, tasks, live, viewers, deaf, avail, win>>

CloseWindow(img, w) ==
  /\ Idle
  /\ win[img][w] = "open"
  /\ CloseComputed(img, w)
  /\ UNCHANGED <<tasks, live, viewers>>

(* effectswin_create                                                       *)
OpenEffects(img) ==
  /\ Idle
  /\ viewers[img] > 0 /\ "effects" \in avail[img] /\ win[img]["effects"] = "none"
  /\ Register(img, "effects")
  /\ win' = [win EXCEPT ![img]["effects"] = "open"]
  /\ UNCHANGED <<tasks, live, viewers, avail, shows, hists>>

CloseEffects(img) ==
  /\ Idle
  /\ win[img]["effects"] = "open"
  /\ win' = [win EXCEPT ![img]["effects"] = "none"]
  /\ tasks' = Closing(img)
  /\ UNCHANGED <<observers, live, viewers, deaf, avail, shows, hists>>

(* tags_lazyinit, tags_lazyfin                                             *)
OpenTags ==
  /\ Idle
  /\ ~ Has(observers, <<Every, "tags">>)
  /\ observers' = Insert(observers, Every, "tags")
  /\ UNCHANGED <<tasks, live, viewers, deaf, windowVars>>

Next ==
  \/ WalkBegins \/ WalkEnds \/ CallQuiet \/ Unwatch \/ Release \/ Free \/ Change
  \/ OpenTags
  \/ \E img \in Images :
       \/ CallEffects(img) \/ LoadViewer(img) \/ UnloadViewer(img) \/ Evict(img)
       \/ Modify(img) \/ Kick(img) \/ OpenEffects(img) \/ CloseEffects(img)
       \/ \E w \in Computed :
            CallComputed(img, w) \/ OpenComputed(img, w) \/ CloseWindow(img, w)

Spec == Init /\ [][Next]_vars

-----------------------------------------------------------------------------
(* Properties *)

(* The observer which a walk will call next is still there when the walk   *)
(* comes to it, whatever the callbacks and the walks they start have done  *)
(* ("if they happen to delete any 'future' handlers too then we'll         *)
(* explode", image-observer.c).                                            *)
WalksAreSafe ==
  \A i \in DOMAIN tasks :
    tasks[i].op = "walk" => tasks[i].next \in Registered \cup {Nobody}

(* No observer and no window outlives its image, but one whose             *)
(* registration failed.                                                    *)
NoneOutlivesItsImage ==
  /\ \A k \in Registered : k[1] \in live \cup {Every}
  /\ \A img \in Images \ live, w \in Windows :
       win[img][w] # "none" => <<img, w>> \in deaf

(* As many viewers as show an image keep its one observer there, between   *)
(* events, unless registering failed.                                      *)
ViewersAreTold ==
  \A img \in Images :
    (Idle /\ viewers[img] > 0 /\ <<img, "viewers">> \notin deaf)
      => \E i \in DOMAIN observers :
           KeyOf(observers[i]) = <<img, "viewers">> /\ observers[i].nrefs = viewers[img]

(* An open histogram or metadata window shows the image as it is, once all *)
(* have been told, unless its last attempt to compute failed or it was     *)
(* never told.                                                             *)
ShownIsCurrent ==
  \A img \in Images, w \in Computed :
    (Idle /\ win[img][w] = "open" /\ <<img, w>> \notin deaf)
      => shows[img][w] \in {"current", "failed"}

=============================================================================
