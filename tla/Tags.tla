------------------------------- MODULE Tags -------------------------------
(***************************************************************************)
(* Tagging in PrivateEye: the window which tags the focused image (tags.c) *)
(* and the one which searches by tags (tags-search.c), each with a tag     *)
(* cloud of its own (gadgets/tag-cloud), over one database of tags. How    *)
(* that is kept on disc is in TagFiles.                                    *)
(*                                                                         *)
(* A cloud shows the tags in the order in which the tag database gives     *)
(* them, and says the i'th of them to its client, who turns i into a tag   *)
(* with a table made along with the cloud's contents. Tags are numbered as *)
(* they are made, so the table is known by the set of tags it lists; their *)
(* names tell nothing apart here.                                          *)
(*                                                                         *)
(* A call which runs out of memory or finds no file fails half way through *)
(* what it does; both windows, their menus and dialogues, keys and files   *)
(* dropped on them come in any order.                                      *)
(***************************************************************************)
EXTENDS Integers, FiniteSets

CONSTANTS
  Images,    \* the images, and the files they are loaded from
  Untitled,  \* those which have no file name
  MaxTags,   \* bounds the number of tags made
  None       \* no image

ASSUME TagsAssumption ==
  /\ IsFiniteSet(Images) /\ Untitled \subseteq Images
  /\ MaxTags \in Nat \ {0}
  /\ None \notin Images

VARIABLES
  tags,      \* the tags
  next,      \* numbers the next tag
  marks,     \* the tags which each image has
  cloud,     \* the two tag clouds and their tables
  image,     \* LOCALS.image of tags.c
  titled,    \* the image in the title of the tags window
  shaded,    \* tag_cloud_FLAG_SHADED of the tags window
  menu,      \* the cloud with a menu or a dialogue open, and which; the tag a
             \* menu of the search window was opened on
  asked,     \* the tag on which the tags window's last menu was opened
  behind,    \* what the tags window was not told of: its "title", or the "lit"
  undefined  \* a table was used which is not there, or outside its bounds

dbVars == <<tags, next, marks>>
tagsVars == <<image, titled, shaded, behind>>
menuVars == <<menu, asked>>
vars == <<dbVars, cloud, tagsVars, menuVars, undefined>>

Windows == {"tags", "search"}

Ids == 0 .. MaxTags - 1

Null == {MaxTags}   \* a table which is not there: MaxTags is no tag

(* tag_cloud and tags_common: whether the window's cloud was made, and is  *)
(* shown; indextotag and nindextotag; the entries, the highlighted places, *)
(* and menued_tag_index.                                                   *)
Clouds == [made: {"no", "broken", "yes"}, open: BOOLEAN,
           map: (SUBSET Ids) \cup {Null}, nmap: 0 .. MaxTags,
           shown: SUBSET Ids, lit: SUBSET (0 .. MaxTags), menued: -1 .. MaxTags - 1]

NoTag == MaxTags

NoMenu == [of |-> "neither", kind |-> "menu", about |-> NoTag]

TypeOK ==
  /\ next \in 0 .. MaxTags
  /\ tags \subseteq 0 .. next - 1
  /\ marks \subseteq Images \X tags
  /\ cloud \in [Windows -> Clouds]
  /\ \A w \in Windows : cloud[w].map # Null => cloud[w].nmap = Cardinality(cloud[w].map)
  /\ image \in Images \cup {None} /\ titled \in Images \cup {None}
  /\ shaded \in BOOLEAN
  /\ menu \in [of: Windows, kind: {"menu", "name"}, about: Ids \cup {NoTag}] \cup {NoMenu}
  /\ asked \in Ids \cup {NoTag}
  /\ behind \subseteq {"title", "lit"}
  /\ undefined \in BOOLEAN

-----------------------------------------------------------------------------
(* The i'th tag of a table, and the place of a tag in it.                  *)

Before(S, id) == { j \in S : j < id }

Positions(S) == 0 .. Cardinality(S) - 1

At(S, i) == CHOOSE id \in S : Cardinality(Before(S, id)) = i

PositionOf(S, id) == Cardinality(Before(S, id))

-----------------------------------------------------------------------------
(* What a cloud shows *)

(* Slip: the tag which the menu is about is not forgotten.                 *)
SetTagsKeepingMenued(c, T) ==
  { [c |-> [c EXCEPT !.map = T, !.nmap = Cardinality(T), !.shown = T], ok |-> TRUE],
    [c |-> [c EXCEPT !.map = Null], ok |-> FALSE],
    [c |-> [c EXCEPT !.map = Null, !.shown = {}], ok |-> FALSE] }

(* Slip: the size of the table is that of the one before.                  *)
SetTagsOldSize(c, T) ==
  { [c |-> [c EXCEPT !.map = T, !.shown = T, !.menued = -1], ok |-> TRUE],
    [c |-> [c EXCEPT !.map = Null], ok |-> FALSE] }

(* tags_common_set_tags. The table is freed first; then memory may run out *)
(* before the cloud is told, or as it takes the tags, its old ones gone.   *)
SetTags(c, T) ==
  { [c |-> [c EXCEPT !.map = T, !.nmap = Cardinality(T), !.shown = T, !.menued = -1],
     ok |-> TRUE],
    [c |-> [c EXCEPT !.map = Null], ok |-> FALSE],
    [c |-> [c EXCEPT !.map = Null, !.shown = {}], ok |-> FALSE] }

TagsOf(M, img) == { m[2] : m \in { n \in M : n[1] = img } }

(* tags_common_set_highlights searches a table which is not there, by the  *)
(* size it had.                                                            *)
Lost(c, M, img) == c.map = Null /\ c.nmap > 0 /\ TagsOf(M, img) # {}

(* The places it finds: a tag which is not in the table gets the place     *)
(* after its last.                                                         *)
Places(c, ids) ==
  { IF c.map # Null /\ id \in c.map THEN PositionOf(c.map, id) ELSE c.nmap : id \in ids }

(* tags_common_set_highlights. The places may not be gathered, or not be   *)
(* set after the old ones were cleared.                                    *)
SetHighlights(c, M, img) ==
  IF img = None THEN { [c |-> c, ok |-> TRUE] }
  ELSE { [c |-> [c EXCEPT !.lit = Places(c, TagsOf(M, img))], ok |-> TRUE],
         [c |-> [c EXCEPT !.lit = {}], ok |-> FALSE] }
       \cup { [c |-> c, ok |-> FALSE] : id \in TagsOf(M, img) }

(* Slip: the highlights are left as they were.                             *)
SetTagsOnly(c, T, M, img) == SetTags(c, T)

(* What deletetag, tag and detag of tags.c do to the cloud in the end.     *)
SetBoth(c, T, M, img) ==
  UNION { IF s.ok THEN SetHighlights(s.c, M, img) ELSE {s} : s \in SetTags(c, T) }

-----------------------------------------------------------------------------
(* The databases as they are read: an earlier session left the files.      *)
Init ==
  /\ next \in 0 .. MaxTags /\ tags = 0 .. next - 1
  /\ marks \in SUBSET ((Images \ Untitled) \X tags)
  /\ cloud = [w \in Windows |-> [made |-> "no", open |-> FALSE, map |-> Null, nmap |-> 0,
                                 shown |-> {}, lit |-> {}, menued |-> -1]]
  /\ image = None /\ titled = None /\ shaded = FALSE /\ behind = {}
  /\ menu = NoMenu /\ asked = NoTag
  /\ undefined = FALSE

Running == ~ undefined

(* A table which is not there was read, or before its start.               *)
Strays ==
  /\ undefined' = TRUE
  /\ UNCHANGED <<dbVars, cloud, tagsVars, menuVars>>

(* The tags window's cloud becomes what o says, its highlights set.        *)
ToldBoth(o) ==
  /\ cloud' = [cloud EXCEPT !["tags"] = o.c]
  /\ behind' = IF o.ok THEN behind \ {"lit"} ELSE behind \cup {"lit"}

(* The cloud of w becomes what o says, its tags set. The tags window's     *)
(* highlights are right still, if nothing failed and it is not the other   *)
(* window which made the change.                                           *)
ToldTags(w, o) ==
  /\ cloud' = [cloud EXCEPT ![w] = o.c]
  /\ behind' = IF w = "tags" /\ o.ok THEN behind ELSE behind \cup {"lit"}

-----------------------------------------------------------------------------
(* Opening and closing *)

(* tags_lazyinit and tags_search_lazyinit give up, the count of openings   *)
(* raised already: the databases are not opened, or the cloud not made.    *)
CannotMake(w) ==
  /\ Running
  /\ cloud[w].made = "no"
  /\ cloud' = [cloud EXCEPT ![w].made = "broken"]
  /\ UNCHANGED <<dbVars, tagsVars, menuVars, undefined>>

(* tags_open                                                               *)
OpenTags(img) ==
  /\ Running
  /\ ~ cloud["tags"].open
  /\ cloud["tags"].made # "broken"
  /\ \E o \in SetBoth([cloud["tags"] EXCEPT !.made = "yes"], tags, marks, img) :
       /\ cloud' = [cloud EXCEPT !["tags"] = [o.c EXCEPT !.open = o.ok]]
       /\ titled' = img
       /\ image' = IF o.ok THEN img ELSE image
       /\ behind' = IF o.ok THEN {} ELSE {"title", "lit"}
  /\ UNCHANGED <<dbVars, shaded, menuVars, undefined>>

(* tags_search_open: the tags are set when the window is made. If that     *)
(* fails the cloud is made, and shown at the next attempt.                 *)
OpenSearch ==
  /\ Running
  /\ ~ cloud["search"].open
  /\ \/ /\ cloud["search"].made = "no"
        /\ \E o \in SetTags([cloud["search"] EXCEPT !.made = "yes"], tags) :
             cloud' = [cloud EXCEPT !["search"] = [o.c EXCEPT !.open = o.ok]]
     \/ /\ cloud["search"].made = "yes"
        /\ cloud' = [cloud EXCEPT !["search"].open = TRUE]
  /\ UNCHANGED <<dbVars, tagsVars, menuVars, undefined>>

(* Either, after its cloud could not be made: it is taken to be there.     *)
OpenBroken(w) ==
  /\ Running
  /\ cloud[w].made = "broken"
  /\ Strays

CloseWindow(w) ==
  /\ Running
  /\ cloud[w].open
  /\ cloud' = [cloud EXCEPT ![w].open = FALSE]
  /\ UNCHANGED <<dbVars, tagsVars, menuVars, undefined>>

-----------------------------------------------------------------------------
(* tags_image_changed_callback *)

(* The caret comes to a viewer of img. The table is that of the last time  *)
(* the tags were set.                                                      *)
Retarget(img, title) ==
  /\ Running
  /\ cloud["tags"].made = "yes"
  /\ image # img
  /\ IF Lost(cloud["tags"], marks, img) THEN Strays ELSE
       \E o \in SetHighlights(cloud["tags"], marks, img) :
         /\ cloud' = [cloud EXCEPT !["tags"] = o.c]
         /\ titled' = title
         /\ shaded' = FALSE
         /\ image' = IF o.ok THEN img ELSE image
         /\ behind' = IF ~ o.ok THEN {"title", "lit"}
                      ELSE IF o.c.map = tags THEN {} ELSE behind \ {"title"}
         /\ UNCHANGED <<dbVars, menuVars, undefined>>

(* Slip: an image without a file name is remembered, too.                  *)
FocusUntitled(img) == Retarget(img, IF img \in Untitled THEN titled ELSE img)

Focus(img) == img \notin Untitled /\ Retarget(img, img)

(* The image is no longer viewed, or is destroyed.                         *)
Hide(img) ==
  /\ Running
  /\ cloud["tags"].made = "yes"
  /\ image = img
  /\ titled' = None /\ image' = None /\ shaded' = TRUE
  /\ cloud' = [cloud EXCEPT !["tags"].lit = {}]
  /\ behind' = behind \ {"title"}
  /\ UNCHANGED <<dbVars, menuVars, undefined>>

-----------------------------------------------------------------------------
(* Tagging *)

Tag(img, id) == marks' = marks \cup {<<img, id>>}

Detag(img, id) == marks' = marks \ {<<img, id>>}

(* tag and detag of tags.c: a click on the i'th tag of the tags window. A  *)
(* tag which the other window deleted is refused. The tag may be given and *)
(* the image's name not be noted, which leaves the window as it is.        *)
ClickTag(i) ==
  LET c == cloud["tags"]
      id == At(c.map, i) IN
  /\ Running
  /\ c.open /\ ~ shaded
  /\ i \in Positions(c.shown)
  /\ image # None
  /\ IF c.map = Null THEN Strays ELSE
       /\ id \in tags
       /\ \/ /\ IF i \in c.lit THEN Detag(image, id) ELSE Tag(image, id)
             /\ \E o \in SetBoth(c, tags, marks', image) : ToldBoth(o)
          \/ /\ i \notin c.lit
             /\ Tag(image, id)
             /\ behind' = behind \cup {"lit"}
             /\ UNCHANGED cloud
       /\ UNCHANGED <<tags, next, image, titled, shaded, menuVars, undefined>>

(* tags_common_tagfile and tags_common_detagfile: a file is dropped on the *)
(* i'th tag of either window, SHIFT or not. The highlights are left alone, *)
(* even if it is the file of the image.                                    *)
DropFile(w, img, i) ==
  LET c == cloud[w]
      id == At(c.map, i) IN
  /\ Running
  /\ c.open
  /\ i \in Positions(c.shown)
  /\ IF c.map = Null THEN Strays ELSE
       /\ id \in tags
       /\ \/ /\ Tag(img, id) \/ Detag(img, id)
             /\ \E o \in SetTags(c, tags) :
                  /\ cloud' = [cloud EXCEPT ![w] = o.c]
                  /\ behind' = IF o.ok /\ img # image THEN behind ELSE behind \cup {"lit"}
          \/ /\ Tag(img, id)
             /\ behind' = IF img # image THEN behind ELSE behind \cup {"lit"}
             /\ UNCHANGED cloud
       /\ UNCHANGED <<tags, next, image, titled, shaded, menuVars, undefined>>

-----------------------------------------------------------------------------
(* Making, renaming and deleting tags *)

(* The menu or the dialogue stays open, at a click with ADJUST, or closes. *)
MenuAfter == menu' \in {menu, NoMenu}

(* A click with MENU on the i'th tag, or on none.                          *)
ClickMenu(w, i) ==
  LET c == cloud[w] IN
  /\ Running
  /\ c.open
  /\ i \in Positions(c.shown) \cup {-1}
  /\ cloud' = [cloud EXCEPT ![w].menued = i]
  /\ LET id == IF i < 0 THEN NoTag ELSE At(c.shown, i) IN
       /\ menu' = [of |-> w, kind |-> "menu", about |-> IF w = "tags" THEN NoTag ELSE id]
       /\ asked' = IF w = "tags" THEN id ELSE asked
  /\ UNCHANGED <<dbVars, tagsVars, undefined>>

(* Its menu is open, and was opened on a tag: else Delete and Rename are   *)
(* greyed out.                                                             *)
MenuOnTag(w) ==
  /\ menu.of = w /\ menu.kind = "menu"
  /\ (IF w = "tags" THEN asked ELSE menu.about) # NoTag

CloseMenu ==
  /\ Running
  /\ menu # NoMenu
  /\ menu' = NoMenu
  /\ UNCHANGED <<dbVars, cloud, tagsVars, asked, undefined>>

(* add_new_tag, from the menu or from a dialogue of its own. A name which  *)
(* is known adds nothing, and an error is ignored.                         *)
AddTag(w) ==
  /\ Running
  /\ cloud[w].open
  /\ \/ /\ next < MaxTags
        /\ tags' = tags \cup {next} /\ next' = next + 1
     \/ UNCHANGED <<tags, next>>
  /\ \E o \in SetTags(cloud[w], tags') : ToldTags(w, o)
  /\ MenuAfter
  /\ UNCHANGED <<marks, image, titled, shaded, asked, undefined>>

(* delete_tag and the client's handler: by the place at which the menu was *)
(* opened, which is -1 once the tags were set again. The database takes    *)
(* the tag from every image.                                               *)
DeleteTag(w) ==
  LET c == cloud[w]
      id == At(c.map, c.menued) IN
  IF c.menued \notin Positions(c.map) \/ c.map = Null THEN Strays
  ELSE /\ tags' = tags \ {id}
       /\ marks' = { m \in marks : m[2] # id }
       /\ IF w = "tags" THEN \E o \in SetBoth(c, tags', marks', image) : ToldBoth(o)
                        ELSE \E o \in SetTags(c, tags') : ToldTags(w, o)
       /\ MenuAfter
       /\ UNCHANGED <<next, image, titled, shaded, asked, undefined>>

(* Delete, from a menu that was opened on a tag.                           *)
ChooseDelete(w) ==
  /\ Running
  /\ MenuOnTag(w)
  /\ DeleteTag(w)

(* The key which deletes the tag that the last menu was opened on; only    *)
(* the tags window has keys.                                               *)
PressKill ==
  /\ Running
  /\ cloud["tags"].open
  /\ cloud["tags"].menued >= 0
  /\ DeleteTag("tags")

(* rename_fillout and tag_info_fillout, from the menu or by a key.         *)
ShowTag(w) ==
  /\ Running
  /\ cloud[w].menued >= 0
  /\ \/ MenuOnTag(w)
     \/ w = "tags" /\ cloud[w].open
  /\ IF cloud[w].shown = {} THEN Strays
     ELSE /\ menu' = [of |-> w, kind |-> "name", about |-> IF w = "tags" THEN NoTag ELSE menu.about]
          /\ UNCHANGED <<dbVars, cloud, tagsVars, asked, undefined>>

(* rename_tag: nothing is done once the tags were set again.               *)
RenameTag(w) ==
  LET c == cloud[w] IN
  /\ Running
  /\ menu.of = w /\ menu.kind = "name"
  /\ c.menued >= 0
  /\ IF c.menued \notin Positions(c.map) \/ c.map = Null THEN Strays ELSE
       /\ At(c.map, c.menued) \in tags
       /\ \E o \in SetTags(c, tags) : ToldTags(w, o)
       /\ MenuAfter
       /\ UNCHANGED <<dbVars, image, titled, shaded, asked, undefined>>

Next ==
  \/ \E w \in Windows : CannotMake(w) \/ OpenBroken(w) \/ CloseWindow(w)
  \/ \E img \in Images : OpenTags(img) \/ Focus(img) \/ Hide(img)
  \/ OpenSearch
  \/ \E i \in Ids : ClickTag(i)
  \/ \E w \in Windows, img \in Images \ Untitled, i \in Ids : DropFile(w, img, i)
  \/ \E w \in Windows, i \in Ids \cup {-1} : ClickMenu(w, i)
  \/ \E w \in Windows : AddTag(w) \/ RenameTag(w) \/ ChooseDelete(w) \/ ShowTag(w)
  \/ PressKill \/ CloseMenu

Spec == Init /\ [][Next]_vars

-----------------------------------------------------------------------------
(* Properties *)

(* The tags window highlights just the tags of the image it tags, as far   *)
(* as it was told: a click on a tag does the opposite of what it shows.    *)
HighlightsAreTags ==
  LET c == cloud["tags"] IN
  (image # None /\ "lit" \notin behind /\ c.map # Null)
    => c.lit = { PositionOf(c.map, id) : id \in TagsOf(marks, image) }

(* The image that is tagged is the one in the window's title, unless       *)
(* telling the window of it failed.                                        *)
TitleIsTarget == "title" \in behind \/ titled = image

(* A tag goes only if a menu was opened on it: places in a cloud which has *)
(* changed since are not used, be there keys, drops and another window.    *)
DeletesWhatWasAsked ==
  [][ \A id \in tags \ tags' : id \in {asked, menu.about} ]_vars

=============================================================================
