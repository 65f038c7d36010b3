----------------------------- MODULE ImageCache -----------------------------
(***************************************************************************)
(* The image cache of libs/appengine/graphics/imagecache, with the part of *)
(* an image it works on (reference count, flags, file name and stamps,     *)
(* size: libs/appengine/graphics/image) and the viewers of the application *)
(* as its clients, and the rotate dialogue (PrivateEye/rotate.c), which    *)
(* keeps the image it was opened for when the viewer lets that image go.   *)
(*                                                                         *)
(* The program is single threaded, so one call into the cache finishes     *)
(* before the next begins. The calls that loop (a load that evicts and     *)
(* retries, the two evictions and the emptying of the cache) take one step *)
(* per iteration, and `pc' says which of them is running; a call that does *)
(* not loop is one step.                                                   *)
(***************************************************************************)
EXTENDS Integers, FiniteSets, SequencesExt

CONSTANTS
  Images,       \* the image_t blocks malloc may return
  Files,        \* the files on disk: name, load and exec address together
  Viewers,      \* the viewer windows
  MaxEntries,   \* entries in the cache's array: GLOBALS.choices.cache.entries
  FileSize,     \* the size an image takes when loaded from each file
  EditedSizes,  \* the sizes an image may take when it is edited
  Limits,       \* the values the user may choose for the idle size
  Word,         \* one more than the largest size_t
  None,         \* no image, no viewer
  NoName        \* attributes which match those of no file on disk

ASSUME CacheAssumption ==
  /\ IsFiniteSet(Images) /\ IsFiniteSet(Viewers)
  /\ MaxEntries \in Nat
  /\ FileSize \in [Files -> Nat]
  /\ EditedSizes \subseteq Nat
  /\ Limits \subseteq Nat
  /\ Word \in Nat \ {0}
  /\ None \notin Images /\ None \notin Viewers
  /\ NoName \notin Files

VARIABLES
  live,      \* the image blocks on image.c's list
  name,      \* the file attributes each image carries
  refcount,  \* the references each image counts
  size,      \* display.file_size of each image
  modified,  \* the images with image_FLAG_MODIFIED
  watched,   \* the images an observer window (histogram, info, ...) shows
  entries,   \* the used part of the cache's array, oldest entry first
  maxidle,   \* the number of bytes which may idle
  viewing,   \* the image each viewer has
  rotating,  \* the image the rotate dialogue was opened for, None when it is closed
  strained,  \* history: more idles than may since an idle image was turned
  pc,        \* the call in progress
  call       \* its arguments and local variables

imageVars == <<live, name, refcount, size, modified, watched>>
vars == <<imageVars, entries, maxidle, viewing, rotating, strained, pc, call>>

NoCall == [viewer |-> None, file |-> NoName, index |-> 0, need |-> 0, limit |-> 0]

Calls == {"ready", "load", "discard", "makeroom", "retire", "shrink", "resize",
          "empty", "aborted"}

TypeOK ==
  /\ live \subseteq Images
  /\ name \in [Images -> Files \cup {NoName}]
  /\ refcount \in [Images -> Nat]
  /\ size \in [Images -> Nat]
  /\ modified \subseteq live
  /\ watched \subseteq live
  /\ entries \in Seq(Images)
  /\ maxidle \in Nat
  /\ viewing \in [Viewers -> Images \cup {None}]
  /\ rotating \in Images \cup {None}
  /\ strained \in BOOLEAN
  /\ pc \in Calls
  /\ call \in [viewer: Viewers \cup {None}, file: Files \cup {NoName},
               index: Nat, need: Int, limit: Nat]

-----------------------------------------------------------------------------
(* Entries and their bytes *)

Entries == { entries[k] : k \in DOMAIN entries }

Idle == { i \in Entries : refcount[i] = 0 }

Viewed == { viewing[v] : v \in Viewers } \ {None}

Holders(i) == { v \in Viewers : viewing[v] = i }

(* evictable_bytes: the bytes of the idle images, each byte counted once.  *)
BytesOf(S) == UNION { {i} \X (1 .. size[i]) : i \in S }

IdleBytes == Cardinality(BytesOf(Idle))

Position(i) == CHOOSE k \in DOMAIN entries : entries[k] = i

(* The first entry whose image carries the attributes of file f.           *)
Matches(k, f) ==
  /\ name[entries[k]] = f
  /\ \A j \in 1 .. k - 1 : name[entries[j]] # f

(* Slip: the oldest entry is taken for evictable whoever views it.         *)
OldestOfAll(k) == k = 1

OldestIdle(k) ==
  /\ refcount[entries[k]] = 0
  /\ \A j \in 1 .. k - 1 : refcount[entries[j]] # 0

YoungestIdle(k) ==
  /\ refcount[entries[k]] = 0
  /\ \A j \in k + 1 .. Len(entries) : refcount[entries[j]] # 0

(* make_youngest for an index within the array.                            *)
MakeYoungest(k) == Append(RemoveAt(entries, k), entries[k])

(* Slips: a reference is not counted, or counted twice.                    *)
ForgetRef(i) == UNCHANGED refcount

AddRefTwice(i) == refcount' = [refcount EXCEPT ![i] = @ + 2]

AddRef(i) == refcount' = [refcount EXCEPT ![i] = @ + 1]

(* Slip: nobody is told.                                                   *)
HideSilently(i) == UNCHANGED watched

(* image_hide: the observers' windows close.                               *)
HideImage(i) == watched' = watched \ {i}

(* Slip: the block goes while windows still show it.                       *)
DestroyUnannounced(i) ==
  /\ live' = live \ {i}
  /\ refcount' = [refcount EXCEPT ![i] = 0]
  /\ name' = [name EXCEPT ![i] = NoName]
  /\ size' = [size EXCEPT ![i] = 0]
  /\ modified' = modified \ {i}
  /\ UNCHANGED watched

(* image_destroy of the last reference: the observers close when they hear *)
(* ABOUT_TO_DESTROY, then the block goes.                                  *)
DestroyImage(i) ==
  /\ live' = live \ {i}
  /\ refcount' = [refcount EXCEPT ![i] = 0]
  /\ name' = [name EXCEPT ![i] = NoName]
  /\ size' = [size EXCEPT ![i] = 0]
  /\ modified' = modified \ {i}
  /\ watched' = watched \ {i}

(* Slip: the entry goes but the image is not destroyed.                    *)
LoseEntry(k) ==
  /\ entries' = RemoveAt(entries, k)
  /\ UNCHANGED imageVars

DestroyEntry(k) ==
  /\ DestroyImage(entries[k])
  /\ entries' = RemoveAt(entries, k)

Return ==
  /\ pc' = "ready"
  /\ call' = NoCall

(* The history ends when a call leaves no more idle than may.              *)
Settle == strained' = (strained /\ (pc' # "ready" \/ IdleBytes' > maxidle'))

(* A step that the rotate dialogue has no part in.                         *)
Aside == UNCHANGED rotating /\ Settle

-----------------------------------------------------------------------------
(* imagecache_get *)

(* The file is in the cache: its image becomes the youngest entry.         *)
GetCached(v, f) ==
  /\ pc = "ready" /\ viewing[v] = None
  /\ \E k \in DOMAIN entries :
       /\ Matches(k, f)
       /\ entries' = MakeYoungest(k)
       /\ AddRef(entries[k])
       /\ viewing' = [viewing EXCEPT ![v] = entries[k]]
  /\ UNCHANGED <<live, name, size, modified, watched, maxidle, pc, call>>
  /\ Aside

(* The file is not in the cache: start to try to load it.                  *)
GetUncached(v, f) ==
  /\ pc = "ready" /\ viewing[v] = None
  /\ \A i \in Entries : name[i] # f
  /\ pc' = "load"
  /\ call' = [NoCall EXCEPT !.viewer = v, !.file = f]
  /\ UNCHANGED <<imageVars, entries, maxidle, viewing>>
  /\ Aside

(* image_create_from_file gives an image with one reference.               *)
CreateImage(i) ==
  /\ i \notin live
  /\ live' = live \cup {i}
  /\ refcount' = [refcount EXCEPT ![i] = 1]
  /\ name' = [name EXCEPT ![i] = call.file]
  /\ size' = [size EXCEPT ![i] = FileSize[call.file]]
  /\ UNCHANGED <<modified, watched>>

LoadInserts(i) ==
  /\ pc = "load"
  /\ Len(entries) # MaxEntries
  /\ CreateImage(i)
  /\ entries' = Append(entries, i)
  /\ viewing' = [viewing EXCEPT ![call.viewer] = i]
  /\ Return
  /\ UNCHANGED maxidle
  /\ Aside

(* All the entries are used: the call fails, and the new image, which      *)
(* nobody has a pointer to, stays on the list of images.                   *)
LoadFindsCacheFull(i) ==
  /\ pc = "load"
  /\ Len(entries) = MaxEntries
  /\ CreateImage(i)
  /\ Return
  /\ UNCHANGED <<entries, maxidle, viewing>>
  /\ Aside

(* A proper error, or no memory while the cache is empty.                  *)
LoadFails ==
  /\ pc = "load"
  /\ Return
  /\ UNCHANGED <<imageVars, entries, maxidle, viewing>>
  /\ Aside

LoadRunsOutOfMemory ==
  /\ pc = "load"
  /\ entries # <<>>
  /\ pc' = "discard"
  /\ UNCHANGED <<imageVars, entries, maxidle, viewing, call>>
  /\ Aside

(* evict_oldest_image, whose result is ignored: with nothing to evict the  *)
(* load is tried again all the same.                                       *)
EvictOldest ==
  /\ pc = "discard"
  /\ pc' = "load"
  /\ \/ \E k \in DOMAIN entries : OldestIdle(k) /\ DestroyEntry(k)
     \/ Idle = {} /\ UNCHANGED <<imageVars, entries>>
  /\ UNCHANGED <<maxidle, viewing, call>>
  /\ Aside

-----------------------------------------------------------------------------
(* imagecache_dispose *)

(* Slips: an edited image, or one which cannot fit, may be kept.           *)
RetainableEdited(i) == size[i] <= maxidle

RetainableLarge(i) == i \notin modified

Retainable(i) == i \notin modified /\ size[i] <= maxidle

(* Slip: the bytes which idle already are not deducted.                    *)
FreeOfAll == maxidle

(* The difference is unsigned: it wraps when more idles than may.          *)
FreeBytes ==
  IF IdleBytes <= maxidle THEN maxidle - IdleBytes ELSE (maxidle - IdleBytes) % Word

DisposeShared(v) ==
  /\ pc = "ready" /\ viewing[v] # None
  /\ refcount[viewing[v]] > 1
  /\ refcount' = [refcount EXCEPT ![viewing[v]] = @ - 1]
  /\ viewing' = [viewing EXCEPT ![v] = None]
  /\ UNCHANGED <<live, name, size, modified, watched, entries, maxidle, pc, call>>
  /\ Aside

(* An image which may not be retained is hidden and destroyed.             *)
DisposeDestroys(v) ==
  /\ pc = "ready" /\ viewing[v] # None
  /\ refcount[viewing[v]] = 1
  /\ ~ Retainable(viewing[v])
  /\ DestroyEntry(Position(viewing[v]))
  /\ viewing' = [viewing EXCEPT ![v] = None]
  /\ UNCHANGED <<maxidle, pc, call>>
  /\ Aside

(* An image which may be retained: its index in the array is taken before  *)
(* the eviction which makes room for it.                                   *)
DisposeRetains(v) ==
  LET i == viewing[v]
      c == [NoCall EXCEPT !.viewer = v, !.index = Position(i)]
  IN  /\ pc = "ready" /\ i # None
      /\ refcount[i] = 1
      /\ Retainable(i)
      /\ \/ /\ size[i] > FreeBytes
            /\ pc' = "makeroom"
            /\ call' = [c EXCEPT !.need = size[i] - FreeBytes]
         \/ /\ size[i] <= FreeBytes
            /\ pc' = "retire"
            /\ call' = c
      /\ UNCHANGED <<imageVars, entries, maxidle, viewing>>
      /\ Aside

(* One eviction of evict_nbytes(need), which ends when enough has gone or  *)
(* nothing is left to go. `need' counts what is still to be found.         *)
EvictNBytes(from, to) ==
  /\ pc = from
  /\ \/ \E k \in DOMAIN entries :
          LET left == call.need - size[entries[k]]
          IN  /\ OldestIdle(k)
              /\ DestroyEntry(k)
              /\ call' = [call EXCEPT !.need = left]
              /\ pc' = IF left <= 0 THEN to ELSE from
     \/ /\ Idle = {}
        /\ pc' = to
        /\ UNCHANGED <<imageVars, entries, call>>
  /\ UNCHANGED <<maxidle, viewing>>
  /\ Aside

MakeRoom == EvictNBytes("makeroom", "retire")

(* The image is hidden, counts no reference and becomes the youngest entry *)
(* - or, rather, whichever image is now at the index taken before.         *)
Retire ==
  LET i == viewing[call.viewer]
  IN  /\ pc = "retire"
      /\ HideImage(i)
      /\ refcount' = [refcount EXCEPT ![i] = @ - 1]
      /\ viewing' = [viewing EXCEPT ![call.viewer] = None]
      /\ \/ /\ call.index <= Len(entries)
            /\ entries' = MakeYoungest(call.index)
            /\ Return
         \/ /\ call.index > Len(entries)   \* array_delete_element overruns
            /\ pc' = "aborted"
            /\ UNCHANGED <<entries, call>>
      /\ UNCHANGED <<live, name, size, modified, maxidle>>
      /\ Aside

-----------------------------------------------------------------------------
(* imagecache_resize and imagecache_empty *)

ResizeUp(n) ==
  /\ pc = "ready" /\ n > maxidle
  /\ maxidle' = n
  /\ UNCHANGED <<imageVars, entries, viewing, pc, call>>
  /\ Aside

ResizeDown(n) ==
  /\ pc = "ready" /\ n < maxidle
  /\ pc' = "shrink"
  /\ call' = [NoCall EXCEPT !.need = maxidle - n, !.limit = n]
  /\ UNCHANGED <<imageVars, entries, maxidle, viewing>>
  /\ Aside

Shrink == EvictNBytes("shrink", "resize")

SetMaxIdle ==
  /\ pc = "resize"
  /\ maxidle' = call.limit
  /\ Return
  /\ UNCHANGED <<imageVars, entries, viewing>>
  /\ Aside

Empty ==
  /\ pc = "ready"
  /\ pc' = "empty"
  /\ UNCHANGED <<imageVars, entries, maxidle, viewing, call>>
  /\ Aside

(* The idle entries go youngest first.                                     *)
EmptyOne ==
  /\ pc = "empty"
  /\ \E k \in DOMAIN entries : YoungestIdle(k) /\ DestroyEntry(k)
  /\ UNCHANGED <<maxidle, viewing, pc, call>>
  /\ Aside

EmptyDone ==
  /\ pc = "empty"
  /\ Idle = {}
  /\ Return
  /\ UNCHANGED <<imageVars, entries, maxidle, viewing>>
  /\ Aside

-----------------------------------------------------------------------------
(* What viewers and their windows do to an image they have *)

(* viewer_clone_from_window: another viewer on the same image.             *)
Clone(v, w) ==
  /\ pc = "ready" /\ viewing[v] # None /\ viewing[w] = None
  /\ AddRef(viewing[v])
  /\ viewing' = [viewing EXCEPT ![w] = viewing[v]]
  /\ UNCHANGED <<live, name, size, modified, watched, entries, maxidle, pc, call>>
  /\ Aside

(* image_modified: an observer window that cannot show the changed image   *)
(* closes.                                                                 *)
Modify(v, n) ==
  LET i == viewing[v]
  IN  /\ pc = "ready" /\ i # None
      /\ modified' = modified \cup {i}
      /\ size' = [size EXCEPT ![i] = n]
      /\ watched' \in {watched, watched \ {i}}
      /\ UNCHANGED <<live, name, refcount, entries, maxidle, viewing, pc, call>>
      /\ Aside

(* viewer_save to a permanent place renames the image.                     *)
Save(v, f) ==
  LET i == viewing[v]
  IN  /\ pc = "ready" /\ i # None
      /\ name' = [name EXCEPT ![i] = f]
      /\ modified' = modified \ {i}
      /\ UNCHANGED <<live, refcount, size, watched, entries, maxidle, viewing, pc, call>>
      /\ Aside

(* viewer_load marks an image that came from another application.          *)
MarkUnsafe(v) ==
  LET i == viewing[v]
  IN  /\ pc = "ready" /\ i # None
      /\ name' = [name EXCEPT ![i] = NoName]
      /\ modified' = modified \cup {i}
      /\ UNCHANGED <<live, refcount, size, watched, entries, maxidle, viewing, pc, call>>
      /\ Aside

(* viewer_load of a document template: the image keeps only a leaf name.   *)
NameTemplate(v) ==
  /\ pc = "ready" /\ viewing[v] # None
  /\ name' = [name EXCEPT ![viewing[v]] = NoName]
  /\ UNCHANGED <<live, refcount, size, modified, watched, entries, maxidle, viewing, pc, call>>
  /\ Aside

(* imageobwin_open: a window which shows the viewer's image.               *)
OpenWindow(v) ==
  /\ pc = "ready" /\ viewing[v] # None
  /\ watched' = watched \cup {viewing[v]}
  /\ UNCHANGED <<live, name, refcount, size, modified, entries, maxidle, viewing, pc, call>>
  /\ Aside

CloseWindow(v) ==
  /\ pc = "ready" /\ viewing[v] \in watched
  /\ watched' = watched \ {viewing[v]}
  /\ UNCHANGED <<live, name, refcount, size, modified, entries, maxidle, viewing, pc, call>>
  /\ Aside

-----------------------------------------------------------------------------
(* The rotate dialogue. It is a menu to the window manager, not to the     *)
(* viewer: a key or a message which closes the viewer leaves it open.      *)

(* rotate_open                                                             *)
OpenRotate(v) ==
  /\ pc = "ready" /\ viewing[v] # None
  /\ rotating' = viewing[v]
  /\ UNCHANGED <<imageVars, entries, maxidle, viewing, pc, call>>
  /\ Settle

(* A click on Rotate turns the image, whoever has it by now: it is         *)
(* modified and may take another size. With Adjust the dialogue stays.     *)
Turn(n) ==
  /\ pc = "ready" /\ rotating \in live
  /\ modified' = modified \cup {rotating}
  /\ size' = [size EXCEPT ![rotating] = n]
  /\ watched' \in {watched, watched \ {rotating}}
  /\ rotating' \in {rotating, None}
  /\ UNCHANGED <<live, name, refcount, entries, maxidle, viewing, pc, call>>
  /\ strained' = (IdleBytes' > maxidle)

CloseRotate ==
  /\ pc = "ready" /\ rotating # None
  /\ rotating' = None
  /\ UNCHANGED <<imageVars, entries, maxidle, viewing, pc, call>>
  /\ Settle

(* The block may have been freed, and a click or the end of the menu uses  *)
(* it all the same.                                                        *)
UseFreed ==
  /\ pc = "ready" /\ rotating \notin live \cup {None}
  /\ pc' = "aborted"
  /\ UNCHANGED <<imageVars, entries, maxidle, viewing, call>>
  /\ Aside

-----------------------------------------------------------------------------

Init ==
  /\ live = {}
  /\ name = [i \in Images |-> NoName]
  /\ refcount = [i \in Images |-> 0]
  /\ size = [i \in Images |-> 0]
  /\ modified = {}
  /\ watched = {}
  /\ entries = <<>>
  /\ maxidle \in Limits
  /\ viewing = [v \in Viewers |-> None]
  /\ rotating = None
  /\ strained = FALSE
  /\ pc = "ready"
  /\ call = NoCall

(* The steps of a call in progress.                                        *)
Progress ==
  \/ \E i \in Images : LoadInserts(i) \/ LoadFindsCacheFull(i)
  \/ LoadFails
  \/ LoadRunsOutOfMemory
  \/ EvictOldest
  \/ MakeRoom
  \/ Retire
  \/ Shrink
  \/ SetMaxIdle
  \/ EmptyOne
  \/ EmptyDone

(* The calls the application makes.                                        *)
Client ==
  \/ \E v \in Viewers :
       \/ \E f \in Files : GetCached(v, f) \/ GetUncached(v, f)
       \/ \E f \in Files \cup {NoName} : Save(v, f)
       \/ \E n \in EditedSizes : Modify(v, n)
       \/ \E w \in Viewers : Clone(v, w)
       \/ DisposeShared(v)
       \/ DisposeDestroys(v)
       \/ DisposeRetains(v)
       \/ MarkUnsafe(v)
       \/ NameTemplate(v)
       \/ OpenWindow(v)
       \/ CloseWindow(v)
  \/ \E n \in Limits : ResizeUp(n) \/ ResizeDown(n)
  \/ Empty

(* What the user does with the rotate dialogue.                            *)
Dialogue ==
  \/ \E v \in Viewers : OpenRotate(v)
  \/ \E n \in EditedSizes : Turn(n)
  \/ CloseRotate
  \/ UseFreed

Next == Progress \/ Client \/ Dialogue

Spec == Init /\ [][Next]_vars

-----------------------------------------------------------------------------
(* Properties *)

(* An image in the cache counts one reference for each viewer which has    *)
(* it, so that the count says when nobody views it any more.               *)
HoldersAreCounted ==
  \A i \in Entries : refcount[i] = Cardinality(Holders(i))

(* No viewer has a pointer to an image that was destroyed: what a viewer   *)
(* has is an entry, every entry is a live image, and none is there twice.  *)
HeldAreCached ==
  /\ Viewed \subseteq Entries
  /\ Entries \subseteq live
  /\ \A j, k \in DOMAIN entries : entries[j] = entries[k] => j = k

(* The images that nobody views never take more bytes than the user chose, *)
(* whatever is loaded, edited, resized or released in whatever order,      *)
(* unless an image grew while it idled; and then only until a call leaves  *)
(* less.                                                                   *)
IdleWithinLimit == strained \/ IdleBytes <= maxidle

(* A window on an image closes before the image idles or goes: no observer *)
(* outlives the last viewer of its image.                                  *)
WatchedAreViewed == watched \subseteq Viewed

(* No edited image is left to idle, where a later load of its file would   *)
(* find the edits: one that is edited and idles was idle when edited.      *)
EditsAreNotKept == [][Idle' \cap modified' \subseteq Idle]_vars

(* imagecache.h says that the cache holds any number of active images: an  *)
(* image that was loaded enters the cache.                                 *)
HoldsEveryLoad == [][pc = "load" => live' \ live \subseteq Entries']_vars

(* imagecache_destroy asserts that emptying the cache leaves no entry once *)
(* the viewers are closed.                                                 *)
EmptiesOnceUnviewed ==
  [][pc = "empty" /\ pc' = "ready" /\ Viewed = {} => entries' = <<>>]_vars

(* The array, the counts and the loops together do what the header says.   *)
Promise == INSTANCE ReadThroughCache
             WITH held      <- viewing,
                  idle      <- { <<i, size[i]>> : i \in Idle },
                  limit     <- maxidle,
                  disturbed <- strained

ReadThrough == Promise!Spec
=============================================================================
