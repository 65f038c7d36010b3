# PrivateEye: a verification development

PrivateEye is an image viewer for RISC OS: one C program, one thread, driven by
the window manager's (the *Wimp's*) events and messages. This directory holds
TLA+ models of the parts whose correctness depends on the order in which things
happen, the TLC configurations that check them on small instances, and theorems
about them for every value of their constants, checked by TLAPS.

Paths below are relative to `src/`; `PE/` is `apps/PrivateEye/!PrivatEye/` and
`AE/` is `libs/appengine/`.

1. [The system](#1-the-system): components, state, operations, interactions
2. [What is hard about it](#2-what-is-hard-about-it)
3. [The modules and the code](#3-the-modules-and-the-code)
4. [The runs, what they show, and their bounds](#4-the-runs-what-they-show-and-their-bounds)
5. [Fairness and what is assumed of the Wimp](#5-fairness-and-what-is-assumed-of-the-wimp)
6. [The proofs](#6-the-proofs)
7. [Where the code and its documentation disagree](#7-where-the-code-and-its-documentation-disagree)
8. [What is not modelled](#8-what-is-not-modelled)
9. [The plan](#9-the-plan)
10. [Running it](#10-running-it)

## 1. The system

A *viewer* is a window on an *image*. Images come from files through the *image
cache*, so several viewers may share one. *Observer windows* (histogram,
information, metadata, effects, tags) belong to an image and close with it.
Effects and rotation edit an image; an edited image is *modified* until it is
saved, and a question is asked before a modified image goes. Other programs take
part by messages: they offer files, claim the clipboard, or shut the machine down.

| Component | Source | State it keeps | Operations | Properties that make it correct |
|---|---|---|---|---|
| Image cache | `AE/graphics/imagecache/imagecache.c`, `PE/imgcache.c`, counts and flags in `AE/graphics/image/image.c` | array of entries in age order, bytes that may idle, entry limit; each image's references, flags, file attributes | get, dispose, resize, empty, destroy | counts say who has the image; idle bytes within the limit; no edited image is left to idle; no viewer keeps a destroyed image |
| Viewers and the session | `PE/viewer.c`, `PE/quit.c`, `PE/save.c`, `PE/clipboard.c`, `PE/iconbar.c`, `PE/eye.c`, `AE/dialogues/dcs-quit/` | list of viewers, current viewer, owner of the clipboard, the waiting questions and their one answer | open, step, clone, edit, save, close, close all, quit, and the messages that load or shut down | edits are lost only by consent; a question that waits can be answered; nothing on the list is without an image |
| Effects window and rotation | `AE/gadgets/effects/`, `AE/gadgets/scroll-list/`, `PE/rotate.c` | three sprites, array of effects, selected row, slider, editor shown, drag under way, the image's EDITING flag | add, drag, delete, edit, slide, apply, cancel, rotate | the preview shows the list; Apply keeps what is shown; effects and rotation exclude each other |
| Image observers | `AE/graphics/image/image-observer.c`, `AE/gadgets/imageobwin/` | one list of (image, callback, opaque); a list of windows | register, deregister, tell everybody | a callback may register and deregister during the walk; each live observer is told; none is told after it has gone |
| Event dispatch | `AE/wimp/event/` | an array of handlers for each event, and one, sorted, for messages | register, deregister, dispatch | arrays may change while they are walked: each handler is asked once, the specific before the general, and none after it was deregistered |
| Data transfer | `PE/dataxfer.c`, `PE/clipboard.c`, `PE/save.c`, `PE/ffg.c`, `AE/dialogues/save/` | the reference of the last DataSaveAck, the viewer being saved, the task that translates, the save dialogue and its drag | DataSave, DataSaveAck, DataLoad, DataRequest, ClaimEntity, TranslateFFG and its acknowledgement; drag, drop, save | an answer is matched with its question; a picture shown as unmodified is in a file |
| Tagging | `PE/tags*.c`, the clients' side of `AE/gadgets/tag-cloud/` | two databases, in memory and on disc, and their backup; three counts of users; for each of two windows the table from places to tags, what is shown and highlighted, the place of the last menu | open, tag, detag, add, rename, delete, drop a file, commit, back up, finalise | the two files agree wherever writing stops; the backup is of the session's start; what is highlighted, titled and deleted is what the user means |
| Scaling and drawables | `PE/scale.c`, `AE/graphics/drawable/`, `AE/dialogues/scale/` | scale and position of each viewer | set, fit, step | scales stay in range; what is fitted fits |
| Image formats | `AE/graphics/image/*.c` but for `image.c` | decoded image | load, export, rotate, draw | (arithmetic on pixels) |
| Viewer display | `PE/display.c`, `PE/canvas.c`, `PE/thumbview.c`, ... | window geometry, background, scrolling | redraw, drag, scroll, keys | handlers of a viewer go with it |
| Directory viewer | `AE/gadgets/filerwin/` | lists of directories | next and previous file | (reads directories) |
| Choices | `PE/choices*.c`, `AE/app/choices/` | settings, their file | set, save, load | (tables) |
| Program frame | `PE/eye.c`, `PE/globals.c`, `PE/iconbar.c` | initialised parts | initialise, finalise, poll | each part finalised once, in reverse order |
| Histogram, metadata | `AE/gadgets/hist/`, `AE/gadgets/metadata/` | a computed picture or text | compute, draw | - |
| Tag cloud and the other gadgets | `AE/gadgets/...` | layout, selection | lay out, draw, drag | sorting and layout |
| Dialogues, Wimp glue, operating system glue | `AE/dialogues/`, `AE/wimp/`, `AE/io/`, `AE/vdu/`, ... | next to none | thin layers over system calls | - |
| Vendored | `libs/jpeg`, `libs/exiftags`, ... | - | - | - |

How they interact:

- **Calls.** A viewer gets its image from the cache (`viewer_load` →
  `imagecache_get`) and gives it back (`viewer_unload` → `imagecache_dispose`).
- **Callbacks.** `image_hide`, `image_modified`, `image_preview`, `image_destroy`
  walk the observers' list; a window that hears HIDDEN closes, which may itself
  change the image (`effectswin_destroy` puts the picture back) and start a
  nested walk.
- **Messages.** Other programs' messages come at any poll. Apart from the main
  loop the program polls inside a question (`dcs_query`), inside a handler.
- **Shared state.** `GLOBALS.current_viewer`, `GLOBALS.clipboard_viewer`, the
  one static `dcs_command`, `LOCALS.current` of effects and `LOCALS.image` of
  rotate outlive the handlers that set them.

## 2. What is hard about it

There is one thread, so nothing is preempted. What is hard comes from five sources.

1. **Nested polling.** `dcs-quit.c:194` polls and dispatches inside a handler, so
   any message handler may run, and close any viewer or ask again, in the middle of it.
2. **State kept between events.** The index of a dragged row, the slot of the
   effect under edit, the current viewer, the owner of the clipboard, an image in a
   dialogue: each is used by an event long after it was taken.
3. **Indices across mutations.** `imagecache_dispose` takes an index, evicts, and
   uses it; the observers' list and the handlers' arrays change while they are walked.
4. **Counts and flags that must tell the truth.** A reference count decides
   whether an image is destroyed; MODIFIED whether the user is asked; EDITING
   whether rotation may start.
5. **Limits and failure.** The array of entries fills, memory runs out, a load
   fails half way through the replacement of an image, an effect fails.

`PROJECT.json` lists each hazard under `hazards` at its line, with the properties
that would catch it, or with the reason why none does yet.

## 3. The modules and the code

```
ReadThroughCache            what imagecache.h promises
      ^ refinement (ReadThrough)
ImageCache <--- ImageCacheProofs
      ^ MCImageCache

Documents                   what a user relies on     Delivery      what a client
      ^ refinement (Promise)                                ^ (Promise)  relies on
DataTransfer <--- DataTransferProofs                  EventDispatch <--- EventDispatchProofs
      ^ MCDataTransfer                                      ^ MCEventDispatch

Session <--- SessionProofs   ImageObservers <--- ImageObserversProofs   Tags <--- TagsProofs
      ^ MCSession                  ^ MCImageObservers                      ^ MCTags

Effects <--- EffectsProofs   TagFiles <--- TagFilesProofs
```

The modules are not composed by INSTANCE: each takes of its neighbours what they
promise.

- `Session`, `Effects` and `ImageObservers` rely on what `ReadThroughCache` says:
  viewers that load the same file may share an image; once nobody has an image it
  is forgotten, or is left to idle unedited. `ImageCache` is shown to keep that promise,
  by TLC and by TLAPS. In turn its `WatchedAreViewed` takes from `ImageObservers` that a
  window closes when its image is hidden.
- A rotate dialogue that outlives its viewer may edit an image that idles
  (`rotate.c:708`). `ImageCache`, `Session` and `Effects` each take that step, for
  what it does to the cache, to the user's edits and to the sprites. In
  `ImageObservers` and `DataTransfer` an image is edited only while it is viewed: one
  that idles has no observers to be told, and messages carry pictures of viewers.
- `Session` has the question before an edited picture goes, and what may happen
  while it waits; `DataTransfer` has the messages, and answers that question at once.
- `Tags` has the two tag windows in one session with the database in memory;
  `TagFiles` has the files, over many sessions, with the windows reduced to whether
  each was opened.
- `EventDispatch` is what all the others use: their actions are handlers it calls.

### ImageCache

| Variable | In the code |
|---|---|
| `live`, `name`, `refcount`, `size`, `modified` | image.c's list, and `image_t`'s file name with load and exec address, `refcount`, `display.file_size`, `image_FLAG_MODIFIED` |
| `watched` | whether an observer window shows the image |
| `entries`, `maxidle` | the used part of the cache's array, oldest first; `cache->maxidle` |
| `viewing` | `viewer->drawable->image` of each viewer |
| `rotating` | `LOCALS.image` of `rotate.c` while its dialogue is shown |
| `strained` | not in the code: more idles than may since an idle image was turned |
| `pc`, `call` | which looping call runs, with its arguments and locals |

A call that does not loop is one action; a loop is one action per iteration:

| Code | Actions |
|---|---|
| `imagecache_get` | `GetCached`, `GetUncached`, then `LoadInserts`, `LoadFindsCacheFull`, `LoadFails`, or `LoadRunsOutOfMemory` and `EvictOldest`, round again |
| `imagecache_dispose` | `DisposeShared`, `DisposeDestroys`, or `DisposeRetains`, `MakeRoom` (each eviction of `evict_nbytes`), `Retire` |
| `imagecache_resize` | `ResizeUp`, or `ResizeDown`, `Shrink`, `SetMaxIdle` |
| `imagecache_empty` | `Empty`, `EmptyOne`, `EmptyDone` |
| creation | `Init` |
| `imagecache_destroy` | `Empty` and the assertion after it, `EmptiesOnceUnviewed` |
| the rotate dialogue | `OpenRotate`, `Turn` (of whatever image it was opened for: viewed, or idle by now), `CloseRotate`, `UseFreed` |
| viewers, windows | `Clone`, `Modify`, `Save`, `MarkUnsafe`, `NameTemplate`, `OpenWindow`, `CloseWindow` |

`LoadRunsOutOfMemory` is a free choice of the environment. `pc = "aborted"` is
the state after `array_delete_element` was called with an index beyond the used
part of the array, or the rotate dialogue used an image that was freed; the model stops
there. `FreeBytes` is the unsigned difference of `imagecache.c:326`: it wraps at `Word`
when more idles than may, so that no room is made. Idle bytes are counted as the
cardinality of a set of (image, byte) pairs, which is what lets an unbounded sum be
reasoned about without recursion; the refinement and the proofs use the same form.

### Session

| Variable | In the code |
|---|---|
| `open`, `image` | viewer.c's list; the image of each viewer's drawable |
| `idle` | the images in the cache that nobody views but the rotate dialogue was left behind on |
| `edited`, `name` | `image_FLAG_MODIFIED` and the file name of each image viewed or idle |
| `clipboard`, `current` | `GLOBALS.clipboard_viewer`, `GLOBALS.current_viewer` |
| `stack` | the handlers that wait inside a question, innermost last |
| `command` | the static `dcs_command`; "waiting" is -1 |
| `shown` | the menu on the screen: a question, the save window, the rotate dialogue, a menu |
| `rotating` | `LOCALS.image` of `rotate.c` while its dialogue is shown |
| `quitting` | `Flag_Quit`, and whether the user chose it or a message told so |
| `undefined` | a freed viewer or image was used, or NULL; behaviour ends there |

A handler that asks nothing is one action. One that must ask pushes a frame
(`Ask`), and continues in `Resume` once `command` is set. `Resume` leaves
`command` as it is, as the code does, so the answer is there for the handlers
beneath it too. `Answer` and `Dismiss` are a click on a button and the
MENUS_DELETED message. `Close`, `Step`, `ChooseQuit`, `DataLoad`, `PreQuit` are
the handlers that may ask; `Click`, `Modify`, `NewView`, `Copy`, `ShowSave`,
`Save`, `CloseMenu`, `DataOpen`, `Quit`, `LoseClipboard` those that never do.
`ChooseForGone` is a choice from a menu whose viewer has gone. `OpenRotate` shows the
rotate dialogue, which a key or a message that closes the viewer leaves where it is;
`RotateChosen` is the click that then edits an image nobody views, and `ShrinkCache` the
choice (a smaller cache, an empty one) that evicts it.

### Effects

One image, its effects window, the editors and dialogues that act on that window,
and the rotate dialogue.

| Variable | In the code |
|---|---|
| `image` | on view, idle in the cache, or destroyed |
| `picture`, `degenerate`, `result` | the three sprites, each as the list of what was applied to it |
| `selected`, `editing` | `details.sprite.index`, `image_FLAG_EDITING` |
| `entries`, `nentries`, `selection` | `effects.entries`, `effects.nentries`, the scroll list's selection |
| `level` | `blendval` |
| `dialogue`, `element`, `listening`, `drag` | the menu shown; `editing_element`; the colour handler; the drag and the row it took |
| `copied` | not in the code: the slot under edit fell off the list and holds a copy of the last row, pointer to its tone map included |
| `orphans`, `undefined` | handlers that name a freed window; one of them ran |

A sprite is not pixels but a history: `Blend(p, by, lev)` is picture `p` with
effects `by` to level `lev`. Two histories are equal only if the same things were
done in the same order, so "the preview is current" is an equality.

`entries` is an array longer than `nentries`, as in the code: a slot that falls
free keeps its contents. Only a drag or an editor under way can see it, so
`RemoveEffect` clears the slot when there is neither; this merges states that no
code can tell apart.

An effect is a value in the model. In the code a tone effect points at its map, and the
`memmove` of a deletion (`effects.c:735`) copies the pointer: if a row above the last is
deleted while the last is under edit, the editor's slot and the new last row share
one map (`SharedWithout`). Apply then destroys the map (`effects.c:1647`) and the next
preview reads it, so `EditApply` sets `undefined` if `copied`.

### ImageObservers

The list of observers, and all of its clients: viewers, histogram and metadata
windows (which `imageobwin.c` runs), effects windows, the tags window.

| Variable | In the code |
|---|---|
| `observers` | `first_observer`: image, callback with its argument, `nrefs` |
| `tasks` | what the one thread still has to do before it polls, the innermost first; a walk in progress is a task with the `next` it has fetched |
| `live`, `viewers` | the images there are; their reference counts |
| `avail` | which windows the image's format allows (the methods in `image_t`) |
| `win`, `shows` | `imageobwin`'s and the effects' lists; whether a window is opened; which version of the picture its data was computed from |
| `hists` | `image->hists`, by the version it was computed from |
| `deaf` | those whose registration ran out of memory, at which no caller looks |

A callback is one action (`CallQuiet`, `CallComputed`, `CallEffects`); one that
starts walks of its own puts them in front of the walk that called it
(`Closing`). `UnloadViewer` is the order of `viewer_unload` and
`imagecache_dispose`: deregister, tell that it is hidden, release, and perhaps
destroy it or another image. `Modify` is `image_about_to_modify`, the change,
and `image_modified`, which throws the histograms away *before* it tells anybody.

### DataTransfer and Documents

| Variable | In the code |
|---|---|
| `image` | what each viewer shows, with `image_FLAG_MODIFIED` |
| `kept`, `scrap` | the pictures that were ever in a file of the user's; what is in `<Wimp$Scrap>` |
| `mail` | the messages sent and not delivered, in the order of sending |
| `lastRef`, `translator` | `last_datasave_ref` of `dataxfer.c`, `ffg_task` of `ffg.c` |
| `saving`, `closes`, `dragging`, `menu` | `saving_viewer` of `save.c`, `saving_close_menu` and the drag of `dialogues/save`, the menu shown |
| `clipboard`, `current` | `GLOBALS.clipboard_viewer`, `GLOBALS.current_viewer` |
| `undefined` | a viewer that has gone was used; behaviour ends there |

Each message handler is an action: `DataSave`, `DataSaveAck`, `DataLoad` or
`Convert` (a file that this program cannot load), `TranslateAck`, `DataRequest`,
`DataOpen`, `LoseClipboard`. `Convert` passes on the reference that the file came
with and nothing else, as `ffg.c` does. The user's are `Click`, `OpenMenu`, `CloseMenu`,
`PressSave`, `DragIcon`, `DropAtHome`, `Drop`, `Edit`, `Copy`, `Close`. Other
programs are external: `Begin`, `TakeOffer`, `PutInScrap`, `TakeFile`,
`Translate`, and `Ignore`, by which any message may go unanswered. A translator that is
not in the constant `Faithful` may answer with any reference, and with any `est_size`.

A message carries `of`, the viewer whose icon was dropped. No action of the
program reads it; it is there so that `DropSavesWhatWasDropped` can compare what
was meant with what is done.

`Documents` is the abstract specification: a viewer comes by a kept picture
unmodified, or by any picture modified; saving keeps its picture; closing drops
it. `Promise` says that `DataTransfer` implements it, so that no route by which a
picture comes (drop, paste, translation, scrap file) shows an unkept one as unmodified.

### EventDispatch and Delivery

| Variable | In the code |
|---|---|
| `entries`, `allocated` | one event's array of `event-wimp.c` and the messages' array of `event-message.c`; `used` and `allocated` |
| `walks` | the calls of `wimp_handler_*` and `message_handler` under way, each with the place of its pointer and the handler it called |
| `outcome` | what the last walk to end returned |

`due` and `shifted` of a walk are not in the code. `due` are the handlers that it
still owes the event, kept from the registrations alone; `shifted` is set when
the entries that the pointer has passed change, or the array moves. `Deliver`,
`Handled` and `PassOn` are the walk; `Register` and `Deregister` are called by
handlers or between events. `Register` grows the array by doubling and sorts the
messages' array with a `qsort` that may permute equals (`Sorted`).

`Delivery` is the abstract specification: a set of handlers, and for each event
being delivered the set of those yet to be asked. `Promise` says that a pointer
into a changing array implements it.

### Tags

| Variable | In the code |
|---|---|
| `tags`, `next`, `marks` | the tag database: its tags, in the order they were made, and which image has which |
| `cloud` | for the tags window and the search window: made, open, `indextotag` (`map`) and `nindextotag` (`nmap`), the entries shown and the places lit in the gadget, `menued_tag_index` |
| `image`, `titled`, `shaded` | `LOCALS.image`, the window's title, `tag_cloud_FLAG_SHADED` |
| `menu`, `asked` | the menu or dialogue on the screen, and the tag that it was opened on |
| `behind` | which of the title and the highlights a failed call has left untold; not in the code |
| `undefined` | a table that is not there was read, or outside its bounds |

A table is the set of the tags that it lists: the database numbers tags as they
are made and lists them in that order, so set and table determine each other.
`SetTags` and `SetHighlights` are sets of outcomes, one for each way in which memory
may run out half way through, and every handler that calls them takes them all.

### TagFiles

`store`, `disk` and `backup` are the two databases in memory, on disc and in the
backup. `opened` and `refs` are the three usage counts (`tags_lazyrefcount`,
`tags_search_lazyrefcount`, `tags_common_lazyrefcount`); `step` is the program's
place inside a commit or the finalisation, so that `Crash` may come between any
two steps. `Restart` begins a session with what the files hold. `unnamed`,
`spoilt` and `found` record failures and the session's start for the properties.
`FairSpec` has the one thread get on with a commit or a finalisation that it has begun.

## 4. The runs, what they show, and their bounds

### Runs that pass

| Run | Module | Checks | Shows |
|---|---|---|---|
| `cache_safety` | MCImageCache | `TypeOK`, `HoldersAreCounted`, `HeldAreCached`, `IdleWithinLimit`, `WatchedAreViewed`, `EditsAreNotKept`, `EmptiesOnceUnviewed`, `ReadThrough` | under every order of loading, cloning, editing, turning, saving, closing, resizing and emptying, counts, entries and idle bytes stay in step, and the cache implements `ReadThroughCache`; the bytes stay in step unless an image grew while it idled, and only until a call leaves less |
| `session_safety` | MCSession | `TypeOK`, `ViewersHaveImages`, `ClipboardIsOpen`, `QuestionIsShown`, `LostByConsent`, `QuitByConsent` | with nested questions and messages between them, no edit of an image on view is lost without an answer to discard, and nothing edited at all, idle images included, by a quit the user chose |
| `effects_safety` | Effects | `TypeOK`, `PreviewIsCurrent`, `ClosedShowsPicture`, `EditorsExclude`, `WhatYouSeeIsApplied` | through drags, deletions, edits, slides, failing effects and the loss of the viewers, the preview shows the list, and Apply keeps it |
| `observers_safety` | MCImageObservers | `TypeOK`, `WalksAreSafe`, `NoneOutlivesItsImage`, `ViewersAreTold`, `ShownIsCurrent` | though callbacks leave the list and start walks of their own, no walk holds a freed element, nobody outlives an image, and an open window shows the picture as it is |
| `transfer_safety` | MCDataTransfer | `TypeOK`, `UnmodifiedIsKept`, `Promise` | with one transfer at a time, unanswered or not, through a faithful translator, with viewers closed, edited and saved meanwhile, a picture shown as unmodified is in a file |
| `dispatch_safety` | MCEventDispatch | `TypeOK`, `Promise` | with handlers that come and go, and poll, each walk asks every handler once, in the order that `Delivery` allows |
| `tags_safety` | MCTags | `TypeOK`, `HighlightsAreTags`, `TitleIsTarget`, `DeletesWhatWasAsked` | through menus, keys, drops, focus, failures and a second window on the same tags, what is highlighted, titled and deleted is what the user means |
| `tagfiles_safety` | TagFiles | `TypeOK`, `OnDiskNamed`, `BackupIsConsistent`, `BackupIsOfStart`, `EndSaves`, `EndsAndSaves` | over sessions that end, fail to write or crash, the two files go together, the backup is of the session's start, and an end in order saves and is reached |

### Runs that violate what the repository says

`cache_full`, `session_one_answer`, `transfer_overlap` and `transfer_drop`: one statement
each, quoted in [section 7](#7-where-the-code-and-its-documentation-disagree).

### Bounds

| Run | Instance | Why it is enough |
|---|---|---|
| `cache_safety` | 4 images, 3 entries, 2 files of 1 and 2 bytes, 2 viewers, edited size 2, limits 0 and 2, `Word` 64, images and viewers symmetric | an image may fill the idle space, fit beside another, or never fit; with 3 entries and 2 viewers an idle entry may lie below, between or above viewed ones; one image more than entries lets a load find the array full; one eviction may not be enough, so the loop of `evict_nbytes` runs twice; an image of 1 byte that idles beside another grows to 2 when it is turned, so that the limit is exceeded and the difference wraps; all sizes together are far below `Word`, as they are below a `size_t` |
| `cache_full` | 3 images, 2 entries, the same files, no symmetry | one entry is viewed and the other idles: the least array that is full without being all in use |
| session runs | 3 viewers, 2 images, 2 files, 2 questions at once, viewers and images symmetric in `session_safety` | three viewers of two images: one image is shared and another is not; two questions are the least that interfere |
| `effects_safety` | kinds "clear" and "tone", 2 settings, 2 levels, 2 effects, `MaxStages` 1 | two effects are the least that can be reordered; the two kinds have different editors (the colour picker answers by message, the curve editor by a click); `MaxStages` bounds the number of effects and turns made permanent, which only bounds the length of the history |
| `observers_safety` | a JPEG, for which there is every window, and a drawing, which can only be viewed; 2 viewers of each, 4 observers, 1 failed registration | all three kinds of window may watch one image, so that a walk of four observers has callbacks that remove others before and behind them; the drawing takes the JPEG's place in the cache, so one image is destroyed while another is hidden; two viewers share one observer by its count |
| `transfer_safety`, `transfer_drop` | 2 viewers, 2 pictures, 1 other program, whose translations are faithful, 1 transfer, symmetric | what is saved may be another viewer's picture; the program also exchanges with itself; with *two* transfers `UnmodifiedIsKept` is false, which is what `transfer_overlap` shows with the same instance |
| `dispatch_safety` | 2 handlers of the event and 3 of the message, one of each for a window, 2 windows, 2 walks at once, 2 entries allocated first (8 in the code) | three messages' handlers outgrow the first allocation during a walk, and let `qsort` permute two equals around a specific one; two walks of one array are the least that nest |
| `tags_safety` | 2 images, one without a file name; 2 tags made, both windows | two tags are the least with a second place; the untitled image is refused as a target |
| `tagfiles_safety` | 2 images, 1 tag | whether an image is tagged and whether it is named are told apart for each of two images; a second tag would only be tagged alike |

`MaxQueries`, `MaxEffects`, `MaxStages`, `MaxViewers`, `MaxObservers`, `MaxDeaf`,
`MaxTransfers`, `MaxDepth` and `MaxTags` are bounds of the models, not of the code:
they stand in guards, so that behaviour stops there. The theorems hold for every
value of these bounds. The code's own limit `MaxEntries` is a constant with
the code's behaviour at the limit, and `Smallest` is the code's 8.

`SYMMETRY` is used where the blocks that `malloc` returns, or pictures, are
interchangeable, and only in runs without liveness. The `VIEW` of `tags_safety` leaves out of a
state what no action reads before it is set again; `MCTags` says what that is.

`CHECK_DEADLOCK FALSE` is stated for the cache (an overrun, or the use of a
freed block, aborts the program), for the session (the program has quit, or a freed
block was used), for effects (the image is gone, or a freed block was used), for the transfers (a viewer that
has gone was used) and for tags (a table that is not there was read).

## 5. Fairness and what is assumed of the Wimp

`TagFiles.FairSpec` is `Spec /\ WF_vars(BackUp \/ Write \/ Finalise \/ End)`: the one
thread gets on with the commit or the finalisation that it has begun, because nothing
preempts it. Nothing obliges the user to begin anything, and `Crash` may end it at any
step, so no other fairness is assumed. `EndsAndSaves` is the one liveness property. The
retries of a load that is out of memory have none: where all images are viewed
nothing in the code ends them ([section 7](#7-where-the-code-and-its-documentation-disagree)).

Of the window manager the models assume:

- A question, a dialogue or the save window is shown as a *menu*. A click
  elsewhere dismisses it, so the user starts nothing else while it is shown.
  Messages of other programs come at any poll.
- Keys are not clicks. They reach the effects list while a dialogue is shown or
  during a drag, unless the colour picker has the input focus.
- MENUS_DELETED may or may not come for a menu that the program itself replaces.
  `Dismiss` covers the case where it comes; the other is where one answer can
  settle two questions.
- `malloc` may return a block that was freed before: viewers and images are
  reused in every model.
- Messages from one task to another arrive in the order in which they were sent;
  any may go unanswered.

Of others:

- *Other programs* keep to the data transfer protocol, except that they may leave
  `est_size` as it was in a DataSaveAck, which `dataxfer.c:160` provides for. A
  program that takes an offer into the scrap file loads it from there, and one that
  delivers through the scrap file leaves `est_size` in its DataLoad at the -1 that it was
  told in the DataSaveAck.
- *Translators* are where most is assumed. `ffg.c:336-365` tells a translator the
  reference of the data and nothing of whether it is saved. `dataxfer.c:223-225`
  takes what comes back for unsaved only if it answers `last_datasave_ref` *and*
  its `est_size` is -1. So the properties of the transfers rest on translators that return
  the reference they were given and set `est_size` to -1: the constant
  `Faithful`. The runs have one program, and it is faithful; the theorems have the
  hypothesis `Programs \subseteq Faithful`. `ffg.c:13` names a translator that is not
  ("TransTIFF+ gives corrupt reply refs"), and for such a one the properties are false
  with a single transfer: with `Faithful = {}` in `transfer_safety` TLC finds a
  translated picture, in no file but the scrap file, that loads as unmodified.
- *Handlers* are held to one rule in `EventDispatch`: one which has the entries
  changed that its walk has passed, or has the array moved, returns
  `event_HANDLED`. `event-wimp.c:115` assumes it of those that deregister
  themselves. By reading, it is true of every handler that registers or
  deregisters during a walk of its own event: those of `dialogues/save/save.c`,
  `PE/eye.c`, `PE/dataxfer.c`, `PE/display.c` and the tag cloud. A handler that
  does pass the event on leaves the later entries as they were.
- *The tag databases* and the digests are a library that is not in the tree; they
  do what their names say, and may fail for want of memory.

## 6. The proofs

TLAPS proves the theorems below for every value of the constants that satisfies
the modules' assumptions (`CacheAssumption`, `SessionAssumption`, `EffectsAssumption`,
`ObserversAssumption`, `DispatchAssumption`, `TagsAssumption`, `TransferAssumption`): any finite number of
images, viewers and files, any sizes, any limits, any depth of questions and of
walks, any handlers, effects and tags. The bounds that the runs need
(`MaxQueries`, `MaxEffects`, ...) are constants as well, so a theorem holds for every
bound. `TagFilesAssumption` is not needed. TLC evaluates every assumption.

| Theorem | States | Module |
|---|---|---|
| `Invariance` | `Spec => []IInv` | ImageCacheProofs |
| `TypeCorrect` | `TypeOK` | ImageCacheProofs |
| `CountsAreExact` | `HoldersAreCounted` | ImageCacheProofs |
| `NoDanglingViewer` | `HeldAreCached` | ImageCacheProofs |
| `IdleLimited` | `IdleWithinLimit` | ImageCacheProofs |
| `NoOrphanWindow` | `WatchedAreViewed` | ImageCacheProofs |
| `NoEditedIdles` | `EditsAreNotKept` | ImageCacheProofs |
| `EmptiesAll` | `EmptiesOnceUnviewed` | ImageCacheProofs |
| `CacheImplementsPromise` | `Spec => ReadThrough`: the cache refines `ReadThroughCache` | ImageCacheProofs |
| `Invariance` | `Spec => []IInv` | SessionProofs |
| `TypeCorrect` | `TypeOK` | SessionProofs |
| `ViewersAlwaysHaveImages` | `ViewersHaveImages` | SessionProofs |
| `ClipboardAlwaysOpen` | `ClipboardIsOpen` | SessionProofs |
| `QuestionsAreShown` | `QuestionIsShown` | SessionProofs |
| `NothingLostUnasked` | `LostByConsent` | SessionProofs |
| `NoQuitUnasked` | `QuitByConsent` | SessionProofs |
| `Invariance` | `Spec => []IInv` | TagFilesProofs |
| `TypeCorrect` | `TypeOK` | TagFilesProofs |
| `TaggedAreNamed` | `OnDiskNamed` | TagFilesProofs |
| `CopiesGoTogether` | `BackupIsConsistent` | TagFilesProofs |
| `CopiesAreOfTheStart` | `BackupIsOfStart` | TagFilesProofs |
| `NothingUnsaved` | `EndSaves` | TagFilesProofs |
| `Invariance` | `Spec => []IInv` | EffectsProofs |
| `TypeCorrect` | `TypeOK` | EffectsProofs |
| `PreviewAlwaysCurrent` | `PreviewIsCurrent` | EffectsProofs |
| `SpriteGoesWithWindow` | `ClosedShowsPicture` | EffectsProofs |
| `EditorsAlwaysExclude` | `EditorsExclude` | EffectsProofs |
| `OnlyWhatYouSee` | `WhatYouSeeIsApplied` | EffectsProofs |
| `Invariance` | `Spec => []IInv` | ImageObserversProofs |
| `TypeCorrect` | `TypeOK` | ImageObserversProofs |
| `NoWalkExplodes` | `WalksAreSafe` | ImageObserversProofs |
| `ObserversGoFirst` | `NoneOutlivesItsImage` | ImageObserversProofs |
| `ViewersShareTheirObserver` | `ViewersAreTold` | ImageObserversProofs |
| `WindowsKeepUp` | `ShownIsCurrent` | ImageObserversProofs |
| `Invariance` | `Spec => []IInv` | EventDispatchProofs |
| `TypeCorrect` | `TypeOK` | EventDispatchProofs |
| `EveryoneIsAskedOnce` | `Spec => Promise`: the walks of the arrays refine `Delivery` | EventDispatchProofs |
| `Invariance` | `Spec => []IInv` | TagsProofs |
| `TypeCorrect` | `TypeOK` | TagsProofs |
| `HighlightsAreRight` | `HighlightsAreTags` | TagsProofs |
| `ClicksAreRight` | `ClicksDoTheOpposite` (stated in TagsProofs): a click tags what is not highlighted, and untags what is | TagsProofs |
| `TitleIsRight` | `TitleIsTarget` | TagsProofs |
| `DeletesAreAsked` | `DeletesWhatWasAsked` | TagsProofs |
| `Invariance` | `Spec => []IInv` | DataTransferProofs |
| `TypeCorrect` | `TypeOK` | DataTransferProofs |
| `KeptUnlessOverlapping` | `Spec /\ []OneAtATime => []UnmodifiedIsKept`, if all translators are faithful (`Programs \subseteq Faithful`) | DataTransferProofs |
| `KeptOneByOne` | `UnmodifiedIsKept`, if all translators are faithful and `MaxTransfers = 1` | DataTransferProofs |
| `PromisedUnlessOverlapping` | `Spec /\ []OneAtATime => Promise`, if all translators are faithful | DataTransferProofs |
| `PromisedOneByOne` | `Promise`, if all translators are faithful and `MaxTransfers = 1` | DataTransferProofs |

**The cache's invariant** is `Structure /\ CallOK`, the type of `rotating`, and
`strained \/ Budget`.

- `Structure` is the type invariant with `HeldAreCached`, `HoldersAreCounted` and
  `WatchedAreViewed`. None of them is inductive alone: an eviction leaves no dangling
  viewer only because a count of zero means that nobody has the image, and the counts
  stay exact only because no entry is listed twice.
- `CallOK` says what a call in progress may rely on from step to step: the viewer
  that is loading has no image; the image that is being released has one reference
  and is not modified. Evictions between do not touch it, because its count is not
  zero. From this follows `EditsAreNotKept` for the step that lets an image idle.
- `Budget` is the arithmetic that `IdleWithinLimit` needs *during* the loops: while
  `evict_nbytes` runs, idle bytes plus what is to be added exceed the limit by at
  most what is still to be found. When nothing idles any more the bound holds
  because the image itself fits the limit; that is the reason for the test of
  `display.file_size` against `maxidle` in `imagecache_dispose`. Once an idle image was
  turned and the bytes are too many, nothing of it is left: the difference wraps, no
  room is made, and a smaller limit evicts only the difference of the limits. `strained`
  says so, and is cleared when a call returns with no more idle than may.

It says nothing of the array's order: the stale index of `imagecache_dispose`
moves the wrong entry, and the proof shows that this harms the order only, never
counts, bytes or pointers, as long as the program goes on at all.

**The refinement** maps `held` to `viewing`, `idle` to pairs of idle images
and their sizes, `limit` to `maxidle`, and `disturbed` to `strained`. Each action maps to one abstract step
or to a stutter (`...Promised`): an eviction is `Forget`, `Retire` is `Release`,
the last step of a resize is `SetLimit`, and the turn of an idle image is `Disturb`. It needs the invariant for the limit
(`SetLimit` requires that what idles fits the new limit) and for the release.

**The session's invariant** joins the type invariant with the three invariants
that the runs check, and more: what idles is viewed by nobody, what is edited is viewed
or idles, the rotate dialogue has an image while it is shown, and no question is shown
when no handler waits, so that every answer has an innermost frame to be recorded in. From
`QuestionIsShown` it follows that whenever the user may start something no handler
waits (`UserFreeIdle`), which is why only messages nest. The two action properties follow for every
step from the invariant (`Consented`).

**The tag files' invariant** is `TypesInv /\ NamesInv /\ CopyInv /\ EndInv`.

- `NamesInv`: `OnDiskNamed` alone is not inductive. The tags are written from memory,
  so every image tagged in memory must be named there, and between the two writes
  each name in memory is on disc, or its writing failed (`unnamed`). Names are never
  taken back, so those on disc are known in memory, and a write of the names loses none.
- `CopyInv`: until a copy is made or fails, nothing is written, so what is copied is
  what was found.
- `EndInv`: once the common count is 0 and nothing is being written, memory and disc
  agree, unless a write failed. It holds because whoever takes the count to 0 has the
  files written, and the last subsystem's end leaves it at 0. The types say which subsystem
  that is (`EndsShrink`), and that no window gives back what it did not take.

**The effects window's invariant** joins `TypeOK`, `ClosedShowsPicture` and
`EditorsExclude` with two parts.

- `IndicesInv` says what the indices kept between events still name. Every row of the
  list holds an effect, and so does the slot that a drag or an editor took, even if
  it has fallen off the list since. A dragged row is at most one past the end: only a
  key deletes during a drag, and what it deletes leaves nothing selected, so that
  it cannot delete twice.
- `SpritesInv` says what the three sprites hold while no effect has failed: the
  degenerate one holds the listed effects, the result blends them with the
  picture to the slider's level. `PreviewIsCurrent` and `WhatYouSeeIsApplied` follow.

The length of a picture's history is not part of the type: `MaxStages` bounds it through a
fold over the history, and what a fold computes for every input is out of reach.

**The observers' invariant** orders the work that the one thread has left. The
list is safe to walk only because of what may be on top of what.

- `OrderInv`: of the walks only a preview is ever nested in another one. What removes
  observers during a walk is therefore a callback of that walk itself, which removes its own,
  or an effects window on its way out (`unwatch`), whose observer the walk beneath has
  already passed. That is why `next`, fetched before the callback is called, is still on the
  list (`WalksAreSafe`).
- `EndsInv`: those whom the last walk of an image has passed have left or are about to;
  at its end nobody is left, and the image may be freed (`NoneOutlivesItsImage`).
- `CountsInv` and `WindowsInv`: the viewers' observer counts the viewers of its image
  but for the one that is being let go; others are there because of a window.
- `ShownInv`: a window whose data is not fresh has the news of the change ahead of it, in a
  walk that has yet to reach it or has yet to start.

**The event arrays' invariant.** `Follows` relates a pointer to the promise:
unless the walk is `shifted`, those still `due` are exactly the handlers for its
window that lie beyond the pointer. A registration or removal beyond the pointer
keeps that, because the entries passed stay the same; anything else shifts the
walk, which then may only be ended. `SpecificFirst` makes the order of the messages'
array the order `Delivery` asks for. That sorting loses no handler and doubles none is
proved by counting: a one to one map between finite sets of the same size is onto.

**The tags' invariant** says what each window knows.

- `Fits`: a table that is there is what the gadget shows, and its length is right.
- `Informed`: a tags window that has missed nothing lists the tags that there are
  and lights the places of those which the image has.
- `Remembers`: the place kept with an open menu is that of the tag it was opened
  on, or was forgotten, or the table is lost. It stays so when a tag is added because a new
  tag comes last, and because what deletes a tag forgets the place.
- `AtProperties`: places and tags correspond one to one (`At` and `PositionOf`
  are inverses, by counting), so that highlights, clicks and the menu speak of the same tags.

**The transfers' proof** comes in two parts, because `UnmodifiedIsKept` is false
where transfers overlap (`transfer_overlap`).

- `IInv` holds for any number of transfers. A message of a transfer is answered by at
  most one other, and bears one reference at most; so there are fewer live references
  than `Refs` has, and an answer always finds a new one (`NewRefProperties`).
- `KeptInv` is inductive on one condition, `OneAtATime`: of the messages under way at
  most one belongs to an exchange through the scrap file. Loads of the user's own files
  may come in between in any number. Then what a message brings from the scrap file is in a
  file of the user's already, or the message answers the offer in `last_datasave_ref` and
  says that it is unsaved, so that it is loaded as modified. A translation is asked for with
  that reference, and a faithful translator returns it and marks what it delivers (`Safe`).
  With `MaxTransfers = 1` the condition always holds (`OneTransfer`).

The refinement of `Documents` needs `KeptInv` for loads only; every other step maps to
`Keep`, `Take`, `Close` or a stutter by itself.

Only model-checked: `EndsAndSaves`, since liveness under fairness is beyond the prover,
and the four statements that are violated. Every other property of a run is a theorem,
those of the transfers on the conditions named above.

## 7. Where the code and its documentation disagree

| Run | Property | The repository says | The code does |
|---|---|---|---|
| `cache_full` | `HoldsEveryLoad` | `imagecache.h:6` "It will hold any number of active" images | a load into an array whose entries are all taken, even by images that idle, is refused (`imagecache.c:254`); the image it made is in no entry and in no viewer, and is never destroyed |
| `session_one_answer` | `OwnAnswer` | `dcs-quit.c:250` "If the menu was closed before the user made a choice, then choose Cancel." | all waiting questions read one static `dcs_command`: a nested question's answer settles the outer one, whose menu had been replaced |
| `transfer_overlap` | `UnmodifiedIsKept` | `dataxfer.c:125` "Let the sender know that the data is "unsafe" (app-to-app, not permanently saved.)" | one static `last_datasave_ref`: a second offer before the first has delivered makes the first load as if from a file, unmodified, though only the scrap file ever held it |
| `transfer_drop` | `DropSavesWhatWasDropped` | `dataxfer.c:149` "Find out what we were attempting to send." | when the save menu was closed by a click before the answer came, `saving_viewer` is forgotten, and the clipboard's picture is written in place of the dropped one |

Each run checks its one property, and TLC's counterexample is the sequence of
events. `PROJECT.json` holds the full text under `findings`.

Also seen while modelling, and described by the models' comments or here, without a run:

- `imagecache.c:336`: the index taken at `:280` is used after `evict_nbytes` removed
  entries below it, so another entry becomes the youngest, or the array is overrun
  (`:173` "Make the i'th cached image the youngest.").
- `imagecache.c:251`: a load out of memory, with every entry in use, retries for as long
  as memory is short, though there is nothing left to discard (`:247` "nothing left to
  discard - return OOM" tests only whether the array is empty).
- `rotate.c:708`: a rotate dialogue that a key or a message has left without its viewer
  turns its image all the same. If the image idles, then
  - its size may grow, so that more idles than the user chose (`imagecache.h:6`), and the
    subtraction at `imagecache.c:326` wraps: nothing is evicted for the next image;
  - it is modified, and a later load of its file finds the edits, though
    `imagecache_dispose` keeps no modified image (`imagecache.c:288`);
  - its eviction loses the edit with no question asked; only quitting asks for it.

  If the image was freed, the dialogue uses a freed block. The models take these steps:
  `strained` and `disturbed` in the cache, `LostByConsent` over images on view, `undefined`.
- `rotate.c:610`: opening the dialogue for a second image sets `LOCALS.image` before the
  first menu's closing is heard, so that editing is stopped for the wrong image.
- `effects.c:735`: a deletion copies the pointer to a tone map into two slots; `effects.c:1647`
  then destroys a map that a row of the list still uses.
- `dataxfer.c:223`: a translator that returns another reference, as `ffg.c:13` reports of
  one, or that leaves `est_size` alone, has an unsaved picture loaded as unmodified.
- `save.c:35`: the save window is filled out from `GLOBALS.current_viewer`, which
  closing a viewer by its icon does not set.
- `effects.c:2175`: a failure here leaves the image marked as being edited without an editor.
- `effects.c:1230`: Delete pressed during a drag removes the dragged row; the drop
  then overwrites another effect with the deleted one.
- `event-wimp.c:399`: deregistering by window has its test the other way round;
  nothing calls it.
- `event.c:40`: the arrays are freed before the last handlers are deregistered.
- `AE/graphics/image/image.c:376`: `image_get_count` counts up from an uninitialised variable.

## 8. What is not modelled

- **Undefined behaviour is reached, not continued.** Where a freed viewer, window
  or image is used, `undefined` is set and the behaviour ends: nothing is claimed of
  what follows. `Session` reaches it when a viewer is destroyed by a message while a
  question about it waits, or while its menu is open; `Session`, `ImageCache` and `Effects`
  when the rotate dialogue uses an image that was freed; `Effects` also when the window goes
  during a drag or with a dialogue open, when the curve editor's settings meet
  an effect of another kind, and when a tone map in use is destroyed. The repository states nothing that such a run could be
  held against, so these are hazards without a property.
- **One image in `Effects`.** `rotate.c` keeps one `LOCALS.image`; opening the
  dialogue for a second image while the first one's is shown is left out.
- **Failures that a property excuses.** `deaf`, `behind` and `unnamed` record the
  registrations, calls and writes that failed, and the properties promise nothing of what
  depends on them: `NoneOutlivesItsImage` and `ViewersAreTold` of the observers that
  were registered, `TitleIsTarget` and `HighlightsAreTags` of what was told to the gadgets,
  `OnDiskNamed` of the names that could be written. The other halves of those hazards
  (`viewer.c:987`, `tags.c:246`, `tags-common.c:504`, `tags-common.c:295`) are in the models
  and are not judged.
- **What no property says.** The order of the cache's entries after the stale index
  (`imagecache.c:336`); the EDITING flag that a failure at `effects.c:2175` leaves up;
  the walk of a freed or shifted array (`event-wimp.c:318`), which `PassOn` excludes;
  whether a picture saved for another program is later *named* after the scrap file.
- **Pixels.** What an effect computes belongs to an external library; only whether it
  fails matters.
- **Two transfers and what follows.** With `MaxTransfers` 2 the pass properties of
  `DataTransfer` fail for the reason `transfer_overlap` shows; what else overlapping
  conversions do (`ffg.c:371`) is reached there and not judged, as the repository
  states nothing of it. Positions, sizes, reports and the table of translators are left out.
- **Of the event library** the poll mask, the pollword, the default actions for
  windows and for Message_Quit, deregistration by window and finalisation.
- **Of tagging** running a search and drawing its results, the clouds' sorting and
  layout, choices, and the databases' own code, which is not in the tree.
- **Viewers' display.** Redraw, drags, scrolling by null events (`display.c:512`),
  thumbnails and the canvas draw or compute; their state dies with the viewer.
- **Vendored code**: libjpeg, exiftags, fortify, md5 and the assembler modules are two
  thirds of the tree's lines. They are third-party algorithms over pixels and bytes, and
  nothing in them depends on the order of events.
- **Widgets.** Writable icons, sliders' geometry, autoscroll, redraw and layout.
- **I/O and formats.** Loading, transcoding, choices' files, directories and sprites are
  system calls and conversions; what matters of them is success or failure.

## 9. The plan

Built, checked and proved about: `ReadThroughCache`, `ImageCache`, `Session`, `Effects`,
`ImageObservers`, `Delivery`, `EventDispatch`, `Tags`, `TagFiles`, `Documents`,
`DataTransfer`. Next:

| Module | What | Along which lines |
|---|---|---|
| `Scaling` | `PE/scale.c`, `AE/graphics/drawable/drawable.c` as pure operators | clamped scales are in range; a fitted image fits; against a reference over bounded integers |

`Session` and `ImageCache` can be composed (a close that was consented to is a
release), and `Session`'s question put into `DataTransfer`'s loads. An abstract
specification worth stating for `Effects` is a picture and a list with Apply and Cancel.

## 10. Running it

```
tlc -config cache_safety.cfg MCImageCache
tlc -config cache_full.cfg MCImageCache
tlc -config session_safety.cfg MCSession
tlc -config session_one_answer.cfg MCSession
tlc -config effects_safety.cfg Effects
tlc -config observers_safety.cfg MCImageObservers
tlc -config transfer_safety.cfg MCDataTransfer
tlc -config transfer_overlap.cfg MCDataTransfer
tlc -config transfer_drop.cfg MCDataTransfer
tlc -config dispatch_safety.cfg MCEventDispatch
tlc -config tags_safety.cfg MCTags
tlc -config tagfiles_safety.cfg TagFiles
tlapm ImageCacheProofs.tla
tlapm SessionProofs.tla
tlapm TagFilesProofs.tla
tlapm EffectsProofs.tla
tlapm ImageObserversProofs.tla
tlapm EventDispatchProofs.tla
tlapm TagsProofs.tla
tlapm DataTransferProofs.tla
```

A violation run ends with TLC's counterexample. With two workers `cache_safety` (some
1,840,000 states), `session_safety` (1,140,000), `effects_safety` (2,460,000),
`observers_safety` (4,270,000), `dispatch_safety` (390,000), `tags_safety` (730,000) and
`tagfiles_safety` (2,300,000) take between one and a few minutes each, the others less. Every property also has a *slip*,
named as such next to the definition it stands for: an operator that changes that
definition as a plausible mistake would. `PROJECT.json` lists them under
`mutants`, and with a slip in place TLC finds the property violated.
