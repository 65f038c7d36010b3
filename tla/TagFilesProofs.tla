--------------------------- MODULE TagFilesProofs ---------------------------
(***************************************************************************)
(* Proofs about TagFiles, for any images and tags, and any number of       *)
(* sessions.                                                               *)
(***************************************************************************)
EXTENDS TagFiles, FiniteSetTheorems, SequenceTheorems, TLAPS

(* What is left of Subsystems.                                             *)
Ends == {Subsystems, <<"search", "common">>, <<"common">>, << >>}

(* The variables that are no database.                                     *)
TypesInv ==
  /\ backedUp \in BOOLEAN /\ spoilt \in SUBSET {"copy", "write"}
  /\ opened \subseteq Windows
  /\ refs \in 0 .. Cardinality(opened)
  /\ step \in {"running", "backup", "names", "tags", "ending", "stopped"}
  /\ fins \in Ends
  /\ step = "running" => fins = Subsystems

(* What the two databases know of each other: in memory, on disc, in the   *)
(* copy; and while the names were written and the tags were not. Names are *)
(* never taken back, so those on disc are known.                           *)
NamesInv ==
  /\ store \in Databases /\ disk \in Databases /\ backup \in Databases
  /\ found \in Databases /\ unnamed \subseteq Images
  /\ Tagged(store) \subseteq store.names \cup unnamed
  /\ disk.names \subseteq store.names
  /\ step = "tags" => store.names \subseteq disk.names \cup unnamed
  /\ OnDiskNamed
  /\ BackupIsConsistent

(* Until a copy is made, or fails to be, nothing is written.               *)
CopyInv ==
  /\ (~ backedUp /\ "copy" \notin spoilt) => disk = found
  /\ step \in {"names", "tags"} => backedUp \/ "copy" \in spoilt
  /\ BackupIsOfStart

(* Once nobody uses the databases, and they are not being written, they    *)
(* are as on disc.                                                         *)
EndInv ==
  /\ fins = << >> => refs = 0
  /\ (step = "tags" /\ "write" \notin spoilt) => disk.names = store.names
  /\ (/\ refs = 0 /\ "write" \notin spoilt
      /\ step \in {"running", "ending"} \/ (step = "stopped" /\ fins = << >>))
       => disk = store

(* The inductive invariant.                                                *)
IInv == TypesInv /\ NamesInv /\ CopyInv /\ EndInv

-----------------------------------------------------------------------------
(* Facts about the definitions *)

(* One subsystem is finalised: the last leaves none.                       *)
LEMMA EndsShrink ==
  ASSUME NEW f \in Ends, f # << >>
  PROVE  /\ Head(f) \in {"tags", "search", "common"}
         /\ Tail(f) \in Ends
         /\ Tail(f) # Subsystems
         /\ Tail(f) = << >> => Head(f) = "common"
<1>1. CASE f = Subsystems
  <2>1. Head(f) = "tags" /\ Tail(f) = <<"search", "common">>
    BY <1>1 DEF Subsystems
  <2>2. Tail(f) # Subsystems /\ Tail(f) # << >>
    BY <2>1 DEF Subsystems
  <2> QED
    BY <2>1, <2>2 DEF Ends
<1>2. CASE f = <<"search", "common">>
  <2>1. Head(f) = "search" /\ Tail(f) = <<"common">>
    BY <1>2
  <2>2. Tail(f) # Subsystems /\ Tail(f) # << >>
    BY <2>1 DEF Subsystems
  <2> QED
    BY <2>1, <2>2 DEF Ends
<1>3. CASE f = <<"common">>
  <2>1. Head(f) = "common" /\ Tail(f) = << >>
    BY <1>3
  <2>2. Tail(f) # Subsystems
    BY <2>1 DEF Subsystems
  <2> QED
    BY <2>1, <2>2 DEF Ends
<1> QED
  BY <1>1, <1>2, <1>3 DEF Ends

LEMMA WindowsFinite ==
  ASSUME NEW S \in SUBSET Windows
  PROVE  IsFiniteSet(S) /\ Cardinality(S) \in Nat
<1>1. IsFiniteSet({} \cup {"tags"})
  BY FS_EmptySet, FS_AddElement
<1>2. IsFiniteSet(({} \cup {"tags"}) \cup {"search"})
  BY <1>1, FS_AddElement
<1>3. ({} \cup {"tags"}) \cup {"search"} = Windows
  BY DEF Windows
<1>4. IsFiniteSet(Windows)
  BY <1>2, <1>3
<1> QED
  BY <1>4, FS_Subset, FS_CardinalityType

(* Images lose tags when marks go.                                         *)
LEMMA TaggedShrinks ==
  ASSUME NEW a, NEW b, b.marks \subseteq a.marks
  PROVE  Tagged(b) \subseteq Tagged(a)
BY DEF Tagged

LEMMA TaggedSame ==
  ASSUME NEW a, NEW b, b.marks = a.marks
  PROVE  Tagged(b) = Tagged(a)
BY DEF Tagged

LEMMA SameDatabase ==
  ASSUME NEW a \in Databases, NEW b \in Databases, a.marks = b.marks, a.names = b.names
  PROVE  a = b
BY DEF Databases

LEMMA IInvImplies ==
  IInv => TypeOK /\ OnDiskNamed /\ BackupIsConsistent /\ BackupIsOfStart /\ EndSaves
<1> SUFFICES ASSUME IInv PROVE TypeOK /\ EndSaves /\ OnDiskNamed /\ BackupIsConsistent /\ BackupIsOfStart
  OBVIOUS
<1>1. TypeOK
  BY DEF IInv, TypesInv, NamesInv, TypeOK, Ends
<1>2. EndSaves
  BY DEF IInv, EndInv, EndSaves
<1> QED
  BY <1>1, <1>2 DEF IInv, NamesInv, CopyInv

LEMMA InitInv == Init => IInv
<1> SUFFICES ASSUME Init PROVE IInv
  OBVIOUS
<1> USE DEF Init
<1>1. TypesInv
  <2>1. opened = {} /\ Cardinality(opened) = 0
    BY FS_EmptySet
  <2>2. fins \in Ends
    BY DEF Ends
  <2>3. refs \in 0 .. Cardinality(opened)
    BY <2>1
  <2>4. step = "running" /\ fins = Subsystems /\ backedUp \in BOOLEAN /\ spoilt = {}
    OBVIOUS
  <2> HIDE DEF Init
  <2> QED
    BY <2>1, <2>2, <2>3, <2>4 DEF TypesInv
<1>2. NamesInv
  BY DEF NamesInv, Databases, Nothing, Tagged, OnDiskNamed, BackupIsConsistent
<1>3. CopyInv
  BY DEF CopyInv, BackupIsOfStart
<1>4. EndInv
  BY DEF EndInv, Subsystems
<1> QED
  BY <1>1, <1>2, <1>3, <1>4 DEF IInv

-----------------------------------------------------------------------------
(* Types, and the copy *)

LEMMA TypesStep == TypesInv /\ [Next]_vars => TypesInv'
<1> SUFFICES ASSUME TypesInv, [Next]_vars PROVE TypesInv'
  OBVIOUS
<1> USE DEF TypesInv
<1>0. Cardinality(opened) \in Nat /\ IsFiniteSet(opened) /\ refs \in Nat
  BY WindowsFinite
<1>1. ASSUME NEW w \in Windows, Open(w) PROVE TypesInv'
  <2>1. Cardinality(opened') = Cardinality(opened) + 1
    BY <1>0, <1>1, FS_AddElement DEF Open
  <2> QED
    BY <1>0, <1>1, <2>1 DEF Open
<1>2. ASSUME NEW img \in Images, NEW t \in Tags, Tag(img, t) \/ Detag(img, t) PROVE TypesInv'
  BY <1>2 DEF Tag, Detag, sessionVars
<1>3. ASSUME NEW t \in Tags, DeleteTag(t) PROVE TypesInv'
  BY <1>3 DEF DeleteTag, sessionVars
<1>4. CASE Commit
  BY <1>4 DEF Commit
<1>5. CASE BackUp
  BY <1>5 DEF BackUp
<1>6. CASE Write
  BY <1>6 DEF Write, WriteNames, WriteTags, AfterTags
<1>7. CASE Quit
  BY <1>7 DEF Quit
<1>8. CASE Finalise
  <2> DEFINE s == Head(fins)
  <2>1. s \in {"tags", "search", "common"} /\ fins' \in Ends
    BY <1>8, EndsShrink DEF Finalise
  <2>2. Cardinality(opened') = IF s \in opened THEN Cardinality(opened) - 1 ELSE Cardinality(opened)
    BY <1>0, <1>8, FS_RemoveElement DEF Finalise
  <2>3. opened' \subseteq Windows /\ Cardinality(opened') \in Nat
    BY <1>8, WindowsFinite DEF Finalise
  <2>4. refs' = RefsAfter(s)
    BY <1>8 DEF Finalise
  <2>5. refs' \in 0 .. Cardinality(opened')
    <3>1. CASE s = "common"
      <4>1. s \notin opened
        BY <3>1 DEF Windows
      <4>2. refs' = 0
        BY <2>4, <3>1, <4>1 DEF RefsAfter
      <4> QED
        BY <2>3, <4>2
    <3>2. CASE s # "common" /\ s \in opened /\ refs > 0
      BY <1>0, <2>2, <2>4, <3>2 DEF RefsAfter
    <3>3. CASE s # "common" /\ s \notin opened
      <4>1. refs' = refs
        BY <2>4, <3>3 DEF RefsAfter
      <4> QED
        BY <1>0, <2>2, <3>3, <4>1
    <3>4. CASE s # "common" /\ ~ refs > 0
      <4>1. refs' = refs /\ refs = 0
        BY <1>0, <2>4, <3>4 DEF RefsAfter
      <4> QED
        BY <2>3, <4>1
    <3> QED
      BY <3>1, <3>2, <3>3, <3>4
  <2>6. step' \in {"backup", "ending"} /\ UNCHANGED <<backedUp, spoilt>>
    BY <1>8 DEF Finalise
  <2> QED
    BY <2>1, <2>3, <2>5, <2>6
<1>9. CASE End
  BY <1>9 DEF End
<1>10. CASE Crash
  BY <1>10 DEF Crash, Ends, Subsystems
<1>11. CASE Restart
  <2>1. opened' = {} /\ Cardinality(opened') = 0
    BY <1>11, FS_EmptySet DEF Restart
  <2>2. fins' \in Ends
    BY <1>11 DEF Restart, Ends
  <2>3. refs' \in 0 .. Cardinality(opened')
    BY <1>11, <2>1 DEF Restart
  <2>4. step' = "running" /\ fins' = Subsystems /\ backedUp' \in BOOLEAN /\ spoilt' = {}
    BY <1>11 DEF Restart
  <2> QED
    BY <2>1, <2>2, <2>3, <2>4
<1>12. CASE UNCHANGED vars
  BY <1>12 DEF vars, sessionVars
<1> QED
  BY <1>1, <1>2, <1>3, <1>4, <1>5, <1>6, <1>7, <1>8, <1>9, <1>10, <1>11, <1>12 DEF Next

(* backup: what is copied is what was found.                               *)
LEMMA CopyStep == CopyInv /\ [Next]_vars => CopyInv'
<1> SUFFICES ASSUME CopyInv, [Next]_vars PROVE CopyInv'
  OBVIOUS
<1> USE DEF CopyInv, BackupIsOfStart
<1>1. ASSUME NEW w \in Windows, Open(w) PROVE CopyInv'
  BY <1>1 DEF Open
<1>2. ASSUME NEW img \in Images, NEW t \in Tags, Tag(img, t) \/ Detag(img, t) PROVE CopyInv'
  BY <1>2 DEF Tag, Detag, sessionVars
<1>3. ASSUME NEW t \in Tags, DeleteTag(t) PROVE CopyInv'
  BY <1>3 DEF DeleteTag, sessionVars
<1>4. CASE Commit
  BY <1>4 DEF Commit
<1>5. CASE BackUp
  BY <1>5 DEF BackUp
<1>6. CASE Write
  BY <1>6 DEF Write, WriteNames, WriteTags, AfterTags
<1>7. CASE Quit \/ End \/ Crash
  BY <1>7 DEF Quit, End, Crash
<1>8. CASE Finalise
  BY <1>8 DEF Finalise
<1>9. CASE Restart
  BY <1>9 DEF Restart
<1>10. CASE UNCHANGED vars
  BY <1>10 DEF vars, sessionVars
<1> QED
  BY <1>1, <1>2, <1>3, <1>4, <1>5, <1>6, <1>7, <1>8, <1>9, <1>10 DEF Next

-----------------------------------------------------------------------------
(* The names *)

(* What NamesInv says of the databases' types, kept by each step.          *)
LEMMA DatabaseParts ==
  ASSUME NEW db \in Databases
  PROVE  /\ db = [marks |-> db.marks, names |-> db.names]
         /\ db.marks \subseteq Images \X Tags /\ db.names \subseteq Images
BY DEF Databases

LEMMA Database ==
  ASSUME NEW m \in SUBSET (Images \X Tags), NEW n \in SUBSET Images
  PROVE  [marks |-> m, names |-> n] \in Databases
BY DEF Databases

(* tags_common_tag: the tag and the name, or the name is missing.          *)
LEMMA TagNames ==
  ASSUME NamesInv, NEW img \in Images, NEW t \in Tags, Tag(img, t)
  PROVE  NamesInv'
<1> USE DEF NamesInv
<1>1. PICK named \in BOOLEAN :
        /\ store' = [marks |-> store.marks \cup {<<img, t>>},
                     names |-> IF named THEN store.names \cup {img} ELSE store.names]
        /\ unnamed' = IF img \in store'.names THEN unnamed ELSE unnamed \cup {img}
  BY DEF Tag
<1>2. /\ store'.marks = store.marks \cup {<<img, t>>}
      /\ store'.names \in {store.names, store.names \cup {img}}
  BY <1>1
<1>3. unnamed \subseteq unnamed' /\ unnamed' \subseteq Images
  BY <1>1
<1>4. img \in store'.names \cup unnamed'
  BY <1>1
<1>5. store' \in Databases
  <2>1. /\ store.marks \cup {<<img, t>>} \in SUBSET (Images \X Tags)
        /\ (IF named THEN store.names \cup {img} ELSE store.names) \in SUBSET Images
    BY DatabaseParts
  <2> QED
    BY <1>1, <2>1, Database
<1>6. Tagged(store') = Tagged(store) \cup {img}
  <2>1. store'.marks = store.marks \cup {<<img, t>>}
    BY <1>2
  <2>2. <<img, t>>[1] = img
    OBVIOUS
  <2> HIDE DEF NamesInv
  <2> QED
    BY <2>1, <2>2 DEF Tagged
<1>7. UNCHANGED <<disk, backup, backedUp, found>> /\ step' # "tags"
  BY DEF Tag, sessionVars
<1>8. Tagged(store)' \subseteq store'.names \cup unnamed'
  BY <1>2, <1>3, <1>4, <1>6 DEF Tagged
<1>9. OnDiskNamed' /\ BackupIsConsistent'
  BY <1>3, <1>7 DEF OnDiskNamed, BackupIsConsistent, Tagged
<1> QED
  BY <1>2, <1>3, <1>5, <1>7, <1>8, <1>9

(* Marks are taken from the database in memory: detag and delete.          *)
LEMMA UntagNames ==
  ASSUME NamesInv, NEW m \in SUBSET store.marks, store' = [store EXCEPT !.marks = m],
         step' # "tags", UNCHANGED <<disk, backup, backedUp, found, unnamed>>
  PROVE  NamesInv'
<1> USE DEF NamesInv
<1>1. store' = [marks |-> m, names |-> store.names]
  BY DatabaseParts
<1>2. store' \in Databases
  BY <1>1, DatabaseParts, Database
<1>3. store'.marks \subseteq store.marks /\ store'.names = store.names
  BY <1>1
<1>4. Tagged(store') \subseteq Tagged(store)
  BY <1>3, TaggedShrinks
<1>5. OnDiskNamed' /\ BackupIsConsistent'
  BY DEF OnDiskNamed, BackupIsConsistent, Tagged
<1> QED
  BY <1>2, <1>3, <1>4, <1>5 DEF Tagged

(* filenamedb_commit: the names that a search will look for are there      *)
(* before the tags.                                                        *)
LEMMA WriteNamesStep ==
  ASSUME NamesInv, WriteNames("names", "tags")
  PROVE  NamesInv'
<1> USE DEF NamesInv
<1>1. UNCHANGED <<store, backup, backedUp, found>>
  BY DEF WriteNames
<1>2. CASE disk' = [disk EXCEPT !.names = store.names] /\ UNCHANGED unnamed
  <2>1. disk' = [marks |-> disk.marks, names |-> store.names]
    BY <1>2, DatabaseParts
  <2>2. disk' \in Databases
    BY <2>1, DatabaseParts, Database
  <2>3. disk'.names = store.names /\ Tagged(disk') = Tagged(disk)
    BY <2>1, TaggedSame
  <2> QED
    BY <1>1, <1>2, <2>2, <2>3 DEF OnDiskNamed, BackupIsConsistent, Tagged
<1>3. CASE unnamed' = unnamed \cup (store.names \ disk.names) /\ UNCHANGED disk
  <2>1. unnamed' \subseteq Images /\ unnamed \subseteq unnamed'
    BY <1>3, DatabaseParts
  <2> QED
    BY <1>1, <1>3, <2>1 DEF OnDiskNamed, BackupIsConsistent, Tagged
<1> QED
  BY <1>2, <1>3 DEF WriteNames

(* tagdb_commit                                                            *)
LEMMA WriteTagsStep ==
  ASSUME NamesInv, WriteTags("tags", AfterTags)
  PROVE  NamesInv'
<1> USE DEF NamesInv
<1>1. UNCHANGED <<store, backup, backedUp, found, unnamed>>
  BY DEF WriteTags
<1>2. step = "tags" /\ step' # "tags"
  BY DEF WriteTags, AfterTags
<1>3. CASE disk' = [disk EXCEPT !.marks = store.marks]
  <2>1. disk' = [marks |-> store.marks, names |-> disk.names]
    BY <1>3, DatabaseParts
  <2>2. disk' \in Databases
    BY <2>1, DatabaseParts, Database
  <2>3. disk'.names = disk.names /\ Tagged(disk') = Tagged(store)
    BY <2>1, TaggedSame
  <2> QED
    BY <1>1, <1>2, <2>2, <2>3 DEF OnDiskNamed, BackupIsConsistent, Tagged
<1>4. CASE UNCHANGED disk
  BY <1>1, <1>2, <1>4 DEF OnDiskNamed, BackupIsConsistent, Tagged
<1> QED
  BY <1>3, <1>4 DEF WriteTags

(* backup: a whole copy is of two files which go together.                 *)
LEMMA BackUpNames ==
  ASSUME NamesInv, BackUp
  PROVE  NamesInv'
<1> USE DEF NamesInv
<1>1. UNCHANGED <<store, disk, found, unnamed>> /\ step' = "names"
  BY DEF BackUp
<1>2. backup' \in Databases /\ BackupIsConsistent'
  <2>1. CASE backedUp /\ UNCHANGED <<backup, backedUp>>
    BY <1>1, <2>1 DEF BackupIsConsistent, Tagged
  <2>2. CASE backup' = disk
    BY <1>1, <2>2 DEF BackupIsConsistent, OnDiskNamed, Tagged
  <2>3. CASE ~ backedUp /\ UNCHANGED backedUp /\ backup' \in {backup, [backup EXCEPT !.marks = disk.marks]}
    <3>1. [backup EXCEPT !.marks = disk.marks] = [marks |-> disk.marks, names |-> backup.names]
      BY DatabaseParts
    <3>2. [backup EXCEPT !.marks = disk.marks] \in Databases
      BY <3>1, DatabaseParts, Database
    <3> QED
      BY <2>3, <3>2 DEF BackupIsConsistent
  <2> QED
    BY <2>1, <2>2, <2>3 DEF BackUp
<1> QED
  BY <1>1, <1>2 DEF OnDiskNamed, Tagged

LEMMA NamesStep == NamesInv /\ [Next]_vars => NamesInv'
<1> SUFFICES ASSUME NamesInv, [Next]_vars PROVE NamesInv'
  OBVIOUS
<1>1. ASSUME UNCHANGED <<store, disk, backup, backedUp, found, unnamed>>, step' = "tags" => step = "tags"
      PROVE  NamesInv'
  BY <1>1 DEF NamesInv, OnDiskNamed, BackupIsConsistent, Tagged
<1>2. CASE \E w \in Windows : Open(w)
  BY <1>1, <1>2 DEF Open
<1>3. ASSUME NEW img \in Images, NEW t \in Tags, Tag(img, t) PROVE NamesInv'
  BY <1>3, TagNames
<1>4. ASSUME NEW img \in Images, NEW t \in Tags, Detag(img, t) PROVE NamesInv'
  <2>1. /\ store' = [store EXCEPT !.marks = store.marks \ {<<img, t>>}]
        /\ step' # "tags" /\ UNCHANGED <<disk, backup, backedUp, found, unnamed>>
    BY <1>4 DEF Detag, sessionVars
  <2> QED
    BY <2>1, UntagNames
<1>5. ASSUME NEW t \in Tags, DeleteTag(t) PROVE NamesInv'
  <2>1. /\ store' = [store EXCEPT !.marks = { m \in store.marks : m[2] # t }]
        /\ step' # "tags" /\ UNCHANGED <<disk, backup, backedUp, found, unnamed>>
    BY <1>5 DEF DeleteTag, sessionVars
  <2> QED
    BY <2>1, UntagNames
<1>6. CASE Commit \/ Quit \/ End \/ Crash
  BY <1>1, <1>6 DEF Commit, Quit, End, Crash
<1>7. CASE BackUp
  BY <1>7, BackUpNames
<1>8. CASE Write
  BY <1>8, WriteNamesStep, WriteTagsStep DEF Write
<1>9. CASE Finalise
  BY <1>1, <1>9 DEF Finalise
<1>10. CASE Restart
  BY <1>10 DEF Restart, NamesInv, OnDiskNamed, BackupIsConsistent, Tagged
<1>11. CASE UNCHANGED vars
  BY <1>1, <1>11 DEF vars, sessionVars
<1> QED
  BY <1>2, <1>3, <1>4, <1>5, <1>6, <1>7, <1>8, <1>9, <1>10, <1>11 DEF Next

-----------------------------------------------------------------------------
(* The end *)

(* Whoever takes the count of users to 0 has the databases written.        *)
LEMMA EndStep == TypesInv /\ NamesInv /\ EndInv /\ [Next]_vars => EndInv'
<1> SUFFICES ASSUME TypesInv, NamesInv, EndInv, [Next]_vars PROVE EndInv'
  OBVIOUS
<1>0. refs \in Nat
  BY WindowsFinite DEF TypesInv
<1> USE DEF EndInv
<1>1. ASSUME NEW w \in Windows, Open(w) PROVE EndInv'
  <2>1. refs' # 0 \/ refs = 0
    BY <1>0, <1>1 DEF Open
  <2>2. fins' = Subsystems /\ fins' # << >>
    BY <1>1 DEF Open, TypesInv, Subsystems
  <2> QED
    BY <1>1, <2>1, <2>2 DEF Open
<1>2. ASSUME NEW img \in Images, NEW t \in Tags, Tag(img, t) \/ Detag(img, t) PROVE EndInv'
  BY <1>0, <1>2 DEF Tag, Detag, sessionVars
<1>3. ASSUME NEW t \in Tags, DeleteTag(t) PROVE EndInv'
  BY <1>0, <1>3 DEF DeleteTag, sessionVars
<1>4. CASE Commit
  BY <1>0, <1>4 DEF Commit
<1>5. CASE BackUp
  BY <1>5 DEF BackUp
<1>6. CASE WriteNames("names", "tags")
  <2>1. ASSUME "write" \notin spoilt' PROVE disk'.names = store'.names
    <3>1. disk' = [disk EXCEPT !.names = store.names] /\ UNCHANGED store
      BY <1>6, <2>1 DEF WriteNames
    <3> QED
      BY <3>1, DatabaseParts DEF NamesInv
  <2> QED
    BY <1>6, <2>1 DEF WriteNames
<1>7. CASE WriteTags("tags", AfterTags)
  <2>1. ASSUME "write" \notin spoilt' PROVE disk' = store'
    <3>1. /\ disk' = [disk EXCEPT !.marks = store.marks] /\ UNCHANGED <<store, spoilt>>
          /\ disk.names = store.names
      BY <1>7, <2>1 DEF WriteTags
    <3>2. disk' = [marks |-> store.marks, names |-> store.names]
      BY <3>1, DatabaseParts DEF NamesInv
    <3> QED
      BY <3>1, <3>2, DatabaseParts DEF NamesInv
  <2> QED
    BY <1>7, <2>1 DEF WriteTags, AfterTags
<1>8. CASE Quit
  BY <1>8 DEF Quit
<1>9. CASE Finalise
  <2> DEFINE s == Head(fins)
  <2>1. Tail(fins) = << >> => s = "common"
    BY <1>9, EndsShrink DEF Finalise, TypesInv
  <2>2. fins' = Tail(fins) /\ refs' = RefsAfter(s)
    BY <1>9 DEF Finalise
  <2>3. s = "common" => refs' = 0
    <3>1. s = "common" => s \notin opened
      BY DEF TypesInv, Windows
    <3> QED
      BY <2>2, <3>1 DEF RefsAfter
  <2>4. refs = 0 => refs' = 0
    <3>1. ASSUME refs = 0 PROVE RefsAfter(s) = 0
      BY <3>1 DEF RefsAfter
    <3> QED
      BY <2>2, <3>1
  <2>5. /\ step' = IF refs > 0 /\ refs' = 0 THEN "backup" ELSE "ending"
        /\ step = "ending" /\ UNCHANGED <<store, disk, spoilt>>
    BY <1>9 DEF Finalise
  <2> QED
    BY <1>0, <2>1, <2>2, <2>3, <2>4, <2>5
<1>10. CASE End
  BY <1>10 DEF End
<1>11. CASE Crash
  BY <1>11 DEF Crash, Subsystems
<1>12. CASE Restart
  BY <1>12 DEF Restart, Subsystems
<1>13. CASE UNCHANGED vars
  BY <1>13 DEF vars, sessionVars
<1> QED
  BY <1>1, <1>2, <1>3, <1>4, <1>5, <1>6, <1>7, <1>8, <1>9, <1>10, <1>11, <1>12, <1>13 DEF Next, Write

-----------------------------------------------------------------------------
(* Theorems *)

THEOREM Invariance == Spec => []IInv
<1>1. IInv /\ [Next]_vars => IInv'
  BY TypesStep, NamesStep, CopyStep, EndStep DEF IInv
<1> QED
  BY InitInv, <1>1, PTL DEF Spec

(* tags-common.c: types.                                                   *)
THEOREM TypeCorrect == Spec => []TypeOK
BY Invariance, IInvImplies, PTL

(* tags-common.c:295: wherever the program stops, a search finds the file  *)
(* of each image that has tags on disc, unless naming it failed.           *)
THEOREM TaggedAreNamed == Spec => []OnDiskNamed
BY Invariance, IInvImplies, PTL

(* tags-common.c:110: a copy that counts is of two files which go together.*)
THEOREM CopiesGoTogether == Spec => []BackupIsConsistent
BY Invariance, IInvImplies, PTL

(* tags-common.c:96: however often the databases are written, the copy is  *)
(* of what they held when the session began.                               *)
THEOREM CopiesAreOfTheStart == Spec => []BackupIsOfStart
BY Invariance, IInvImplies, PTL

(* tags-common.c:649: an end in order saves, whichever windows were opened.*)
THEOREM NothingUnsaved == Spec => []EndSaves
BY Invariance, IInvImplies, PTL
=============================================================================
