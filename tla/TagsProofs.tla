----------------------------- MODULE TagsProofs -----------------------------
(***************************************************************************)
(* Proofs about Tags, for any images and any number of tags.               *)
(***************************************************************************)
EXTENDS Tags, FiniteSetTheorems, TLAPS

-----------------------------------------------------------------------------
(* The inductive invariant *)

(* A cloud shows what its table lists, as long as that is there, which it  *)
(* is only in a window that could be made.                                 *)
Fits(c) ==
  /\ c \in Clouds
  /\ c.map # Null => c.nmap = Cardinality(c.map) /\ c.shown = c.map
  /\ c.made # "yes" => c.map = Null /\ ~ c.open

Variables ==
  /\ next \in 0 .. MaxTags /\ tags \subseteq 0 .. next - 1
  /\ marks \subseteq Images \X tags
  /\ image \in Images \cup {None} /\ titled \in Images \cup {None}
  /\ shaded \in BOOLEAN
  /\ menu \in [of: Windows, kind: {"menu", "name"}, about: Ids \cup {NoTag}] \cup {NoMenu}
  /\ asked \in Ids \cup {NoTag}
  /\ behind \subseteq {"title", "lit"}
  /\ undefined \in BOOLEAN

(* The place that is remembered of a menu is that of the tag it was opened *)
(* on, or forgotten, or the table is lost.                                 *)
Remembers(c, id) == c.map # Null /\ c.menued >= 0 => id = At(c.map, c.menued)

LitPlaces(T, M, img) == { PositionOf(T, id) : id \in TagsOf(M, img) }

(* A window which missed nothing lists the tags there are, and highlights  *)
(* those of the image.                                                     *)
Tells(c, T, M, img) == c.map = T /\ (img # None => c.lit = LitPlaces(T, M, img))

Informed ==
  cloud["tags"].made = "yes" /\ "lit" \notin behind
    => Tells(cloud["tags"], tags, marks, image)

IInv ==
  /\ Variables
  /\ cloud \in [Windows -> Clouds]
  /\ \A w \in Windows : Fits(cloud[w]) /\ (menu.of = w => cloud[w].made = "yes")
  /\ Remembers(cloud["tags"], asked)
  /\ menu.of = "search" => Remembers(cloud["search"], menu.about)
  /\ Informed
  /\ TitleIsTarget

-----------------------------------------------------------------------------
(* Tables                                                                  *)

LEMMA NullIsNoTable ==
  /\ MaxTags \in Nat \ {0} /\ Ids \subseteq Nat
  /\ MaxTags \notin Ids
  /\ \A T \in SUBSET Ids : T # Null
BY TagsAssumption DEF Ids, Null

LEMMA TableIsFinite ==
  ASSUME NEW T \in SUBSET Ids
  PROVE  IsFiniteSet(T) /\ Cardinality(T) \in Nat /\ Cardinality(T) <= MaxTags
<1>1. IsFiniteSet(Ids) /\ Cardinality(Ids) = MaxTags
  <2>1. 0 \in Int /\ MaxTags - 1 \in Int
    BY NullIsNoTable
  <2>2. /\ IsFiniteSet(0 .. MaxTags - 1)
        /\ Cardinality(0 .. MaxTags - 1) =
             IF 0 > MaxTags - 1 THEN 0 ELSE (MaxTags - 1) - 0 + 1
    BY <2>1, FS_Interval
  <2> QED
    BY <2>2, NullIsNoTable DEF Ids
<1> QED
  BY <1>1, FS_Subset, FS_CardinalityType

(* Tags are in the order of their numbers.                                 *)
LEMMA PositionsGrow ==
  ASSUME NEW T \in SUBSET Ids, NEW id \in T
  PROVE  /\ PositionOf(T, id) \in Nat /\ PositionOf(T, id) < Cardinality(T)
         /\ \A j \in T : j < id => PositionOf(T, j) < PositionOf(T, id)
<1>1. T \subseteq Nat /\ IsFiniteSet(T) /\ Cardinality(T) \in Nat
  BY NullIsNoTable, TableIsFinite
<1> DEFINE B == Before(T, id)
<1>2. B \in SUBSET T /\ id \notin B
  BY <1>1 DEF Before
<1>3. IsFiniteSet(B) /\ Cardinality(B) \in Nat
  BY <1>1, <1>2, FS_Subset, FS_CardinalityType
<1>4. Cardinality(B) <= Cardinality(T) /\ Cardinality(T) # Cardinality(B)
  BY <1>1, <1>2, FS_Subset
<1>5. ASSUME NEW j \in T, j < id
      PROVE  PositionOf(T, j) < PositionOf(T, id)
  <2> DEFINE A == Before(T, j)
  <2>1. A \in SUBSET B /\ j \notin A /\ j \in B
    <3>1. j \in Nat /\ id \in Nat /\ ~ (j < j) /\ \A x \in T : x < j => x < id
      BY <1>1, <1>5
    <3> QED
      BY <1>5, <3>1 DEF Before
  <2>2. IsFiniteSet(A) /\ Cardinality(A) \in Nat
    BY <1>3, <2>1, FS_Subset, FS_CardinalityType
  <2>3. Cardinality(A) <= Cardinality(B) /\ Cardinality(B) # Cardinality(A)
    BY <1>3, <2>1, FS_Subset
  <2> QED
    BY <1>3, <2>2, <2>3 DEF PositionOf
<1> QED
  BY <1>1, <1>3, <1>4, <1>5 DEF PositionOf

(* Every place of a table has its tag: as many places as tags, and no two  *)
(* of these at one.                                                        *)
LEMMA AtProperties ==
  ASSUME NEW T \in SUBSET Ids, NEW i \in Positions(T)
  PROVE  /\ At(T, i) \in T
         /\ \A id \in T : PositionOf(T, id) = i <=> id = At(T, i)
<1> DEFINE n == Cardinality(T)
           f == [id \in T |-> PositionOf(T, id)]
<1>1. T \subseteq Nat /\ IsFiniteSet(T) /\ n \in Nat
  BY NullIsNoTable, TableIsFinite
<1>2. \A id \in T : /\ PositionOf(T, id) \in Nat /\ PositionOf(T, id) < n
                    /\ \A j \in T : j < id => PositionOf(T, j) < PositionOf(T, id)
  BY PositionsGrow
<1>3. \A j, id \in T : PositionOf(T, j) = PositionOf(T, id) => j = id
  <2>1. ASSUME NEW j \in T, NEW id \in T, PositionOf(T, j) = PositionOf(T, id), j # id
        PROVE  FALSE
    <3>1. j < id \/ id < j
      BY <1>1, <2>1
    <3>2. PositionOf(T, j) < PositionOf(T, id) \/ PositionOf(T, id) < PositionOf(T, j)
      BY <1>2, <3>1
    <3> QED
      BY <1>2, <2>1, <3>2
  <2> QED
    BY <2>1
<1>4. IsFiniteSet(0 .. n - 1) /\ Cardinality(0 .. n - 1) = n
  <2>1. 0 \in Int /\ n - 1 \in Int
    BY <1>1
  <2>2. /\ IsFiniteSet(0 .. n - 1)
        /\ Cardinality(0 .. n - 1) = IF 0 > n - 1 THEN 0 ELSE (n - 1) - 0 + 1
    BY <2>1, FS_Interval
  <2> QED
    BY <1>1, <2>2
<1>5. f \in [T -> 0 .. n - 1]
  BY <1>1, <1>2
<1>6. f \in Injection(T, 0 .. n - 1)
  <2>1. \A j, id \in T : f[j] = f[id] => j = id
    BY <1>3
  <2> HIDE DEF f
  <2> QED
    BY <1>5, <2>1 DEF Injection, IsInjective
<1>7. f \in Surjection(T, 0 .. n - 1)
  BY <1>4, <1>6, FS_Injection
<1>8. PICK id \in T : PositionOf(T, id) = i
  <2>1. i \in 0 .. n - 1
    BY DEF Positions
  <2>2. \E id \in T : f[id] = i
    BY <1>7, <2>1 DEF Surjection
  <2> QED
    BY <2>2
<1>9. At(T, i) \in T /\ PositionOf(T, At(T, i)) = i
  BY <1>8 DEF At, PositionOf
<1> QED
  BY <1>3, <1>9

(* What a tag made later does to the places of the others: nothing.        *)
LEMMA LaterTagComesLast ==
  ASSUME NEW T \in SUBSET Ids, NEW n \in Nat, T \subseteq 0 .. n - 1, NEW id \in T
  PROVE  PositionOf(T \cup {n}, id) = PositionOf(T, id)
<1>1. T \subseteq Nat /\ id \in Nat /\ ~ (n < id)
  BY NullIsNoTable
<1>2. Before(T \cup {n}, id) = Before(T, id)
  BY <1>1 DEF Before
<1> QED
  BY <1>2 DEF PositionOf

-----------------------------------------------------------------------------
(* What setting tags and highlights does to a cloud                        *)

LEMMA CloudTypes ==
  ASSUME NEW c \in Clouds
  PROVE  /\ c.made \in {"no", "broken", "yes"} /\ c.open \in BOOLEAN
         /\ c.map = Null \/ c.map \in SUBSET Ids
         /\ c.nmap \in 0 .. MaxTags /\ c.shown \in SUBSET Ids
         /\ c.lit \in SUBSET (0 .. MaxTags) /\ c.menued \in -1 .. MaxTags - 1
BY DEF Clouds

(* Once it was set, a table is the new one or none, no place is remembered *)
(* but of one that is lost, and success means the new one.                 *)
Becomes(o, c, T) ==
  /\ o.ok \in BOOLEAN /\ o.c \in Clouds
  /\ o.c.made = c.made /\ o.c.open = c.open
  /\ o.c.map # Null =>
       /\ o.c.map = T /\ o.c.nmap = Cardinality(T) /\ o.c.shown = T
       /\ o.c.menued = -1
  /\ o.ok => o.c.map # Null

LEMMA SetTagsProperties ==
  ASSUME NEW c \in Clouds, NEW T \in SUBSET Ids, NEW o \in SetTags(c, T)
  PROVE  Becomes(o, c, T) /\ o.c.lit = c.lit
<1>1. /\ Cardinality(T) \in 0 .. MaxTags /\ -1 \in -1 .. MaxTags - 1 /\ T # Null
      /\ {} \in SUBSET Ids
  BY TableIsFinite, NullIsNoTable
<1> DEFINE a == [c EXCEPT !.map = T, !.nmap = Cardinality(T), !.shown = T, !.menued = -1]
           b == [c EXCEPT !.map = Null]
           d == [c EXCEPT !.map = Null, !.shown = {}]
<1>2. \/ o.c = a /\ o.ok = TRUE
      \/ o.c = b /\ o.ok = FALSE
      \/ o.c = d /\ o.ok = FALSE
  BY DEF SetTags
<1>3. /\ a \in Clouds /\ a.map = T /\ a.nmap = Cardinality(T) /\ a.shown = T
      /\ a.menued = -1 /\ a.made = c.made /\ a.open = c.open /\ a.lit = c.lit
  BY <1>1 DEF Clouds
<1>4. b \in Clouds /\ b.map = Null /\ b.made = c.made /\ b.open = c.open /\ b.lit = c.lit
  BY <1>1 DEF Clouds
<1>5. d \in Clouds /\ d.map = Null /\ d.made = c.made /\ d.open = c.open /\ d.lit = c.lit
  BY <1>1 DEF Clouds
<1> HIDE DEF a, b, d
<1>6. CASE o.c = a /\ o.ok = TRUE
  BY <1>1, <1>3, <1>6 DEF Becomes
<1>7. CASE o.c = b /\ o.ok = FALSE
  BY <1>4, <1>7 DEF Becomes
<1>8. CASE o.c = d /\ o.ok = FALSE
  BY <1>5, <1>8 DEF Becomes
<1> QED
  BY <1>2, <1>6, <1>7, <1>8

LEMMA PlacesType ==
  ASSUME NEW c \in Clouds, NEW ids
  PROVE  Places(c, ids) \in SUBSET (0 .. MaxTags)
<1>1. ASSUME NEW id, c.map # Null, id \in c.map
      PROVE  PositionOf(c.map, id) \in 0 .. MaxTags
  <2>1. c.map \in SUBSET Ids
    BY <1>1, CloudTypes
  <2>2. PICK T \in SUBSET Ids : T = c.map
    BY <2>1
  <2>3. /\ PositionOf(T, id) \in Nat /\ PositionOf(T, id) < Cardinality(T)
        /\ Cardinality(T) \in Nat /\ Cardinality(T) <= MaxTags
    BY <1>1, <2>2, PositionsGrow, TableIsFinite
  <2> QED
    BY <2>2, <2>3, NullIsNoTable
<1>2. c.nmap \in 0 .. MaxTags
  BY CloudTypes
<1> QED
  BY <1>1, <1>2 DEF Places

LEMMA SetHighlightsProperties ==
  ASSUME NEW c \in Clouds, NEW M, NEW img, NEW o \in SetHighlights(c, M, img)
  PROVE  /\ o.ok \in BOOLEAN /\ o.c \in Clouds
         /\ o.c.made = c.made /\ o.c.open = c.open /\ o.c.map = c.map
         /\ o.c.nmap = c.nmap /\ o.c.shown = c.shown /\ o.c.menued = c.menued
         /\ o.ok /\ img # None => o.c.lit = Places(c, TagsOf(M, img))
<1> DEFINE P == Places(c, TagsOf(M, img))
           Lit(L) == [c EXCEPT !.lit = L]
<1>1. P \in SUBSET (0 .. MaxTags)
  BY PlacesType
<1>2. ASSUME NEW L \in SUBSET (0 .. MaxTags)
      PROVE  /\ Lit(L) \in Clouds /\ Lit(L).lit = L
             /\ Lit(L).made = c.made /\ Lit(L).open = c.open /\ Lit(L).map = c.map
             /\ Lit(L).nmap = c.nmap /\ Lit(L).shown = c.shown /\ Lit(L).menued = c.menued
  BY DEF Clouds
<1>3. \/ img = None /\ o.c = c /\ o.ok = TRUE
      \/ o.c = Lit(P) /\ o.ok = TRUE
      \/ o.c = Lit({}) /\ o.ok = FALSE
      \/ o.c = c /\ o.ok = FALSE
  BY DEF SetHighlights
<1> HIDE DEF P, Lit
<1>4. CASE o.c = c /\ o.ok \in BOOLEAN /\ (img = None \/ ~ o.ok)
  BY <1>4
<1>5. CASE o.c = Lit(P) /\ o.ok = TRUE
  BY <1>1, <1>2, <1>5 DEF P
<1>6. CASE o.c = Lit({}) /\ o.ok = FALSE
  <2>1. {} \in SUBSET (0 .. MaxTags)
    OBVIOUS
  <2>2. /\ Lit({}) \in Clouds
        /\ Lit({}).made = c.made /\ Lit({}).open = c.open /\ Lit({}).map = c.map
        /\ Lit({}).nmap = c.nmap /\ Lit({}).shown = c.shown /\ Lit({}).menued = c.menued
    BY <1>2, <2>1
  <2> QED
    BY <1>6, <2>2
<1> QED
  BY <1>3, <1>4, <1>5, <1>6

(* The places of tags which the table lists are theirs in it.              *)
LEMMA PlacesOfListed ==
  ASSUME NEW c \in Clouds, NEW T \in SUBSET Ids, c.map = T, NEW M, NEW img,
         TagsOf(M, img) \subseteq T
  PROVE  Places(c, TagsOf(M, img)) = LitPlaces(T, M, img)
<1>1. c.map # Null
  BY NullIsNoTable
<1>2. \A id \in TagsOf(M, img) :
        (IF c.map # Null /\ id \in c.map THEN PositionOf(c.map, id) ELSE c.nmap)
          = PositionOf(T, id)
  BY <1>1
<1> QED
  BY <1>2 DEF Places, LitPlaces

LEMMA SetBothProperties ==
  ASSUME NEW c \in Clouds, NEW T \in SUBSET Ids, NEW M, NEW img,
         TagsOf(M, img) \subseteq T, NEW o \in SetBoth(c, T, M, img)
  PROVE  Becomes(o, c, T) /\ (o.ok => Tells(o.c, T, M, img))
<1>1. PICK s \in SetTags(c, T) :
        o \in (IF s.ok THEN SetHighlights(s.c, M, img) ELSE {s})
  BY DEF SetBoth
<1>2. Becomes(s, c, T)
  BY <1>1, SetTagsProperties
<1>3. CASE ~ s.ok
  BY <1>1, <1>2, <1>3
<1>4. CASE s.ok
  <2>1. PICK d \in Clouds : d = s.c /\ d.map = T /\ o \in SetHighlights(d, M, img)
    BY <1>1, <1>2, <1>4 DEF Becomes
  <2>2. /\ o.ok \in BOOLEAN /\ o.c \in Clouds
        /\ o.c.made = d.made /\ o.c.open = d.open /\ o.c.map = d.map
        /\ o.c.nmap = d.nmap /\ o.c.shown = d.shown /\ o.c.menued = d.menued
        /\ o.ok /\ img # None => o.c.lit = Places(d, TagsOf(M, img))
    BY <2>1, SetHighlightsProperties
  <2>3. Places(d, TagsOf(M, img)) = LitPlaces(T, M, img)
    BY <2>1, PlacesOfListed
  <2>4. T # Null
    BY NullIsNoTable
  <2> QED
    BY <1>2, <2>1, <2>2, <2>3, <2>4 DEF Becomes, Tells
<1> QED
  BY <1>3, <1>4

-----------------------------------------------------------------------------
(* What leads from the inductive invariant to itself                       *)

LEMMA Clouds2 ==
  ASSUME IInv, NEW w \in Windows
  PROVE  /\ cloud[w] \in Clouds /\ Fits(cloud[w])
         /\ cloud[w].map # Null => cloud[w].map \in SUBSET Ids
         /\ cloud[w].open => cloud[w].made = "yes"
         /\ cloud[w].made # "yes" => cloud[w].map = Null
         /\ menu.of = w => cloud[w].made = "yes"
BY CloudTypes DEF IInv, Fits

(* A cloud which was set, or set and highlighted, remembers no place of a  *)
(* table it has.                                                           *)
Fresh(c) ==
  /\ c \in Clouds /\ c.made = "yes"
  /\ c.map # Null => c.nmap = Cardinality(c.map) /\ c.shown = c.map /\ c.menued = -1

LEMMA CloudWasSet ==
  ASSUME IInv, NEW w \in Windows, NEW d, Fresh(d), cloud' = [cloud EXCEPT ![w] = d],
         menu' \in {menu, NoMenu}, asked' = asked,
         Variables', Informed', TitleIsTarget'
  PROVE  IInv'
<1>1. cloud \in [Windows -> Clouds] /\ d \in Clouds
  BY DEF IInv, Fresh
<1>2. /\ cloud' \in [Windows -> Clouds]
      /\ cloud'[w] = d /\ \A v \in Windows \ {w} : cloud'[v] = cloud[v]
  BY <1>1
<1>3. Fits(d) /\ d.made = "yes" /\ \A id : Remembers(d, id)
  BY DEF Fresh, Fits, Remembers
<1>4. menu' = menu \/ \A v \in Windows : menu'.of # v
  BY DEF Windows, NoMenu
<1>5. /\ \A v \in Windows : Fits(cloud[v]) /\ (menu.of = v => cloud[v].made = "yes")
      /\ Remembers(cloud["tags"], asked)
      /\ menu.of = "search" => Remembers(cloud["search"], menu.about)
  BY DEF IInv
<1>6. "tags" \in Windows /\ "search" \in Windows
  BY DEF Windows
<1>7. \A v \in Windows : Fits(cloud'[v]) /\ (menu'.of = v => cloud'[v].made = "yes")
  BY <1>2, <1>3, <1>4, <1>5
<1>8. Remembers(cloud'["tags"], asked')
  BY <1>2, <1>3, <1>5, <1>6
<1>9. menu'.of = "search" => Remembers(cloud'["search"], menu'.about)
  BY <1>2, <1>3, <1>4, <1>5, <1>6
<1> QED
  BY <1>2, <1>7, <1>8, <1>9 DEF IInv, Fits, Remembers

(* The tables stay as they are, and so does what is known of menus.        *)
LEMMA TablesStay ==
  ASSUME IInv, cloud' \in [Windows -> Clouds],
         \A v \in Windows :
           /\ Fits(cloud'[v])
           /\ cloud'[v].map = cloud[v].map /\ cloud'[v].menued = cloud[v].menued
           /\ menu'.of = v => cloud'[v].made = "yes",
         asked' = asked,
         menu'.of = "search" => menu.of = "search" /\ menu'.about = menu.about,
         Variables', Informed', TitleIsTarget'
  PROVE  IInv'
<1>1. /\ Remembers(cloud["tags"], asked)
      /\ menu.of = "search" => Remembers(cloud["search"], menu.about)
      /\ "tags" \in Windows /\ "search" \in Windows
  BY DEF IInv, Windows
<1>2. /\ Remembers(cloud'["tags"], asked')
      /\ menu'.of = "search" => Remembers(cloud'["search"], menu'.about)
  BY <1>1 DEF Remembers
<1> QED
  BY <1>2 DEF IInv, Fits, Remembers

LEMMA StraysStep ==
  ASSUME IInv, Strays
  PROVE  IInv'
<1>1. /\ undefined' = TRUE /\ tags' = tags /\ next' = next /\ marks' = marks
      /\ cloud' = cloud /\ image' = image /\ titled' = titled /\ shaded' = shaded
      /\ behind' = behind /\ menu' = menu /\ asked' = asked
  BY DEF Strays, dbVars, tagsVars, menuVars
<1>2. Variables' /\ Informed' /\ TitleIsTarget'
  BY <1>1 DEF IInv, Variables, Informed, TitleIsTarget
<1> QED
  BY <1>1, <1>2 DEF IInv, Remembers, Fits

LEMMA BecomesFresh ==
  ASSUME NEW c \in Clouds, c.made = "yes", NEW T \in SUBSET Ids, NEW o, Becomes(o, c, T)
  PROVE  /\ Fresh(o.c) /\ (o.ok => o.c.map = T)
         /\ \A b \in BOOLEAN :
              /\ Fresh([o.c EXCEPT !.open = b])
              /\ [o.c EXCEPT !.open = b].map = o.c.map
              /\ [o.c EXCEPT !.open = b].lit = o.c.lit
<1>1. PICK d \in Clouds : d = o.c
  BY DEF Becomes
<1>2. Fresh(d) /\ (o.ok => d.map = T)
  BY <1>1 DEF Becomes, Fresh
<1>3. ASSUME NEW b \in BOOLEAN
      PROVE  Fresh([d EXCEPT !.open = b]) /\ [d EXCEPT !.open = b].map = d.map
             /\ [d EXCEPT !.open = b].lit = d.lit
  <2>1. PICK e : e = [d EXCEPT !.open = b]
    OBVIOUS
  <2>2. /\ e \in Clouds /\ e.made = d.made /\ e.map = d.map /\ e.nmap = d.nmap
        /\ e.shown = d.shown /\ e.menued = d.menued /\ e.lit = d.lit
    BY <2>1 DEF Clouds
  <2> QED
    BY <1>2, <2>1, <2>2 DEF Fresh
<1> QED
  BY <1>1, <1>2, <1>3

LEMMA TagsAreIds ==
  ASSUME Variables
  PROVE  /\ tags \in SUBSET Ids /\ marks \in SUBSET (Images \X tags)
         /\ next \in Nat /\ next <= MaxTags
BY NullIsNoTable DEF Variables, Ids

LEMMA TagsOfProperties ==
  ASSUME NEW T, NEW M \in SUBSET (Images \X T)
  PROVE  /\ \A img : TagsOf(M, img) \subseteq T
         /\ \A img \in Images : \A id : id \in TagsOf(M, img) <=> <<img, id>> \in M
<1>1. \A m \in M : m[2] \in T /\ m = <<m[1], m[2]>>
  OBVIOUS
<1> QED
  BY <1>1 DEF TagsOf

OneMark(N, M, img, id) == N = M \cup {<<img, id>>} \/ N = M \ {<<img, id>>}

(* A mark on one image is none on another.                                 *)
LEMMA OtherImagesTags ==
  ASSUME NEW T, NEW M \in SUBSET (Images \X T), NEW a \in Images, NEW id \in T,
         NEW N, OneMark(N, M, a, id)
  PROVE  /\ N \in SUBSET (Images \X T)
         /\ \A img \in Images : img # a => TagsOf(N, img) = TagsOf(M, img)
<1>1. N \in SUBSET (Images \X T)
  BY DEF OneMark
<1>2. ASSUME NEW img \in Images, img # a PROVE TagsOf(N, img) = TagsOf(M, img)
  <2>1. \A j : <<img, j>> \in N <=> <<img, j>> \in M
    BY <1>2 DEF OneMark
  <2>2. \A j : j \in TagsOf(N, img) <=> j \in TagsOf(M, img)
    BY <1>1, <2>1, TagsOfProperties
  <2> QED
    BY <2>2
<1> QED
  BY <1>1, <1>2

LEMMA CannotMakeStep ==
  ASSUME IInv, NEW w \in Windows, CannotMake(w)
  PROVE  IInv'
<1>1. /\ tags' = tags /\ next' = next /\ marks' = marks
      /\ image' = image /\ titled' = titled /\ shaded' = shaded
      /\ behind' = behind /\ menu' = menu /\ asked' = asked /\ undefined' = undefined
      /\ cloud[w].made = "no" /\ cloud' = [cloud EXCEPT ![w].made = "broken"]
  BY DEF CannotMake, dbVars, tagsVars, menuVars
<1>2. PICK d : d = [cloud[w] EXCEPT !.made = "broken"]
  OBVIOUS
<1>3. cloud \in [Windows -> Clouds] /\ cloud[w] \in Clouds /\ Fits(cloud[w])
  BY Clouds2 DEF IInv
<1>4. /\ d \in Clouds /\ d.made = "broken" /\ d.map = cloud[w].map /\ d.open = cloud[w].open
      /\ d.nmap = cloud[w].nmap /\ d.shown = cloud[w].shown /\ d.menued = cloud[w].menued
  BY <1>2, <1>3 DEF Clouds
<1>5. Fits(d)
  BY <1>1, <1>3, <1>4 DEF Fits
<1>6. /\ cloud' \in [Windows -> Clouds]
      /\ cloud'[w] = d /\ \A v \in Windows \ {w} : cloud'[v] = cloud[v]
  BY <1>1, <1>2, <1>3, <1>4
<1>7. \A v \in Windows : /\ Fits(cloud[v])
                         /\ menu.of = v => cloud[v].made = "yes"
  BY Clouds2
<1>8. \A v \in Windows :
        /\ Fits(cloud'[v])
        /\ cloud'[v].map = cloud[v].map /\ cloud'[v].menued = cloud[v].menued
        /\ menu'.of = v => cloud'[v].made = "yes"
  BY <1>1, <1>4, <1>5, <1>6, <1>7
<1>9. Variables' /\ TitleIsTarget'
  BY <1>1 DEF IInv, Variables, TitleIsTarget
<1>10. Informed'
  <2>1. cloud'["tags"].made = "yes" => cloud'["tags"] = cloud["tags"]
    BY <1>4, <1>6 DEF Windows
  <2> QED
    BY <1>1, <2>1 DEF IInv, Informed
<1> QED
  BY <1>1, <1>6, <1>8, <1>9, <1>10, TablesStay

LEMMA CloseWindowStep ==
  ASSUME IInv, NEW w \in Windows, CloseWindow(w)
  PROVE  IInv'
<1>1. /\ tags' = tags /\ next' = next /\ marks' = marks
      /\ image' = image /\ titled' = titled /\ shaded' = shaded
      /\ behind' = behind /\ menu' = menu /\ asked' = asked /\ undefined' = undefined
      /\ cloud' = [cloud EXCEPT ![w].open = FALSE]
  BY DEF CloseWindow, dbVars, tagsVars, menuVars
<1>2. PICK d : d = [cloud[w] EXCEPT !.open = FALSE]
  OBVIOUS
<1>3. cloud \in [Windows -> Clouds] /\ cloud[w] \in Clouds /\ Fits(cloud[w])
  BY Clouds2 DEF IInv
<1>4. /\ d \in Clouds /\ d.made = cloud[w].made /\ d.map = cloud[w].map /\ d.open = FALSE
      /\ d.nmap = cloud[w].nmap /\ d.shown = cloud[w].shown /\ d.menued = cloud[w].menued
      /\ d.lit = cloud[w].lit
  BY <1>2, <1>3 DEF Clouds
<1>5. Fits(d)
  BY <1>3, <1>4 DEF Fits
<1>6. /\ cloud' \in [Windows -> Clouds]
      /\ cloud'[w] = d /\ \A v \in Windows \ {w} : cloud'[v] = cloud[v]
  BY <1>1, <1>2, <1>3, <1>4
<1>7. \A v \in Windows : /\ Fits(cloud[v])
                         /\ menu.of = v => cloud[v].made = "yes"
  BY Clouds2
<1>8. \A v \in Windows :
        /\ Fits(cloud'[v])
        /\ cloud'[v].map = cloud[v].map /\ cloud'[v].menued = cloud[v].menued
        /\ cloud'[v].lit = cloud[v].lit /\ cloud'[v].made = cloud[v].made
        /\ menu'.of = v => cloud'[v].made = "yes"
  BY <1>1, <1>4, <1>5, <1>6, <1>7
<1>9. Variables' /\ TitleIsTarget'
  BY <1>1 DEF IInv, Variables, TitleIsTarget
<1>10. Informed'
  <2>1. "tags" \in Windows
    BY DEF Windows
  <2> QED
    BY <1>1, <1>8, <2>1 DEF IInv, Informed, Tells
<1> QED
  BY <1>1, <1>6, <1>8, <1>9, <1>10, TablesStay

LEMMA OpenTagsStep ==
  ASSUME IInv, NEW img \in Images, OpenTags(img)
  PROVE  IInv'
<1>1. PICK c : c = [cloud["tags"] EXCEPT !.made = "yes"]
  OBVIOUS
<1>2. PICK o \in SetBoth(c, tags, marks, img) :
        /\ cloud' = [cloud EXCEPT !["tags"] = [o.c EXCEPT !.open = o.ok]]
        /\ titled' = img
        /\ image' = IF o.ok THEN img ELSE image
        /\ behind' = IF o.ok THEN {} ELSE {"title", "lit"}
  BY <1>1 DEF OpenTags
<1>3. /\ tags' = tags /\ next' = next /\ marks' = marks /\ shaded' = shaded
      /\ menu' = menu /\ asked' = asked /\ undefined' = undefined
  BY DEF OpenTags, dbVars, menuVars
<1>4. "tags" \in Windows /\ Variables
  BY DEF Windows, IInv
<1>5. c \in Clouds /\ c.made = "yes"
  <2>1. cloud["tags"] \in Clouds
    BY <1>4, Clouds2
  <2> QED
    BY <1>1, <2>1 DEF Clouds
<1>6. Becomes(o, c, tags) /\ (o.ok => Tells(o.c, tags, marks, img))
  BY <1>2, <1>4, <1>5, TagsAreIds, TagsOfProperties, SetBothProperties
<1>7. PICK d : d = [o.c EXCEPT !.open = o.ok]
  OBVIOUS
<1>8. o.ok \in BOOLEAN /\ tags \in SUBSET Ids
  BY <1>4, <1>6, TagsAreIds DEF Becomes
<1>9. Fresh(d) /\ d.map = o.c.map /\ d.lit = o.c.lit
  BY <1>5, <1>6, <1>7, <1>8, BecomesFresh
<1>10. cloud' = [cloud EXCEPT !["tags"] = d] /\ cloud'["tags"] = d
  BY <1>2, <1>4, <1>7 DEF IInv
<1>11. Variables' /\ TitleIsTarget'
  BY <1>2, <1>3, <1>4, <1>8 DEF Variables, TitleIsTarget
<1>12. Informed'
  <2>1. o.ok => Tells(d, tags', marks', image')
    BY <1>2, <1>3, <1>6, <1>9 DEF Tells
  <2>2. "lit" \notin behind' => o.ok
    BY <1>2
  <2> QED
    BY <1>10, <2>1, <2>2 DEF Informed, Tells
<1> QED
  BY <1>3, <1>4, <1>9, <1>10, <1>11, <1>12, CloudWasSet

LEMMA OpenSearchStep ==
  ASSUME IInv, OpenSearch
  PROVE  IInv'
<1>1. /\ tags' = tags /\ next' = next /\ marks' = marks
      /\ image' = image /\ titled' = titled /\ shaded' = shaded
      /\ behind' = behind /\ menu' = menu /\ asked' = asked /\ undefined' = undefined
  BY DEF OpenSearch, dbVars, tagsVars, menuVars
<1>2. /\ "tags" \in Windows /\ "search" \in Windows /\ "tags" # "search" /\ Variables
      /\ cloud \in [Windows -> Clouds] /\ cloud["search"] \in Clouds /\ Fits(cloud["search"])
  <2>1. "tags" \in Windows /\ "search" \in Windows
    BY DEF Windows
  <2> QED
    BY <2>1, Clouds2 DEF IInv
<1>3. Variables' /\ TitleIsTarget'
  BY <1>1 DEF IInv, Variables, TitleIsTarget
<1>4. ASSUME cloud'["tags"] = cloud["tags"] PROVE Informed'
  BY <1>1, <1>4 DEF IInv, Informed, Tells
<1>5. CASE cloud["search"].made = "no"
  <2>1. PICK c : c = [cloud["search"] EXCEPT !.made = "yes"]
    OBVIOUS
  <2>2. PICK o \in SetTags(c, tags) :
          cloud' = [cloud EXCEPT !["search"] = [o.c EXCEPT !.open = o.ok]]
    BY <1>5, <2>1 DEF OpenSearch
  <2>3. c \in Clouds /\ c.made = "yes" /\ tags \in SUBSET Ids
    BY <1>2, <2>1, TagsAreIds DEF Clouds
  <2>4. Becomes(o, c, tags)
    BY <2>2, <2>3, SetTagsProperties
  <2>5. PICK d : d = [o.c EXCEPT !.open = o.ok]
    OBVIOUS
  <2>6. o.ok \in BOOLEAN
    BY <2>4 DEF Becomes
  <2>7. Fresh(d)
    BY <2>3, <2>4, <2>5, <2>6, BecomesFresh
  <2>8. cloud' = [cloud EXCEPT !["search"] = d] /\ cloud'["tags"] = cloud["tags"]
    BY <1>2, <2>2, <2>5
  <2> QED
    BY <1>1, <1>2, <1>3, <1>4, <2>7, <2>8, CloudWasSet
<1>6. CASE cloud["search"].made # "no"
  <2>1. cloud["search"].made = "yes" /\ cloud' = [cloud EXCEPT !["search"].open = TRUE]
    BY <1>6 DEF OpenSearch
  <2>2. PICK d : d = [cloud["search"] EXCEPT !.open = TRUE]
    OBVIOUS
  <2>3. /\ d \in Clouds /\ d.made = "yes" /\ d.map = cloud["search"].map
        /\ d.nmap = cloud["search"].nmap /\ d.shown = cloud["search"].shown
        /\ d.menued = cloud["search"].menued
    BY <1>2, <2>1, <2>2 DEF Clouds
  <2>4. Fits(d)
    BY <1>2, <2>3 DEF Fits
  <2>5. /\ cloud' \in [Windows -> Clouds]
        /\ cloud'["search"] = d /\ \A v \in Windows \ {"search"} : cloud'[v] = cloud[v]
    BY <1>2, <2>1, <2>2, <2>3
  <2>6. \A v \in Windows : /\ Fits(cloud[v])
                           /\ menu.of = v => cloud[v].made = "yes"
    BY Clouds2
  <2>7. \A v \in Windows :
          /\ Fits(cloud'[v])
          /\ cloud'[v].map = cloud[v].map /\ cloud'[v].menued = cloud[v].menued
          /\ menu'.of = v => cloud'[v].made = "yes"
    BY <1>1, <2>3, <2>4, <2>5, <2>6
  <2>8. Informed'
    BY <1>2, <1>4, <2>5
  <2> QED
    BY <1>1, <1>3, <2>5, <2>7, <2>8, TablesStay
<1> QED
  BY <1>5, <1>6

(* The cloud of the tags window may have other highlights now.             *)
LEMMA LitAgain ==
  ASSUME IInv, NEW d \in Clouds, cloud' = [cloud EXCEPT !["tags"] = d],
         d.made = cloud["tags"].made, d.open = cloud["tags"].open,
         d.map = cloud["tags"].map, d.nmap = cloud["tags"].nmap,
         d.shown = cloud["tags"].shown, d.menued = cloud["tags"].menued,
         asked' = asked, menu' = menu,
         Variables', TitleIsTarget',
         cloud["tags"].made = "yes" /\ "lit" \notin behind' => Tells(d, tags', marks', image')
  PROVE  IInv'
<1>1. cloud \in [Windows -> Clouds] /\ "tags" \in Windows
  BY DEF IInv, Windows
<1>2. /\ cloud' \in [Windows -> Clouds]
      /\ cloud'["tags"] = d /\ \A v \in Windows \ {"tags"} : cloud'[v] = cloud[v]
  BY <1>1
<1>3. \A v \in Windows : /\ Fits(cloud[v])
                         /\ menu.of = v => cloud[v].made = "yes"
  BY Clouds2
<1>4. Fits(d)
  BY <1>1, <1>3 DEF Fits
<1>5. \A v \in Windows :
        /\ Fits(cloud'[v])
        /\ cloud'[v].map = cloud[v].map /\ cloud'[v].menued = cloud[v].menued
        /\ menu'.of = v => cloud'[v].made = "yes"
  BY <1>2, <1>3, <1>4
<1>6. Informed'
  BY <1>2 DEF Informed, Tells
<1> QED
  BY <1>2, <1>5, <1>6, TablesStay

LEMMA RetargetStep ==
  ASSUME IInv, NEW img \in Images, Retarget(img, img)
  PROVE  IInv'
<1>1. PICK c : c = cloud["tags"]
  OBVIOUS
<1>2. /\ c \in Clouds /\ c.made = "yes" /\ Variables
      /\ c.map # Null => c.map \in SUBSET Ids
  <2>1. "tags" \in Windows
    BY DEF Windows
  <2> QED
    BY <1>1, <2>1, Clouds2 DEF IInv, Retarget
<1>3. CASE Lost(c, marks, img)
  BY <1>1, <1>3, StraysStep DEF Retarget
<1>4. CASE ~ Lost(c, marks, img)
  <2>1. PICK o \in SetHighlights(c, marks, img) :
          /\ cloud' = [cloud EXCEPT !["tags"] = o.c]
          /\ titled' = img
          /\ shaded' = FALSE
          /\ image' = IF o.ok THEN img ELSE image
          /\ behind' = IF ~ o.ok THEN {"title", "lit"}
                       ELSE IF o.c.map = tags THEN {} ELSE behind \ {"title"}
    BY <1>1, <1>4 DEF Retarget
  <2>2. /\ tags' = tags /\ next' = next /\ marks' = marks
        /\ menu' = menu /\ asked' = asked /\ undefined' = undefined
    BY <1>1, <1>4 DEF Retarget, dbVars, menuVars
  <2>3. /\ o.ok \in BOOLEAN /\ o.c \in Clouds
        /\ o.c.made = c.made /\ o.c.open = c.open /\ o.c.map = c.map
        /\ o.c.nmap = c.nmap /\ o.c.shown = c.shown /\ o.c.menued = c.menued
        /\ o.ok /\ img # None => o.c.lit = Places(c, TagsOf(marks, img))
    BY <1>2, <2>1, SetHighlightsProperties
  <2>4. Variables' /\ TitleIsTarget'
    BY <1>2, <2>1, <2>2, <2>3 DEF Variables, TitleIsTarget
  <2>5. "lit" \notin behind' => Tells(o.c, tags', marks', image')
    <3>1. SUFFICES ASSUME "lit" \notin behind' PROVE Tells(o.c, tags', marks', image')
      OBVIOUS
    <3>2. o.ok
      BY <2>1, <3>1
    <3>3. c.map = tags
      <4>1. CASE c.map # tags
        <5>1. behind' = behind \ {"title"}
          BY <2>1, <2>3, <3>2, <4>1
        <5>2. "lit" \notin behind
          BY <3>1, <5>1
        <5> QED
          BY <1>1, <1>2, <5>2 DEF IInv, Informed, Tells
      <4> QED
        BY <4>1
    <3>4. Places(c, TagsOf(marks, img)) = LitPlaces(tags, marks, img)
      BY <1>2, <3>3, TagsAreIds, TagsOfProperties, PlacesOfListed
    <3>5. img # None /\ image' = img
      BY <2>1, <3>2, TagsAssumption
    <3> QED
      BY <2>2, <2>3, <3>2, <3>3, <3>4, <3>5 DEF Tells
  <2>6. PICK d \in Clouds : d = o.c
    BY <2>3
  <2> QED
    BY <1>1, <2>1, <2>2, <2>3, <2>4, <2>5, <2>6, LitAgain
<1> QED
  BY <1>3, <1>4

LEMMA HideStep ==
  ASSUME IInv, NEW img \in Images, Hide(img)
  PROVE  IInv'
<1>1. /\ tags' = tags /\ next' = next /\ marks' = marks
      /\ menu' = menu /\ asked' = asked /\ undefined' = undefined
      /\ titled' = None /\ image' = None /\ shaded' = TRUE
      /\ behind' = behind \ {"title"}
      /\ cloud' = [cloud EXCEPT !["tags"].lit = {}]
  BY DEF Hide, dbVars, menuVars
<1>2. PICK d : d = [cloud["tags"] EXCEPT !.lit = {}]
  OBVIOUS
<1>3. cloud["tags"] \in Clouds
  BY Clouds2 DEF Windows
<1>4. /\ d \in Clouds /\ d.made = cloud["tags"].made /\ d.open = cloud["tags"].open
      /\ d.map = cloud["tags"].map /\ d.nmap = cloud["tags"].nmap
      /\ d.shown = cloud["tags"].shown /\ d.menued = cloud["tags"].menued
  <2>1. {} \in SUBSET (0 .. MaxTags)
    OBVIOUS
  <2> QED
    BY <1>2, <1>3, <2>1 DEF Clouds
<1>5. cloud' = [cloud EXCEPT !["tags"] = d]
  BY <1>1, <1>2
<1>6. Variables' /\ TitleIsTarget'
  BY <1>1 DEF IInv, Variables, TitleIsTarget
<1>7. cloud["tags"].made = "yes" /\ "lit" \notin behind' => Tells(d, tags', marks', image')
  BY <1>1, <1>4 DEF IInv, Informed, Tells
<1> QED
  BY <1>1, <1>4, <1>5, <1>6, <1>7, LitAgain

LEMMA CloudsStay ==
  ASSUME IInv, cloud' = cloud, asked' = asked,
         \A v \in Windows : menu'.of = v => cloud[v].made = "yes",
         menu'.of = "search" => menu.of = "search" /\ menu'.about = menu.about,
         Variables', Informed', TitleIsTarget'
  PROVE  IInv'
<1>1. cloud' \in [Windows -> Clouds] /\ \A v \in Windows : Fits(cloud[v])
  BY DEF IInv
<1>2. \A v \in Windows :
        /\ Fits(cloud'[v])
        /\ cloud'[v].map = cloud[v].map /\ cloud'[v].menued = cloud[v].menued
        /\ menu'.of = v => cloud'[v].made = "yes"
  BY <1>1
<1> QED
  BY <1>1, <1>2, TablesStay

LEMMA ClickTagStep ==
  ASSUME IInv, NEW i \in Ids, ClickTag(i)
  PROVE  IInv'
<1>1. PICK c : c = cloud["tags"]
  OBVIOUS
<1>2. /\ c \in Clouds /\ c.made = "yes" /\ Variables /\ "tags" \in Windows
      /\ image # None /\ image \in Images
  <2>1. "tags" \in Windows /\ c.open
    BY <1>1 DEF Windows, ClickTag
  <2> QED
    BY <1>1, <2>1, Clouds2 DEF IInv, ClickTag, Variables
<1>3. CASE c.map = Null
  BY <1>1, <1>3, StraysStep DEF ClickTag
<1>4. CASE c.map # Null
  <2>1. PICK id : id = At(c.map, i)
    OBVIOUS
  <2>2. /\ tags' = tags /\ next' = next /\ image' = image /\ titled' = titled
        /\ shaded' = shaded /\ menu' = menu /\ asked' = asked /\ undefined' = undefined
        /\ id \in tags
        /\ Tag(image, id) \/ Detag(image, id)
        /\ \/ \E o \in SetBoth(c, tags, marks', image) : ToldBoth(o)
           \/ behind' = behind \cup {"lit"} /\ cloud' = cloud
    BY <1>1, <1>4, <2>1 DEF ClickTag, menuVars
  <2>3. marks' \in SUBSET (Images \X tags)
    <3>1. marks' = marks \cup {<<image, id>>} \/ marks' = marks \ {<<image, id>>}
      BY <2>2 DEF Tag, Detag
    <3>2. marks \in SUBSET (Images \X tags)
      BY <1>2, TagsAreIds
    <3> QED
      BY <1>2, <2>2, <3>1, <3>2
  <2>4. CASE behind' = behind \cup {"lit"} /\ cloud' = cloud
    <3>1. Variables' /\ TitleIsTarget' /\ Informed'
      BY <1>2, <2>2, <2>3, <2>4 DEF Variables, IInv, TitleIsTarget, Informed
    <3>2. \A v \in Windows : menu'.of = v => cloud[v].made = "yes"
      BY <2>2, Clouds2
    <3> QED
      BY <2>2, <2>4, <3>1, <3>2, CloudsStay
  <2>5. CASE \E o \in SetBoth(c, tags, marks', image) : ToldBoth(o)
    <3>1. PICK o \in SetBoth(c, tags, marks', image) : ToldBoth(o)
      BY <2>5
    <3>2. /\ cloud' = [cloud EXCEPT !["tags"] = o.c]
          /\ behind' = IF o.ok THEN behind \ {"lit"} ELSE behind \cup {"lit"}
      BY <3>1 DEF ToldBoth
    <3>3. PICK M \in SUBSET (Images \X tags) : M = marks'
      BY <2>3
    <3>4. Becomes(o, c, tags) /\ (o.ok => Tells(o.c, tags, M, image))
      BY <1>2, <3>1, <3>3, TagsAreIds, TagsOfProperties, SetBothProperties
    <3>5. Fresh(o.c)
      BY <1>2, <3>4, TagsAreIds, BecomesFresh
    <3>6. cloud'["tags"] = o.c
      BY <1>2, <3>2 DEF IInv
    <3>7. Variables' /\ TitleIsTarget'
      BY <1>2, <2>2, <2>3, <3>2 DEF Variables, IInv, TitleIsTarget
    <3>8. Informed'
      BY <2>2, <3>2, <3>3, <3>4, <3>6 DEF Informed, Tells
    <3> QED
      BY <1>2, <2>2, <3>2, <3>5, <3>7, <3>8, CloudWasSet
  <2> QED
    BY <2>2, <2>4, <2>5
<1> QED
  BY <1>3, <1>4

LEMMA DropFileStep ==
  ASSUME IInv, NEW w \in Windows, NEW img \in Images, NEW i \in Ids, DropFile(w, img, i)
  PROVE  IInv'
<1>1. PICK c : c = cloud[w]
  OBVIOUS
<1>2. c \in Clouds /\ c.made = "yes" /\ Variables /\ "tags" \in Windows
  <2>1. c.open
    BY <1>1 DEF DropFile
  <2> QED
    BY <1>1, <2>1, Clouds2 DEF IInv, Windows
<1>3. CASE c.map = Null
  BY <1>1, <1>3, StraysStep DEF DropFile
<1>4. CASE c.map # Null
  <2>1. PICK id : id = At(c.map, i)
    OBVIOUS
  <2>2. /\ tags' = tags /\ next' = next /\ image' = image /\ titled' = titled
        /\ shaded' = shaded /\ menu' = menu /\ asked' = asked /\ undefined' = undefined
        /\ id \in tags
        /\ Tag(img, id) \/ Detag(img, id)
        /\ \/ \E o \in SetTags(c, tags) :
                /\ cloud' = [cloud EXCEPT ![w] = o.c]
                /\ behind' = IF o.ok /\ img # image THEN behind ELSE behind \cup {"lit"}
           \/ behind' = (IF img # image THEN behind ELSE behind \cup {"lit"}) /\ cloud' = cloud
    BY <1>1, <1>4, <2>1 DEF DropFile, menuVars
  <2>3. /\ marks \in SUBSET (Images \X tags) /\ marks' \in SUBSET (Images \X tags)
        /\ \A j \in Images : j # img => TagsOf(marks', j) = TagsOf(marks, j)
    <3>1. marks' = marks \cup {<<img, id>>} \/ marks' = marks \ {<<img, id>>}
      BY <2>2 DEF Tag, Detag
    <3>2. marks \in SUBSET (Images \X tags)
      BY <1>2, TagsAreIds
    <3>3. PICK N : N = marks'
      OBVIOUS
    <3>4. OneMark(N, marks, img, id)
      BY <3>1, <3>3 DEF OneMark
    <3>5. id \in tags
      BY <2>2
    <3>6. /\ N \in SUBSET (Images \X tags)
          /\ \A j \in Images : j # img => TagsOf(N, j) = TagsOf(marks, j)
      BY <3>2, <3>4, <3>5, OtherImagesTags
    <3> QED
      BY <3>2, <3>3, <3>6
  <2>4. /\ behind' = behind \/ behind' = behind \cup {"lit"}
        /\ "lit" \notin behind' => img # image /\ "lit" \notin behind
    BY <2>2
  <2>5. Variables' /\ TitleIsTarget'
    BY <1>2, <2>2, <2>3, <2>4 DEF Variables, IInv, TitleIsTarget
  <2>6. ASSUME "lit" \notin behind', image # None
        PROVE  LitPlaces(tags, marks', image) = LitPlaces(tags, marks, image)
    <3>1. image \in Images /\ image # img
      BY <1>2, <2>4, <2>6 DEF Variables
    <3> QED
      BY <2>3, <3>1 DEF LitPlaces
  <2>7. CASE cloud' = cloud
    <3>1. Informed'
      BY <2>2, <2>4, <2>6, <2>7 DEF IInv, Informed, Tells
    <3>2. \A v \in Windows : menu'.of = v => cloud[v].made = "yes"
      BY <2>2, Clouds2
    <3> QED
      BY <2>2, <2>5, <2>7, <3>1, <3>2, CloudsStay
  <2>8. CASE \E o \in SetTags(c, tags) :
               /\ cloud' = [cloud EXCEPT ![w] = o.c]
               /\ behind' = IF o.ok /\ img # image THEN behind ELSE behind \cup {"lit"}
    <3>1. PICK o \in SetTags(c, tags) :
            /\ cloud' = [cloud EXCEPT ![w] = o.c]
            /\ behind' = IF o.ok /\ img # image THEN behind ELSE behind \cup {"lit"}
      BY <2>8
    <3>2. Becomes(o, c, tags) /\ o.c.lit = c.lit /\ tags \in SUBSET Ids
      BY <1>2, <3>1, TagsAreIds, SetTagsProperties
    <3>3. Fresh(o.c) /\ (o.ok => o.c.map = tags)
      BY <1>2, <3>2, BecomesFresh
    <3>4. cloud'[w] = o.c /\ \A v \in Windows \ {w} : cloud'[v] = cloud[v]
      BY <3>1 DEF IInv
    <3>5. Informed'
      <4>1. CASE w = "tags"
        <5>1. "lit" \notin behind' => Tells(c, tags, marks, image) /\ o.ok
          BY <1>1, <1>2, <2>4, <3>1, <4>1 DEF IInv, Informed
        <5> QED
          BY <2>2, <2>6, <3>2, <3>3, <3>4, <4>1, <5>1 DEF Informed, Tells
      <4>2. CASE w # "tags"
        <5>1. cloud'["tags"] = cloud["tags"]
          BY <1>2, <3>4, <4>2
        <5> QED
          BY <2>2, <2>4, <2>6, <5>1 DEF IInv, Informed, Tells
      <4> QED
        BY <4>1, <4>2
    <3> QED
      BY <2>2, <2>5, <3>1, <3>3, <3>5, CloudWasSet
  <2> QED
    BY <2>2, <2>7, <2>8
<1> QED
  BY <1>3, <1>4

(* What a menu is opened on is a tag of those shown.                       *)
LEMMA ClickMenuStep ==
  ASSUME IInv, NEW w \in Windows, NEW i \in Ids \cup {-1}, ClickMenu(w, i)
  PROVE  IInv'
<1>1. PICK c : c = cloud[w]
  OBVIOUS
<1>2. PICK id : id = IF i < 0 THEN NoTag ELSE At(c.shown, i)
  OBVIOUS
<1>3. /\ tags' = tags /\ next' = next /\ marks' = marks
      /\ image' = image /\ titled' = titled /\ shaded' = shaded
      /\ behind' = behind /\ undefined' = undefined
      /\ c.open /\ i \in Positions(c.shown) \cup {-1}
      /\ cloud' = [cloud EXCEPT ![w].menued = i]
      /\ menu' = [of |-> w, kind |-> "menu", about |-> IF w = "tags" THEN NoTag ELSE id]
      /\ asked' = IF w = "tags" THEN id ELSE asked
  BY <1>1, <1>2 DEF ClickMenu, dbVars, tagsVars
<1>4. /\ c \in Clouds /\ c.made = "yes" /\ Fits(c) /\ c.shown \in SUBSET Ids
      /\ cloud \in [Windows -> Clouds]
  BY <1>1, <1>3, Clouds2, CloudTypes DEF IInv
<1>5. i \in -1 .. MaxTags - 1 /\ (i >= 0 => i \in Positions(c.shown))
  BY <1>3, NullIsNoTable DEF Ids
<1>6. id \in Ids \cup {NoTag}
  <2>1. CASE i < 0
    BY <1>2, <2>1
  <2>2. CASE i >= 0
    <3>1. At(c.shown, i) \in c.shown
      BY <1>4, <1>5, <2>2, AtProperties
    <3> QED
      BY <1>2, <1>4, <1>5, <2>2, <3>1
  <2> QED
    BY <1>5, <2>1, <2>2
<1>7. PICK d : d = [c EXCEPT !.menued = i]
  OBVIOUS
<1>8. /\ d \in Clouds /\ d.made = c.made /\ d.open = c.open /\ d.map = c.map
      /\ d.nmap = c.nmap /\ d.shown = c.shown /\ d.lit = c.lit /\ d.menued = i
  BY <1>4, <1>5, <1>7 DEF Clouds
<1>9. Fits(d) /\ Remembers(d, id)
  <2>1. Fits(d)
    BY <1>4, <1>8 DEF Fits
  <2>2. ASSUME d.map # Null, d.menued >= 0 PROVE id = At(d.map, d.menued)
    BY <1>2, <1>4, <1>5, <1>8, <2>2 DEF Fits
  <2> QED
    BY <2>1, <2>2 DEF Remembers
<1>10. /\ cloud' \in [Windows -> Clouds]
       /\ cloud'[w] = d /\ \A v \in Windows \ {w} : cloud'[v] = cloud[v]
  BY <1>1, <1>3, <1>4, <1>7, <1>8
<1>11. menu'.of = w /\ menu'.about = (IF w = "tags" THEN NoTag ELSE id)
  BY <1>3
<1>12. \A v \in Windows : Fits(cloud'[v]) /\ (menu'.of = v => cloud'[v].made = "yes")
  BY <1>4, <1>8, <1>9, <1>10, <1>11, Clouds2
<1>13. "tags" \in Windows /\ "search" \in Windows
  BY DEF Windows
<1>14. Remembers(cloud'["tags"], asked')
  BY <1>3, <1>9, <1>10, <1>13 DEF IInv
<1>15. menu'.of = "search" => Remembers(cloud'["search"], menu'.about)
  BY <1>9, <1>10, <1>11
<1>16. Variables'
  <2>1. menu' \in [of: Windows, kind: {"menu", "name"}, about: Ids \cup {NoTag}]
    BY <1>3, <1>6
  <2> QED
    BY <1>3, <1>6, <2>1 DEF IInv, Variables
<1>17. Informed' /\ TitleIsTarget'
  <2>1. cloud'["tags"].map = cloud["tags"].map /\ cloud'["tags"].lit = cloud["tags"].lit
        /\ cloud'["tags"].made = cloud["tags"].made
    BY <1>1, <1>8, <1>10, <1>13
  <2> QED
    BY <1>3, <2>1 DEF IInv, Informed, Tells, TitleIsTarget
<1> QED
  BY <1>10, <1>12, <1>14, <1>15, <1>16, <1>17 DEF IInv, Fits, Remembers

LEMMA CloseMenuStep ==
  ASSUME IInv, CloseMenu
  PROVE  IInv'
<1>1. /\ tags' = tags /\ next' = next /\ marks' = marks /\ cloud' = cloud
      /\ image' = image /\ titled' = titled /\ shaded' = shaded
      /\ behind' = behind /\ undefined' = undefined
      /\ menu' = NoMenu /\ asked' = asked
  BY DEF CloseMenu, dbVars, tagsVars
<1>2. Variables' /\ Informed' /\ TitleIsTarget'
  BY <1>1 DEF IInv, Variables, Informed, TitleIsTarget
<1>3. NoMenu.of \notin Windows /\ NoMenu.of # "search"
  BY DEF NoMenu, Windows
<1> QED
  BY <1>1, <1>2, <1>3, CloudsStay

LEMMA ShowTagStep ==
  ASSUME IInv, NEW w \in Windows, ShowTag(w)
  PROVE  IInv'
<1>1. CASE cloud[w].shown = {}
  BY <1>1, StraysStep DEF ShowTag
<1>2. CASE cloud[w].shown # {}
  <2>1. /\ tags' = tags /\ next' = next /\ marks' = marks /\ cloud' = cloud
        /\ image' = image /\ titled' = titled /\ shaded' = shaded
        /\ behind' = behind /\ undefined' = undefined /\ asked' = asked
        /\ menu' = [of |-> w, kind |-> "name", about |-> IF w = "tags" THEN NoTag ELSE menu.about]
        /\ menu.of = w \/ (w = "tags" /\ cloud[w].open)
    BY <1>2 DEF ShowTag, dbVars, tagsVars, MenuOnTag
  <2>2. cloud[w].made = "yes"
    BY <2>1, Clouds2
  <2>3. menu'.of = w /\ menu'.about = (IF w = "tags" THEN NoTag ELSE menu.about)
    BY <2>1
  <2>4. menu' \in [of: Windows, kind: {"menu", "name"}, about: Ids \cup {NoTag}]
    <3>1. menu.about \in Ids \cup {NoTag}
      BY DEF IInv, Variables, NoMenu
    <3> QED
      BY <2>1, <3>1
  <2>5. Variables' /\ Informed' /\ TitleIsTarget'
    BY <2>1, <2>4 DEF IInv, Variables, Informed, TitleIsTarget
  <2>6. \A v \in Windows : menu'.of = v => cloud[v].made = "yes"
    BY <2>2, <2>3
  <2>7. menu'.of = "search" => menu.of = "search" /\ menu'.about = menu.about
    BY <2>1, <2>3
  <2> QED
    BY <2>1, <2>5, <2>6, <2>7, CloudsStay
<1> QED
  BY <1>1, <1>2

LEMMA AddTagStep ==
  ASSUME IInv, NEW w \in Windows, AddTag(w)
  PROVE  IInv'
<1>1. PICK c : c = cloud[w]
  OBVIOUS
<1>2. c \in Clouds /\ c.made = "yes" /\ Variables /\ "tags" \in Windows
  <2>1. c.open
    BY <1>1 DEF AddTag
  <2> QED
    BY <1>1, <2>1, Clouds2 DEF IInv, Windows
<1>3. /\ marks' = marks /\ image' = image /\ titled' = titled /\ shaded' = shaded
      /\ asked' = asked /\ undefined' = undefined /\ menu' \in {menu, NoMenu}
      /\ \/ next < MaxTags /\ tags' = tags \cup {next} /\ next' = next + 1
         \/ tags' = tags /\ next' = next
  BY DEF AddTag, MenuAfter
<1>4. PICK o \in SetTags(c, tags') :
        /\ cloud' = [cloud EXCEPT ![w] = o.c]
        /\ behind' = IF w = "tags" /\ o.ok THEN behind ELSE behind \cup {"lit"}
  BY <1>1 DEF AddTag, ToldTags
<1>5. /\ tags \in SUBSET Ids /\ marks \in SUBSET (Images \X tags)
      /\ next \in Nat /\ next <= MaxTags /\ tags \subseteq 0 .. next - 1
  BY <1>2, TagsAreIds DEF Variables
<1>6. /\ next' \in 0 .. MaxTags /\ tags' \subseteq 0 .. next' - 1
      /\ marks' \subseteq Images \X tags'
  <2>1. CASE tags' = tags /\ next' = next
    BY <1>2, <1>3, <2>1 DEF Variables
  <2>2. CASE next < MaxTags /\ tags' = tags \cup {next} /\ next' = next + 1
    <3>1. next + 1 \in 0 .. MaxTags /\ tags \cup {next} \subseteq 0 .. (next + 1) - 1
      BY <1>5, <2>2, NullIsNoTable
    <3> QED
      BY <1>3, <1>5, <2>2, <3>1
  <2> QED
    BY <1>3, <2>1, <2>2
<1>7. PICK T \in SUBSET Ids : T = tags'
  <2>1. ASSUME NEW n \in 0 .. MaxTags PROVE 0 .. n - 1 \subseteq Ids
    BY NullIsNoTable DEF Ids
  <2> QED
    BY <1>6, <2>1
<1>8. Becomes(o, c, T) /\ o.c.lit = c.lit
  BY <1>2, <1>4, <1>7, SetTagsProperties
<1>9. Fresh(o.c) /\ (o.ok => o.c.map = T)
  BY <1>2, <1>8, BecomesFresh
<1>10. cloud'[w] = o.c
  BY <1>4 DEF IInv
<1>11. Variables' /\ TitleIsTarget'
  <2>1. behind' = behind \/ behind' = behind \cup {"lit"}
    BY <1>4
  <2> QED
    BY <1>2, <1>3, <1>6, <2>1 DEF IInv, Variables, TitleIsTarget
<1>12. Informed'
  <2>1. SUFFICES ASSUME "lit" \notin behind' PROVE Tells(cloud'["tags"], tags', marks', image')
    BY DEF Informed
  <2>2. w = "tags" /\ o.ok /\ behind' = behind /\ "lit" \notin behind
    BY <1>4, <2>1
  <2>3. Tells(c, tags, marks, image)
    BY <1>1, <1>2, <2>2 DEF IInv, Informed
  <2>4. LitPlaces(T, marks, image) = LitPlaces(tags, marks, image)
    <3>1. CASE T = tags
      BY <3>1
    <3>2. CASE T = tags \cup {next}
      <4>1. \A id \in tags : PositionOf(tags \cup {next}, id) = PositionOf(tags, id)
        BY <1>5, LaterTagComesLast
      <4>2. TagsOf(marks, image) \subseteq tags
        BY <1>5, TagsOfProperties
      <4> QED
        BY <3>2, <4>1, <4>2 DEF LitPlaces
    <3> QED
      BY <1>3, <1>7, <3>1, <3>2
  <2> QED
    BY <1>3, <1>7, <1>8, <1>9, <1>10, <2>2, <2>3, <2>4 DEF Tells
<1> QED
  BY <1>3, <1>4, <1>9, <1>11, <1>12, CloudWasSet

(* The tag that goes is the one which the menu was opened on.              *)
LEMMA DeleteTagStep ==
  ASSUME IInv, NEW w \in Windows, cloud[w].made = "yes",
         w = "tags" \/ menu.of = "search", DeleteTag(w)
  PROVE  IInv' /\ tags \ tags' \subseteq {asked, menu.about}
<1>1. PICK c : c = cloud[w]
  OBVIOUS
<1>2. /\ c \in Clouds /\ c.made = "yes" /\ Fits(c) /\ Variables /\ "tags" \in Windows
      /\ c.map # Null => c.map \in SUBSET Ids
      /\ w = "search" \/ w = "tags"
  BY <1>1, Clouds2 DEF IInv, Windows
<1>3. CASE c.menued \notin Positions(c.map) \/ c.map = Null
  <2>1. Strays
    BY <1>1, <1>3 DEF DeleteTag
  <2>2. tags' = tags
    BY <2>1 DEF Strays, dbVars
  <2> QED
    BY <2>1, <2>2, StraysStep
<1>4. CASE c.menued \in Positions(c.map) /\ c.map # Null
  <2>1. PICK id : id = At(c.map, c.menued)
    OBVIOUS
  <2>2. /\ tags' = tags \ {id} /\ marks' = { m \in marks : m[2] # id }
        /\ next' = next /\ image' = image /\ titled' = titled
        /\ shaded' = shaded /\ asked' = asked /\ undefined' = undefined
        /\ menu' \in {menu, NoMenu}
        /\ IF w = "tags" THEN \E o \in SetBoth(c, tags', marks', image) : ToldBoth(o)
                         ELSE \E o \in SetTags(c, tags') : ToldTags(w, o)
    BY <1>1, <1>4, <2>1 DEF DeleteTag, MenuAfter
  <2>3. id \in {asked, menu.about}
    <3>1. c.menued >= 0
      <4>1. c.menued \in -1 .. MaxTags - 1 /\ c.menued # -1
        BY <1>2, <1>4, CloudTypes DEF Positions
      <4> QED
        BY <4>1, NullIsNoTable
    <3>2. CASE w = "tags"
      BY <1>1, <1>4, <2>1, <3>1, <3>2 DEF IInv, Remembers
    <3>3. CASE w = "search"
      BY <1>1, <1>4, <2>1, <3>1, <3>3 DEF IInv, Remembers
    <3> QED
      BY <1>2, <3>2, <3>3
  <2>4. PICK T \in SUBSET Ids : T = tags' /\ T \subseteq tags
    BY <1>2, <2>2, TagsAreIds
  <2>5. PICK M \in SUBSET (Images \X T) : M = marks'
    <3>1. marks \in SUBSET (Images \X tags)
      BY <1>2, TagsAreIds
    <3> QED
      BY <2>2, <2>4, <3>1
  <2>6. next' \in 0 .. MaxTags /\ tags' \subseteq 0 .. next' - 1 /\ marks' \subseteq Images \X tags'
    BY <1>2, <2>2, <2>4, <2>5 DEF Variables
  <2>7. CASE w = "tags"
    <3>1. PICK o \in SetBoth(c, T, M, image) : ToldBoth(o)
      BY <2>2, <2>4, <2>5, <2>7
    <3>2. /\ cloud' = [cloud EXCEPT !["tags"] = o.c]
          /\ behind' = IF o.ok THEN behind \ {"lit"} ELSE behind \cup {"lit"}
      BY <3>1 DEF ToldBoth
    <3>3. Becomes(o, c, T) /\ (o.ok => Tells(o.c, T, M, image))
      BY <1>2, <3>1, TagsOfProperties, SetBothProperties
    <3>4. Fresh(o.c)
      BY <1>2, <3>3, BecomesFresh
    <3>5. cloud'["tags"] = o.c
      BY <1>2, <3>2 DEF IInv
    <3>6. behind' \subseteq {"title", "lit"} /\ ("title" \in behind' <=> "title" \in behind)
      BY <1>2, <3>2 DEF Variables
    <3>7. Variables' /\ TitleIsTarget'
      BY <1>2, <2>2, <2>6, <3>6 DEF IInv, Variables, TitleIsTarget
    <3>8. Informed'
      BY <2>2, <2>4, <2>5, <3>2, <3>3, <3>5 DEF Informed, Tells
    <3>9. IInv'
      BY <1>2, <2>2, <3>2, <3>4, <3>7, <3>8, CloudWasSet
    <3> QED
      BY <2>2, <2>3, <3>9
  <2>8. CASE w # "tags"
    <3>1. PICK o \in SetTags(c, T) : ToldTags(w, o)
      BY <2>2, <2>4, <2>8
    <3>2. cloud' = [cloud EXCEPT ![w] = o.c] /\ behind' = behind \cup {"lit"}
      BY <2>8, <3>1 DEF ToldTags
    <3>3. Fresh(o.c)
      BY <1>2, <3>1, SetTagsProperties, BecomesFresh
    <3>4. Variables' /\ TitleIsTarget' /\ Informed'
      BY <1>2, <2>2, <2>6, <3>2 DEF IInv, Variables, TitleIsTarget, Informed
    <3>5. IInv'
      BY <2>2, <3>2, <3>3, <3>4, CloudWasSet
    <3> QED
      BY <2>2, <2>3, <3>5
  <2> QED
    BY <2>7, <2>8
<1> QED
  BY <1>3, <1>4

LEMMA RenameTagStep ==
  ASSUME IInv, NEW w \in Windows, RenameTag(w)
  PROVE  IInv' /\ tags' = tags
<1>1. PICK c : c = cloud[w]
  OBVIOUS
<1>2. /\ c \in Clouds /\ c.made = "yes" /\ Variables /\ "tags" \in Windows
      /\ tags \in SUBSET Ids
  <2>1. menu.of = w
    BY DEF RenameTag
  <2>2. c \in Clouds /\ c.made = "yes" /\ Variables /\ "tags" \in Windows
    BY <1>1, <2>1, Clouds2 DEF IInv, Windows
  <2> QED
    BY <2>2, TagsAreIds
<1>3. CASE c.menued \notin Positions(c.map) \/ c.map = Null
  <2>1. Strays
    BY <1>1, <1>3 DEF RenameTag
  <2>2. tags' = tags
    BY <2>1 DEF Strays, dbVars
  <2> QED
    BY <2>1, <2>2, StraysStep
<1>4. CASE ~ (c.menued \notin Positions(c.map) \/ c.map = Null)
  <2>1. /\ tags' = tags /\ next' = next /\ marks' = marks /\ image' = image
        /\ titled' = titled /\ shaded' = shaded /\ asked' = asked /\ undefined' = undefined
        /\ menu' \in {menu, NoMenu}
    BY <1>1, <1>4 DEF RenameTag, MenuAfter, dbVars
  <2>2. PICK o \in SetTags(c, tags) :
          /\ cloud' = [cloud EXCEPT ![w] = o.c]
          /\ behind' = IF w = "tags" /\ o.ok THEN behind ELSE behind \cup {"lit"}
    BY <1>1, <1>4 DEF RenameTag, ToldTags
  <2>3. Becomes(o, c, tags) /\ o.c.lit = c.lit
    BY <1>2, <2>2, SetTagsProperties
  <2>4. Fresh(o.c) /\ (o.ok => o.c.map = tags)
    BY <1>2, <2>3, BecomesFresh
  <2>5. cloud'[w] = o.c
    BY <2>2 DEF IInv
  <2>6. Variables' /\ TitleIsTarget'
    <3>1. behind' = behind \/ behind' = behind \cup {"lit"}
      BY <2>2
    <3> QED
      BY <1>2, <2>1, <3>1 DEF IInv, Variables, TitleIsTarget
  <2>7. Informed'
    <3>1. SUFFICES ASSUME "lit" \notin behind'
                   PROVE  Tells(cloud'["tags"], tags', marks', image')
      BY DEF Informed
    <3>2. w = "tags" /\ o.ok /\ "lit" \notin behind
      BY <2>2, <3>1
    <3>3. Tells(c, tags, marks, image)
      BY <1>1, <1>2, <3>2 DEF IInv, Informed
    <3> QED
      BY <2>1, <2>3, <2>4, <2>5, <3>2, <3>3 DEF Tells
  <2>8. IInv'
    BY <2>1, <2>2, <2>4, <2>6, <2>7, CloudWasSet
  <2> QED
    BY <2>1, <2>8
<1> QED
  BY <1>3, <1>4

LEMMA InitHolds ==
  ASSUME Init
  PROVE  IInv
<1>1. PICK c : c = [made |-> "no", open |-> FALSE, map |-> Null, nmap |-> 0,
                    shown |-> {}, lit |-> {}, menued |-> -1]
  OBVIOUS
<1>2. /\ c \in Clouds /\ c.map = Null /\ ~ c.open /\ c.made = "no"
  <2>1. {} \in SUBSET Ids /\ {} \in SUBSET (0 .. MaxTags)
        /\ 0 \in 0 .. MaxTags /\ -1 \in -1 .. MaxTags - 1
    BY NullIsNoTable
  <2> QED
    BY <1>1, <2>1 DEF Clouds
<1>3. /\ cloud = [w \in Windows |-> c]
      /\ next \in 0 .. MaxTags /\ tags = 0 .. next - 1
      /\ marks \in SUBSET ((Images \ Untitled) \X tags)
      /\ image = None /\ titled = None /\ shaded = FALSE /\ behind = {}
      /\ menu = NoMenu /\ asked = NoTag /\ undefined = FALSE
  BY <1>1 DEF Init
<1>4. "tags" \in Windows /\ "search" \in Windows /\ NoMenu.of \notin Windows
  BY DEF Windows, NoMenu
<1>5. \A w \in Windows : cloud[w] = c
  BY <1>3
<1>6. cloud \in [Windows -> Clouds]
  BY <1>2, <1>3
<1>7. \A w \in Windows : Fits(cloud[w]) /\ (menu.of = w => cloud[w].made = "yes")
  BY <1>2, <1>3, <1>4, <1>5 DEF Fits
<1>8. /\ Remembers(cloud["tags"], asked)
      /\ menu.of = "search" => Remembers(cloud["search"], menu.about)
      /\ Informed /\ TitleIsTarget
  BY <1>2, <1>3, <1>4, <1>5 DEF Remembers, Informed, TitleIsTarget
<1>9. Variables
  BY <1>3 DEF Variables
<1> QED
  BY <1>6, <1>7, <1>8, <1>9 DEF IInv

LEMMA NextStep ==
  ASSUME IInv, Next
  PROVE  IInv' /\ \A id \in tags \ tags' : id \in {asked, menu.about}
<1>1. CASE \E w \in Windows : CannotMake(w)
  <2>1. tags' = tags
    BY <1>1 DEF CannotMake, dbVars
  <2> QED
    BY <1>1, <2>1, CannotMakeStep
<1>2. CASE \E w \in Windows : OpenBroken(w)
  <2>1. Strays
    BY <1>2 DEF OpenBroken
  <2>2. tags' = tags
    BY <2>1 DEF Strays, dbVars
  <2> QED
    BY <2>1, <2>2, StraysStep
<1>3. CASE \E w \in Windows : CloseWindow(w)
  <2>1. tags' = tags
    BY <1>3 DEF CloseWindow, dbVars
  <2> QED
    BY <1>3, <2>1, CloseWindowStep
<1>4. CASE \E img \in Images : OpenTags(img)
  <2>1. tags' = tags
    BY <1>4 DEF OpenTags, dbVars
  <2> QED
    BY <1>4, <2>1, OpenTagsStep
<1>5. CASE \E img \in Images : Focus(img)
  <2>1. PICK img \in Images : Retarget(img, img)
    BY <1>5 DEF Focus
  <2>2. tags' = tags
    BY <2>1 DEF Retarget, Strays, dbVars
  <2> QED
    BY <2>1, <2>2, RetargetStep
<1>6. CASE \E img \in Images : Hide(img)
  <2>1. tags' = tags
    BY <1>6 DEF Hide, dbVars
  <2> QED
    BY <1>6, <2>1, HideStep
<1>7. CASE OpenSearch
  <2>1. tags' = tags
    BY <1>7 DEF OpenSearch, dbVars
  <2> QED
    BY <1>7, <2>1, OpenSearchStep
<1>8. CASE \E i \in Ids : ClickTag(i)
  <2>1. tags' = tags
    BY <1>8 DEF ClickTag, Strays, dbVars
  <2> QED
    BY <1>8, <2>1, ClickTagStep
<1>9. CASE \E w \in Windows, img \in Images \ Untitled, i \in Ids : DropFile(w, img, i)
  <2>1. tags' = tags
    BY <1>9 DEF DropFile, Strays, dbVars
  <2> QED
    BY <1>9, <2>1, DropFileStep
<1>10. CASE \E w \in Windows, i \in Ids \cup {-1} : ClickMenu(w, i)
  <2>1. tags' = tags
    BY <1>10 DEF ClickMenu, dbVars
  <2> QED
    BY <1>10, <2>1, ClickMenuStep
<1>11. CASE \E w \in Windows : AddTag(w)
  <2>1. tags \subseteq tags'
    BY <1>11 DEF AddTag
  <2> QED
    BY <1>11, <2>1, AddTagStep
<1>12. CASE \E w \in Windows : RenameTag(w)
  BY <1>12, RenameTagStep
<1>13. CASE \E w \in Windows : ChooseDelete(w)
  <2>1. PICK w \in Windows : MenuOnTag(w) /\ DeleteTag(w)
    BY <1>13 DEF ChooseDelete
  <2>2. menu.of = w /\ cloud[w].made = "yes" /\ (w = "tags" \/ w = "search")
    BY <2>1, Clouds2 DEF MenuOnTag, Windows
  <2> QED
    BY <2>1, <2>2, DeleteTagStep
<1>14. CASE \E w \in Windows : ShowTag(w)
  <2>1. tags' = tags
    BY <1>14 DEF ShowTag, Strays, dbVars
  <2> QED
    BY <1>14, <2>1, ShowTagStep
<1>15. CASE PressKill
  <2>1. "tags" \in Windows /\ cloud["tags"].open /\ DeleteTag("tags")
    BY <1>15 DEF PressKill, Windows
  <2>2. cloud["tags"].made = "yes"
    BY <2>1, Clouds2
  <2> QED
    BY <2>1, <2>2, DeleteTagStep
<1>16. CASE CloseMenu
  <2>1. tags' = tags
    BY <1>16 DEF CloseMenu, dbVars
  <2> QED
    BY <1>16, <2>1, CloseMenuStep
<1> QED
  BY <1>1, <1>2, <1>3, <1>4, <1>5, <1>6, <1>7, <1>8, <1>9, <1>10, <1>11, <1>12,
     <1>13, <1>14, <1>15, <1>16 DEF Next

LEMMA NothingChanges ==
  ASSUME IInv, UNCHANGED vars
  PROVE  IInv'
<1>1. /\ tags' = tags /\ next' = next /\ marks' = marks /\ cloud' = cloud
      /\ image' = image /\ titled' = titled /\ shaded' = shaded
      /\ behind' = behind /\ menu' = menu /\ asked' = asked /\ undefined' = undefined
  BY DEF vars, dbVars, tagsVars, menuVars
<1>2. Variables' /\ Informed' /\ TitleIsTarget'
  BY <1>1 DEF IInv, Variables, Informed, TitleIsTarget
<1> QED
  BY <1>1, <1>2 DEF IInv, Remembers, Fits

-----------------------------------------------------------------------------
(* The theorems                                                            *)

(* However the two windows, their menus, drops and failures interleave:    *)
(* a table that is there is what the cloud shows, a place remembered in it *)
(* is that of the tag which was asked for, and a tags window that missed   *)
(* nothing lists the tags there are.                                       *)
THEOREM Invariance == Spec => []IInv
<1>1. Init => IInv
  BY InitHolds
<1>2. IInv /\ [Next]_vars => IInv'
  BY NextStep, NothingChanges
<1> QED
  BY <1>1, <1>2, PTL DEF Spec

(* Every variable keeps its type, and a table its length; only tags there  *)
(* are mark images (tags_common_delete_tag: tagdb_remove).                 *)
THEOREM TypeCorrect == Spec => []TypeOK
<1>1. IInv => TypeOK
  BY DEF IInv, Variables, Fits, TypeOK
<1> QED
  BY Invariance, <1>1, PTL

(* The tags window highlights just the tags of the image it tags, as far   *)
(* as it was told (tags_common_set_highlights).                            *)
THEOREM HighlightsAreRight == Spec => []HighlightsAreTags
<1>1. IInv => HighlightsAreTags
  <2>1. ASSUME IInv, image # None, "lit" \notin behind, cloud["tags"].map # Null
        PROVE  cloud["tags"].lit =
                 { PositionOf(cloud["tags"].map, id) : id \in TagsOf(marks, image) }
    <3>1. cloud["tags"].made = "yes"
      BY <2>1, Clouds2 DEF Windows
    <3>2. Tells(cloud["tags"], tags, marks, image)
      BY <2>1, <3>1 DEF IInv, Informed
    <3> QED
      BY <2>1, <3>2 DEF Tells, LitPlaces
  <2> QED
    BY <2>1 DEF HighlightsAreTags
<1> QED
  BY Invariance, <1>1, PTL

(* ... so that the i'th tag of the window is lit just if the image has it, *)
(* and a click on it does the opposite of what it shows (tags.c, tag and   *)
(* detag).                                                                 *)
ClicksDoTheOpposite ==
  (image # None /\ "lit" \notin behind /\ cloud["tags"].map # Null)
    => \A i \in Positions(cloud["tags"].map) :
         i \in cloud["tags"].lit <=> <<image, At(cloud["tags"].map, i)>> \in marks

THEOREM ClicksAreRight == Spec => []ClicksDoTheOpposite
<1>1. IInv => ClicksDoTheOpposite
  <2>1. ASSUME IInv, image # None, "lit" \notin behind, cloud["tags"].map # Null,
               NEW i \in Positions(cloud["tags"].map)
        PROVE  i \in cloud["tags"].lit <=> <<image, At(cloud["tags"].map, i)>> \in marks
    <3>1. cloud["tags"].made = "yes"
      BY <2>1, Clouds2 DEF Windows
    <3>2. /\ cloud["tags"].map = tags
          /\ cloud["tags"].lit = LitPlaces(tags, marks, image)
      BY <2>1, <3>1 DEF IInv, Informed, Tells
    <3>3. tags \in SUBSET Ids /\ marks \in SUBSET (Images \X tags) /\ image \in Images
      BY <2>1, TagsAreIds DEF IInv, Variables
    <3>4. PICK id : id = At(tags, i)
      OBVIOUS
    <3>5. id \in tags /\ \A j \in tags : PositionOf(tags, j) = i <=> j = id
      BY <2>1, <3>2, <3>3, <3>4, AtProperties
    <3>6. /\ TagsOf(marks, image) \subseteq tags
          /\ id \in TagsOf(marks, image) <=> <<image, id>> \in marks
      BY <3>3, TagsOfProperties
    <3>7. i \in LitPlaces(tags, marks, image) <=> id \in TagsOf(marks, image)
      BY <3>5, <3>6 DEF LitPlaces
    <3> QED
      BY <3>2, <3>4, <3>6, <3>7
  <2> QED
    BY <2>1 DEF ClicksDoTheOpposite
<1> QED
  BY Invariance, <1>1, PTL

(* The image that is tagged is the one in the window's title, unless       *)
(* telling the window of it failed (tags_image_changed_callback).          *)
THEOREM TitleIsRight == Spec => []TitleIsTarget
<1>1. IInv => TitleIsTarget
  BY DEF IInv
<1> QED
  BY Invariance, <1>1, PTL

(* A tag goes only if a menu was opened on it, whatever was added, deleted *)
(* or renamed in either window since (delete_tag and menued_tag_index of   *)
(* tag-cloud/events.c).                                                    *)
THEOREM DeletesAreAsked == Spec => DeletesWhatWasAsked
<1>1. IInv /\ [Next]_vars => [\A id \in tags \ tags' : id \in {asked, menu.about}]_vars
  BY NextStep
<1> QED
  BY Invariance, <1>1, PTL DEF Spec, DeletesWhatWasAsked
=============================================================================
