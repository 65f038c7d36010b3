------------------------ MODULE ImageObserversProofs ------------------------
(***************************************************************************)
(* Proofs about ImageObservers, for any images, windows that their files   *)
(* allow, and numbers of viewers, observers and failures.                  *)
(***************************************************************************)
EXTENDS ImageObservers, SequenceTheorems, TLAPS

-----------------------------------------------------------------------------
(* The inductive invariant *)

Records ==
  { r \in [image: Images \cup {Every}, who: Windows \cup {"viewers", "tags"}, nrefs: Nat \ {0}] :
      KeyOf(r) \in Keys }

Recs(l) == { l[i] : i \in DOMAIN l }

Unique(l) == \A i, j \in DOMAIN l : KeyOf(l[i]) = KeyOf(l[j]) => i = j

(* The observers that a walk which is at k has yet to call.                *)
Ahead(l, k) ==
  { KeyOf(l[j]) : j \in { i \in DOMAIN l : \E p \in 1 .. i : KeyOf(l[p]) = k } }

(* A viewer that is let go stops watching first, and is counted until its  *)
(* image has been told.                                                    *)
Leaving(img) == \E i \in DOMAIN tasks : tasks[i] = Do("release", img)

Watching(img) == IF Leaving(img) THEN viewers[img] - 1 ELSE viewers[img]

Tells(t) == t.op \in {"event", "walk"}

(* Steps of the end of an image                                            *)
Dooms(t) == (Tells(t) /\ t.change = "about to destroy") \/ t.op = "free"

(* The histograms kept with an image are never old.                        *)
WindowTypes ==
  /\ avail \in [Images -> SUBSET Windows]
  /\ \A img \in Images : avail[img] \subseteq Possible[img]
  /\ win \in [Images -> [Windows -> {"none", "listed", "open"}]]
  /\ shows \in [Images -> [Computed -> Data]]
  /\ hists \in [Images -> {"none", "current"}]
  /\ deaf \subseteq Images \X (Windows \cup {"viewers"})

Types ==
  /\ observers \in Seq(Records) /\ Unique(observers)
  /\ tasks \in Seq(Tasks)
  /\ live \subseteq Images
  /\ viewers \in [Images -> 0 .. MaxViewers]
  /\ WindowTypes

(* Each viewer which watches is counted in its image's one observer; other *)
(* observers are not shared, and are there because of their windows.       *)
CountsInv ==
  /\ \A r \in Recs(observers) :
       IF r.who = "viewers" THEN r.nrefs <= Watching(r.image) ELSE r.nrefs = 1
  /\ \A img \in Images :
       /\ viewers[img] > 0 => img \in live
       /\ Watching(img) > 0 /\ <<img, "viewers">> \notin deaf =>
            \E r \in Recs(observers) :
              KeyOf(r) = <<img, "viewers">> /\ r.nrefs = Watching(img)

WindowsInv ==
  /\ \A img \in Images, w \in Windows :
       win[img][w] # "none" => <<img, w>> \in Registered \cup deaf
  /\ \A img \in Images, w \in Computed :
       <<img, w>> \in Registered => win[img][w] # "none"
  /\ \A img \in Images :
       <<img, "effects">> \in Registered =>
         win[img]["effects"] # "none" \/ \E i \in DOMAIN tasks : tasks[i] = Do("unwatch", img)

(* The order in which things are left to do: only previews are told in the *)
(* middle of something else; a walk is beyond an observer which is about   *)
(* to leave; an image is told of its end, and its viewers have let go,     *)
(* before it goes; and each change is followed by the news of it.          *)
InOrder(s, t) ==
  /\ Tells(s) /\ t.op = "walk" => s.change = "preview"
  /\ s.op = "unwatch" /\ t.op = "walk" => t.next # <<s.image, "effects">>
  /\ s.op = "free" /\ t.op = "release" => s.image # t.image
  /\ ~ (s.op = "release" /\ t.op = "release")

Ready(t) ==
  /\ t.op = "release" => viewers[t.image] > 0
  /\ t.op = "unwatch" => win[t.image]["effects"] = "none"
  /\ Dooms(t) => Watching(t.image) = 0

Unwatched(img) == \A k \in Registered : k[1] # img

Precedes(s, t) == Tells(s) /\ s.image = t.image /\ s.change = "about to destroy"

OrderInv ==
  /\ \A i, j \in DOMAIN tasks : i < j => InOrder(tasks[i], tasks[j])
  /\ \A i \in DOMAIN tasks :
       /\ Ready(tasks[i])
       /\ tasks[i].op = "free" =>
            IF i = 1 THEN Unwatched(tasks[i].image) ELSE Precedes(tasks[i - 1], tasks[i])
       /\ tasks[i].op = "change" =>
            i + 1 \in DOMAIN tasks /\ tasks[i + 1] = Event(tasks[i].image, "modified")

(* Those whom the walk at the end of an image has passed have left, or are *)
(* about to.                                                               *)
EndsInv ==
  \A j \in DOMAIN tasks :
    tasks[j].op = "walk" /\ tasks[j].change = "about to destroy" =>
      \A k \in Registered : k[1] = tasks[j].image =>
        \/ k \in Ahead(observers, tasks[j].next)
        \/ k[2] = "effects" /\ \E i \in 1 .. j - 1 : tasks[i] = Do("unwatch", tasks[j].image)

(* News of a change is on its way to a window, in task t.                  *)
WillHear(img, w, t) ==
  \/ t = Event(img, "modified")
  \/ /\ t.op = "walk" /\ t.image = img /\ t.change = "modified"
     /\ <<img, w>> \in Ahead(observers, t.next)

Fresh(img, w) == shows[img][w] \in {"current", "failed"}

ShownInv ==
  \A img \in Images, w \in Computed :
    win[img][w] # "none" /\ <<img, w>> \notin deaf =>
      Fresh(img, w) \/ \E i \in DOMAIN tasks : WillHear(img, w, tasks[i])

IInv ==
  /\ Types /\ CountsInv /\ WindowsInv /\ OrderInv /\ EndsInv /\ ShownInv
  /\ WalksAreSafe /\ NoneOutlivesItsImage

-----------------------------------------------------------------------------
(* The list of observers *)

LEMMA PlaceProperties ==
  ASSUME NEW l, Unique(l), NEW i \in DOMAIN l
  PROVE  Has(l, KeyOf(l[i])) /\ PlaceOf(l, KeyOf(l[i])) = i
BY DEF Has, PlaceOf, Unique

(* Where an observer is, if it is there.                                   *)
LEMMA PlaceOfOne ==
  ASSUME NEW l, Unique(l), NEW k, Has(l, k)
  PROVE  /\ PlaceOf(l, k) \in DOMAIN l
         /\ KeyOf(l[PlaceOf(l, k)]) = k
         /\ l[PlaceOf(l, k)] \in Recs(l)
         /\ \A r \in Recs(l) : KeyOf(r) = k => r = l[PlaceOf(l, k)]
<1>1. PICK i \in DOMAIN l : KeyOf(l[i]) = k
  BY DEF Has
<1>2. PlaceOf(l, k) = i
  BY <1>1, PlaceProperties
<1> QED
  BY <1>1, <1>2 DEF Recs, Unique

LEMMA HasRegistered ==
  ASSUME NEW k
  PROVE  /\ Has(observers, k) <=> k \in Registered
         /\ k \in Registered <=> \E r \in Recs(observers) : KeyOf(r) = k
BY DEF Has, Registered, Recs

(* A new observer is put in front of the others.                           *)
LEMMA InsertFirst ==
  ASSUME NEW l \in Seq(Records), Unique(l), NEW img, NEW who,
         [image |-> img, who |-> who, nrefs |-> 1] \in Records, ~ Has(l, <<img, who>>)
  PROVE  /\ Insert(l, img, who) \in Seq(Records)
         /\ Unique(Insert(l, img, who))
         /\ Recs(Insert(l, img, who)) =
              Recs(l) \cup {[image |-> img, who |-> who, nrefs |-> 1]}
<1> DEFINE r == [image |-> img, who |-> who, nrefs |-> 1]
           n == <<r>> \o l
<1>1. KeyOf(r) = <<img, who>>
  BY DEF KeyOf
<1>2. Insert(l, img, who) = n
  BY DEF Insert
<1>3. <<r>> \in Seq(Records) /\ Len(<<r>>) = 1 /\ <<r>>[1] = r
  OBVIOUS
<1> HIDE DEF r
<1>4. /\ n \in Seq(Records) /\ Len(n) = 1 + Len(l) /\ Len(l) \in Nat
      /\ n[1] = r /\ \A i \in 2 .. Len(l) + 1 : n[i] = l[i - 1]
  BY <1>3, ConcatProperties, LenProperties
<1>5. DOMAIN n = 1 .. Len(l) + 1 /\ DOMAIN l = 1 .. Len(l)
  BY <1>4, LenProperties
<1> HIDE DEF n
<1>6. \A i \in DOMAIN l : KeyOf(l[i]) # KeyOf(r)
  BY <1>1 DEF Has
<1>7. \A i \in DOMAIN n : i # 1 => i - 1 \in DOMAIN l /\ n[i] = l[i - 1]
  BY <1>4, <1>5
<1>8. Unique(n)
  <2> SUFFICES ASSUME NEW i \in DOMAIN n, NEW j \in DOMAIN n, KeyOf(n[i]) = KeyOf(n[j])
               PROVE  i = j
    BY DEF Unique
  <2>1. CASE i = 1 \/ j = 1
    BY <1>4, <1>6, <1>7, <2>1
  <2>2. CASE i # 1 /\ j # 1
    <3>1. i - 1 = j - 1
      BY <1>7, <2>2 DEF Unique
    <3> QED
      BY <1>5, <3>1
  <2> QED
    BY <2>1, <2>2
<1>9. Recs(n) = Recs(l) \cup {r}
  <2>1. ASSUME NEW x \in Recs(n) PROVE x \in Recs(l) \cup {r}
    BY <1>4, <1>7 DEF Recs
  <2>2. ASSUME NEW x \in Recs(l) PROVE x \in Recs(n)
    <3>1. PICK i \in DOMAIN l : x = l[i]
      BY DEF Recs
    <3>2. i + 1 \in DOMAIN n /\ n[i + 1] = x
      BY <1>4, <1>5, <3>1
    <3> QED
      BY <3>2 DEF Recs
  <2>3. r \in Recs(n)
    BY <1>4, <1>5 DEF Recs
  <2> QED
    BY <2>1, <2>2, <2>3
<1> QED
  BY <1>2, <1>4, <1>8, <1>9 DEF r

(* An observer whose count changes stays where it is.                      *)
WithCount(l, p, n) == [l[p] EXCEPT !.nrefs = n]

Recount(l, p, n) == [l EXCEPT ![p] = WithCount(l, p, n)]

LEMMA RecountProperties ==
  ASSUME NEW l \in Seq(Records), Unique(l), NEW p \in DOMAIN l, NEW n \in Nat \ {0}
  PROVE  /\ WithCount(l, p, n).image = l[p].image /\ WithCount(l, p, n).who = l[p].who
         /\ WithCount(l, p, n).nrefs = n /\ KeyOf(WithCount(l, p, n)) = KeyOf(l[p])
         /\ Recount(l, p, n) \in Seq(Records)
         /\ Unique(Recount(l, p, n))
         /\ Recs(Recount(l, p, n)) = (Recs(l) \ {l[p]}) \cup {WithCount(l, p, n)}
<1> DEFINE r == WithCount(l, p, n)
           m == Recount(l, p, n)
<1>1. l[p] \in Records
  BY ElementOfSeq, LenProperties
<1>2. r \in Records /\ r.image = l[p].image /\ r.who = l[p].who /\ r.nrefs = n
      /\ KeyOf(r) = KeyOf(l[p])
  BY <1>1 DEF Records, KeyOf, WithCount
<1> HIDE DEF r
<1>3. /\ m \in Seq(Records) /\ DOMAIN m = DOMAIN l /\ m[p] = r
      /\ \A i \in DOMAIN l \ {p} : m[i] = l[i]
  BY <1>2, ExceptSeq DEF Recount, r
<1> HIDE DEF m
<1>4. \A i \in DOMAIN l : KeyOf(m[i]) = KeyOf(l[i])
  BY <1>2, <1>3
<1>5. Unique(m)
  BY <1>3, <1>4 DEF Unique
<1>6. Recs(m) = (Recs(l) \ {l[p]}) \cup {r}
  <2>1. \A i \in DOMAIN l \ {p} : l[i] # l[p]
    BY DEF Unique
  <2> QED
    BY <1>3, <2>1 DEF Recs
<1> QED
  BY <1>2, <1>3, <1>5, <1>6 DEF r, m

(* Removing an entry of a sequence closes the gap it leaves.               *)
LEMMA RemoveAtProperties ==
  ASSUME NEW S, NEW s \in Seq(S), NEW k \in DOMAIN s
  PROVE  /\ RemoveAt(s, k) \in Seq(S)
         /\ DOMAIN RemoveAt(s, k) = 1 .. Len(s) - 1
         /\ \A j \in 1 .. Len(s) - 1 :
              RemoveAt(s, k)[j] = IF j < k THEN s[j] ELSE s[j + 1]
<1> DEFINE a == SubSeq(s, 1, k - 1)
           b == SubSeq(s, k + 1, Len(s))
           c == RemoveAt(s, k)
<1>1. k \in 1 .. Len(s) /\ Len(s) \in Nat /\ \A j \in 1 .. Len(s) : s[j] \in S
  BY LenProperties, ElementOfSeq
<1>2. /\ a \in Seq(S) /\ Len(a) = k - 1
      /\ \A j \in 1 .. k - 1 : a[j] = s[j]
  BY <1>1, SubSeqProperties
<1>3. /\ b \in Seq(S) /\ Len(b) = Len(s) - k
      /\ \A j \in 1 .. Len(s) - k : b[j] = s[k + j]
  BY <1>1, SubSeqProperties
<1>4. c = a \o b
  BY DEF RemoveAt
<1> HIDE DEF a, b, c
<1>5. /\ c \in Seq(S) /\ Len(c) = Len(s) - 1
      /\ \A j \in 1 .. Len(s) - 1 : c[j] = IF j <= k - 1 THEN a[j] ELSE b[j - (k - 1)]
  <2>1. /\ c \in Seq(S) /\ Len(c) = Len(a) + Len(b)
        /\ \A j \in 1 .. Len(a) + Len(b) : c[j] = IF j <= Len(a) THEN a[j] ELSE b[j - Len(a)]
    BY <1>2, <1>3, <1>4, ConcatProperties
  <2>2. Len(a) = k - 1 /\ Len(a) + Len(b) = Len(s) - 1
    BY <1>1, <1>2, <1>3
  <2> QED
    BY <2>1, <2>2
<1>6. ASSUME NEW j \in 1 .. Len(s) - 1
      PROVE  c[j] = IF j < k THEN s[j] ELSE s[j + 1]
  <2>1. CASE j < k
    <3>1. j \in 1 .. k - 1 /\ j <= k - 1
      BY <1>1, <2>1
    <3>2. c[j] = a[j]
      BY <1>5, <3>1
    <3> QED
      BY <1>2, <2>1, <3>1, <3>2
  <2>2. CASE j >= k
    <3>1. j - (k - 1) \in 1 .. Len(s) - k /\ k + (j - (k - 1)) = j + 1 /\ ~ (j <= k - 1)
      BY <1>1, <2>2
    <3>2. b[j - (k - 1)] = s[j + 1]
      BY <1>3, <3>1
    <3> QED
      BY <1>5, <2>2, <3>1, <3>2
  <2> QED
    BY <1>1, <2>1, <2>2
<1>7. DOMAIN c = 1 .. Len(s) - 1
  BY <1>5, LenProperties
<1> QED
  BY <1>5, <1>6, <1>7 DEF c

(* An observer that leaves is the only one that does, and the others stay  *)
(* in their order.                                                         *)
LEMMA LeaveForGood ==
  ASSUME NEW l \in Seq(Records), Unique(l), NEW p \in DOMAIN l
  PROVE  /\ RemoveAt(l, p) \in Seq(Records)
         /\ Unique(RemoveAt(l, p))
         /\ Recs(RemoveAt(l, p)) = Recs(l) \ {l[p]}
         /\ \A k : k # KeyOf(l[p]) => Ahead(RemoveAt(l, p), k) = Ahead(l, k) \ {KeyOf(l[p])}
<1> DEFINE m == RemoveAt(l, p)
           From(i) == IF i < p THEN i ELSE i + 1
           To(j) == IF j < p THEN j ELSE j - 1
<1>1. /\ m \in Seq(Records) /\ DOMAIN m = 1 .. Len(l) - 1
      /\ \A i \in 1 .. Len(l) - 1 : m[i] = IF i < p THEN l[i] ELSE l[i + 1]
  BY RemoveAtProperties
<1>2. DOMAIN l = 1 .. Len(l) /\ Len(l) \in Nat /\ p \in 1 .. Len(l)
  BY LenProperties
<1> HIDE DEF m
<1>3. \A i \in DOMAIN m : From(i) \in DOMAIN l \ {p} /\ m[i] = l[From(i)] /\ To(From(i)) = i
  BY <1>1, <1>2
<1>4. \A j \in DOMAIN l \ {p} : To(j) \in DOMAIN m /\ m[To(j)] = l[j]
  BY <1>1, <1>2
<1>5. \A i, j \in DOMAIN m : From(i) = From(j) => i = j
  BY <1>1, <1>2
<1>6. \A i, j \in DOMAIN m : i <= j => From(i) <= From(j)
  BY <1>1, <1>2
<1>7. \A i, j \in DOMAIN l \ {p} : i <= j => To(i) <= To(j)
  BY <1>1, <1>2
<1> HIDE DEF From, To
<1>8. Unique(m)
  BY <1>3, <1>5 DEF Unique
<1>9. \A j \in DOMAIN l \ {p} : l[j] # l[p] /\ KeyOf(l[j]) # KeyOf(l[p])
  BY DEF Unique
<1>10. Recs(m) = Recs(l) \ {l[p]}
  BY <1>3, <1>4, <1>9 DEF Recs
<1>11. ASSUME NEW k, k # KeyOf(l[p])
       PROVE  Ahead(m, k) = Ahead(l, k) \ {KeyOf(l[p])}
  <2>1. ASSUME NEW x \in Ahead(m, k) PROVE x \in Ahead(l, k) /\ x # KeyOf(l[p])
    <3>0. PICK i \in DOMAIN m : x = KeyOf(m[i]) /\ \E q \in 1 .. i : KeyOf(m[q]) = k
      BY DEF Ahead
    <3>1. PICK q \in 1 .. i : x = KeyOf(m[i]) /\ KeyOf(m[q]) = k
      BY <3>0
    <3>2. q \in DOMAIN m /\ q <= i
      BY <1>1, <3>1
    <3>3. /\ From(i) \in DOMAIN l \ {p} /\ m[i] = l[From(i)] /\ m[q] = l[From(q)]
          /\ From(q) \in DOMAIN l /\ From(q) <= From(i)
      BY <1>3, <1>6, <3>1, <3>2
    <3>4. From(q) \in 1 .. From(i)
      BY <1>2, <3>3
    <3> QED
      BY <1>9, <3>1, <3>3, <3>4 DEF Ahead
  <2>2. ASSUME NEW x \in Ahead(l, k), x # KeyOf(l[p]) PROVE x \in Ahead(m, k)
    <3>0. PICK i \in DOMAIN l : x = KeyOf(l[i]) /\ \E q \in 1 .. i : KeyOf(l[q]) = k
      BY DEF Ahead
    <3>1. PICK q \in 1 .. i : x = KeyOf(l[i]) /\ KeyOf(l[q]) = k
      BY <3>0
    <3>2. i # p /\ q # p /\ q \in DOMAIN l /\ q <= i
      BY <1>2, <1>11, <2>2, <3>1
    <3>3. /\ To(i) \in DOMAIN m /\ m[To(i)] = l[i] /\ m[To(q)] = l[q]
          /\ To(q) \in DOMAIN m /\ To(q) <= To(i)
      BY <1>4, <1>7, <3>2
    <3>4. To(q) \in 1 .. To(i)
      BY <1>1, <1>2, <3>3
    <3> QED
      BY <3>1, <3>3, <3>4 DEF Ahead
  <2> QED
    BY <2>1, <2>2
<1> QED
  BY <1>1, <1>8, <1>10, <1>11 DEF m

(* A walk begins with all of the observers before it ...                   *)
LEMMA FirstProperties ==
  ASSUME NEW l \in Seq(Records)
  PROVE  /\ FirstOf(l) # Nobody => Has(l, FirstOf(l))
         /\ Ahead(l, Nobody) = {}
         /\ Ahead(l, FirstOf(l)) = { KeyOf(l[j]) : j \in DOMAIN l }
<1>1. DOMAIN l = 1 .. Len(l) /\ Len(l) \in Nat /\ \A i \in DOMAIN l : l[i] \in Records
  BY LenProperties, ElementOfSeq
<1>2. \A i \in DOMAIN l : KeyOf(l[i]) # Nobody
  BY <1>1 DEF KeyOf, Records, Nobody, Keys, Windows, Computed
<1>3. Ahead(l, Nobody) = {}
  BY <1>1, <1>2 DEF Ahead
<1>4. CASE l = << >>
  BY <1>3, <1>4 DEF FirstOf
<1>5. CASE l # << >>
  <2>1. 1 \in DOMAIN l /\ FirstOf(l) = KeyOf(l[1])
    BY <1>1, <1>5, EmptySeq DEF FirstOf
  <2>2. Has(l, FirstOf(l))
    BY <2>1 DEF Has
  <2>3. \A j \in DOMAIN l : 1 \in 1 .. j
    BY <1>1
  <2> QED
    BY <1>3, <2>1, <2>2, <2>3 DEF Ahead
<1> QED
  BY <1>4, <1>5

(* ... and leaves one behind at each step.                                 *)
LEMMA AfterProperties ==
  ASSUME NEW l \in Seq(Records), Unique(l), NEW k, Has(l, k)
  PROVE  /\ AfterIn(l, k) # Nobody => Has(l, AfterIn(l, k))
         /\ AfterIn(l, k) # k
         /\ Ahead(l, AfterIn(l, k)) = Ahead(l, k) \ {k}
<1>1. DOMAIN l = 1 .. Len(l) /\ Len(l) \in Nat /\ \A i \in DOMAIN l : l[i] \in Records
  BY LenProperties, ElementOfSeq
<1>2. PICK p : p = PlaceOf(l, k)
  OBVIOUS
<1>3. p \in DOMAIN l /\ KeyOf(l[p]) = k
  BY <1>2, PlaceOfOne
<1>4. \A q \in DOMAIN l : KeyOf(l[q]) = k => q = p
  BY <1>3 DEF Unique
<1>5. Ahead(l, k) = { KeyOf(l[j]) : j \in p .. Len(l) }
  <2>1. \A j \in DOMAIN l : (\E q \in 1 .. j : KeyOf(l[q]) = k) <=> p <= j
    BY <1>1, <1>3, <1>4
  <2> QED
    BY <1>1, <1>3, <2>1 DEF Ahead
<1>6. CASE p = Len(l)
  <2>1. AfterIn(l, k) = Nobody
    BY <1>2, <1>6 DEF AfterIn
  <2>2. k # Nobody
    BY <1>1, <1>3 DEF KeyOf, Records, Nobody, Keys, Windows, Computed
  <2>3. Ahead(l, k) = {k}
    <3>1. p .. Len(l) = {p}
      BY <1>1, <1>3, <1>6
    <3> QED
      BY <1>3, <1>5, <3>1
  <2> QED
    BY <2>1, <2>2, <2>3, FirstProperties
<1>7. CASE p # Len(l)
  <2>1. p + 1 \in DOMAIN l /\ AfterIn(l, k) = KeyOf(l[p + 1])
    BY <1>1, <1>2, <1>3, <1>7 DEF AfterIn
  <2>2. Has(l, AfterIn(l, k)) /\ AfterIn(l, k) # k
    BY <1>1, <1>3, <1>4, <2>1 DEF Has
  <2>3. Ahead(l, AfterIn(l, k)) = { KeyOf(l[j]) : j \in p + 1 .. Len(l) }
    <3>1. \A j \in DOMAIN l : (\E q \in 1 .. j : KeyOf(l[q]) = AfterIn(l, k)) <=> p + 1 <= j
      <4>1. \A q \in DOMAIN l : KeyOf(l[q]) = KeyOf(l[p + 1]) => q = p + 1
        BY <2>1 DEF Unique
      <4> QED
        BY <1>1, <2>1, <4>1
    <3> QED
      BY <1>1, <2>1, <3>1 DEF Ahead
  <2>4. p .. Len(l) = (p + 1 .. Len(l)) \cup {p} /\ p \notin p + 1 .. Len(l)
    BY <1>1, <1>3
  <2>5. \A j \in p + 1 .. Len(l) : KeyOf(l[j]) # k
    BY <1>1, <1>3, <1>4
  <2> QED
    BY <1>3, <1>5, <2>2, <2>3, <2>4, <2>5
<1> QED
  BY <1>6, <1>7

-----------------------------------------------------------------------------
(* What is left to do *)

LEMMA TaskDomain ==
  ASSUME IInv
  PROVE  /\ DOMAIN tasks = 1 .. Len(tasks) /\ Len(tasks) \in Nat
         /\ \A i \in DOMAIN tasks : tasks[i] \in Tasks /\ i \in Nat /\ i > 0
         /\ \A j \in DOMAIN tasks : \A i \in 1 .. j - 1 : i \in DOMAIN tasks /\ i < j
<1>1. DOMAIN tasks = 1 .. Len(tasks) /\ Len(tasks) \in Nat /\ \A i \in 1 .. Len(tasks) : tasks[i] \in Tasks
  BY ElementOfSeq, LenProperties DEF IInv, Types
<1> QED
  BY <1>1

LEMMA RecordTypes ==
  ASSUME IInv, NEW r \in Recs(observers)
  PROVE  /\ r \in Records /\ r.nrefs \in Nat \ {0}
         /\ r.who = "viewers" => r.image \in Images
<1>1. PICK i \in DOMAIN observers : r = observers[i]
  BY DEF Recs
<1>2. r \in Records
  BY <1>1, ElementOfSeq, LenProperties DEF IInv, Types
<1> QED
  BY <1>2 DEF Records, KeyOf, Keys

LEMMA NoneBefore == \A i \in 1 .. 1 - 1 : FALSE
OBVIOUS

LEMMA TwoOfThree == 2 \in 1 .. 4 - 1
OBVIOUS

LEMMA Steps ==
  /\ \A op, img : Do(op, img).op = op /\ Do(op, img).image = img
  /\ \A img, change : /\ Event(img, change).op = "event" /\ Event(img, change).image = img
                      /\ Event(img, change).change = change
  /\ \A t : Tells(t) <=> t.op \in {"event", "walk"}
BY DEF Do, Event, Tells

LEMMA TaskTypes ==
  ASSUME NEW t \in Tasks
  PROVE  /\ t.image \in Images
         /\ t.op \in {"walk", "event", "change", "unwatch", "release", "free"}
         /\ t.op = "walk" => t \in Walks
         /\ Tells(t) => t.change \in Changes
         /\ t.op \in {"change", "unwatch", "release", "free"} => t = Do(t.op, t.image)
         /\ t.op = "event" => t = Event(t.image, t.change)
BY DEF Tasks, Walks, Tells, Do, Event

(* The first task takes a step.                                            *)
LEMMA TopProps ==
  ASSUME tasks \in Seq(Tasks), tasks # << >>, NEW y \in Tasks, tasks' = <<y>> \o Tail(tasks)
  PROVE  /\ tasks' \in Seq(Tasks)
         /\ \A i \in DOMAIN tasks : tasks[i] \in Tasks /\ i \in Nat
         /\ DOMAIN tasks' = DOMAIN tasks /\ 1 \in DOMAIN tasks
         /\ tasks'[1] = y /\ \A i \in DOMAIN tasks : i # 1 => tasks'[i] = tasks[i]
<1>1. /\ Tail(tasks) \in Seq(Tasks) /\ Len(Tail(tasks)) = Len(tasks) - 1
      /\ \A i \in 1 .. Len(Tail(tasks)) : Tail(tasks)[i] = tasks[i + 1]
  BY HeadTailProperties
<1>2. /\ DOMAIN tasks = 1 .. Len(tasks) /\ Len(tasks) \in Nat \ {0}
      /\ \A i \in DOMAIN tasks : tasks[i] \in Tasks
  BY LenProperties, ElementOfSeq, EmptySeq
<1>3. <<y>> \in Seq(Tasks) /\ Len(<<y>>) = 1 /\ <<y>>[1] = y
  OBVIOUS
<1>4. /\ tasks' \in Seq(Tasks) /\ Len(tasks') = Len(tasks) /\ tasks'[1] = y
      /\ \A i \in 2 .. Len(tasks) : tasks'[i] = Tail(tasks)[i - 1]
  BY <1>1, <1>2, <1>3, ConcatProperties
<1>5. \A i \in DOMAIN tasks : i # 1 => i - 1 \in 1 .. Len(Tail(tasks)) /\ (i - 1) + 1 = i /\ i \in 2 .. Len(tasks)
  BY <1>1, <1>2
<1> QED
  BY <1>1, <1>2, <1>4, <1>5, LenProperties

(* ... or is interrupted by an effects window that closes.                 *)
LEMMA ClosingProps ==
  ASSUME tasks \in Seq(Tasks), tasks # << >>, NEW img \in Images, NEW y \in Tasks,
         tasks' = Closing(img) \o <<y>> \o Tail(tasks)
  PROVE  /\ tasks' \in Seq(Tasks)
         /\ \A i \in DOMAIN tasks : tasks[i] \in Tasks /\ i \in Nat /\ i > 0
         /\ 1 \in DOMAIN tasks
         /\ \A i : i \in DOMAIN tasks' <=> i \in {1, 2, 3} \/ (i \in Nat /\ i - 3 \in DOMAIN tasks)
         /\ tasks'[1] = Event(img, "preview") /\ tasks'[3] = Event(img, "preview")
         /\ tasks'[2] = Do("unwatch", img)
         /\ tasks'[4] = y
         /\ \A i \in DOMAIN tasks : i # 1 => tasks'[i + 3] = tasks[i]
<1> DEFINE c == Closing(img)
           d == c \o <<y>>
<1>1. /\ Tail(tasks) \in Seq(Tasks) /\ Len(Tail(tasks)) = Len(tasks) - 1
      /\ \A i \in 1 .. Len(Tail(tasks)) : Tail(tasks)[i] = tasks[i + 1]
  BY HeadTailProperties
<1>2. /\ DOMAIN tasks = 1 .. Len(tasks) /\ Len(tasks) \in Nat \ {0}
      /\ \A i \in DOMAIN tasks : tasks[i] \in Tasks
  BY LenProperties, ElementOfSeq, EmptySeq
<1>3. Event(img, "preview") \in Tasks /\ Do("unwatch", img) \in Tasks
  BY DEF Event, Do, Tasks, Changes
<1>4. /\ c \in Seq(Tasks) /\ Len(c) = 3 /\ c[1] = Event(img, "preview")
      /\ c[2] = Do("unwatch", img) /\ c[3] = Event(img, "preview")
  <2> DEFINE e == Event(img, "preview")
             u == Do("unwatch", img)
  <2>1. e \in Tasks /\ u \in Tasks /\ c = <<e, u, e>>
    BY <1>3 DEF Closing
  <2> HIDE DEF e, u, c
  <2>2. c \in Seq(Tasks) /\ Len(c) = 3 /\ c[1] = e /\ c[2] = u /\ c[3] = e
    BY <2>1
  <2> QED
    BY <2>2 DEF e, u
<1>5. <<y>> \in Seq(Tasks) /\ Len(<<y>>) = 1 /\ <<y>>[1] = y
  OBVIOUS
<1> HIDE DEF c
<1>6. /\ d \in Seq(Tasks) /\ Len(d) = 4 /\ d[1] = c[1] /\ d[2] = c[2] /\ d[3] = c[3] /\ d[4] = y
  <2>1. /\ d \in Seq(Tasks) /\ Len(d) = 3 + 1
        /\ \A i \in 1 .. 3 + 1 : d[i] = IF i <= 3 THEN c[i] ELSE <<y>>[i - 3]
    <3> DEFINE z == <<y>>
    <3>1. /\ d \in Seq(Tasks) /\ Len(d) = Len(c) + Len(z)
          /\ \A i \in 1 .. Len(c) + Len(z) : d[i] = IF i <= Len(c) THEN c[i] ELSE z[i - Len(c)]
      BY <1>4, <1>5, ConcatProperties
    <3> QED
      BY <1>4, <1>5, <3>1
  <2> HIDE DEF d
  <2>2. d[4] = <<y>>[4 - 3]
    BY <2>1
  <2>3. 4 - 3 = 1
    OBVIOUS
  <2> QED
    BY <1>5, <2>1, <2>2, <2>3
<1>7. tasks' = d \o Tail(tasks)
  BY DEF c
<1> HIDE DEF d
<1>8. /\ tasks' \in Seq(Tasks) /\ Len(tasks') = Len(tasks) + 3
      /\ \A i \in 1 .. 4 : tasks'[i] = d[i]
      /\ \A i \in 5 .. Len(tasks) + 3 : tasks'[i] = Tail(tasks)[i - 4]
  <2> DEFINE t == Tail(tasks)
  <2>0. t \in Seq(Tasks) /\ tasks' = d \o t
    BY <1>1, <1>7
  <2> HIDE DEF t
  <2>1. /\ tasks' \in Seq(Tasks) /\ Len(tasks') = Len(d) + Len(t)
        /\ \A i \in 1 .. Len(d) + Len(t) : tasks'[i] = IF i <= Len(d) THEN d[i] ELSE t[i - Len(d)]
    <3>1. /\ d \o t \in Seq(Tasks) /\ Len(d \o t) = Len(d) + Len(t)
          /\ \A i \in 1 .. Len(d) + Len(t) : (d \o t)[i] = IF i <= Len(d) THEN d[i] ELSE t[i - Len(d)]
      BY <1>6, <2>0, ConcatProperties
    <3> QED
      BY <2>0, <3>1
  <2>2. Len(d) = 4 /\ Len(t) = Len(tasks) - 1
    BY <1>1, <1>6 DEF t
  <2>3. /\ Len(tasks') = Len(tasks) + 3
        /\ \A i \in 1 .. Len(tasks) + 3 : tasks'[i] = IF i <= 4 THEN d[i] ELSE t[i - 4]
    BY <1>2, <2>1, <2>2
  <2> QED
    BY <1>2, <2>1, <2>3 DEF t
<1>9. DOMAIN tasks' = 1 .. Len(tasks) + 3
  BY <1>2, <1>8, LenProperties
<1>10. \A i \in DOMAIN tasks : i # 1 =>
         /\ i + 3 \in 5 .. Len(tasks) + 3 /\ (i + 3) - 4 = i - 1
         /\ i - 1 \in 1 .. Len(Tail(tasks)) /\ (i - 1) + 1 = i
  BY <1>1, <1>2
<1>11. \A i : i \in DOMAIN tasks' <=> i \in {1, 2, 3} \/ (i \in Nat /\ i - 3 \in DOMAIN tasks)
  BY <1>2, <1>9
<1>12. ASSUME NEW i \in DOMAIN tasks, i # 1 PROVE tasks'[i + 3] = tasks[i]
  <2>1. tasks'[i + 3] = Tail(tasks)[i - 1]
    BY <1>8, <1>10, <1>12
  <2> QED
    BY <1>1, <1>10, <1>12, <2>1
<1>13. 1 \in DOMAIN tasks /\ \A i \in DOMAIN tasks : i \in Nat /\ i > 0
  BY <1>2
<1>14. /\ tasks'[1] = Event(img, "preview") /\ tasks'[3] = Event(img, "preview")
       /\ tasks'[2] = Do("unwatch", img) /\ tasks'[4] = y
  BY <1>4, <1>6, <1>8
<1> QED
  BY <1>2, <1>8, <1>11, <1>12, <1>13, <1>14

-----------------------------------------------------------------------------
(* Coming and going *)

(* The invariant is stronger than what the runs check.                     *)
LEMMA IInvImplies ==
  IInv => TypeOK /\ WalksAreSafe /\ NoneOutlivesItsImage /\ ViewersAreTold /\ ShownIsCurrent
<1> SUFFICES ASSUME IInv
             PROVE  TypeOK /\ WalksAreSafe /\ NoneOutlivesItsImage /\ ViewersAreTold /\ ShownIsCurrent
  OBVIOUS
<1>1. \A i \in DOMAIN observers : observers[i] \in Records
  BY ElementOfSeq, LenProperties DEF IInv, Types
<1>2. TypeOK
  <2>1. \A i \in DOMAIN observers : KeyOf(observers[i]) \in Keys /\ observers[i].nrefs \in Nat \ {0}
    BY <1>1 DEF Records
  <2>2. hists \in [Images -> Data] /\ DOMAIN avail = Images
    BY DEF IInv, Types, WindowTypes, Data
  <2> QED
    BY <2>1, <2>2 DEF IInv, Types, WindowTypes, Unique, TypeOK
<1>3. ASSUME Idle PROVE \A i : i \notin DOMAIN tasks
  BY <1>3 DEF Idle
<1>4. ASSUME NEW img \in Images, Idle, viewers[img] > 0, <<img, "viewers">> \notin deaf
      PROVE  \E i \in DOMAIN observers :
               KeyOf(observers[i]) = <<img, "viewers">> /\ observers[i].nrefs = viewers[img]
  <2>1. Watching(img) = viewers[img]
    BY <1>3, <1>4 DEF Watching, Leaving
  <2> QED
    BY <1>4, <2>1 DEF IInv, CountsInv, Recs
<1>5. ViewersAreTold
  BY <1>4 DEF ViewersAreTold
<1>6. ASSUME NEW img \in Images, NEW w \in Computed, Idle, win[img][w] = "open",
             <<img, w>> \notin deaf
      PROVE  shows[img][w] \in {"current", "failed"}
  BY <1>3, <1>6 DEF IInv, ShownInv, Fresh
<1>7. ShownIsCurrent
  BY <1>6 DEF ShownIsCurrent
<1> QED
  BY <1>2, <1>5, <1>7 DEF IInv

(* A window stops watching: its observer was its own.                      *)
LEMMA LeaveOne ==
  ASSUME IInv, NEW img \in Images, NEW who \in Windows, Deregister(img, who)
  PROVE  /\ observers' \in Seq(Records) /\ Unique(observers')
         /\ Recs(observers') = { r \in Recs(observers) : KeyOf(r) # <<img, who>> }
         /\ Registered' = Registered \ {<<img, who>>}
         /\ \A k : k # <<img, who>> =>
              Ahead(observers', k) = Ahead(observers, k) \ {<<img, who>>}
         /\ deaf' = deaf \ {<<img, who>>}
<1> DEFINE key == <<img, who>>
<1>1. who # "viewers"
  BY DEF Windows, Computed
<1>2. observers \in Seq(Records) /\ Unique(observers)
  BY DEF IInv, Types
<1>3. /\ observers' \in Seq(Records) /\ Unique(observers')
      /\ Recs(observers') = { r \in Recs(observers) : KeyOf(r) # key }
      /\ \A k : k # key => Ahead(observers', k) = Ahead(observers, k) \ {key}
  <2>1. CASE ~ Has(observers, key)
    <3>1. observers' = observers
      BY <2>1 DEF Deregister, Leave
    <3>2. \A k : key \notin Ahead(observers, k)
      BY <2>1 DEF Has, Ahead
    <3>3. \A r \in Recs(observers) : KeyOf(r) # key
      BY <2>1 DEF Has, Recs
    <3> QED
      BY <1>2, <3>1, <3>2, <3>3
  <2>2. CASE Has(observers, key)
    <3>1. PICK p : p = PlaceOf(observers, key)
      OBVIOUS
    <3>2. /\ p \in DOMAIN observers /\ KeyOf(observers[p]) = key
          /\ observers[p] \in Recs(observers)
          /\ \A r \in Recs(observers) : KeyOf(r) = key => r = observers[p]
      BY <1>2, <2>2, <3>1, PlaceOfOne
    <3>3. observers[p].who = who
      BY <3>2 DEF KeyOf
    <3>4. observers[p].nrefs = 1
      BY <1>1, <3>2, <3>3 DEF IInv, CountsInv
    <3>5. observers' = RemoveAt(observers, p)
      BY <2>2, <3>1, <3>4 DEF Deregister, Leave
    <3>6. Recs(observers') = Recs(observers) \ {observers[p]}
      BY <1>2, <3>2, <3>5, LeaveForGood
    <3>7. Recs(observers') = { r \in Recs(observers) : KeyOf(r) # key }
      BY <3>2, <3>6
    <3> QED
      BY <1>2, <3>2, <3>5, <3>7, LeaveForGood
  <2> QED
    BY <2>1, <2>2
<1>4. Registered' = Registered \ {key}
  BY <1>3 DEF Registered, Recs
<1>5. deaf' = deaf \ {key}
  BY <1>1 DEF Deregister
<1> QED
  BY <1>3, <1>4, <1>5

(* A window which nobody knows of watches, or could not.                   *)
LEMMA JoinOne ==
  ASSUME IInv, NEW img \in Images, NEW who \in Windows \cup {"viewers"}, Register(img, who),
         ~ Has(observers, <<img, who>>)
  PROVE  \/ /\ observers' \in Seq(Records) /\ Unique(observers')
            /\ Recs(observers') =
                 Recs(observers) \cup {[image |-> img, who |-> who, nrefs |-> 1]}
            /\ Registered' = Registered \cup {<<img, who>>}
            /\ deaf' = deaf
         \/ /\ observers' = observers
            /\ deaf' = deaf \cup {<<img, who>>}
<1>1. [image |-> img, who |-> who, nrefs |-> 1] \in Records
  BY DEF Records, Keys, KeyOf
<1>2. CASE observers' = Insert(observers, img, who) /\ UNCHANGED deaf
  <2>1. /\ observers' \in Seq(Records) /\ Unique(observers')
        /\ Recs(observers') =
             Recs(observers) \cup {[image |-> img, who |-> who, nrefs |-> 1]}
    BY <1>1, <1>2, InsertFirst DEF IInv, Types
  <2>2. KeyOf([image |-> img, who |-> who, nrefs |-> 1]) = <<img, who>>
    BY DEF KeyOf
  <2>3. Registered = { KeyOf(r) : r \in Recs(observers) }
        /\ Registered' = { KeyOf(r) : r \in Recs(observers') }
    BY DEF Registered, Recs
  <2>4. Registered' = Registered \cup {<<img, who>>}
    BY <2>1, <2>2, <2>3
  <2> QED
    BY <1>2, <2>1, <2>4
<1> QED
  BY <1>2 DEF Register

-----------------------------------------------------------------------------
(* Walks *)

(* What a walk's next step leaves in order.                                *)
LEMMA TopKeeps ==
  ASSUME IInv, tasks # << >>, NEW y \in Walks, tasks' = <<y>> \o Tail(tasks),
         Tells(tasks[1]), y.image = tasks[1].image, y.change = tasks[1].change,
         viewers' = viewers, Registered' \subseteq Registered,
         \A img \in Images : win'[img]["effects"] = win[img]["effects"]
  PROVE  /\ tasks' \in Seq(Tasks)
         /\ DOMAIN tasks' = DOMAIN tasks /\ tasks'[1] = y
         /\ \A i \in DOMAIN tasks : i # 1 => tasks'[i] = tasks[i]
         /\ \A img : (\E i \in DOMAIN tasks' : tasks'[i] = Do("unwatch", img))
                      <=> (\E i \in DOMAIN tasks : tasks[i] = Do("unwatch", img))
         /\ \A img \in Images : Watching(img)' = Watching(img)
         /\ OrderInv'
<1>1. y \in Tasks /\ y.op = "walk"
  BY DEF Tasks, Walks
<1>2. /\ tasks' \in Seq(Tasks)
      /\ DOMAIN tasks' = DOMAIN tasks /\ 1 \in DOMAIN tasks
      /\ tasks'[1] = y /\ \A i \in DOMAIN tasks : i # 1 => tasks'[i] = tasks[i]
  BY <1>1, TopProps DEF IInv, Types
<1>3. /\ DOMAIN tasks = 1 .. Len(tasks) /\ Len(tasks) \in Nat
      /\ \A i \in DOMAIN tasks : tasks[i] \in Tasks /\ i \in Nat /\ i > 0
  BY TaskDomain
<1>4. /\ tasks[1].op \in {"event", "walk"}
      /\ \A img : Do("unwatch", img).op = "unwatch" /\ Do("release", img).op = "release"
  BY Steps
<1>5. /\ \A img : (\E i \in DOMAIN tasks' : tasks'[i] = Do("unwatch", img))
                   <=> (\E i \in DOMAIN tasks : tasks[i] = Do("unwatch", img))
      /\ \A img : (\E i \in DOMAIN tasks' : tasks'[i] = Do("release", img))
                   <=> (\E i \in DOMAIN tasks : tasks[i] = Do("release", img))
  BY <1>1, <1>2, <1>4
<1>6. \A img \in Images : Watching(img)' = Watching(img)
  BY <1>5 DEF Watching, Leaving
<1>7. \A i \in DOMAIN tasks : tasks[i].image \in Images
  BY <1>3, TaskTypes
<1>8. ASSUME NEW i \in DOMAIN tasks, NEW j \in DOMAIN tasks, i < j
      PROVE  InOrder(tasks'[i], tasks'[j])
  <2>1. j # 1 /\ tasks'[j] = tasks[j]
    BY <1>2, <1>3, <1>8
  <2>2. InOrder(tasks[i], tasks[j])
    BY <1>8 DEF IInv, OrderInv
  <2>3. CASE i = 1
    <3>1. InOrder(y, tasks[j])
      BY <1>1, <2>2, <2>3 DEF InOrder, Tells
    <3> QED
      BY <1>2, <2>1, <2>3, <3>1
  <2> QED
    BY <1>2, <2>1, <2>2, <2>3
<1>9. \A i \in DOMAIN tasks : Ready(tasks[i])'
  <2>1. ASSUME NEW t \in Tasks, Ready(t) PROVE Ready(t)'
    <3>1. t.image \in Images
      BY TaskTypes
    <3> QED
      BY <1>6, <2>1, <3>1 DEF Ready
  <2>2. Ready(y)
    BY <1>1, <1>2, <1>4 DEF IInv, OrderInv, Ready, Dooms, Tells
  <2>3. \A i \in DOMAIN tasks : Ready(tasks[i])
    BY DEF IInv, OrderInv
  <2>4. ASSUME NEW i \in DOMAIN tasks PROVE Ready(tasks[i])'
    <3>1. PICK t \in Tasks : t = tasks'[i] /\ Ready(t)
      BY <1>1, <1>2, <1>3, <2>2, <2>3
    <3>2. Ready(t)'
      BY <2>1, <3>1
    <3> QED
      BY <3>1, <3>2
  <2> QED
    BY <2>4
<1>10. ASSUME NEW i \in DOMAIN tasks, tasks'[i].op = "free"
       PROVE  i # 1 /\ Precedes(tasks'[i - 1], tasks'[i])
  <2>1. i # 1 /\ tasks'[i] = tasks[i]
    BY <1>1, <1>2, <1>10
  <2>2. Precedes(tasks[i - 1], tasks[i])
    BY <1>10, <2>1 DEF IInv, OrderInv
  <2>3. i - 1 \in DOMAIN tasks
    BY <1>3, <2>1
  <2>4. CASE i - 1 = 1
    <3>1. Precedes(y, tasks[i])
      BY <1>1, <2>2, <2>4 DEF Precedes, Tells
    <3> QED
      BY <1>2, <2>1, <2>4, <3>1
  <2> QED
    BY <1>2, <2>1, <2>2, <2>3, <2>4
<1>11. ASSUME NEW i \in DOMAIN tasks, tasks'[i].op = "change"
       PROVE  i + 1 \in DOMAIN tasks' /\ tasks'[i + 1] = Event(tasks'[i].image, "modified")
  <2>1. i # 1 /\ tasks'[i] = tasks[i]
    BY <1>1, <1>2, <1>11
  <2>2. i + 1 \in DOMAIN tasks /\ tasks[i + 1] = Event(tasks[i].image, "modified")
    BY <1>11, <2>1 DEF IInv, OrderInv
  <2>3. i + 1 # 1
    BY <1>3
  <2> QED
    BY <1>2, <2>1, <2>2, <2>3
<1>12. OrderInv'
  BY <1>2, <1>8, <1>9, <1>10, <1>11 DEF OrderInv
<1> QED
  BY <1>2, <1>5, <1>6, <1>12

(* A walk that begins, or calls one who does nothing.                      *)
LEMMA TopQuiet ==
  ASSUME IInv, tasks # << >>, NEW y \in Walks, tasks' = <<y>> \o Tail(tasks),
         Tells(tasks[1]), y.image = tasks[1].image, y.change = tasks[1].change,
         UNCHANGED <<observers, live, viewers, deaf, windowVars>>,
         y.next \in Registered \cup {Nobody},
         y.change = "about to destroy" =>
           \A k \in Registered : k[1] = y.image => k \in Ahead(observers, y.next),
         \A img \in Images, w \in Computed :
           win[img][w] # "none" /\ <<img, w>> \notin deaf /\ WillHear(img, w, tasks[1])
             => WillHear(img, w, y)
  PROVE  IInv'
<1>1. Registered' = Registered
  BY DEF Registered
<1>2. /\ tasks' \in Seq(Tasks)
      /\ DOMAIN tasks' = DOMAIN tasks /\ tasks'[1] = y
      /\ \A i \in DOMAIN tasks : i # 1 => tasks'[i] = tasks[i]
      /\ \A img : (\E i \in DOMAIN tasks' : tasks'[i] = Do("unwatch", img))
                   <=> (\E i \in DOMAIN tasks : tasks[i] = Do("unwatch", img))
      /\ \A img \in Images : Watching(img)' = Watching(img)
      /\ OrderInv'
  BY <1>1, TopKeeps DEF windowVars
<1>10. /\ \A j \in DOMAIN tasks : \A i \in 1 .. j - 1 : i \in DOMAIN tasks
       /\ \A img : tasks[1] # Do("unwatch", img)
  <2>1. tasks[1].op \in {"event", "walk"} /\ \A img : Do("unwatch", img).op = "unwatch"
    BY Steps
  <2>2. tasks[1].op # "unwatch"
    BY <2>1
  <2> QED
    BY <2>1, <2>2, TaskDomain
<1>3. Types'
  BY <1>2 DEF IInv, Types, WindowTypes, windowVars
<1>4. CountsInv'
  <2>1. \A r \in Recs(observers) : r.who = "viewers" => r.image \in Images
    BY RecordTypes
  <2>2. CountsInv
    BY DEF IInv
  <2> QED
    BY <1>2, <2>1, <2>2 DEF CountsInv
<1>5. WindowsInv'
  BY <1>1, <1>2 DEF IInv, WindowsInv, windowVars
<1>6. EndsInv'
  <2> SUFFICES ASSUME NEW j \in DOMAIN tasks, tasks'[j].op = "walk",
                      tasks'[j].change = "about to destroy", NEW k \in Registered,
                      k[1] = tasks'[j].image
               PROVE  \/ k \in Ahead(observers, tasks'[j].next)
                      \/ k[2] = "effects"
                         /\ \E i \in 1 .. j - 1 : tasks'[i] = Do("unwatch", tasks'[j].image)
    BY <1>1, <1>2 DEF EndsInv
  <2>1. CASE j = 1
    BY <1>2, <2>1
  <2>2. CASE j # 1
    <3>1. \/ k \in Ahead(observers, tasks[j].next)
          \/ k[2] = "effects"
             /\ \E i \in 1 .. j - 1 : tasks[i] = Do("unwatch", tasks[j].image)
      BY <1>2, <2>2 DEF IInv, EndsInv
    <3> QED
      BY <1>2, <1>10, <2>2, <3>1
  <2> QED
    BY <2>1, <2>2
<1>7. ShownInv'
  <2>0. \A img, w, t : WillHear(img, w, t)' = WillHear(img, w, t)
    BY DEF WillHear
  <2> SUFFICES ASSUME NEW img \in Images, NEW w \in Computed, win[img][w] # "none",
                      <<img, w>> \notin deaf
               PROVE  Fresh(img, w) \/ \E i \in DOMAIN tasks' : WillHear(img, w, tasks'[i])
    BY <2>0 DEF ShownInv, Fresh, windowVars
  <2>1. Fresh(img, w) \/ \E i \in DOMAIN tasks : WillHear(img, w, tasks[i])
    BY DEF IInv, ShownInv
  <2> QED
    BY <1>2, <2>1
<1>8. WalksAreSafe'
  BY <1>1, <1>2 DEF IInv, WalksAreSafe
<1>9. NoneOutlivesItsImage'
  BY <1>1 DEF IInv, NoneOutlivesItsImage, windowVars
<1> QED
  BY <1>2, <1>3, <1>4, <1>5, <1>6, <1>7, <1>8, <1>9 DEF IInv

LEMMA RegisteredKeys ==
  ASSUME IInv
  PROVE  Registered \subseteq Keys
<1>1. \A i \in DOMAIN observers : observers[i] \in Records
  BY ElementOfSeq, LenProperties DEF IInv, Types
<1> QED
  BY <1>1 DEF Registered, Records

LEMMA WalkBeginsSafely ==
  ASSUME IInv, WalkBegins
  PROVE  IInv'
<1> DEFINE y == [op |-> "walk", image |-> tasks[1].image, change |-> tasks[1].change,
                 next |-> FirstOf(observers)]
<1>1. tasks # << >> /\ tasks[1].op = "event" /\ tasks' = <<y>> \o Tail(tasks)
      /\ UNCHANGED <<observers, live, viewers, deaf, windowVars>>
  BY DEF WalkBegins, Doing
<1>2. observers \in Seq(Records) /\ Registered \subseteq Keys
  BY RegisteredKeys DEF IInv, Types
<1>3. /\ FirstOf(observers) \in Registered \cup {Nobody}
      /\ Ahead(observers, FirstOf(observers)) = Registered
  BY <1>2, FirstProperties, HasRegistered DEF Registered
<1>4. tasks[1] \in Tasks
  <2>1. 1 \in DOMAIN tasks
    BY <1>1, EmptySeq, TaskDomain DEF IInv, Types
  <2> QED
    BY <2>1, TaskDomain
<1>5. tasks[1].image \in Images /\ tasks[1].change \in Changes /\ Tells(tasks[1])
      /\ tasks[1] = Event(tasks[1].image, tasks[1].change)
  BY <1>1, <1>4, TaskTypes DEF Tells
<1>6. /\ y.op = "walk" /\ y.image = tasks[1].image /\ y.change = tasks[1].change
      /\ y.next = FirstOf(observers) /\ y \in Walks
  BY <1>2, <1>3, <1>5 DEF Walks
<1> HIDE DEF y
<1>7. ASSUME NEW img \in Images, NEW w \in Computed, win[img][w] # "none",
             <<img, w>> \notin deaf, WillHear(img, w, tasks[1])
      PROVE  WillHear(img, w, y)
  <2>1. <<img, w>> \in Registered
    BY <1>7 DEF IInv, WindowsInv, Windows
  <2>2. tasks[1].image = img /\ tasks[1].change = "modified"
    BY <1>1, <1>7 DEF WillHear, Event
  <2> QED
    BY <1>3, <1>6, <2>1, <2>2 DEF WillHear
<1>8. PICK z \in Walks : z = y
  BY <1>6
<1> QED
  BY <1>1, <1>3, <1>5, <1>6, <1>7, <1>8, TopQuiet

(* The observer that is called is still there, and the walk moves on.      *)
LEMMA Calling ==
  ASSUME IInv, NEW k, Calls(k)
  PROVE  /\ tasks # << >> /\ tasks[1] \in Walks /\ tasks[1].op = "walk" /\ tasks[1].next = k
         /\ tasks[1].image \in Images /\ Tells(tasks[1]) /\ k \in Registered
         /\ Advanced(tasks[1]) \in Walks /\ Advanced(tasks[1]).op = "walk"
         /\ Advanced(tasks[1]).image = tasks[1].image
         /\ Advanced(tasks[1]).change = tasks[1].change
         /\ Advanced(tasks[1]).next \in Registered \cup {Nobody}
         /\ Advanced(tasks[1]).next # k
         /\ Ahead(observers, Advanced(tasks[1]).next) = Ahead(observers, k) \ {k}
<1>1. tasks # << >> /\ tasks[1].op = "walk" /\ tasks[1].next = k /\ Has(observers, k)
  BY DEF Calls, Doing
<1>2. tasks[1] \in Walks
  <2>1. 1 \in DOMAIN tasks
    BY <1>1, EmptySeq, TaskDomain DEF IInv, Types
  <2> QED
    BY <1>1, <2>1, TaskDomain, TaskTypes
<1>3. observers \in Seq(Records) /\ Unique(observers) /\ Registered \subseteq Keys
  BY RegisteredKeys DEF IInv, Types
<1>4. /\ AfterIn(observers, k) \in Registered \cup {Nobody}
      /\ AfterIn(observers, k) # k
      /\ Ahead(observers, AfterIn(observers, k)) = Ahead(observers, k) \ {k}
  BY <1>1, <1>3, AfterProperties, HasRegistered
<1>5. tasks[1].image \in Images /\ tasks[1].change \in Changes
  BY <1>2 DEF Walks
<1>6. /\ Advanced(tasks[1]).op = "walk" /\ Advanced(tasks[1]).next = AfterIn(observers, k)
      /\ Advanced(tasks[1]).image = tasks[1].image
      /\ Advanced(tasks[1]).change = tasks[1].change
      /\ Advanced(tasks[1]) \in Walks
  BY <1>1, <1>2, <1>3, <1>4 DEF Advanced, Step, Walks
<1> QED
  BY <1>1, <1>2, <1>4, <1>5, <1>6, HasRegistered DEF Tells

LEMMA CallQuietSafely ==
  ASSUME IInv, CallQuiet
  PROVE  IInv'
<1>1. PICK k \in Keys : /\ Calls(k) /\ Quiet(k, tasks[1])
                       /\ UNCHANGED <<observers, live, viewers, deaf, windowVars>>
                       /\ tasks' = <<Advanced(tasks[1])>> \o Tail(tasks)
  BY DEF CallQuiet
<1>2. PICK y \in Walks : y = Advanced(tasks[1])
  BY <1>1, Calling
<1>3. /\ tasks # << >> /\ tasks[1].op = "walk" /\ tasks[1].next = k
      /\ tasks[1].image \in Images /\ Tells(tasks[1]) /\ k \in Registered
      /\ y.op = "walk" /\ y.image = tasks[1].image /\ y.change = tasks[1].change
      /\ y.next \in Registered \cup {Nobody}
      /\ Ahead(observers, y.next) = Ahead(observers, k) \ {k}
  BY <1>1, <1>2, Calling
<1>4. 1 \in DOMAIN tasks
  BY <1>3, EmptySeq, TaskDomain DEF IInv, Types
<1>5. ASSUME y.change = "about to destroy", NEW o \in Registered, o[1] = y.image
      PROVE  o \in Ahead(observers, y.next)
  <2>1. o \in Ahead(observers, k)
    <3>1. \A i \in 1 .. 1 - 1 : FALSE
      OBVIOUS
    <3> QED
      BY <1>3, <1>4, <1>5, <3>1 DEF IInv, EndsInv
  <2>2. ASSUME o = k PROVE FALSE
    <3>1. k = <<y.image, "viewers">>
      <4>1. k[1] = y.image /\ y.image \in Images /\ y.image # Every
        BY <1>3, <1>5, <2>2, ObserversAssumption
      <4>2. k = <<k[1], k[2]>> /\ k[2] \in {"hist", "meta", "effects", "viewers"}
        BY <1>1, <4>1 DEF Keys, Windows, Computed
      <4>3. k[2] = "viewers"
        BY <1>1, <1>3, <1>5, <4>1, <4>2 DEF Quiet, Computed
      <4> QED
        BY <4>1, <4>2, <4>3
    <3>2. PICK r \in Recs(observers) : KeyOf(r) = k
      BY <1>3, HasRegistered
    <3>3. r.who = "viewers" /\ r.image = y.image
      BY <3>1, <3>2 DEF KeyOf
    <3>4. r.nrefs <= Watching(y.image)
      BY <3>3 DEF IInv, CountsInv
    <3>5. Watching(y.image) = 0
      <4>1. Dooms(tasks[1])
        BY <1>3, <1>5 DEF Dooms
      <4> QED
        BY <1>3, <1>4, <4>1 DEF IInv, OrderInv, Ready
    <3> QED
      BY <3>4, <3>5, RecordTypes
  <2> QED
    BY <1>3, <2>1, <2>2
<1>6. ASSUME NEW img \in Images, NEW w \in Computed, WillHear(img, w, tasks[1])
      PROVE  WillHear(img, w, y)
  <2>1. /\ tasks[1].image = img /\ tasks[1].change = "modified"
        /\ <<img, w>> \in Ahead(observers, k)
    BY <1>3, <1>6 DEF WillHear, Event
  <2>2. <<img, w>> # k
    BY <1>1, <2>1, ObserversAssumption DEF Quiet, Computed
  <2> QED
    BY <1>3, <2>1, <2>2 DEF WillHear
<1> QED
  BY <1>1, <1>2, <1>3, <1>5, <1>6, TopQuiet

-----------------------------------------------------------------------------
(* Tasks that are done                                                     *)

Shorter(n) ==
  /\ DOMAIN tasks = 1 .. n /\ DOMAIN tasks' = 1 .. n - 1
  /\ \A i \in 1 .. n - 1 : tasks'[i] = tasks[i + 1]

LEMMA PopPlaces ==
  ASSUME IInv, tasks # << >>, tasks' = Tail(tasks)
  PROVE  /\ tasks' \in Seq(Tasks)
         /\ \E n \in Nat \ {0} : Shorter(n)
<1>1. /\ Tail(tasks) \in Seq(Tasks) /\ Len(Tail(tasks)) = Len(tasks) - 1
      /\ \A i \in 1 .. Len(Tail(tasks)) : Tail(tasks)[i] = tasks[i + 1]
  BY HeadTailProperties DEF IInv, Types
<1>2. DOMAIN tasks = 1 .. Len(tasks) /\ Len(tasks) \in Nat \ {0}
  BY LenProperties, EmptySeq DEF IInv, Types
<1>3. DOMAIN tasks' = 1 .. Len(tasks) - 1
  BY <1>1, <1>2, LenProperties
<1>4. Shorter(Len(tasks))
  BY <1>1, <1>2, <1>3 DEF Shorter
<1> QED
  BY <1>1, <1>2, <1>4

LEMMA ShorterProps ==
  ASSUME NEW n \in Nat \ {0}, Shorter(n)
  PROVE  /\ 1 \in DOMAIN tasks
         /\ \A i \in DOMAIN tasks' :
              /\ i \in Nat /\ i > 0 /\ i + 1 > 1 /\ i + 1 # 1 /\ (i + 1) - 1 = i
              /\ i + 1 \in DOMAIN tasks /\ tasks'[i] = tasks[i + 1]
              /\ i # 1 => i - 1 \in DOMAIN tasks' /\ tasks'[i - 1] = tasks[i]
              /\ (i + 1) + 1 \in DOMAIN tasks =>
                   i + 1 \in DOMAIN tasks' /\ tasks'[i + 1] = tasks[(i + 1) + 1]
              /\ \A j \in DOMAIN tasks' : i < j => i + 1 < j + 1
              /\ \A j \in 1 .. (i + 1) - 1 : j # 1 => j - 1 \in 1 .. i - 1
         /\ \A i \in DOMAIN tasks :
              i = 1 \/ (i > 1 /\ i - 1 \in DOMAIN tasks' /\ tasks'[i - 1] = tasks[i])
<1>1. 1 \in DOMAIN tasks
  BY DEF Shorter
<1>2. \A i \in DOMAIN tasks' :
        /\ i \in Nat /\ i > 0 /\ i + 1 > 1 /\ i + 1 # 1 /\ (i + 1) - 1 = i
        /\ i + 1 \in DOMAIN tasks /\ tasks'[i] = tasks[i + 1]
        /\ i # 1 => i - 1 \in DOMAIN tasks' /\ tasks'[i - 1] = tasks[i]
  BY DEF Shorter
<1>3. \A i \in DOMAIN tasks' :
        /\ (i + 1) + 1 \in DOMAIN tasks =>
             i + 1 \in DOMAIN tasks' /\ tasks'[i + 1] = tasks[(i + 1) + 1]
        /\ \A j \in DOMAIN tasks' : i < j => i + 1 < j + 1
        /\ \A j \in 1 .. (i + 1) - 1 : j # 1 => j - 1 \in 1 .. i - 1
  BY DEF Shorter
<1>4. \A i \in DOMAIN tasks :
        i = 1 \/ (i > 1 /\ i - 1 \in DOMAIN tasks' /\ tasks'[i - 1] = tasks[i])
  BY DEF Shorter
<1> QED
  BY <1>1, <1>2, <1>3, <1>4

LEMMA PopKeeps ==
  ASSUME IInv, NEW n \in Nat \ {0}, Shorter(n),
         \A img \in Images : win'[img]["effects"] = win[img]["effects"],
         \A img \in Images : Watching(img)' = Watching(img),
         \A i \in DOMAIN tasks : i > 1 /\ tasks[i].op = "release" =>
           viewers'[tasks[i].image] > 0,
         Tells(tasks[1]) /\ tasks[1].change = "about to destroy" =>
           \A k \in Registered' : k[1] # tasks[1].image
  PROVE  OrderInv'
<1>1. \A i \in DOMAIN tasks : tasks[i] \in Tasks /\ tasks[i].image \in Images
  BY TaskDomain, TaskTypes
<1>2. ASSUME NEW i \in DOMAIN tasks', NEW j \in DOMAIN tasks', i < j
      PROVE  InOrder(tasks'[i], tasks'[j])
  <2>1. /\ i + 1 \in DOMAIN tasks /\ j + 1 \in DOMAIN tasks /\ i + 1 < j + 1
        /\ tasks'[i] = tasks[i + 1] /\ tasks'[j] = tasks[j + 1]
    BY <1>2, ShorterProps
  <2> QED
    BY <2>1 DEF IInv, OrderInv
<1>3. \A i \in DOMAIN tasks' : Ready(tasks[i])'
  <2>1. ASSUME NEW t \in Tasks, Ready(t), t.op = "release" => viewers'[t.image] > 0
        PROVE  Ready(t)'
    <3>1. t.image \in Images
      BY TaskTypes
    <3> QED
      BY <2>1, <3>1 DEF Ready
  <2>2. ASSUME NEW i \in DOMAIN tasks' PROVE Ready(tasks[i])'
    <3>1. i + 1 \in DOMAIN tasks /\ i + 1 > 1 /\ tasks'[i] = tasks[i + 1]
      BY ShorterProps
    <3>2. Ready(tasks[i + 1])
      BY <3>1 DEF IInv, OrderInv
    <3>3. PICK t \in Tasks : t = tasks[i + 1]
      BY <1>1, <3>1
    <3>4. Ready(t)'
      BY <2>1, <3>1, <3>2, <3>3
    <3> QED
      BY <3>1, <3>3, <3>4
  <2> QED
    BY <2>2
<1>4. ASSUME NEW i \in DOMAIN tasks', tasks'[i].op = "free"
      PROVE  IF i = 1 THEN Unwatched(tasks[i].image)' ELSE Precedes(tasks'[i - 1], tasks'[i])
  <2>1. i + 1 \in DOMAIN tasks /\ i + 1 # 1 /\ tasks'[i] = tasks[i + 1] /\ (i + 1) - 1 = i
    BY ShorterProps
  <2>2. Precedes(tasks[i], tasks[i + 1])
    BY <1>4, <2>1 DEF IInv, OrderInv
  <2>3. CASE i = 1
    <3>1. \A k \in Registered' : k[1] # tasks'[i].image
      BY <2>1, <2>2, <2>3 DEF Precedes
    <3> QED
      BY <2>3, <3>1 DEF Unwatched
  <2>4. CASE i # 1
    <3>1. tasks'[i - 1] = tasks[i]
      BY <2>4, ShorterProps
    <3> QED
      BY <2>1, <2>2, <2>4, <3>1
  <2> QED
    BY <2>3, <2>4
<1>5. ASSUME NEW i \in DOMAIN tasks', tasks'[i].op = "change"
      PROVE  i + 1 \in DOMAIN tasks' /\ tasks'[i + 1] = Event(tasks'[i].image, "modified")
  <2>1. i + 1 \in DOMAIN tasks /\ tasks'[i] = tasks[i + 1]
    BY ShorterProps
  <2>2. (i + 1) + 1 \in DOMAIN tasks /\ tasks[(i + 1) + 1] = Event(tasks[i + 1].image, "modified")
    BY <1>5, <2>1 DEF IInv, OrderInv
  <2>3. i + 1 \in DOMAIN tasks'
    BY <2>2, ShorterProps
  <2>4. tasks'[i + 1] = tasks[(i + 1) + 1]
    BY <2>3, ShorterProps
  <2> QED
    BY <2>1, <2>2, <2>3, <2>4
<1> QED
  BY <1>2, <1>3, <1>4, <1>5 DEF OrderInv

LEMMA PopWalks ==
  ASSUME IInv, NEW n \in Nat \ {0}, Shorter(n), Registered' \subseteq Registered,
         \A i \in DOMAIN tasks : i > 1 /\ tasks[i].op = "walk" =>
           /\ tasks[i].next \in Registered' \cup {Nobody}
           /\ \A k \in Registered' : k \in Ahead(observers, tasks[i].next) =>
                k \in Ahead(observers', tasks[i].next),
         \A k \in Registered' : k[2] = "effects" => tasks[1] # Do("unwatch", k[1])
  PROVE  /\ WalksAreSafe'
         /\ EndsInv'
<1>1. WalksAreSafe'
  BY ShorterProps DEF WalksAreSafe
<1>2. ASSUME NEW j \in DOMAIN tasks', tasks'[j].op = "walk",
             tasks'[j].change = "about to destroy", NEW k \in Registered',
             k[1] = tasks'[j].image
      PROVE  \/ k \in Ahead(observers', tasks'[j].next)
             \/ k[2] = "effects"
                /\ \E i \in 1 .. j - 1 : tasks'[i] = Do("unwatch", tasks'[j].image)
  <2>1. j + 1 \in DOMAIN tasks /\ j + 1 > 1 /\ tasks'[j] = tasks[j + 1]
    BY ShorterProps
  <2>2. \/ k \in Ahead(observers, tasks[j + 1].next)
        \/ k[2] = "effects"
           /\ \E i \in 1 .. (j + 1) - 1 : tasks[i] = Do("unwatch", tasks[j + 1].image)
    BY <1>2, <2>1 DEF IInv, EndsInv
  <2>3. ASSUME NEW i \in 1 .. (j + 1) - 1, tasks[i] = Do("unwatch", tasks[j + 1].image),
               k[2] = "effects"
        PROVE  \E p \in 1 .. j - 1 : tasks'[p] = Do("unwatch", tasks'[j].image)
    <3>1. i # 1
      BY <1>2, <2>1, <2>3
    <3>2. i \in DOMAIN tasks
      BY <2>1, TaskDomain
    <3>3. i - 1 \in 1 .. j - 1
      BY <3>1, ShorterProps
    <3> QED
      BY ShorterProps, <2>1, <2>3, <3>1, <3>2, <3>3
  <2>4. k \in Ahead(observers, tasks[j + 1].next) => k \in Ahead(observers', tasks'[j].next)
    BY <1>2, <2>1
  <2> QED
    BY <2>2, <2>3, <2>4
<1> QED
  BY <1>1, <1>2 DEF EndsInv

LEMMA PopShown ==
  ASSUME IInv, NEW n \in Nat \ {0}, Shorter(n), win' = win,
         \A img \in Images, w \in Computed :
           /\ <<img, w>> \in deaf => <<img, w>> \in deaf'
           /\ ~ WillHear(img, w, tasks[1])
           /\ Fresh(img, w) =>
                \/ Fresh(img, w)'
                \/ \E i \in DOMAIN tasks : i > 1 /\ tasks[i] = Event(img, "modified")
           /\ \A i \in DOMAIN tasks :
                i > 1 /\ WillHear(img, w, tasks[i]) =>
                  \/ tasks[i] = Event(img, "modified")
                  \/ /\ tasks[i].op = "walk" /\ tasks[i].image = img
                     /\ tasks[i].change = "modified"
                     /\ <<img, w>> \in Ahead(observers', tasks[i].next)
  PROVE  ShownInv'
<1>1. ASSUME NEW img \in Images, NEW w \in Computed, win'[img][w] # "none",
             <<img, w>> \notin deaf'
      PROVE  Fresh(img, w)' \/ \E i \in DOMAIN tasks' : WillHear(img, w, tasks[i])'
  <2>1. Fresh(img, w) \/ \E i \in DOMAIN tasks : WillHear(img, w, tasks[i])
    BY <1>1 DEF IInv, ShownInv
  <2>2. \/ Fresh(img, w)'
        \/ \E i \in DOMAIN tasks : i > 1 /\
             \/ tasks[i] = Event(img, "modified")
             \/ /\ tasks[i].op = "walk" /\ tasks[i].image = img
                /\ tasks[i].change = "modified"
                /\ <<img, w>> \in Ahead(observers', tasks[i].next)
    <3>1. \A i \in DOMAIN tasks : i = 1 \/ i > 1
      BY TaskDomain
    <3> QED
      BY <2>1, <3>1
  <2>3. \A i \in DOMAIN tasks : i > 1 => i - 1 \in DOMAIN tasks' /\ tasks'[i - 1] = tasks[i]
    BY ShorterProps
  <2> QED
    BY <2>2, <2>3 DEF WillHear
<1> QED
  BY <1>1 DEF ShownInv

LEMMA TopTask ==
  ASSUME IInv, tasks # << >>
  PROVE  1 \in DOMAIN tasks /\ tasks[1] \in Tasks /\ tasks[1].image \in Images
<1>1. 1 \in DOMAIN tasks
  BY EmptySeq, TaskDomain DEF IInv, Types
<1> QED
  BY <1>1, TaskDomain, TaskTypes

(* A step of the end of an event takes nothing away that a viewer, or a    *)
(* window's unwatching, waits for, unless it is that.                      *)
LEMMA PopPending ==
  ASSUME IInv, NEW n \in Nat \ {0}, Shorter(n), NEW op, NEW img, tasks[1] # Do(op, img)
  PROVE  (\E i \in DOMAIN tasks' : tasks'[i] = Do(op, img))
           <=> (\E i \in DOMAIN tasks : tasks[i] = Do(op, img))
BY ShorterProps

(* A task that changes none of the observers, and is not news itself.      *)
LEMMA PopStill ==
  ASSUME IInv, NEW n \in Nat \ {0}, Shorter(n), UNCHANGED <<observers, deaf, win, shows>>,
         tasks[1].op \notin {"event", "unwatch"},
         tasks[1].op = "walk" => tasks[1].next = Nobody
  PROVE  /\ Registered' = Registered
         /\ WindowsInv' /\ EndsInv' /\ ShownInv' /\ WalksAreSafe'
<1>1. Registered' = Registered /\ Ahead(observers, Nobody) = {}
  BY FirstProperties DEF Registered, IInv, Types
<1>2. \A img : tasks[1] # Do("unwatch", img)
  BY Steps
<1>3. \A img : (\E i \in DOMAIN tasks' : tasks'[i] = Do("unwatch", img))
                 <=> (\E i \in DOMAIN tasks : tasks[i] = Do("unwatch", img))
  BY <1>2, PopPending
<1>4. WindowsInv'
  BY <1>1, <1>3 DEF IInv, WindowsInv
<1>5. WalksAreSafe' /\ EndsInv'
  <2>1. \A i \in DOMAIN tasks : tasks[i].op = "walk" => tasks[i].next \in Registered' \cup {Nobody}
    BY <1>1 DEF IInv, WalksAreSafe
  <2> QED
    BY <1>1, <1>2, <2>1, PopWalks
<1>6. ShownInv'
  <2>1. \A img, w : ~ WillHear(img, w, tasks[1])
    BY <1>1, Steps DEF WillHear
  <2>2. \A img, w : Fresh(img, w)' = Fresh(img, w)
    BY DEF Fresh
  <2>3. \A img, w, t : WillHear(img, w, t) =>
          \/ t = Event(img, "modified")
          \/ /\ t.op = "walk" /\ t.image = img /\ t.change = "modified"
             /\ <<img, w>> \in Ahead(observers', t.next)
    BY DEF WillHear
  <2> QED
    BY <2>1, <2>2, <2>3, PopShown
<1> QED
  BY <1>1, <1>4, <1>5, <1>6

LEMMA WalkEndsSafely ==
  ASSUME IInv, WalkEnds
  PROVE  IInv'
<1>1. /\ tasks # << >> /\ tasks[1].op = "walk" /\ tasks[1].next = Nobody
      /\ tasks' = Tail(tasks)
      /\ UNCHANGED <<observers, live, viewers, deaf, windowVars>>
  BY DEF WalkEnds, Doing
<1>2. PICK n \in Nat \ {0} : Shorter(n)
  BY <1>1, PopPlaces
<1>3. tasks' \in Seq(Tasks) /\ 1 \in DOMAIN tasks /\ tasks[1].image \in Images
  BY <1>1, PopPlaces, TopTask
<1>4. Registered' = Registered /\ WindowsInv' /\ EndsInv' /\ ShownInv' /\ WalksAreSafe'
  BY <1>1, <1>2, PopStill DEF windowVars
<1>5. \A img \in Images : Watching(img)' = Watching(img)
  <2>1. \A img : tasks[1] # Do("release", img)
    BY <1>1, Steps
  <2>2. \A img : (\E i \in DOMAIN tasks' : tasks'[i] = Do("release", img))
                   <=> (\E i \in DOMAIN tasks : tasks[i] = Do("release", img))
    BY <1>2, <2>1, PopPending
  <2> QED
    BY <1>1, <2>2 DEF Watching, Leaving
<1>6. ASSUME tasks[1].change = "about to destroy", NEW k \in Registered
      PROVE  k[1] # tasks[1].image
  <2>1. \A i \in 1 .. 1 - 1 : FALSE
    OBVIOUS
  <2>2. Ahead(observers, Nobody) = {}
    BY FirstProperties DEF IInv, Types
  <2> QED
    BY <1>1, <1>3, <1>6, <2>1, <2>2 DEF IInv, EndsInv
<1>7. OrderInv'
  <2>1. \A i \in DOMAIN tasks : tasks[i].op = "release" => viewers'[tasks[i].image] > 0
    BY <1>1 DEF IInv, OrderInv, Ready
  <2> QED
    BY <1>1, <1>2, <1>4, <1>5, <1>6, <2>1, PopKeeps DEF windowVars
<1>8. Types' /\ NoneOutlivesItsImage'
  BY <1>1, <1>3, <1>4 DEF IInv, Types, WindowTypes, windowVars, NoneOutlivesItsImage
<1>9. CountsInv'
  BY <1>1, <1>5, RecordTypes DEF IInv, CountsInv
<1> QED
  BY <1>4, <1>7, <1>8, <1>9 DEF IInv

LEMMA ReleaseSafely ==
  ASSUME IInv, Release
  PROVE  IInv'
<1>1. /\ tasks # << >> /\ tasks[1].op = "release" /\ tasks' = Tail(tasks)
      /\ viewers' = [viewers EXCEPT ![tasks[1].image] = @ - 1]
      /\ UNCHANGED <<observers, live, deaf, windowVars>>
  BY DEF Release, Doing
<1>2. PICK n \in Nat \ {0} : Shorter(n)
  BY <1>1, PopPlaces
<1>3. tasks' \in Seq(Tasks) /\ 1 \in DOMAIN tasks /\ tasks[1] \in Tasks
  BY <1>1, PopPlaces, TopTask
<1>4. PICK img \in Images : tasks[1] = Do("release", img)
  BY <1>1, <1>3, TaskTypes
<1>5. /\ tasks[1].image = img /\ tasks[1].op = "release"
      /\ viewers[img] > 0 /\ viewers[img] \in 0 .. MaxViewers
      /\ viewers' = [viewers EXCEPT ![img] = @ - 1]
      /\ viewers' \in [Images -> 0 .. MaxViewers]
  <2>1. tasks[1].image = img /\ viewers[img] > 0
    BY <1>1, <1>3, <1>4, Steps DEF IInv, OrderInv, Ready
  <2>2. viewers \in [Images -> 0 .. MaxViewers] /\ MaxViewers \in Nat
    BY ObserversAssumption DEF IInv, Types
  <2> QED
    BY <1>1, <2>1, <2>2
<1>6. \A i \in DOMAIN tasks : i > 1 => tasks[i].op # "release"
  <2>1. \A i \in DOMAIN tasks : i > 1 => InOrder(tasks[1], tasks[i])
    BY <1>3 DEF IInv, OrderInv
  <2> QED
    BY <1>1, <2>1 DEF InOrder
<1>7. /\ \A i \in Images : ~ Leaving(i)'
      /\ \A i \in Images : Leaving(i) <=> i = img
  <2>1. \A i : Do("release", i).op = "release" /\ Do("release", i).image = i
    BY Steps
  <2>2. \A i \in DOMAIN tasks : i = 1 \/ i > 1
    BY TaskDomain
  <2> QED
    <3>0. ASSUME NEW j \in DOMAIN tasks' PROVE tasks'[j].op # "release"
      <4>1. j + 1 > 1 /\ j + 1 \in DOMAIN tasks /\ tasks'[j] = tasks[j + 1]
        BY <1>2, ShorterProps
      <4> QED
        BY <1>6, <4>1
    <3>1. \A i : ~ \E j \in DOMAIN tasks' : tasks'[j] = Do("release", i)
      BY <2>1, <3>0
    <3>2. \A i \in Images : (\E j \in DOMAIN tasks : tasks[j] = Do("release", i)) <=> i = img
      BY <1>3, <1>4, <1>6, <2>1, <2>2
    <3> QED
      BY <3>1, <3>2 DEF Leaving
<1>8. /\ \A i \in Images : Watching(i)' = Watching(i)
      /\ \A i \in Images : viewers'[i] > 0 => viewers[i] > 0
  <2>1. viewers \in [Images -> 0 .. MaxViewers] /\ MaxViewers \in Nat
    BY ObserversAssumption DEF IInv, Types
  <2> QED
    BY <1>5, <1>7, <2>1 DEF Watching
<1>9. Registered' = Registered /\ WindowsInv' /\ EndsInv' /\ ShownInv' /\ WalksAreSafe'
  BY <1>1, <1>2, PopStill DEF windowVars
<1>10. OrderInv'
  <2>1. ~ Tells(tasks[1])
    BY <1>1 DEF Tells
  <2> QED
    BY <1>1, <1>2, <1>6, <1>8, <2>1, PopKeeps DEF windowVars
<1>11. Types'
  BY <1>1, <1>3, <1>5 DEF IInv, Types, WindowTypes, windowVars
<1>12. NoneOutlivesItsImage'
  BY <1>1, <1>9 DEF IInv, NoneOutlivesItsImage, windowVars
<1>13. CountsInv'
  BY <1>1, <1>8, RecordTypes DEF IInv, CountsInv
<1> QED
  BY <1>9, <1>10, <1>11, <1>12, <1>13 DEF IInv

LEMMA FreeSafely ==
  ASSUME IInv, Free
  PROVE  IInv'
<1>1. /\ tasks # << >> /\ tasks[1].op = "free" /\ tasks' = Tail(tasks)
      /\ live' = live \ {tasks[1].image}
      /\ hists' = [hists EXCEPT ![tasks[1].image] = "none"]
      /\ UNCHANGED <<observers, viewers, deaf, avail, win, shows>>
  BY DEF Free, Doing
<1>2. PICK n \in Nat \ {0} : Shorter(n)
  BY <1>1, PopPlaces
<1>3. tasks' \in Seq(Tasks) /\ 1 \in DOMAIN tasks /\ tasks[1] \in Tasks
  BY <1>1, PopPlaces, TopTask
<1>4. PICK img \in Images : img = tasks[1].image
  BY <1>1, TopTask
<1>5. Registered' = Registered /\ WindowsInv' /\ EndsInv' /\ ShownInv' /\ WalksAreSafe'
  BY <1>1, <1>2, PopStill
<1>6. /\ Watching(img) = 0 /\ ~ Leaving(img) /\ viewers[img] = 0
      /\ \A k \in Registered : k[1] # img
  <2>1. Ready(tasks[1]) /\ Unwatched(img)
    BY <1>1, <1>3, <1>4 DEF IInv, OrderInv
  <2>2. Watching(img) = 0
    BY <1>1, <1>4, <2>1 DEF Ready, Dooms
  <2>3. ASSUME NEW i \in DOMAIN tasks, tasks[i] = Do("release", img) PROVE FALSE
    <3>1. tasks[i].op = "release" /\ tasks[i].image = img
      BY <2>3, Steps
    <3>2. i # 1 /\ 1 < i
      BY <1>1, <3>1, TaskDomain
    <3>3. InOrder(tasks[1], tasks[i])
      BY <1>3, <3>2 DEF IInv, OrderInv
    <3> QED
      BY <1>1, <1>4, <3>1, <3>3 DEF InOrder
  <2> QED
    BY <2>1, <2>2, <2>3 DEF Unwatched, Leaving, Watching
<1>7. \A i \in Images : Watching(i)' = Watching(i)
  <2>1. \A i : tasks[1] # Do("release", i)
    BY <1>1, Steps
  <2>2. \A i : (\E j \in DOMAIN tasks' : tasks'[j] = Do("release", i))
                 <=> (\E j \in DOMAIN tasks : tasks[j] = Do("release", i))
    BY <1>2, <2>1, PopPending
  <2> QED
    BY <1>1, <2>2 DEF Watching, Leaving
<1>8. OrderInv'
  <2>1. ~ Tells(tasks[1])
    BY <1>1 DEF Tells
  <2>2. \A i \in DOMAIN tasks : tasks[i].op = "release" => viewers'[tasks[i].image] > 0
    BY <1>1 DEF IInv, OrderInv, Ready
  <2> QED
    BY <1>1, <1>2, <1>7, <2>1, <2>2, PopKeeps
<1>9. Types'
  BY <1>1, <1>3, <1>4 DEF IInv, Types, WindowTypes
<1>10. NoneOutlivesItsImage'
  BY <1>1, <1>4, <1>5, <1>6 DEF IInv, NoneOutlivesItsImage, WindowsInv
<1>11. CountsInv'
  <2>1. viewers[img] = 0
    BY <1>6
  <2> QED
    BY <1>1, <1>4, <1>7, <2>1, RecordTypes DEF IInv, CountsInv
<1> QED
  BY <1>5, <1>8, <1>9, <1>10, <1>11 DEF IInv

LEMMA ChangeSafely ==
  ASSUME IInv, Change
  PROVE  IInv'
<1>1. /\ tasks # << >> /\ tasks[1].op = "change" /\ tasks' = Tail(tasks)
      /\ avail' \in { [avail EXCEPT ![tasks[1].image] = a] : a \in SUBSET avail[tasks[1].image] }
      /\ shows' = [shows EXCEPT ![tasks[1].image] = [w \in Computed |-> Aged(@[w])]]
      /\ hists' = [hists EXCEPT ![tasks[1].image] = "none"]
      /\ UNCHANGED <<observers, live, viewers, deaf, win>>
  BY DEF Change, Doing
<1>2. PICK n \in Nat \ {0} : Shorter(n)
  BY <1>1, PopPlaces
<1>3. tasks' \in Seq(Tasks) /\ 1 \in DOMAIN tasks /\ tasks[1] \in Tasks
  BY <1>1, PopPlaces, TopTask
<1>4. PICK img \in Images : img = tasks[1].image
  BY <1>1, TopTask
<1>5. Registered' = Registered
  BY <1>1 DEF Registered
<1>6. /\ \A img1 \in Images : Watching(img1)' = Watching(img1)
      /\ \A i : (\E j \in DOMAIN tasks' : tasks'[j] = Do("unwatch", i))
                  <=> (\E j \in DOMAIN tasks : tasks[j] = Do("unwatch", i))
  <2>1. \A i : tasks[1] # Do("release", i) /\ tasks[1] # Do("unwatch", i)
    BY <1>1, Steps
  <2>2. \A i : /\ (\E j \in DOMAIN tasks' : tasks'[j] = Do("release", i))
                   <=> (\E j \in DOMAIN tasks : tasks[j] = Do("release", i))
               /\ (\E j \in DOMAIN tasks' : tasks'[j] = Do("unwatch", i))
                   <=> (\E j \in DOMAIN tasks : tasks[j] = Do("unwatch", i))
    BY <1>2, <2>1, PopPending
  <2> QED
    BY <1>1, <2>2 DEF Watching, Leaving
<1>7. OrderInv'
  <2>1. ~ Tells(tasks[1])
    BY <1>1 DEF Tells
  <2>2. \A i \in DOMAIN tasks : tasks[i].op = "release" => viewers'[tasks[i].image] > 0
    BY <1>1 DEF IInv, OrderInv, Ready
  <2> QED
    BY <1>1, <1>2, <1>6, <2>1, <2>2, PopKeeps
<1>8. WalksAreSafe' /\ EndsInv'
  <2>1. \A i \in DOMAIN tasks : tasks[i].op = "walk" => tasks[i].next \in Registered' \cup {Nobody}
    BY <1>5 DEF IInv, WalksAreSafe
  <2>2. \A i : tasks[1] # Do("unwatch", i)
    BY <1>1, Steps
  <2> QED
    BY <1>1, <1>2, <1>5, <2>1, <2>2, PopWalks
<1>9. ShownInv'
  <2>1. \A i, w : ~ WillHear(i, w, tasks[1])
    BY <1>1, Steps DEF WillHear
  <2>2. 2 \in DOMAIN tasks /\ tasks[2] = Event(img, "modified")
    <3>1. 1 + 1 \in DOMAIN tasks /\ tasks[1 + 1] = Event(img, "modified")
      BY <1>1, <1>3, <1>4 DEF IInv, OrderInv
    <3> QED
      BY <3>1
  <2>3. \A i \in Images, w \in Computed : Fresh(i, w) => Fresh(i, w)' \/ i = img
    BY <1>1, <1>4 DEF Fresh, IInv, Types, WindowTypes
  <2>4. \A i, w, t : WillHear(i, w, t) =>
          \/ t = Event(i, "modified")
          \/ /\ t.op = "walk" /\ t.image = i /\ t.change = "modified"
             /\ <<i, w>> \in Ahead(observers', t.next)
    BY <1>1 DEF WillHear
  <2>5. 2 > 1
    OBVIOUS
  <2> QED
    BY <1>1, <1>2, <2>1, <2>2, <2>3, <2>4, <2>5, PopShown
<1>10. WindowTypes'
  <2>1. WindowTypes
    BY DEF IInv, Types
  <2>2. hists' \in [Images -> {"none", "current"}]
    BY <1>1, <1>4, <2>1 DEF WindowTypes
  <2>3. shows' \in [Images -> [Computed -> Data]]
    <3>1. \A d \in Data : Aged(d) \in Data
      BY DEF Aged, Data
    <3>2. [w \in Computed |-> Aged(shows[img][w])] \in [Computed -> Data]
      BY <2>1, <3>1 DEF WindowTypes
    <3> QED
      BY <1>1, <1>4, <2>1, <3>2 DEF WindowTypes
  <2>4. avail' \in [Images -> SUBSET Windows] /\ \A i \in Images : avail'[i] \subseteq Possible[i]
    BY <1>1, <1>4, <2>1 DEF WindowTypes
  <2> QED
    BY <1>1, <2>1, <2>2, <2>3, <2>4 DEF WindowTypes
<1>11. Types'
  BY <1>1, <1>3, <1>10 DEF IInv, Types
<1>12. WindowsInv'
  BY <1>1, <1>5, <1>6 DEF IInv, WindowsInv
<1>13. NoneOutlivesItsImage'
  BY <1>1, <1>5 DEF IInv, NoneOutlivesItsImage
<1>14. CountsInv'
  BY <1>1, <1>6, RecordTypes DEF IInv, CountsInv
<1> QED
  BY <1>7, <1>8, <1>9, <1>11, <1>12, <1>13, <1>14 DEF IInv

LEMMA UnwatchSafely ==
  ASSUME IInv, Unwatch
  PROVE  IInv'
<1>1. /\ tasks # << >> /\ tasks[1].op = "unwatch" /\ tasks' = Tail(tasks)
      /\ Deregister(tasks[1].image, "effects")
      /\ UNCHANGED <<live, viewers, windowVars>>
  BY DEF Unwatch, Doing
<1>2. PICK n \in Nat \ {0} : Shorter(n)
  BY <1>1, PopPlaces
<1>3. tasks' \in Seq(Tasks) /\ 1 \in DOMAIN tasks /\ tasks[1] \in Tasks
  BY <1>1, PopPlaces, TopTask
<1>4. PICK img \in Images : tasks[1] = Do("unwatch", img)
  BY <1>1, <1>3, TaskTypes
<1> DEFINE k == <<img, "effects">>
<1>5. tasks[1].image = img /\ win[img]["effects"] = "none" /\ Deregister(img, "effects")
  BY <1>1, <1>3, <1>4, Steps DEF IInv, OrderInv, Ready
<1>6. /\ observers' \in Seq(Records) /\ Unique(observers')
      /\ Recs(observers') = { r \in Recs(observers) : KeyOf(r) # k }
      /\ Registered' = Registered \ {k}
      /\ \A o : o # k => Ahead(observers', o) = Ahead(observers, o) \ {k}
      /\ deaf' = deaf \ {k}
  BY <1>5, LeaveOne DEF Windows
<1>7. \A i \in DOMAIN tasks : i > 1 /\ tasks[i].op = "walk" => tasks[i].next # k
  <2>1. \A i \in DOMAIN tasks : i > 1 => InOrder(tasks[1], tasks[i])
    BY <1>3 DEF IInv, OrderInv
  <2> QED
    BY <1>1, <1>5, <2>1 DEF InOrder
<1>8. \A i \in Images : Watching(i)' = Watching(i)
  <2>1. \A i : tasks[1] # Do("release", i)
    BY <1>1, Steps
  <2>2. \A i : (\E j \in DOMAIN tasks' : tasks'[j] = Do("release", i))
                 <=> (\E j \in DOMAIN tasks : tasks[j] = Do("release", i))
    BY <1>2, <2>1, PopPending
  <2> QED
    BY <1>1, <2>2 DEF Watching, Leaving
<1> HIDE DEF k
<1>9. OrderInv'
  <2>1. ~ Tells(tasks[1])
    BY <1>1 DEF Tells
  <2>2. \A i \in DOMAIN tasks : tasks[i].op = "release" => viewers'[tasks[i].image] > 0
    BY <1>1 DEF IInv, OrderInv, Ready
  <2> QED
    BY <1>1, <1>2, <1>8, <2>1, <2>2, PopKeeps DEF windowVars
<1>10. WalksAreSafe' /\ EndsInv'
  <2>1. \A i \in DOMAIN tasks : i > 1 /\ tasks[i].op = "walk" =>
          tasks[i].next \in Registered' \cup {Nobody}
    BY <1>6, <1>7 DEF IInv, WalksAreSafe
  <2>2. \A i \in DOMAIN tasks : i > 1 /\ tasks[i].op = "walk" =>
          \A o \in Registered' : o \in Ahead(observers, tasks[i].next) =>
            o \in Ahead(observers', tasks[i].next)
    BY <1>6, <1>7
  <2>3. \A o \in Registered' : o[2] = "effects" => tasks[1] # Do("unwatch", o[1])
    <3>1. ASSUME NEW o \in Registered', o[2] = "effects", tasks[1] = Do("unwatch", o[1])
          PROVE  FALSE
      <4>1. o[1] = img
        BY <1>5, <3>1, Steps
      <4>2. o \in Keys
        BY <1>6, RegisteredKeys
      <4>3. o = <<img, "effects">>
        BY <3>1, <4>1, <4>2 DEF Keys
      <4> QED
        BY <1>6, <4>3 DEF k
    <3> QED
      BY <3>1
  <2> QED
    BY <1>2, <1>6, <2>1, <2>2, <2>3, PopWalks
<1>11. ShownInv'
  <2>1. \A i, w : ~ WillHear(i, w, tasks[1])
    BY <1>1, Steps DEF WillHear
  <2>2. \A i, w : Fresh(i, w)' = Fresh(i, w)
    BY <1>1 DEF Fresh, windowVars
  <2>3. \A i \in Images, w \in Computed : <<i, w>> # k
    BY DEF k, Computed
  <2>4. \A j \in DOMAIN tasks : j > 1 => \A i \in Images, w \in Computed :
          WillHear(i, w, tasks[j]) =>
            \/ tasks[j] = Event(i, "modified")
            \/ /\ tasks[j].op = "walk" /\ tasks[j].image = i /\ tasks[j].change = "modified"
               /\ <<i, w>> \in Ahead(observers', tasks[j].next)
    BY <1>6, <1>7, <2>3 DEF WillHear
  <2> QED
    BY <1>1, <1>2, <1>6, <2>1, <2>2, <2>3, <2>4, PopShown DEF windowVars
<1>12. WindowTypes'
  BY <1>1, <1>6 DEF IInv, Types, WindowTypes, windowVars
<1>13. Types'
  BY <1>1, <1>3, <1>6, <1>12 DEF IInv, Types
<1>14. WindowsInv'
  <2>1. \A i \in Images, w \in Windows : <<i, w>> = k => i = img /\ w = "effects"
    BY DEF k
  <2>2. ASSUME NEW i \in Images, NEW w \in Windows, win[i][w] # "none"
        PROVE  <<i, w>> \in Registered' \cup deaf'
    BY <1>5, <1>6, <2>1, <2>2 DEF IInv, WindowsInv
  <2>3. ASSUME NEW i \in Images, <<i, "effects">> \in Registered', win[i]["effects"] = "none"
        PROVE  \E j \in DOMAIN tasks' : tasks'[j] = Do("unwatch", i)
    <3>1. PICK j \in DOMAIN tasks : tasks[j] = Do("unwatch", i)
      BY <1>6, <2>3 DEF IInv, WindowsInv
    <3>2. i # img
      BY <1>6, <2>3 DEF k
    <3>3. j # 1
      BY <1>5, <3>1, <3>2, Steps
    <3> QED
      BY <1>2, <3>1, <3>3, ShorterProps
  <2>4. \A i \in Images, w \in Computed : <<i, w>> \in Registered' => win[i][w] # "none"
    BY <1>6 DEF IInv, WindowsInv
  <2> QED
    BY <1>1, <2>2, <2>3, <2>4 DEF WindowsInv, windowVars
<1>15. NoneOutlivesItsImage'
  <2>1. \A i \in Images, w \in Windows : <<i, w>> = k => i = img /\ w = "effects"
    BY DEF k
  <2> QED
    BY <1>1, <1>5, <1>6, <2>1 DEF IInv, NoneOutlivesItsImage, windowVars
<1>16. CountsInv'
  <2>1. \A i \in Images : <<i, "viewers">> # k
    BY DEF k
  <2> QED
    BY <1>1, <1>6, <1>8, <2>1, RecordTypes DEF IInv, CountsInv
<1> QED
  BY <1>9, <1>10, <1>11, <1>13, <1>14, <1>15, <1>16 DEF IInv

-----------------------------------------------------------------------------
(* Windows that are told                                                   *)

(* What a window computes is of the image as it is.                        *)
LEMMA ComputeProps ==
  ASSUME WindowTypes, NEW img \in Images, NEW w \in Computed, Compute(img, w)
  PROVE  /\ hists' \in [Images -> {"none", "current"}]
         /\ shows' \in [Images -> [Computed -> Data]]
         /\ Fresh(img, w)'
         /\ \A i \in Images, v \in Computed : <<i, v>> # <<img, w>> => shows'[i][v] = shows[i][v]
<1>1. HistsMade(img, w) \in [Images -> {"none", "current"}]
      /\ (w = "hist" => HistsMade(img, w)[img] = "current")
  BY DEF HistsMade, WindowTypes
<1>2. hists' \in [Images -> {"none", "current"}]
  BY <1>1 DEF Compute, WindowTypes
<1>3. PICK d \in {"current", "failed"} : shows' = [shows EXCEPT ![img][w] = d]
  BY <1>1 DEF Compute
<1>4. /\ shows' \in [Images -> [Computed -> Data]]
      /\ shows'[img][w] = d
      /\ \A i \in Images, v \in Computed : <<i, v>> # <<img, w>> => shows'[i][v] = shows[i][v]
  BY <1>3 DEF WindowTypes, Data
<1> QED
  BY <1>2, <1>4 DEF Fresh

(* Of the changes which windows care for, each is told of before anything  *)
(* else is: no other walk waits.                                           *)
LEMMA OnlyWalk ==
  ASSUME IInv, NEW img \in Images, NEW w \in Windows, Calls(<<img, w>>),
         ~ Quiet(<<img, w>>, tasks[1])
  PROVE  /\ tasks[1].image = img
         /\ tasks[1].change \in {"modified", "hidden", "about to destroy"}
         /\ w = "effects" => tasks[1].change # "modified"
         /\ \A i \in DOMAIN tasks : tasks[i].op = "walk" => i = 1
<1>1. tasks # << >> /\ tasks[1].op = "walk" /\ Tells(tasks[1])
  BY Calling
<1>2. /\ tasks[1].image = img
      /\ tasks[1].change \in {"modified", "hidden", "about to destroy"}
      /\ w = "effects" => tasks[1].change # "modified"
  BY ObserversAssumption DEF Quiet, Windows, Computed
<1>3. ASSUME NEW i \in DOMAIN tasks, tasks[i].op = "walk", i # 1 PROVE FALSE
  <2>1. 1 < i /\ 1 \in DOMAIN tasks
    BY <1>1, <1>3, TaskDomain, TopTask
  <2>2. InOrder(tasks[1], tasks[i])
    BY <2>1 DEF IInv, OrderInv
  <2> QED
    BY <1>1, <1>2, <1>3, <2>2 DEF InOrder
<1> QED
  BY <1>2, <1>3

LEMMA CallComputedSafely ==
  ASSUME IInv, NEW img \in Images, NEW w \in Computed, CallComputed(img, w)
  PROVE  IInv'
<1> DEFINE k == <<img, w>>
<1>1. /\ Calls(k) /\ ~ Quiet(k, tasks[1]) /\ OnChange(tasks[1], img, w)
      /\ tasks' = <<Advanced(tasks[1])>> \o Tail(tasks)
      /\ UNCHANGED <<live, viewers>>
  BY DEF CallComputed
<1>2. PICK y \in Walks : y = Advanced(tasks[1])
  BY <1>1, Calling
<1>3. /\ tasks # << >> /\ tasks[1].op = "walk" /\ tasks[1].next = k /\ Tells(tasks[1])
      /\ y.op = "walk" /\ y.image = tasks[1].image /\ y.change = tasks[1].change
      /\ k \in Registered
      /\ y.next \in Registered \cup {Nobody} /\ y.next # k
      /\ Ahead(observers, y.next) = Ahead(observers, k) \ {k}
  BY <1>1, <1>2, Calling
<1>4. /\ tasks[1].image = img
      /\ tasks[1].change \in {"modified", "hidden", "about to destroy"}
      /\ \A i \in DOMAIN tasks : tasks[i].op = "walk" => i = 1
  BY <1>1, OnlyWalk DEF Windows
<1>5. 1 \in DOMAIN tasks
  BY <1>3, TopTask
<1>6. \A i \in Images, v \in Windows \cup {"viewers"} : <<i, v>> = k => i = img /\ v = w
  OBVIOUS
<1>7. w # "effects" /\ w # "viewers" /\ w \in Windows /\ "effects" \in Windows
  BY DEF Computed, Windows
<1>8. WindowTypes /\ Registered \subseteq Keys
  BY RegisteredKeys DEF IInv, Types
<1> HIDE DEF k
<1>9. CASE tasks[1].change = "modified" /\ w \in avail[img]
  <2>1. Compute(img, w) /\ UNCHANGED <<observers, deaf, avail, win, live, viewers>>
    BY <1>1, <1>9 DEF OnChange
  <2>2. /\ hists' \in [Images -> {"none", "current"}]
        /\ shows' \in [Images -> [Computed -> Data]]
        /\ Fresh(img, w)'
        /\ \A i \in Images, v \in Computed : <<i, v>> # k => shows'[i][v] = shows[i][v]
    BY <1>8, <2>1, ComputeProps DEF k
  <2>3. Registered' = Registered
    BY <2>1 DEF Registered
  <2>4. /\ tasks' \in Seq(Tasks)
        /\ DOMAIN tasks' = DOMAIN tasks /\ tasks'[1] = y
        /\ \A i \in DOMAIN tasks : i # 1 => tasks'[i] = tasks[i]
        /\ \A i : (\E j \in DOMAIN tasks' : tasks'[j] = Do("unwatch", i))
                    <=> (\E j \in DOMAIN tasks : tasks[j] = Do("unwatch", i))
        /\ \A i \in Images : Watching(i)' = Watching(i)
        /\ OrderInv'
    BY <1>1, <1>2, <1>3, <2>1, <2>3, TopKeeps
  <2>5. Types'
    BY <1>8, <2>1, <2>2, <2>4 DEF IInv, Types, WindowTypes
  <2>6. CountsInv'
    BY <2>1, <2>4, RecordTypes DEF IInv, CountsInv
  <2>7. WindowsInv' /\ NoneOutlivesItsImage'
    BY <2>1, <2>3, <2>4 DEF IInv, WindowsInv, NoneOutlivesItsImage
  <2>8. EndsInv'
    <3>1. \A j \in DOMAIN tasks' : tasks'[j].op = "walk" => j = 1
      BY <1>4, <2>4
    <3>2. tasks'[1].change # "about to destroy"
      BY <1>3, <1>9, <2>4
    <3> QED
      BY <3>1, <3>2 DEF EndsInv
  <2>9. WalksAreSafe'
    BY <1>3, <1>4, <2>3, <2>4 DEF WalksAreSafe
  <2>10. ASSUME NEW i \in Images, NEW v \in Computed, win'[i][v] # "none",
                <<i, v>> \notin deaf', <<i, v>> # k
         PROVE  Fresh(i, v)' \/ \E j \in DOMAIN tasks' : WillHear(i, v, tasks[j])'
    <3>1. Fresh(i, v) \/ \E j \in DOMAIN tasks : WillHear(i, v, tasks[j])
      BY <2>1, <2>10 DEF IInv, ShownInv
    <3>2. Fresh(i, v) => Fresh(i, v)'
      BY <2>2, <2>10 DEF Fresh
    <3>3. WillHear(i, v, tasks[1]) => WillHear(i, v, y)
      BY <1>3, <2>10, Steps DEF WillHear
    <3>4. \A t : WillHear(i, v, t)' = WillHear(i, v, t)
      BY <2>1 DEF WillHear
    <3>5. (\E j \in DOMAIN tasks : WillHear(i, v, tasks[j]))
            => \E j \in DOMAIN tasks' : WillHear(i, v, tasks'[j])
      BY <2>4, <3>3
    <3> QED
      BY <3>1, <3>2, <3>4, <3>5
  <2>11. ShownInv'
    BY <2>2, <2>10 DEF ShownInv, k
  <2> QED
    BY <2>4, <2>5, <2>6, <2>7, <2>8, <2>9, <2>11 DEF IInv
<1>10. CASE ~ (tasks[1].change = "modified" /\ w \in avail[img])
  <2>1. /\ Deregister(img, w)
        /\ win' = [win EXCEPT ![img][w] = "none"]
        /\ shows' = [shows EXCEPT ![img][w] = "none"]
        /\ UNCHANGED <<avail, hists, live, viewers>>
    BY <1>1, <1>10 DEF OnChange, CloseComputed
  <2>2. /\ observers' \in Seq(Records) /\ Unique(observers')
        /\ Recs(observers') = { r \in Recs(observers) : KeyOf(r) # k }
        /\ Registered' = Registered \ {k}
        /\ \A o : o # k => Ahead(observers', o) = Ahead(observers, o) \ {k}
        /\ deaf' = deaf \ {k}
    BY <1>7, <2>1, LeaveOne DEF k
  <2>3. /\ win' \in [Images -> [Windows -> {"none", "listed", "open"}]]
        /\ shows' \in [Images -> [Computed -> Data]]
        /\ win'[img][w] = "none"
        /\ \A i \in Images, v \in Windows : <<i, v>> # k => win'[i][v] = win[i][v]
        /\ \A i \in Images, v \in Computed : <<i, v>> # k => shows'[i][v] = shows[i][v]
    BY <1>7, <1>8, <2>1 DEF WindowTypes, Data, k
  <2>4. \A i \in Images : <<i, "effects">> # k /\ <<i, "viewers">> # k
    BY <1>7 DEF k
  <2>5. /\ tasks' \in Seq(Tasks)
        /\ DOMAIN tasks' = DOMAIN tasks /\ tasks'[1] = y
        /\ \A i \in DOMAIN tasks : i # 1 => tasks'[i] = tasks[i]
        /\ \A i : (\E j \in DOMAIN tasks' : tasks'[j] = Do("unwatch", i))
                    <=> (\E j \in DOMAIN tasks : tasks[j] = Do("unwatch", i))
        /\ \A i \in Images : Watching(i)' = Watching(i)
        /\ OrderInv'
    <3>1. Registered' \subseteq Registered
          /\ \A i \in Images : win'[i]["effects"] = win[i]["effects"]
      BY <1>7, <2>2, <2>3, <2>4
    <3> QED
      BY <1>1, <1>2, <1>3, <2>1, <3>1, TopKeeps
  <2>6. Types'
    BY <1>8, <2>1, <2>2, <2>3, <2>5 DEF IInv, Types, WindowTypes
  <2>7. CountsInv'
    BY <2>1, <2>2, <2>4, <2>5, RecordTypes DEF IInv, CountsInv
  <2>8. WindowsInv'
    <3>1. ASSUME NEW i \in Images, NEW v \in Windows, win'[i][v] # "none"
          PROVE  <<i, v>> \in Registered' \cup deaf'
      BY <1>6, <2>2, <2>3, <3>1 DEF IInv, WindowsInv
    <3>2. ASSUME NEW i \in Images, NEW v \in Computed, <<i, v>> \in Registered'
          PROVE  win'[i][v] # "none"
      <4>1. v \in Windows /\ <<i, v>> \in Registered /\ <<i, v>> # k
        BY <2>2, <3>2 DEF Windows
      <4> QED
        BY <2>3, <4>1 DEF IInv, WindowsInv
    <3>3. ASSUME NEW i \in Images, <<i, "effects">> \in Registered'
          PROVE  win'[i]["effects"] # "none"
                 \/ \E j \in DOMAIN tasks' : tasks'[j] = Do("unwatch", i)
      BY <1>7, <2>2, <2>3, <2>4, <2>5, <3>3 DEF IInv, WindowsInv
    <3> QED
      BY <3>1, <3>2, <3>3 DEF WindowsInv
  <2>9. NoneOutlivesItsImage'
    <3>1. ASSUME NEW i \in Images \ live, NEW v \in Windows, win'[i][v] # "none"
          PROVE  <<i, v>> \in deaf'
      BY <1>6, <2>2, <2>3, <3>1 DEF IInv, NoneOutlivesItsImage
    <3> QED
      BY <2>1, <2>2, <3>1 DEF IInv, NoneOutlivesItsImage
  <2>10. EndsInv'
    <3> SUFFICES ASSUME tasks[1].change = "about to destroy", NEW o \in Registered',
                        o[1] = img
                 PROVE  o \in Ahead(observers', y.next)
      <4>1. \A j \in DOMAIN tasks' : tasks'[j].op = "walk" => j = 1
        BY <1>4, <2>5
      <4>2. tasks'[1] = y /\ y.image = img /\ y.change = tasks[1].change
        BY <1>3, <1>4, <2>5
      <4> QED
        BY <4>1, <4>2 DEF EndsInv
    <3>1. \A i \in 1 .. 1 - 1 : FALSE
      BY NoneBefore
    <3>2. o \in Ahead(observers, k)
      BY <1>3, <1>4, <1>5, <2>2, <3>1 DEF IInv, EndsInv
    <3> QED
      BY <1>3, <2>2, <3>2
  <2>11. WalksAreSafe'
    BY <1>3, <1>4, <2>2, <2>5 DEF WalksAreSafe
  <2>12. ASSUME NEW i \in Images, NEW v \in Computed, win'[i][v] # "none",
                <<i, v>> \notin deaf'
         PROVE  Fresh(i, v)' \/ \E j \in DOMAIN tasks' : WillHear(i, v, tasks[j])'
    <3>0. v \in Windows
      BY DEF Windows
    <3>1. <<i, v>> # k
      BY <1>6, <2>3, <2>12, <3>0
    <3>2. Fresh(i, v) \/ \E j \in DOMAIN tasks : WillHear(i, v, tasks[j])
      BY <2>2, <2>3, <2>12, <3>0, <3>1 DEF IInv, ShownInv
    <3>3. Fresh(i, v) => Fresh(i, v)'
      BY <2>3, <3>1 DEF Fresh
    <3>4. ASSUME NEW j \in DOMAIN tasks, WillHear(i, v, tasks[j])
          PROVE  WillHear(i, v, tasks[j])'
      <4>1. CASE tasks[j] = Event(i, "modified")
        <5>1. j # 1
          BY <1>3, <4>1, Steps
        <5> QED
          BY <2>5, <4>1, <5>1 DEF WillHear
      <4>2. CASE tasks[j] # Event(i, "modified")
        <5>1. /\ j = 1 /\ tasks[1].image = i /\ tasks[1].change = "modified"
              /\ <<i, v>> \in Ahead(observers, k)
          BY <1>3, <1>4, <3>4, <4>2 DEF WillHear
        <5>2. <<i, v>> \in Ahead(observers', y.next)
          BY <1>3, <2>2, <3>1, <5>1
        <5> QED
          BY <1>3, <2>5, <5>1, <5>2 DEF WillHear
      <4> QED
        BY <4>1, <4>2
    <3> QED
      BY <2>5, <3>2, <3>3, <3>4
  <2>13. ShownInv'
    BY <2>12 DEF ShownInv
  <2> QED
    BY <2>5, <2>6, <2>7, <2>8, <2>9, <2>10, <2>11, <2>13 DEF IInv
<1> QED
  BY <1>9, <1>10

LEMMA CallEffectsSafely ==
  ASSUME IInv, NEW img \in Images, CallEffects(img)
  PROVE  IInv'
<1> DEFINE k == <<img, "effects">>
<1>1. /\ Calls(k) /\ ~ Quiet(k, tasks[1])
      /\ win' = [win EXCEPT ![img]["effects"] = "none"]
      /\ UNCHANGED <<observers, live, viewers, deaf, avail, shows, hists>>
      /\ tasks' = Closing(img) \o <<Advanced(tasks[1])>> \o Tail(tasks)
  BY DEF CallEffects
<1>2. PICK y \in Walks : y = Advanced(tasks[1])
  BY <1>1, Calling
<1>3. /\ tasks # << >> /\ tasks[1].op = "walk" /\ tasks[1].next = k /\ Tells(tasks[1])
      /\ y.op = "walk" /\ y.image = tasks[1].image /\ y.change = tasks[1].change
      /\ y.next \in Registered \cup {Nobody} /\ y.next # k
      /\ Ahead(observers, y.next) = Ahead(observers, k) \ {k}
  BY <1>1, <1>2, Calling
<1>4. /\ tasks[1].image = img
      /\ tasks[1].change \in {"hidden", "about to destroy"}
      /\ \A i \in DOMAIN tasks : tasks[i].op = "walk" => i = 1
  BY <1>1, OnlyWalk DEF Windows
<1>5. /\ 1 \in DOMAIN tasks
      /\ \A i \in DOMAIN tasks : tasks[i] \in Tasks /\ tasks[i].image \in Images
  BY <1>3, TopTask, TaskDomain, TaskTypes
<1>6. /\ tasks' \in Seq(Tasks)
      /\ \A i : i \in DOMAIN tasks' <=> i \in {1, 2, 3} \/ (i \in Nat /\ i - 3 \in DOMAIN tasks)
      /\ tasks'[1] = Event(img, "preview") /\ tasks'[3] = Event(img, "preview")
      /\ tasks'[2] = Do("unwatch", img)
      /\ tasks'[4] = y
      /\ \A i \in DOMAIN tasks : i # 1 => tasks'[i + 3] = tasks[i]
  <2>1. y \in Tasks /\ tasks \in Seq(Tasks) /\ tasks' = Closing(img) \o <<y>> \o Tail(tasks)
    BY <1>1, <1>2 DEF Tasks, IInv, Types
  <2> QED
    BY <1>3, <2>1, ClosingProps
<1> HIDE DEF k
<1>7. /\ {1, 2, 3, 4} \subseteq DOMAIN tasks'
      /\ \A i \in DOMAIN tasks : i + 3 \in DOMAIN tasks' /\ i + 3 > 3
      /\ \A i \in DOMAIN tasks' :
           \/ i \in {1, 2, 3, 4}
           \/ i \in Nat /\ i > 4 /\ \E p \in DOMAIN tasks :
                p # 1 /\ p > 1 /\ i = p + 3 /\ tasks'[i] = tasks[p]
  <2>1. DOMAIN tasks = 1 .. Len(tasks) /\ Len(tasks) \in Nat
    BY TaskDomain
  <2>2. 4 \in DOMAIN tasks'
    BY <1>5, <1>6
  <2>3. \A i \in DOMAIN tasks : (i + 3) - 3 = i /\ i + 3 \in Nat /\ i + 3 > 3
    BY <2>1
  <2>4. ASSUME NEW i \in DOMAIN tasks', i \notin {1, 2, 3, 4}
        PROVE  i \in Nat /\ i > 4 /\ \E p \in DOMAIN tasks :
                 p # 1 /\ p > 1 /\ i = p + 3 /\ tasks'[i] = tasks[p]
    <3>1. i \in Nat /\ i - 3 \in DOMAIN tasks
      BY <1>6, <2>4
    <3>2. i > 4 /\ i - 3 > 1 /\ i = (i - 3) + 3 /\ i - 3 # 1
      BY <2>1, <2>4, <3>1
    <3>3. tasks'[(i - 3) + 3] = tasks[i - 3]
      BY <1>6, <3>1, <3>2
    <3> QED
      BY <3>1, <3>2, <3>3
  <2> QED
    BY <1>6, <2>2, <2>3, <2>4
<1>8. /\ Event(img, "preview").op = "event" /\ Event(img, "preview").change = "preview"
      /\ Do("unwatch", img).op = "unwatch" /\ Do("unwatch", img).image = img
      /\ \A i : Do("release", i).op = "release"
      /\ \A i : Do("unwatch", i).op = "unwatch"
  BY Steps
<1>9. /\ \A i : (\E j \in DOMAIN tasks' : tasks'[j] = Do("release", i))
                  <=> (\E j \in DOMAIN tasks : tasks[j] = Do("release", i))
      /\ \A i : (\E j \in DOMAIN tasks : tasks[j] = Do("unwatch", i))
                  => \E j \in DOMAIN tasks' : tasks'[j] = Do("unwatch", i)
  <2>1. ASSUME NEW t, t.op # "walk", NEW j \in DOMAIN tasks, tasks[j] = t
        PROVE  \E i \in DOMAIN tasks' : tasks'[i] = t
    <3>1. j # 1
      BY <1>3, <2>1
    <3> QED
      BY <1>6, <1>7, <2>1, <3>1
  <2>2. ASSUME NEW i, NEW j \in DOMAIN tasks', tasks'[j] = Do("release", i)
        PROVE  \E p \in DOMAIN tasks : tasks[p] = Do("release", i)
    <3>1. tasks'[j].op = "release"
      BY <1>8, <2>2
    <3>2. j \notin {1, 2, 3, 4}
      BY <1>3, <1>6, <1>8, <3>1
    <3> QED
      BY <1>7, <2>2, <3>2
  <2> QED
    BY <1>8, <2>1, <2>2
<1>10. \A i \in Images : Watching(i)' = Watching(i)
  BY <1>1, <1>9 DEF Watching, Leaving
<1>11. Registered' = Registered
  BY <1>1 DEF Registered
<1>12. WindowTypes /\ win'[img]["effects"] = "none"
       /\ win' \in [Images -> [Windows -> {"none", "listed", "open"}]]
       /\ \A i \in Images, w \in Windows : <<i, w>> # k => win'[i][w] = win[i][w]
  BY <1>1 DEF IInv, Types, WindowTypes, Windows, k
<1>13. ASSUME NEW i \in DOMAIN tasks', NEW j \in DOMAIN tasks', i < j
       PROVE  InOrder(tasks'[i], tasks'[j])
  <2>1. CASE j \in {1, 2, 3, 4}
    <3>1. i \in {1, 2, 3}
      <4>1. i \in {1, 2, 3, 4} \/ (i \in Nat /\ i > 4)
        BY <1>7
      <4> QED
        BY <1>13, <2>1, <4>1
    <3>2. InOrder(tasks'[i], tasks'[j])
      <4>1. /\ Tells(tasks'[i]) => tasks'[i].change = "preview"
            /\ tasks'[i].op \in {"event", "unwatch"}
            /\ tasks'[i].op = "unwatch" => tasks'[i].image = img
        BY <1>6, <1>8, <3>1 DEF Tells
      <4>2. tasks'[j].op = "walk" => tasks'[j].next # <<img, "effects">>
        BY <1>3, <1>6, <1>8, <2>1 DEF k
      <4> QED
        BY <4>1, <4>2 DEF InOrder
    <3> QED
      BY <3>2
  <2>2. ASSUME NEW p \in DOMAIN tasks, p # 1, p > 1, j = p + 3, tasks'[j] = tasks[p]
        PROVE  InOrder(tasks'[i], tasks'[j])
    <3>1. tasks[p].op # "walk"
      BY <1>4, <2>2
    <3>2. CASE i \in {1, 2, 3}
      BY <1>6, <1>8, <2>2, <3>1, <3>2 DEF InOrder
    <3>3. CASE i = 4
      BY <1>3, <1>6, <2>2, <3>1, <3>3 DEF InOrder
    <3>4. ASSUME NEW q \in DOMAIN tasks, i = q + 3, tasks'[i] = tasks[q]
          PROVE  InOrder(tasks'[i], tasks'[j])
      <4>1. q < p
        BY <1>13, <2>2, <3>4, TaskDomain
      <4> QED
        BY <2>2, <3>4, <4>1 DEF IInv, OrderInv
    <3> QED
      BY <1>7, <3>2, <3>3, <3>4
  <2> QED
    BY <1>7, <2>1, <2>2
<1>14. \A i \in DOMAIN tasks' : Ready(tasks[i])'
  <2>1. ASSUME NEW t \in Tasks, Ready(t) PROVE Ready(t)'
    <3>1. t.image \in Images
      BY TaskTypes
    <3>2. t.op = "unwatch" => win'[t.image]["effects"] = "none"
      BY <1>12, <2>1, <3>1 DEF Ready, Windows, k
    <3> QED
      BY <1>1, <1>10, <2>1, <3>1, <3>2 DEF Ready
  <2>2. \A i \in DOMAIN tasks : Ready(tasks[i])
    BY DEF IInv, OrderInv
  <2>3. Ready(y)
    BY <1>3, <1>5, <2>2 DEF Ready, Dooms, Tells
  <2>4. Ready(y)'
    BY <1>2, <2>1, <2>3 DEF Tasks
  <2>5. ASSUME NEW i \in DOMAIN tasks', i \in {1, 2, 3} PROVE Ready(tasks[i])'
    <3>1. ASSUME NEW t \in {Event(img, "preview"), Do("unwatch", img)} PROVE Ready(t)'
      <4>1. /\ t.op \in {"event", "unwatch"} /\ ~ Dooms(t)
            /\ t.op = "unwatch" => t.image = img
        BY <1>8 DEF Dooms, Tells
      <4> QED
        BY <1>12, <4>1 DEF Ready
    <3>2. PICK t \in {Event(img, "preview"), Do("unwatch", img)} : t = tasks'[i]
      BY <1>6, <2>5
    <3>3. Ready(t)'
      BY <3>1
    <3> QED
      BY <3>2, <3>3
  <2>6. ASSUME NEW i \in DOMAIN tasks', NEW p \in DOMAIN tasks, tasks'[i] = tasks[p]
        PROVE  Ready(tasks[i])'
    <3>1. PICK t \in Tasks : t = tasks[p]
      BY <1>5
    <3>2. Ready(t)'
      BY <2>1, <2>2, <3>1
    <3> QED
      BY <2>6, <3>1, <3>2
  <2>7. ASSUME NEW i \in DOMAIN tasks', i = 4 PROVE Ready(tasks[i])'
    BY <1>6, <2>4, <2>7
  <2> QED
    BY <1>7, <2>5, <2>6, <2>7
<1>15. ASSUME NEW i \in DOMAIN tasks', tasks'[i].op = "free"
       PROVE  IF i = 1 THEN Unwatched(tasks[i].image)' ELSE Precedes(tasks'[i - 1], tasks'[i])
  <2>1. i \notin {1, 2, 3, 4}
    BY <1>3, <1>6, <1>8, <1>15
  <2>2. PICK p \in DOMAIN tasks : p > 1 /\ i = p + 3 /\ tasks'[i] = tasks[p]
    BY <1>7, <2>1
  <2>3. Precedes(tasks[p - 1], tasks[p])
    BY <1>15, <2>2 DEF IInv, OrderInv
  <2>4. p - 1 \in DOMAIN tasks /\ i - 1 = (p - 1) + 3
    BY <2>2, TaskDomain
  <2>5. CASE p - 1 = 1
    <3>1. i - 1 = 4
      BY <2>4, <2>5
    <3>2. Precedes(y, tasks[p])
      BY <1>3, <2>3, <2>5 DEF Precedes, Tells
    <3> QED
      BY <1>6, <2>1, <2>2, <3>1, <3>2
  <2>6. CASE p - 1 # 1
    BY <1>6, <2>1, <2>2, <2>3, <2>4, <2>6
  <2> QED
    BY <2>5, <2>6
<1>16. ASSUME NEW i \in DOMAIN tasks', tasks'[i].op = "change"
       PROVE  i + 1 \in DOMAIN tasks' /\ tasks'[i + 1] = Event(tasks'[i].image, "modified")
  <2>1. i \notin {1, 2, 3, 4}
    BY <1>3, <1>6, <1>8, <1>16
  <2>2. PICK p \in DOMAIN tasks : p > 1 /\ i = p + 3 /\ tasks'[i] = tasks[p]
    BY <1>7, <2>1
  <2>3. p + 1 \in DOMAIN tasks /\ tasks[p + 1] = Event(tasks[p].image, "modified")
    BY <1>16, <2>2 DEF IInv, OrderInv
  <2>4. i + 1 = (p + 1) + 3 /\ p + 1 # 1
    BY <2>2, TaskDomain
  <2> QED
    BY <1>6, <1>7, <2>2, <2>3, <2>4
<1>17. OrderInv'
  BY <1>13, <1>14, <1>15, <1>16 DEF OrderInv
<1>18. Types'
  BY <1>1, <1>6, <1>12 DEF IInv, Types, WindowTypes
<1>19. CountsInv'
  BY <1>1, <1>10, RecordTypes DEF IInv, CountsInv
<1>20. WindowsInv'
  <2>1. ASSUME NEW i \in Images, NEW w \in Windows, win'[i][w] # "none"
        PROVE  <<i, w>> \in Registered \cup deaf
    <3>1. <<i, w>> = k => i = img /\ w = "effects"
      BY DEF k
    <3> QED
      BY <1>12, <2>1, <3>1 DEF IInv, WindowsInv
  <2>2. ASSUME NEW i \in Images, NEW w \in Computed, <<i, w>> \in Registered
        PROVE  win'[i][w] # "none"
    <3>1. <<i, w>> # k /\ w \in Windows
      BY DEF k, Computed, Windows
    <3> QED
      BY <1>12, <2>2, <3>1 DEF IInv, WindowsInv
  <2>3. ASSUME NEW i \in Images, <<i, "effects">> \in Registered, win'[i]["effects"] = "none"
        PROVE  \E j \in DOMAIN tasks' : tasks'[j] = Do("unwatch", i)
    <3>1. CASE i = img
      BY <1>6, <1>7, <3>1
    <3>2. CASE i # img
      <4>1. <<i, "effects">> # k /\ "effects" \in Windows
        BY <3>2 DEF k, Windows
      <4> QED
        BY <1>9, <1>12, <2>3, <4>1 DEF IInv, WindowsInv
    <3> QED
      BY <3>1, <3>2
  <2> QED
    BY <1>1, <1>11, <2>1, <2>2, <2>3 DEF WindowsInv
<1>21. NoneOutlivesItsImage'
  <2>1. ASSUME NEW i \in Images \ live, NEW w \in Windows, win'[i][w] # "none"
        PROVE  <<i, w>> \in deaf
    <3>1. <<i, w>> = k => i = img /\ w = "effects"
      BY DEF k
    <3> QED
      BY <1>12, <2>1, <3>1 DEF IInv, NoneOutlivesItsImage
  <2> QED
    BY <1>1, <1>11, <2>1 DEF IInv, NoneOutlivesItsImage
<1>22. \A j \in DOMAIN tasks' : tasks'[j].op = "walk" => j = 4
  <2>1. ASSUME NEW j \in DOMAIN tasks', tasks'[j].op = "walk", j # 4 PROVE FALSE
    <3>1. CASE j \in {1, 2, 3}
      BY <1>6, <1>8, <2>1, <3>1
    <3>2. CASE j \notin {1, 2, 3, 4}
      <4>1. PICK p \in DOMAIN tasks : p # 1 /\ tasks'[j] = tasks[p]
        BY <1>7, <3>2
      <4> QED
        BY <1>4, <2>1, <4>1
    <3> QED
      BY <2>1, <3>1, <3>2
  <2> QED
    BY <2>1
<1>23. WalksAreSafe'
  BY <1>3, <1>6, <1>11, <1>22 DEF WalksAreSafe
<1>24. EndsInv'
  <2> SUFFICES ASSUME y.change = "about to destroy", NEW o \in Registered, o[1] = img
               PROVE  \/ o \in Ahead(observers, y.next)
                      \/ o[2] = "effects" /\ \E i \in 1 .. 4 - 1 : tasks'[i] = Do("unwatch", img)
    <3>1. ASSUME NEW j \in DOMAIN tasks', tasks'[j].op = "walk",
                 tasks'[j].change = "about to destroy", NEW o \in Registered',
                 o[1] = tasks'[j].image
          PROVE  \/ o \in Ahead(observers', tasks'[j].next)
                 \/ o[2] = "effects"
                    /\ \E i \in 1 .. j - 1 : tasks'[i] = Do("unwatch", tasks'[j].image)
      <4>1. j = 4 /\ tasks'[j] = y
        BY <1>6, <1>22, <3>1
      <4> QED
        BY <1>1, <1>3, <1>4, <1>11, <3>1, <4>1
    <3> QED
      BY <3>1 DEF EndsInv
  <2>1. o \in Ahead(observers, k)
    BY <1>3, <1>4, <1>5, NoneBefore DEF IInv, EndsInv
  <2>2. k[2] = "effects"
    BY DEF k
  <2> QED
    BY <1>3, <1>6, <2>1, <2>2, TwoOfThree
<1>25. ShownInv'
  <2> SUFFICES ASSUME NEW i \in Images, NEW w \in Computed, win'[i][w] # "none",
                      <<i, w>> \notin deaf
               PROVE  Fresh(i, w)' \/ \E j \in DOMAIN tasks' : WillHear(i, w, tasks[j])'
    BY <1>1 DEF ShownInv
  <2>1. win[i][w] # "none"
    <3>1. <<i, w>> # k /\ w \in Windows
      BY DEF k, Computed, Windows
    <3> QED
      BY <1>12, <3>1
  <2>2. Fresh(i, w) \/ \E j \in DOMAIN tasks : WillHear(i, w, tasks[j])
    BY <2>1 DEF IInv, ShownInv
  <2>3. Fresh(i, w) => Fresh(i, w)'
    BY <1>1 DEF Fresh
  <2>4. ASSUME NEW j \in DOMAIN tasks, WillHear(i, w, tasks[j])
        PROVE  j + 3 \in DOMAIN tasks' /\ WillHear(i, w, tasks[j + 3])'
    <3>1. tasks[j] = Event(i, "modified")
      BY <1>4, <2>4 DEF WillHear
    <3>2. j # 1
      BY <1>3, <3>1, Steps
    <3> QED
      BY <1>6, <1>7, <3>1, <3>2 DEF WillHear
  <2> QED
    BY <2>2, <2>3, <2>4
<1> QED
  BY <1>17, <1>18, <1>19, <1>20, <1>21, <1>23, <1>24, <1>25 DEF IInv

-----------------------------------------------------------------------------
(* Events                                                                  *)

(* Between events nobody is about to leave or to be told.                  *)
LEMMA IdleFacts ==
  ASSUME IInv, Idle
  PROVE  /\ \A i : i \notin DOMAIN tasks
         /\ \A img : ~ Leaving(img)
         /\ \A img : Watching(img) = viewers[img]
         /\ \A img \in Images, w \in Windows : <<img, w>> \in Registered => win[img][w] # "none"
         /\ \A img \in Images, w \in Computed :
              win[img][w] # "none" /\ <<img, w>> \notin deaf => Fresh(img, w)
<1>1. \A i : i \notin DOMAIN tasks
  BY DEF Idle
<1>2. \A img : ~ Leaving(img)
  BY <1>1 DEF Leaving
<1>3. \A img : Watching(img) = viewers[img]
  BY <1>2 DEF Watching
<1>4. \A img \in Images, w \in Windows : <<img, w>> \in Registered => win[img][w] # "none"
  BY <1>1 DEF IInv, WindowsInv, Windows
<1>5. \A img \in Images, w \in Computed :
        win[img][w] # "none" /\ <<img, w>> \notin deaf => Fresh(img, w)
  BY <1>1 DEF IInv, ShownInv
<1> QED
  BY <1>1, <1>2, <1>3, <1>4, <1>5

LEMMA StillIdle ==
  ASSUME tasks' = << >>
  PROVE  /\ tasks' \in Seq(Tasks)
         /\ \A i : i \notin DOMAIN tasks'
         /\ \A img : Watching(img)' = viewers'[img]
         /\ OrderInv' /\ EndsInv' /\ WalksAreSafe'
<1>1. tasks' \in Seq(Tasks) /\ \A i : i \notin DOMAIN tasks'
  OBVIOUS
<1>2. \A img : Watching(img)' = viewers'[img]
  BY <1>1 DEF Watching, Leaving
<1> QED
  BY <1>1, <1>2 DEF OrderInv, EndsInv, WalksAreSafe

LEMMA NoWalksYet ==
  ASSUME \A i \in DOMAIN tasks' : tasks'[i].op # "walk"
  PROVE  EndsInv' /\ WalksAreSafe'
BY DEF EndsInv, WalksAreSafe

(* What an event leaves to be done, in order.                              *)
LEMMA OneTask ==
  ASSUME NEW a \in Tasks, tasks' = <<a>>, Ready(a)', a.op \notin {"walk", "free", "change"}
  PROVE  /\ tasks' \in Seq(Tasks) /\ OrderInv' /\ EndsInv' /\ WalksAreSafe'
         /\ \A t : (\E i \in DOMAIN tasks' : tasks'[i] = t) <=> t = a
<1>1. tasks' \in Seq(Tasks) /\ DOMAIN tasks' = {1} /\ tasks'[1] = a
  OBVIOUS
<1>2. ASSUME NEW i \in DOMAIN tasks' PROVE i = 1 /\ tasks'[i] = a
  BY <1>1
<1>3. \A i \in DOMAIN tasks' : Ready(tasks[i])'
  BY <1>2
<1>4. OrderInv'
  BY <1>2, <1>3 DEF OrderInv
<1> QED
  BY <1>1, <1>2, <1>4, NoWalksYet

LEMMA TwoTasks ==
  ASSUME NEW a \in Tasks, NEW b \in Tasks, tasks' = <<a, b>>,
         Ready(a)', Ready(b)', InOrder(a, b),
         a.op \notin {"walk", "free", "change"}, b.op \notin {"walk", "change"},
         b.op = "free" => Precedes(a, b)
  PROVE  /\ tasks' \in Seq(Tasks) /\ OrderInv' /\ EndsInv' /\ WalksAreSafe'
         /\ \A t : (\E i \in DOMAIN tasks' : tasks'[i] = t) <=> t \in {a, b}
<1>1. /\ tasks' \in Seq(Tasks) /\ DOMAIN tasks' = {1, 2}
      /\ tasks'[1] = a /\ tasks'[2] = b
  OBVIOUS
<1>2. \A i \in DOMAIN tasks' : Ready(tasks[i])'
  <2>1. ASSUME NEW i \in DOMAIN tasks' PROVE Ready(tasks[i])'
    <3>1. PICK t \in {a, b} : t = tasks'[i]
      BY <1>1
    <3> QED
      BY <3>1
  <2> QED
    BY <2>1
<1>3. ASSUME NEW i \in DOMAIN tasks', NEW j \in DOMAIN tasks', i < j
      PROVE  InOrder(tasks'[i], tasks'[j])
  <2>1. i = 1 /\ j = 2
    BY <1>1, <1>3
  <2> QED
    BY <1>1, <2>1
<1>4. ASSUME NEW i \in DOMAIN tasks', tasks'[i].op = "free"
      PROVE  i # 1 /\ Precedes(tasks'[i - 1], tasks'[i])
  <2>1. i = 2 /\ i - 1 = 1
    BY <1>1, <1>4
  <2> QED
    BY <1>1, <1>4, <2>1
<1>5. \A i \in DOMAIN tasks' : tasks'[i].op \notin {"walk", "change"}
  BY <1>1
<1>6. OrderInv'
  BY <1>2, <1>3, <1>4, <1>5 DEF OrderInv
<1> QED
  BY <1>1, <1>5, <1>6, NoWalksYet

LEMMA ThreeTasks ==
  ASSUME NEW a \in Tasks, NEW b \in Tasks, NEW c \in Tasks, tasks' = <<a, b, c>>,
         Ready(a)', Ready(b)', Ready(c)', InOrder(a, b), InOrder(a, c), InOrder(b, c),
         a.op \notin {"walk", "free", "change"}, b.op \notin {"walk", "free"},
         c.op \notin {"walk", "free", "change"},
         b.op = "change" => c = Event(b.image, "modified")
  PROVE  /\ tasks' \in Seq(Tasks) /\ OrderInv' /\ EndsInv' /\ WalksAreSafe'
         /\ \A t : (\E i \in DOMAIN tasks' : tasks'[i] = t) <=> t \in {a, b, c}
<1>1. /\ tasks' \in Seq(Tasks) /\ DOMAIN tasks' = {1, 2, 3}
      /\ tasks'[1] = a /\ tasks'[2] = b /\ tasks'[3] = c
  OBVIOUS
<1>2. \A i \in DOMAIN tasks' : Ready(tasks[i])'
  <2>1. ASSUME NEW i \in DOMAIN tasks' PROVE Ready(tasks[i])'
    <3>1. PICK t \in {a, b, c} : t = tasks'[i]
      BY <1>1
    <3> QED
      BY <3>1
  <2> QED
    BY <2>1
<1>3. ASSUME NEW i \in DOMAIN tasks', NEW j \in DOMAIN tasks', i < j
      PROVE  InOrder(tasks'[i], tasks'[j])
  <2>1. (i = 1 /\ j = 2) \/ (i = 1 /\ j = 3) \/ (i = 2 /\ j = 3)
    BY <1>1, <1>3
  <2> QED
    BY <1>1, <2>1
<1>4. \A i \in DOMAIN tasks' : tasks'[i].op \notin {"walk", "free"}
  BY <1>1
<1>5. ASSUME NEW i \in DOMAIN tasks', tasks'[i].op = "change"
      PROVE  i + 1 \in DOMAIN tasks' /\ tasks'[i + 1] = Event(tasks'[i].image, "modified")
  <2>1. i = 2 /\ i + 1 = 3
    BY <1>1, <1>5
  <2> QED
    BY <1>1, <1>5, <2>1
<1>6. OrderInv'
  BY <1>2, <1>3, <1>4, <1>5 DEF OrderInv
<1> QED
  BY <1>1, <1>4, <1>6, NoWalksYet

LEMMA FourTasks ==
  ASSUME NEW a \in Tasks, NEW b \in Tasks, NEW c \in Tasks, NEW d \in Tasks,
         tasks' = <<a, b, c, d>>, Ready(a)', Ready(b)', Ready(c)', Ready(d)',
         InOrder(a, b), InOrder(a, c), InOrder(a, d),
         InOrder(b, c), InOrder(b, d), InOrder(c, d),
         a.op \notin {"walk", "free", "change"}, b.op \notin {"walk", "change"},
         c.op \notin {"walk", "free", "change"}, d.op \notin {"walk", "change"},
         b.op = "free" => Precedes(a, b), d.op = "free" => Precedes(c, d)
  PROVE  /\ tasks' \in Seq(Tasks) /\ OrderInv' /\ EndsInv' /\ WalksAreSafe'
         /\ \A t : (\E i \in DOMAIN tasks' : tasks'[i] = t) <=> t \in {a, b, c, d}
<1>1. /\ tasks' \in Seq(Tasks) /\ DOMAIN tasks' = {1, 2, 3, 4}
      /\ tasks'[1] = a /\ tasks'[2] = b /\ tasks'[3] = c /\ tasks'[4] = d
  OBVIOUS
<1>2. \A i \in DOMAIN tasks' : Ready(tasks[i])'
  <2>1. ASSUME NEW i \in DOMAIN tasks' PROVE Ready(tasks[i])'
    <3>1. PICK t \in {a, b, c, d} : t = tasks'[i]
      BY <1>1
    <3> QED
      BY <3>1
  <2> QED
    BY <2>1
<1>3. ASSUME NEW i \in DOMAIN tasks', NEW j \in DOMAIN tasks', i < j
      PROVE  InOrder(tasks'[i], tasks'[j])
  <2>1. i \in {1, 2, 3, 4} /\ j \in {1, 2, 3, 4}
    BY <1>1
  <2>2. \/ i = 1 /\ j \in {2, 3, 4}
        \/ i = 2 /\ j \in {3, 4}
        \/ i = 3 /\ j = 4
    BY <1>3, <2>1
  <2> QED
    BY <1>1, <2>2
<1>4. ASSUME NEW i \in DOMAIN tasks', tasks'[i].op = "free"
      PROVE  i # 1 /\ Precedes(tasks'[i - 1], tasks'[i])
  <2>1. (i = 2 /\ i - 1 = 1) \/ (i = 4 /\ i - 1 = 3)
    BY <1>1, <1>4
  <2> QED
    BY <1>1, <1>4, <2>1
<1>5. \A i \in DOMAIN tasks' : tasks'[i].op \notin {"walk", "change"}
  BY <1>1
<1>6. OrderInv'
  BY <1>2, <1>3, <1>4, <1>5 DEF OrderInv
<1> QED
  BY <1>1, <1>5, <1>6, NoWalksYet

(* Something is begun, which changes nothing yet.                          *)
LEMMA IdleKeeps ==
  ASSUME IInv, Idle, UNCHANGED <<observers, live, viewers, deaf, windowVars>>,
         \A img \in Images : Watching(img)' = viewers[img],
         tasks' \in Seq(Tasks), OrderInv', EndsInv', WalksAreSafe'
  PROVE  IInv'
<1>1. Registered' = Registered
  BY DEF Registered
<1>2. Types'
  BY DEF IInv, Types, WindowTypes, windowVars
<1>3. CountsInv'
  BY IdleFacts, RecordTypes DEF IInv, CountsInv
<1>4. WindowsInv'
  BY <1>1, IdleFacts DEF IInv, WindowsInv, Windows, windowVars
<1>5. NoneOutlivesItsImage'
  BY <1>1 DEF IInv, NoneOutlivesItsImage, windowVars
<1>6. ShownInv'
  BY IdleFacts DEF ShownInv, Fresh, windowVars
<1> QED
  BY <1>2, <1>3, <1>4, <1>5, <1>6 DEF IInv

LEMMA EvictSafely ==
  ASSUME IInv, NEW img \in Images, Evict(img)
  PROVE  IInv'
<1>1. PICK a : a = Event(img, "about to destroy")
  OBVIOUS
<1>2. PICK b : b = Do("free", img)
  OBVIOUS
<1>3. /\ Idle /\ viewers[img] = 0 /\ tasks' = <<a, b>>
      /\ UNCHANGED <<observers, live, viewers, deaf, windowVars>>
  BY <1>1, <1>2 DEF Evict
<1>4. a \in Tasks /\ b \in Tasks
  BY <1>1, <1>2 DEF Tasks, Event, Do, Changes
<1>5. /\ a.op = "event" /\ a.image = img /\ a.change = "about to destroy"
      /\ b.op = "free" /\ b.image = img
      /\ \A i : Do("release", i).op = "release"
  BY <1>1, <1>2, Steps
<1>6. InOrder(a, b) /\ Precedes(a, b)
  BY <1>5 DEF InOrder, Precedes, Tells
<1>7. \A i : Watching(i)' = viewers[i]
  <2>1. \A i : ~ \E j \in DOMAIN tasks' : tasks'[j] = Do("release", i)
    <3>1. ASSUME NEW j \in DOMAIN tasks' PROVE tasks'[j] \in {a, b}
      BY <1>3
    <3> QED
      BY <1>5, <3>1
  <2> QED
    BY <1>3, <2>1 DEF Watching, Leaving
<1>8. Ready(a)' /\ Ready(b)'
  BY <1>3, <1>5, <1>7 DEF Ready
<1>9. tasks' \in Seq(Tasks) /\ OrderInv' /\ EndsInv' /\ WalksAreSafe'
  BY <1>3, <1>4, <1>5, <1>6, <1>8, TwoTasks
<1> QED
  BY <1>3, <1>7, <1>9, IdleKeeps

LEMMA ModifySafely ==
  ASSUME IInv, NEW img \in Images, Modify(img)
  PROVE  IInv'
<1>1. PICK a : a = Event(img, "about to modify")
  OBVIOUS
<1>2. PICK b : b = Do("change", img)
  OBVIOUS
<1>3. PICK c : c = Event(img, "modified")
  OBVIOUS
<1>4. /\ Idle /\ tasks' = <<a, b, c>>
      /\ UNCHANGED <<observers, live, viewers, deaf, windowVars>>
  BY <1>1, <1>2, <1>3 DEF Modify
<1>5. a \in Tasks /\ b \in Tasks /\ c \in Tasks
  BY <1>1, <1>2, <1>3 DEF Tasks, Event, Do, Changes
<1>6. /\ a.op = "event" /\ a.image = img /\ a.change = "about to modify"
      /\ b.op = "change" /\ b.image = img
      /\ c.op = "event" /\ c.image = img /\ c.change = "modified"
      /\ \A i : Do("release", i).op = "release"
  BY <1>1, <1>2, <1>3 DEF Event, Do
<1>7. InOrder(a, b) /\ InOrder(a, c) /\ InOrder(b, c)
  BY <1>6 DEF InOrder, Tells
<1>8. Ready(a)' /\ Ready(b)' /\ Ready(c)'
  BY <1>6 DEF Ready, Dooms, Tells
<1>9. tasks' \in Seq(Tasks) /\ OrderInv' /\ EndsInv' /\ WalksAreSafe'
  BY <1>3, <1>4, <1>5, <1>6, <1>7, <1>8, ThreeTasks
<1>10. \A i : Watching(i)' = viewers[i]
  <2>1. \A i : ~ \E j \in DOMAIN tasks' : tasks'[j] = Do("release", i)
    <3>1. ASSUME NEW j \in DOMAIN tasks' PROVE tasks'[j] \in {a, b, c}
      BY <1>4
    <3> QED
      BY <1>6, <3>1
  <2> QED
    BY <1>4, <2>1 DEF Watching, Leaving
<1> QED
  BY <1>4, <1>9, <1>10, IdleKeeps

LEMMA CloseEffectsSafely ==
  ASSUME IInv, NEW img \in Images, CloseEffects(img)
  PROVE  IInv'
<1>1. PICK a : a = Event(img, "preview")
  OBVIOUS
<1>2. PICK b : b = Do("unwatch", img)
  OBVIOUS
<1>3. /\ Idle /\ tasks' = <<a, b, a>>
      /\ win' = [win EXCEPT ![img]["effects"] = "none"]
      /\ UNCHANGED <<observers, live, viewers, deaf, avail, shows, hists>>
  BY <1>1, <1>2 DEF CloseEffects, Closing
<1>4. a \in Tasks /\ b \in Tasks
  BY <1>1, <1>2 DEF Tasks, Event, Do, Changes
<1>5. /\ a.op = "event" /\ a.image = img /\ a.change = "preview"
      /\ b.op = "unwatch" /\ b.image = img
      /\ \A i : Do("release", i).op = "release"
  BY <1>1, <1>2, Steps
<1>6. WindowTypes /\ win'[img]["effects"] = "none"
      /\ win' \in [Images -> [Windows -> {"none", "listed", "open"}]]
      /\ \A i \in Images, w \in Windows : i # img \/ w # "effects" => win'[i][w] = win[i][w]
  BY <1>3 DEF IInv, Types, WindowTypes, Windows
<1>7. InOrder(a, b) /\ InOrder(a, a) /\ InOrder(b, a)
  BY <1>5 DEF InOrder, Tells
<1>8. Ready(a)' /\ Ready(b)'
  BY <1>5, <1>6 DEF Ready, Dooms, Tells
<1>9. /\ tasks' \in Seq(Tasks) /\ OrderInv' /\ EndsInv' /\ WalksAreSafe'
      /\ \A t : (\E i \in DOMAIN tasks' : tasks'[i] = t) <=> t \in {a, b, a}
  BY <1>3, <1>4, <1>5, <1>7, <1>8, ThreeTasks
<1>10. \A i : Watching(i)' = viewers[i]
  <2>1. \A i : Do("release", i) \notin {a, b, a}
    BY <1>5
  <2> QED
    BY <1>3, <1>9, <2>1 DEF Watching, Leaving
<1>11. Registered' = Registered
  BY <1>3 DEF Registered
<1>12. Types'
  BY <1>3, <1>6, <1>9 DEF IInv, Types, WindowTypes
<1>13. CountsInv'
  BY <1>3, <1>10, IdleFacts, RecordTypes DEF IInv, CountsInv
<1>14. WindowsInv'
  <2>1. ASSUME NEW i \in Images, NEW w \in Windows, win'[i][w] # "none"
        PROVE  <<i, w>> \in Registered \cup deaf
    BY <1>6, <2>1 DEF IInv, WindowsInv
  <2>2. ASSUME NEW i \in Images, NEW w \in Computed, <<i, w>> \in Registered
        PROVE  win'[i][w] # "none"
    <3>1. w # "effects" /\ w \in Windows
      BY DEF Computed, Windows
    <3> QED
      BY <1>3, <1>6, <2>2, <3>1, IdleFacts
  <2>3. ASSUME NEW i \in Images, <<i, "effects">> \in Registered, win'[i]["effects"] = "none"
        PROVE  \E j \in DOMAIN tasks' : tasks'[j] = Do("unwatch", i)
    <3>1. i = img
      BY <1>3, <1>6, <2>3, IdleFacts DEF Windows
    <3> QED
      BY <1>2, <1>9, <3>1
  <2> QED
    BY <1>3, <1>11, <2>1, <2>2, <2>3 DEF WindowsInv
<1>15. NoneOutlivesItsImage'
  BY <1>3, <1>6, <1>11 DEF IInv, NoneOutlivesItsImage
<1>16. ShownInv'
  <2>1. \A i \in Images, w \in Computed : win'[i][w] = win[i][w]
    BY <1>6 DEF Computed, Windows
  <2> QED
    BY <1>3, <2>1, IdleFacts DEF ShownInv, Fresh
<1> QED
  BY <1>9, <1>12, <1>13, <1>14, <1>15, <1>16 DEF IInv

LEMMA KickSafely ==
  ASSUME IInv, NEW img \in Images, Kick(img)
  PROVE  IInv'
<1>1. /\ Idle /\ tasks' = << >> /\ Compute(img, "hist")
      /\ UNCHANGED <<observers, tasks, live, viewers, deaf, avail, win>>
  BY DEF Kick, Idle
<1>2. /\ hists' \in [Images -> {"none", "current"}]
      /\ shows' \in [Images -> [Computed -> Data]]
      /\ Fresh(img, "hist")'
      /\ \A i \in Images, v \in Computed :
           <<i, v>> # <<img, "hist">> => shows'[i][v] = shows[i][v]
  BY <1>1, ComputeProps DEF IInv, Types, Computed
<1>3. /\ tasks' \in Seq(Tasks) /\ OrderInv' /\ EndsInv' /\ WalksAreSafe'
      /\ \A i : Watching(i)' = viewers[i]
  BY <1>1, StillIdle
<1>4. Registered' = Registered
  BY <1>1 DEF Registered
<1>5. Types'
  BY <1>1, <1>2, <1>3 DEF IInv, Types, WindowTypes
<1>6. CountsInv'
  BY <1>1, <1>3, IdleFacts, RecordTypes DEF IInv, CountsInv
<1>7. WindowsInv' /\ NoneOutlivesItsImage'
  BY <1>1, <1>4 DEF IInv, WindowsInv, NoneOutlivesItsImage
<1>8. ShownInv'
  <2>1. ASSUME NEW i \in Images, NEW w \in Computed, win[i][w] # "none", <<i, w>> \notin deaf
        PROVE  Fresh(i, w)'
    <3>1. Fresh(i, w)
      BY <1>1, <2>1, IdleFacts
    <3>2. CASE <<i, w>> = <<img, "hist">>
      BY <1>2, <3>2
    <3>3. CASE <<i, w>> # <<img, "hist">>
      BY <1>2, <3>1, <3>3 DEF Fresh
    <3> QED
      BY <3>2, <3>3
  <2> QED
    BY <1>1, <2>1 DEF ShownInv
<1> QED
  BY <1>3, <1>5, <1>6, <1>7, <1>8 DEF IInv

LEMMA CloseWindowSafely ==
  ASSUME IInv, NEW img \in Images, NEW w \in Computed, CloseWindow(img, w)
  PROVE  IInv'
<1> DEFINE k == <<img, w>>
<1>1. /\ Idle /\ tasks' = << >> /\ Deregister(img, w)
      /\ win' = [win EXCEPT ![img][w] = "none"]
      /\ shows' = [shows EXCEPT ![img][w] = "none"]
      /\ UNCHANGED <<avail, hists, live, viewers>>
  BY DEF CloseWindow, CloseComputed, Idle
<1>2. w # "effects" /\ w # "viewers" /\ w \in Windows
  BY DEF Computed, Windows
<1>3. /\ observers' \in Seq(Records) /\ Unique(observers')
      /\ Recs(observers') = { r \in Recs(observers) : KeyOf(r) # k }
      /\ Registered' = Registered \ {k}
      /\ deaf' = deaf \ {k}
  BY <1>1, <1>2, LeaveOne
<1>4. /\ win' \in [Images -> [Windows -> {"none", "listed", "open"}]]
      /\ shows' \in [Images -> [Computed -> Data]]
      /\ win'[img][w] = "none"
      /\ \A i \in Images, v \in Windows : <<i, v>> # k => win'[i][v] = win[i][v]
      /\ \A i \in Images, v \in Computed : <<i, v>> # k => shows'[i][v] = shows[i][v]
  BY <1>1, <1>2 DEF IInv, Types, WindowTypes, Data
<1>5. \A i \in Images, v \in Windows \cup {"viewers"} : <<i, v>> = k => i = img /\ v = w
  OBVIOUS
<1>6. /\ tasks' \in Seq(Tasks) /\ OrderInv' /\ EndsInv' /\ WalksAreSafe'
      /\ \A i : Watching(i)' = viewers[i]
  BY <1>1, StillIdle
<1> HIDE DEF k
<1>7. Types'
  BY <1>1, <1>3, <1>4, <1>6 DEF IInv, Types, WindowTypes
<1>8. CountsInv'
  <2>1. \A i \in Images : <<i, "viewers">> # k
    BY <1>2, <1>5
  <2> QED
    BY <1>1, <1>3, <1>6, <2>1, IdleFacts, RecordTypes DEF IInv, CountsInv
<1>9. WindowsInv'
  <2>1. ASSUME NEW i \in Images, NEW v \in Windows, win'[i][v] # "none"
        PROVE  <<i, v>> \in Registered' \cup deaf'
    BY <1>3, <1>4, <1>5, <2>1 DEF IInv, WindowsInv
  <2>2. ASSUME NEW i \in Images, NEW v \in Windows, <<i, v>> \in Registered'
        PROVE  win'[i][v] # "none"
    BY <1>1, <1>3, <1>4, <2>2, IdleFacts
  <2> QED
    BY <2>1, <2>2 DEF WindowsInv, Windows
<1>10. NoneOutlivesItsImage'
  <2>1. ASSUME NEW i \in Images \ live, NEW v \in Windows, win'[i][v] # "none"
        PROVE  <<i, v>> \in deaf'
    BY <1>3, <1>4, <1>5, <2>1 DEF IInv, NoneOutlivesItsImage
  <2> QED
    BY <1>1, <1>3, <2>1 DEF IInv, NoneOutlivesItsImage
<1>11. ShownInv'
  <2>1. ASSUME NEW i \in Images, NEW v \in Computed, win'[i][v] # "none", <<i, v>> \notin deaf'
        PROVE  Fresh(i, v)'
    <3>0. v \in Windows
      BY DEF Windows
    <3>1. <<i, v>> # k
      BY <1>4, <1>5, <2>1, <3>0
    <3>2. Fresh(i, v)
      BY <1>1, <1>3, <1>4, <2>1, <3>0, <3>1, IdleFacts
    <3> QED
      BY <1>4, <3>1, <3>2 DEF Fresh
  <2> QED
    BY <2>1 DEF ShownInv
<1> QED
  BY <1>6, <1>7, <1>8, <1>9, <1>10, <1>11 DEF IInv

LEMMA OpenTagsSafely ==
  ASSUME IInv, OpenTags
  PROVE  IInv'
<1> DEFINE k == <<Every, "tags">>
           r == [image |-> Every, who |-> "tags", nrefs |-> 1]
<1>1. /\ Idle /\ tasks' = << >> /\ ~ Has(observers, k)
      /\ observers' = Insert(observers, Every, "tags")
      /\ UNCHANGED <<tasks, live, viewers, deaf, windowVars>>
  BY DEF OpenTags, Idle
<1>2. r \in Records /\ KeyOf(r) = k /\ r.who = "tags" /\ r.nrefs = 1
  BY DEF Records, Keys, KeyOf
<1>3. /\ observers' \in Seq(Records) /\ Unique(observers')
      /\ Recs(observers') = Recs(observers) \cup {r}
  BY <1>1, <1>2, InsertFirst DEF IInv, Types
<1>4. \A i \in Images : \A v : <<i, v>> # k
  BY ObserversAssumption
<1> HIDE DEF r, k
<1>5. Registered' = Registered \cup {k}
  <2>1. Registered = { KeyOf(o) : o \in Recs(observers) }
        /\ Registered' = { KeyOf(o) : o \in Recs(observers') }
    BY DEF Registered, Recs
  <2> QED
    BY <1>2, <1>3, <2>1
<1>6. /\ tasks' \in Seq(Tasks) /\ OrderInv' /\ EndsInv' /\ WalksAreSafe'
      /\ \A i : Watching(i)' = viewers[i]
  BY <1>1, StillIdle
<1>7. Types'
  BY <1>1, <1>3, <1>6 DEF IInv, Types, WindowTypes, windowVars
<1>8. CountsInv'
  BY <1>1, <1>2, <1>3, <1>6, IdleFacts, RecordTypes DEF IInv, CountsInv
<1>9. WindowsInv'
  BY <1>1, <1>4, <1>5, IdleFacts DEF IInv, WindowsInv, windowVars
<1>10. NoneOutlivesItsImage'
  <2>1. k[1] = Every
    BY DEF k
  <2> QED
    BY <1>1, <1>5, <2>1 DEF IInv, NoneOutlivesItsImage, windowVars
<1>11. ShownInv'
  BY <1>1, IdleFacts DEF ShownInv, Fresh, windowVars
<1> QED
  BY <1>6, <1>7, <1>8, <1>9, <1>10, <1>11 DEF IInv

(* A window which is opened anew comes to watch, and shows what it shows.  *)
LEMMA OpenNew ==
  ASSUME IInv, Idle, NEW img \in Images, NEW w \in Windows, viewers[img] > 0,
         win[img][w] = "none", Register(img, w),
         NEW s \in {"listed", "open"}, win' = [win EXCEPT ![img][w] = s],
         UNCHANGED <<tasks, live, viewers, avail>>,
         hists' \in [Images -> {"none", "current"}],
         shows' \in [Images -> [Computed -> Data]],
         w \in Computed => Fresh(img, w)',
         \A i \in Images, v \in Computed : <<i, v>> # <<img, w>> => shows'[i][v] = shows[i][v]
  PROVE  IInv'
<1> DEFINE k == <<img, w>>
           r == [image |-> img, who |-> w, nrefs |-> 1]
<1>1. ~ Has(observers, k)
  BY IdleFacts, HasRegistered
<1>2. w # "viewers" /\ tasks' = << >>
  BY DEF Windows, Computed, Idle
<1>3. KeyOf(r) = k /\ r.who = w /\ r.nrefs = 1 /\ k[1] = img
  BY DEF KeyOf
<1>4. \/ /\ observers' \in Seq(Records) /\ Unique(observers')
         /\ Recs(observers') = Recs(observers) \cup {r}
         /\ Registered' = Registered \cup {k}
         /\ deaf' = deaf
      \/ /\ observers' = observers
         /\ deaf' = deaf \cup {k}
  BY <1>1, JoinOne
<1>5. /\ win' \in [Images -> [Windows -> {"none", "listed", "open"}]]
      /\ win'[img][w] = s
      /\ \A i \in Images, v \in Windows : <<i, v>> # k => win'[i][v] = win[i][v]
  BY DEF IInv, Types, WindowTypes
<1>6. \A i \in Images, v \in Windows \cup {"viewers"} : <<i, v>> = k => i = img /\ v = w
  OBVIOUS
<1>7. /\ tasks' \in Seq(Tasks) /\ OrderInv' /\ EndsInv' /\ WalksAreSafe'
      /\ \A i : Watching(i)' = viewers[i]
  BY <1>2, StillIdle
<1>8. k \in Images \X (Windows \cup {"viewers"})
  OBVIOUS
<1> HIDE DEF k, r
<1>9. /\ Registered' \subseteq Registered \cup {k} /\ Registered \subseteq Registered'
      /\ k \in Registered' \cup deaf' /\ deaf \subseteq deaf' /\ deaf' \subseteq deaf \cup {k}
  BY <1>4 DEF Registered
<1>10. Types'
  <2>1. deaf' \subseteq Images \X (Windows \cup {"viewers"})
    BY <1>8, <1>9 DEF IInv, Types, WindowTypes
  <2>2. WindowTypes'
    BY <1>5, <2>1 DEF IInv, Types, WindowTypes
  <2>3. observers' \in Seq(Records) /\ Unique(observers')
    BY <1>4 DEF IInv, Types
  <2> QED
    BY <1>7, <2>2, <2>3 DEF IInv, Types
<1>11. CountsInv'
  <2>1. \A i \in Images : <<i, "viewers">> # k
    BY <1>2, <1>6
  <2>2. Recs(observers) \subseteq Recs(observers') /\ Recs(observers') \subseteq Recs(observers) \cup {r}
    BY <1>4
  <2>3. \A q \in Recs(observers') :
          IF q.who = "viewers" THEN q.nrefs <= viewers[q.image] ELSE q.nrefs = 1
    BY <1>2, <1>3, <2>2, IdleFacts DEF IInv, CountsInv
  <2>4. \A i \in Images :
          /\ viewers[i] > 0 => i \in live
          /\ viewers[i] > 0 /\ <<i, "viewers">> \notin deaf' =>
               \E q \in Recs(observers') :
                 KeyOf(q) = <<i, "viewers">> /\ q.nrefs = viewers[i]
    BY <1>9, <2>1, <2>2, IdleFacts DEF IInv, CountsInv
  <2>5. \A q \in Recs(observers') : q.who = "viewers" => q.image \in Images
    BY <1>2, <1>3, <2>2, RecordTypes
  <2> QED
    BY <1>7, <2>3, <2>4, <2>5 DEF CountsInv
<1>12. WindowsInv'
  <2>1. ASSUME NEW i \in Images, NEW v \in Windows, win'[i][v] # "none"
        PROVE  <<i, v>> \in Registered' \cup deaf'
    BY <1>5, <1>9, <2>1 DEF IInv, WindowsInv
  <2>2. ASSUME NEW i \in Images, NEW v \in Windows, <<i, v>> \in Registered'
        PROVE  win'[i][v] # "none"
    <3>1. CASE <<i, v>> = k
      BY <1>5, <1>6, <3>1
    <3>2. CASE <<i, v>> # k
      BY <1>5, <1>9, <2>2, <3>2, IdleFacts
    <3> QED
      BY <3>1, <3>2
  <2> QED
    BY <2>1, <2>2 DEF WindowsInv, Windows
<1>13. NoneOutlivesItsImage'
  <2>1. img \in live
    BY DEF IInv, CountsInv
  <2>2. ASSUME NEW i \in Images \ live, NEW v \in Windows, win'[i][v] # "none"
        PROVE  <<i, v>> \in deaf'
    BY <1>5, <1>6, <1>9, <2>1, <2>2 DEF IInv, NoneOutlivesItsImage
  <2>3. \A o \in Registered' : o[1] \in live \cup {Every}
    BY <1>3, <1>9, <2>1 DEF IInv, NoneOutlivesItsImage
  <2> QED
    BY <2>2, <2>3 DEF NoneOutlivesItsImage
<1>14. ShownInv'
  <2>1. ASSUME NEW i \in Images, NEW v \in Computed, win'[i][v] # "none", <<i, v>> \notin deaf'
        PROVE  Fresh(i, v)'
    <3>0. v \in Windows
      BY DEF Windows
    <3>1. CASE <<i, v>> = k
      BY <1>6, <3>0, <3>1
    <3>2. CASE <<i, v>> # k
      <4>1. Fresh(i, v)
        BY <1>5, <1>9, <2>1, <3>0, <3>2, IdleFacts
      <4> QED
        BY <3>2, <4>1 DEF Fresh, k
    <3> QED
      BY <3>1, <3>2
  <2> QED
    BY <2>1 DEF ShownInv
<1> QED
  BY <1>7, <1>10, <1>11, <1>12, <1>13, <1>14 DEF IInv

LEMMA OpenEffectsSafely ==
  ASSUME IInv, NEW img \in Images, OpenEffects(img)
  PROVE  IInv'
<1>1. /\ Idle /\ viewers[img] > 0 /\ win[img]["effects"] = "none"
      /\ Register(img, "effects")
      /\ win' = [win EXCEPT ![img]["effects"] = "open"]
      /\ UNCHANGED <<tasks, live, viewers, avail, shows, hists>>
  BY DEF OpenEffects
<1>2. "effects" \in Windows /\ "effects" \notin Computed /\ "open" \in {"listed", "open"}
  BY DEF Windows, Computed
<1>3. hists' \in [Images -> {"none", "current"}] /\ shows' \in [Images -> [Computed -> Data]]
  BY <1>1 DEF IInv, Types, WindowTypes
<1> QED
  BY <1>1, <1>2, <1>3, OpenNew

LEMMA OpenComputedSafely ==
  ASSUME IInv, NEW img \in Images, NEW w \in Computed, OpenComputed(img, w)
  PROVE  IInv'
<1>1. w \in Windows
  BY DEF Windows
<1>2. Idle /\ viewers[img] > 0 /\ UNCHANGED <<tasks, live, viewers, avail>>
  BY DEF OpenComputed
<1>3. CASE /\ win[img][w] # "none"
           /\ win' = [win EXCEPT ![img][w] = "open"]
           /\ UNCHANGED <<observers, deaf, shows, hists>>
  <2>1. /\ win' \in [Images -> [Windows -> {"none", "listed", "open"}]]
        /\ \A i \in Images, v \in Windows : win'[i][v] # "none" <=> win[i][v] # "none"
    BY <1>1, <1>3 DEF IInv, Types, WindowTypes
  <2>2. Registered' = Registered /\ tasks' = << >>
    BY <1>2, <1>3 DEF Registered, Idle
  <2>3. /\ tasks' \in Seq(Tasks) /\ OrderInv' /\ EndsInv' /\ WalksAreSafe'
        /\ \A i : Watching(i)' = viewers[i]
    BY <1>2, <2>2, StillIdle
  <2>4. Types'
    BY <1>2, <1>3, <2>1, <2>3 DEF IInv, Types, WindowTypes
  <2>5. CountsInv'
    BY <1>2, <1>3, <2>3, IdleFacts, RecordTypes DEF IInv, CountsInv
  <2>6. WindowsInv'
    BY <1>2, <1>3, <2>1, <2>2, IdleFacts DEF IInv, WindowsInv, Windows
  <2>7. NoneOutlivesItsImage'
    BY <1>2, <1>3, <2>1, <2>2 DEF IInv, NoneOutlivesItsImage
  <2>8. ShownInv'
    BY <1>2, <1>3, <2>1, IdleFacts DEF ShownInv, Fresh, Windows
  <2> QED
    BY <2>3, <2>4, <2>5, <2>6, <2>7, <2>8 DEF IInv
<1>4. CASE /\ win[img][w] = "none"
           /\ Register(img, w)
           /\ Compute(img, w)
           /\ win' = [win EXCEPT ![img][w] = IF shows'[img][w] = "failed" THEN "listed" ELSE "open"]
  <2>1. /\ hists' \in [Images -> {"none", "current"}]
        /\ shows' \in [Images -> [Computed -> Data]]
        /\ Fresh(img, w)'
        /\ \A i \in Images, v \in Computed : <<i, v>> # <<img, w>> => shows'[i][v] = shows[i][v]
    BY <1>4, ComputeProps DEF IInv, Types
  <2>2. PICK s \in {"listed", "open"} : win' = [win EXCEPT ![img][w] = s]
    BY <1>4
  <2> QED
    <3>1. win[img][w] = "none" /\ Register(img, w)
      BY <1>4
    <3> QED
      BY <1>1, <1>2, <2>1, <2>2, <3>1, OpenNew
<1> QED
  BY <1>3, <1>4 DEF OpenComputed

(* A viewer comes to watch its image, with those who do, or it could not.  *)
LEMMA ViewerJoins ==
  ASSUME IInv, Idle, NEW img \in Images, Register(img, "viewers"),
         NEW k, k = <<img, "viewers">>
  PROVE  /\ observers' \in Seq(Records) /\ Unique(observers')
         /\ \A q \in Recs(observers') :
              \/ q \in Recs(observers) /\ KeyOf(q) # k
              \/ q.who = "viewers" /\ q.image = img /\ q.nrefs <= viewers[img] + 1
         /\ \A q \in Recs(observers) : KeyOf(q) # k => q \in Recs(observers')
         /\ k \notin deaf' =>
              \E q \in Recs(observers') : KeyOf(q) = k /\ q.nrefs = viewers[img] + 1
         /\ Registered \subseteq Registered' /\ Registered' \subseteq Registered \cup {k}
         /\ deaf \subseteq deaf' /\ deaf' \subseteq deaf \cup {k}
<1>1. /\ observers \in Seq(Records) /\ Unique(observers) /\ viewers[img] \in Nat
      /\ Watching(img) = viewers[img]
  BY IdleFacts, ObserversAssumption DEF IInv, Types
<1>2. viewers[img] > 0 /\ k \notin deaf =>
        \E q \in Recs(observers) : KeyOf(q) = k /\ q.nrefs = viewers[img]
  BY <1>1 DEF IInv, CountsInv
<1>3. CASE Has(observers, k)
  <2>1. observers' = Insert(observers, img, "viewers") /\ deaf' = deaf
    BY <1>3 DEF Register
  <2>2. PICK p : p = PlaceOf(observers, k)
    OBVIOUS
  <2>3. /\ p \in DOMAIN observers /\ KeyOf(observers[p]) = k
        /\ observers[p] \in Recs(observers)
        /\ \A q \in Recs(observers) : KeyOf(q) = k => q = observers[p]
    BY <1>1, <1>3, <2>2, PlaceOfOne
  <2>4. PICK c \in Nat \ {0} : c = observers[p].nrefs
    BY <2>3, RecordTypes
  <2>5. observers[p].who = "viewers" /\ observers[p].image = img
    BY <2>3 DEF KeyOf
  <2>6. c <= viewers[img]
    BY <1>1, <2>3, <2>4, <2>5 DEF IInv, CountsInv
  <2>7. k \notin deaf => c = viewers[img]
    BY <1>1, <1>2, <2>3, <2>4, <2>6
  <2>8. PICK n \in Nat \ {0} : n = c + 1
    OBVIOUS
  <2>9. PICK r : r = WithCount(observers, p, n)
    OBVIOUS
  <2>10. observers' = Recount(observers, p, n)
    BY <1>3, <2>1, <2>2, <2>4, <2>9, <2>8 DEF Insert, WithCount, Recount
  <2>11. /\ r.image = img /\ r.who = "viewers" /\ r.nrefs = c + 1 /\ KeyOf(r) = k
         /\ observers' \in Seq(Records) /\ Unique(observers')
         /\ Recs(observers') = (Recs(observers) \ {observers[p]}) \cup {r}
    <3>1. /\ r.image = observers[p].image /\ r.who = observers[p].who /\ r.nrefs = n
         /\ KeyOf(r) = KeyOf(observers[p])
         /\ observers' \in Seq(Records) /\ Unique(observers')
         /\ Recs(observers') = (Recs(observers) \ {observers[p]}) \cup {r}
      BY <1>1, <2>3, <2>9, <2>10, RecountProperties
    <3> QED
      BY <2>3, <2>5, <2>8, <3>1
  <2>12. Registered' = Registered
    <3>1. Registered = { KeyOf(q) : q \in Recs(observers) }
          /\ Registered' = { KeyOf(q) : q \in Recs(observers') }
      BY DEF Registered, Recs
    <3> QED
      BY <2>3, <2>11, <3>1
  <2>13. r.nrefs <= viewers[img] + 1 /\ (k \notin deaf => r.nrefs = viewers[img] + 1)
    BY <1>1, <2>6, <2>7, <2>11
  <2>14. \A q \in Recs(observers') :
           \/ q \in Recs(observers) /\ KeyOf(q) # k
           \/ q = r
    BY <2>3, <2>11
  <2>15. r \in Recs(observers') /\ \A q \in Recs(observers) : KeyOf(q) # k => q \in Recs(observers')
    BY <2>3, <2>11
  <2> QED
    BY <2>1, <2>11, <2>12, <2>13, <2>14, <2>15
<1>4. CASE ~ Has(observers, k)
  <2> DEFINE r == [image |-> img, who |-> "viewers", nrefs |-> 1]
  <2>1. \/ /\ observers' \in Seq(Records) /\ Unique(observers')
           /\ Recs(observers') = Recs(observers) \cup {r}
           /\ Registered' = Registered \cup {k}
           /\ deaf' = deaf
        \/ /\ observers' = observers
           /\ deaf' = deaf \cup {k}
    BY <1>4, JoinOne
  <2>2. \A q \in Recs(observers) : KeyOf(q) # k
    BY <1>4, HasRegistered
  <2>3. KeyOf(r) = k /\ r.who = "viewers" /\ r.image = img /\ r.nrefs = 1
    BY DEF KeyOf
  <2> HIDE DEF r
  <2>4. r.nrefs <= viewers[img] + 1
    BY <1>1, <2>3
  <2>5. k \notin deaf => r.nrefs = viewers[img] + 1
    BY <1>1, <1>2, <2>2, <2>3
  <2>6. CASE /\ observers' \in Seq(Records) /\ Unique(observers')
             /\ Recs(observers') = Recs(observers) \cup {r}
             /\ Registered' = Registered \cup {k}
             /\ deaf' = deaf
    BY <2>2, <2>3, <2>4, <2>5, <2>6
  <2>7. CASE observers' = observers /\ deaf' = deaf \cup {k}
    <3>1. Registered' = Registered
      BY <2>7 DEF Registered
    <3> QED
      BY <1>1, <2>2, <2>7, <3>1
  <2> QED
    BY <2>1, <2>6, <2>7
<1> QED
  BY <1>3, <1>4

(* A viewer stops watching; the image's last one takes the observer out.   *)
LEMMA ViewerLeaves ==
  ASSUME IInv, Idle, NEW img \in Images, viewers[img] > 0, Deregister(img, "viewers"),
         NEW k, k = <<img, "viewers">>
  PROVE  /\ observers' \in Seq(Records) /\ Unique(observers')
         /\ \A q \in Recs(observers') :
              \/ q \in Recs(observers) /\ KeyOf(q) # k
              \/ q.who = "viewers" /\ q.image = img /\ q.nrefs <= viewers[img] - 1
         /\ \A q \in Recs(observers) : KeyOf(q) # k => q \in Recs(observers')
         /\ viewers[img] > 1 /\ k \notin deaf' =>
              \E q \in Recs(observers') : KeyOf(q) = k /\ q.nrefs = viewers[img] - 1
         /\ Registered' \subseteq Registered /\ Registered \subseteq Registered' \cup {k}
         /\ deaf' \subseteq deaf /\ deaf \subseteq deaf' \cup {k}
<1>1. /\ observers \in Seq(Records) /\ Unique(observers) /\ viewers[img] \in Nat
      /\ Watching(img) = viewers[img]
  BY IdleFacts, ObserversAssumption DEF IInv, Types
<1>2. k \notin deaf =>
        \E q \in Recs(observers) : KeyOf(q) = k /\ q.nrefs = viewers[img]
  BY <1>1 DEF IInv, CountsInv
<1>3. /\ observers' = Leave(observers, img, "viewers")
      /\ deaf' \subseteq deaf /\ deaf \subseteq deaf' \cup {k}
      /\ viewers[img] > 1 => deaf' = deaf
  BY DEF Deregister
<1>4. CASE ~ Has(observers, k)
  <2>1. observers' = observers
    BY <1>3, <1>4 DEF Leave
  <2>2. \A q \in Recs(observers) : KeyOf(q) # k
    BY <1>4, HasRegistered
  <2>3. Registered' = Registered
    BY <2>1 DEF Registered
  <2>4. k \in deaf
    BY <1>2, <2>2
  <2> QED
    BY <1>1, <1>3, <2>1, <2>2, <2>3, <2>4
<1>5. CASE Has(observers, k)
  <2>1. PICK p : p = PlaceOf(observers, k)
    OBVIOUS
  <2>2. /\ p \in DOMAIN observers /\ KeyOf(observers[p]) = k
        /\ observers[p] \in Recs(observers)
        /\ \A q \in Recs(observers) : KeyOf(q) = k => q = observers[p]
    BY <1>1, <1>5, <2>1, PlaceOfOne
  <2>3. PICK c \in Nat \ {0} : c = observers[p].nrefs
    BY <2>2, RecordTypes
  <2>4. observers[p].who = "viewers" /\ observers[p].image = img
    BY <2>2 DEF KeyOf
  <2>5. c <= viewers[img]
    BY <1>1, <2>2, <2>3, <2>4 DEF IInv, CountsInv
  <2>6. k \notin deaf => c = viewers[img]
    BY <1>1, <1>2, <2>2, <2>3
  <2>7. Registered = { KeyOf(q) : q \in Recs(observers) }
        /\ Registered' = { KeyOf(q) : q \in Recs(observers') }
    BY DEF Registered, Recs
  <2>8. CASE c > 1
    <3>1. PICK n \in Nat \ {0} : n = c - 1
      BY <2>8
    <3>2. PICK r : r = WithCount(observers, p, n)
      OBVIOUS
    <3>3. observers' = Recount(observers, p, n)
      BY <1>3, <1>5, <2>1, <2>3, <2>8, <3>2, <3>1 DEF Leave, WithCount, Recount
    <3>4. /\ r.image = img /\ r.who = "viewers" /\ r.nrefs = c - 1 /\ KeyOf(r) = k
           /\ observers' \in Seq(Records) /\ Unique(observers')
           /\ Recs(observers') = (Recs(observers) \ {observers[p]}) \cup {r}
      <4>1. /\ r.image = observers[p].image /\ r.who = observers[p].who /\ r.nrefs = n
           /\ KeyOf(r) = KeyOf(observers[p])
           /\ observers' \in Seq(Records) /\ Unique(observers')
           /\ Recs(observers') = (Recs(observers) \ {observers[p]}) \cup {r}
        BY <1>1, <2>2, <3>2, <3>3, RecountProperties
      <4> QED
        BY <2>2, <2>4, <3>1, <4>1
    <3>5. Registered' = Registered
      BY <2>2, <2>7, <3>4
    <3>6. r.nrefs <= viewers[img] - 1 /\ (k \notin deaf => r.nrefs = viewers[img] - 1)
      BY <1>1, <2>5, <2>6, <3>4
    <3>7. \A q \in Recs(observers') :
            \/ q \in Recs(observers) /\ KeyOf(q) # k
            \/ q = r
      BY <2>2, <3>4
    <3>8. r \in Recs(observers') /\ \A q \in Recs(observers) : KeyOf(q) # k => q \in Recs(observers')
      BY <2>2, <3>4
    <3> QED
      BY <1>3, <3>4, <3>5, <3>6, <3>7, <3>8
  <2>9. CASE ~ (c > 1)
    <3>1. observers' = RemoveAt(observers, p)
      BY <1>3, <1>5, <2>1, <2>3, <2>9 DEF Leave
    <3>2. /\ observers' \in Seq(Records) /\ Unique(observers')
          /\ Recs(observers') = Recs(observers) \ {observers[p]}
      BY <1>1, <2>2, <3>1, LeaveForGood
    <3>3. Registered' \subseteq Registered /\ Registered \subseteq Registered' \cup {k}
      BY <2>2, <2>7, <3>2
    <3>4. viewers[img] > 1 => k \in deaf
      BY <1>1, <2>6, <2>9
    <3> QED
      BY <1>3, <2>2, <3>2, <3>3, <3>4
  <2> QED
    BY <2>8, <2>9
<1> QED
  BY <1>4, <1>5

LEMMA LoadViewerSafely ==
  ASSUME IInv, NEW img \in Images, LoadViewer(img)
  PROVE  IInv'
<1>1. /\ Idle /\ viewers[img] < MaxViewers /\ Register(img, "viewers")
      /\ viewers' = [viewers EXCEPT ![img] = @ + 1]
      /\ live' = live \cup {img}
      /\ avail' = IF img \in live THEN avail ELSE [avail EXCEPT ![img] = Possible[img]]
      /\ UNCHANGED <<win, shows, hists>>
  BY DEF LoadViewer
<1>2. PICK k : k = <<img, "viewers">>
  OBVIOUS
<1>3. /\ observers' \in Seq(Records) /\ Unique(observers')
      /\ \A q \in Recs(observers') :
           \/ q \in Recs(observers) /\ KeyOf(q) # k
           \/ q.who = "viewers" /\ q.image = img /\ q.nrefs <= viewers[img] + 1
      /\ \A q \in Recs(observers) : KeyOf(q) # k => q \in Recs(observers')
      /\ k \notin deaf' =>
           \E q \in Recs(observers') : KeyOf(q) = k /\ q.nrefs = viewers[img] + 1
      /\ Registered \subseteq Registered' /\ Registered' \subseteq Registered \cup {k}
      /\ deaf \subseteq deaf' /\ deaf' \subseteq deaf \cup {k}
  BY <1>1, <1>2, ViewerJoins
<1>4. /\ viewers \in [Images -> 0 .. MaxViewers] /\ MaxViewers \in Nat
      /\ viewers' \in [Images -> 0 .. MaxViewers]
      /\ viewers'[img] = viewers[img] + 1
      /\ \A i \in Images : i # img => viewers'[i] = viewers[i]
  BY <1>1, ObserversAssumption DEF IInv, Types
<1>5. /\ tasks' \in Seq(Tasks) /\ OrderInv' /\ EndsInv' /\ WalksAreSafe'
      /\ \A i \in Images : Watching(i)' = viewers'[i]
  <2>1. CASE tasks' = << >>
    BY <2>1, StillIdle
  <2>2. CASE tasks' = <<Event(img, "revealed")>>
    <3>1. PICK a : a = Event(img, "revealed")
      OBVIOUS
    <3>2. a \in Tasks
      BY <3>1 DEF Tasks, Event, Changes
    <3>3. a.op = "event" /\ a.change = "revealed" /\ \A i : Do("release", i).op = "release"
      BY <3>1, Steps
    <3>4. Ready(a)'
      BY <3>3 DEF Ready, Dooms
    <3>5. /\ tasks' \in Seq(Tasks) /\ OrderInv' /\ EndsInv' /\ WalksAreSafe'
          /\ \A t : (\E i \in DOMAIN tasks' : tasks'[i] = t) <=> t = a
      BY <2>2, <3>1, <3>2, <3>3, <3>4, OneTask
    <3>6. \A i : Watching(i)' = viewers'[i]
      <4>1. \A i : Do("release", i) # a
        BY <3>3
      <4> QED
        BY <3>5, <4>1 DEF Watching, Leaving
    <3> QED
      BY <3>5, <3>6
  <2> QED
    BY <2>1, <2>2 DEF LoadViewer
<1>6. \A i \in Images, w \in Windows : <<i, w>> # k
  BY <1>2 DEF Windows, Computed
<1>7. Types'
  <2>1. k \in Images \X (Windows \cup {"viewers"})
    BY <1>2
  <2>2. avail' \in [Images -> SUBSET Windows] /\ \A i \in Images : avail'[i] \subseteq Possible[i]
    <3>1. Possible[img] \in SUBSET Windows
      BY ObserversAssumption DEF Windows, Computed
    <3> QED
      BY <1>1, <3>1 DEF IInv, Types, WindowTypes
  <2>3. WindowTypes'
    BY <1>1, <1>3, <2>1, <2>2 DEF IInv, Types, WindowTypes
  <2>4. live' \subseteq Images
    BY <1>1 DEF IInv, Types
  <2> QED
    BY <1>3, <1>4, <1>5, <2>3, <2>4 DEF Types
<1>8. CountsInv'
  <2>1. \A q \in Recs(observers') : q.who = "viewers" => q.image \in Images
    BY <1>3, RecordTypes
  <2>2. ASSUME NEW q \in Recs(observers')
        PROVE  IF q.who = "viewers" THEN q.nrefs <= viewers'[q.image] ELSE q.nrefs = 1
    <3>1. CASE q \in Recs(observers) /\ KeyOf(q) # k
      <4>1. IF q.who = "viewers" THEN q.nrefs <= viewers[q.image] ELSE q.nrefs = 1
        BY <1>1, <3>1, IdleFacts DEF IInv, CountsInv
      <4>2. q.who = "viewers" => q.image # img
        BY <1>2, <3>1 DEF KeyOf
      <4> QED
        BY <1>4, <2>1, <4>1, <4>2
    <3>2. CASE q.who = "viewers" /\ q.image = img /\ q.nrefs <= viewers[img] + 1
      BY <1>4, <3>2
    <3> QED
      BY <1>3, <3>1, <3>2
  <2>3. ASSUME NEW i \in Images, viewers'[i] > 0
        PROVE  /\ i \in live'
               /\ <<i, "viewers">> \notin deaf' =>
                    \E q \in Recs(observers') :
                      KeyOf(q) = <<i, "viewers">> /\ q.nrefs = viewers'[i]
    <3>1. CASE i = img
      BY <1>1, <1>2, <1>3, <1>4, <3>1
    <3>2. CASE i # img
      <4>1. viewers'[i] = viewers[i] /\ <<i, "viewers">> # k
        BY <1>2, <1>4, <3>2
      <4>2. i \in live
        BY <2>3, <4>1 DEF IInv, CountsInv
      <4>3. <<i, "viewers">> \notin deaf' =>
              \E q \in Recs(observers) :
                KeyOf(q) = <<i, "viewers">> /\ q.nrefs = viewers[i]
        BY <1>1, <1>3, <2>3, <4>1, IdleFacts DEF IInv, CountsInv
      <4> QED
        BY <1>1, <1>3, <4>1, <4>2, <4>3
    <3> QED
      BY <3>1, <3>2
  <2> QED
    BY <1>5, <2>1, <2>2, <2>3 DEF CountsInv
<1>9. WindowsInv'
  <2>1. ASSUME NEW i \in Images, NEW w \in Windows, win[i][w] # "none"
        PROVE  <<i, w>> \in Registered' \cup deaf'
    BY <1>3, <2>1 DEF IInv, WindowsInv
  <2>2. ASSUME NEW i \in Images, NEW w \in Windows, <<i, w>> \in Registered'
        PROVE  win[i][w] # "none"
    BY <1>1, <1>3, <1>6, <2>2, IdleFacts
  <2> QED
    BY <1>1, <2>1, <2>2 DEF WindowsInv, Windows
<1>10. NoneOutlivesItsImage'
  <2>1. k[1] = img
    BY <1>2
  <2> QED
    BY <1>1, <1>3, <2>1 DEF IInv, NoneOutlivesItsImage
<1>11. ShownInv'
  <2>1. \A i \in Images, w \in Computed : <<i, w>> \notin deaf' => <<i, w>> \notin deaf
    BY <1>3
  <2> QED
    BY <1>1, <2>1, IdleFacts DEF ShownInv, Fresh
<1> QED
  BY <1>5, <1>7, <1>8, <1>9, <1>10, <1>11 DEF IInv

LEMMA UnloadViewerSafely ==
  ASSUME IInv, NEW img \in Images, UnloadViewer(img)
  PROVE  IInv'
<1>1. /\ Idle /\ viewers[img] > 0 /\ Deregister(img, "viewers")
      /\ UNCHANGED <<live, viewers, windowVars>>
  BY DEF UnloadViewer
<1>2. PICK k : k = <<img, "viewers">>
  OBVIOUS
<1>3. /\ observers' \in Seq(Records) /\ Unique(observers')
      /\ \A q \in Recs(observers') :
           \/ q \in Recs(observers) /\ KeyOf(q) # k
           \/ q.who = "viewers" /\ q.image = img /\ q.nrefs <= viewers[img] - 1
      /\ \A q \in Recs(observers) : KeyOf(q) # k => q \in Recs(observers')
      /\ viewers[img] > 1 /\ k \notin deaf' =>
           \E q \in Recs(observers') : KeyOf(q) = k /\ q.nrefs = viewers[img] - 1
      /\ Registered' \subseteq Registered /\ Registered \subseteq Registered' \cup {k}
      /\ deaf' \subseteq deaf /\ deaf \subseteq deaf' \cup {k}
  BY <1>1, <1>2, ViewerLeaves
<1>4. viewers \in [Images -> 0 .. MaxViewers] /\ MaxViewers \in Nat /\ viewers[img] \in Nat
  BY ObserversAssumption DEF IInv, Types
<1>5. PICK r : r = Do("release", img)
  OBVIOUS
<1>6. PICK h : h = Event(img, "hidden")
  OBVIOUS
<1>7. PICK d \in [Images -> Tasks] : \A i \in Images : d[i] = Event(i, "about to destroy")
  <2>1. \A i \in Images : Event(i, "about to destroy") \in Tasks
    BY DEF Tasks, Event, Changes
  <2>2. [i \in Images |-> Event(i, "about to destroy")] \in [Images -> Tasks]
    BY <2>1
  <2> QED
    BY <2>2
<1>8. PICK f \in [Images -> Tasks] : \A i \in Images : f[i] = Do("free", i)
  <2>1. \A i \in Images : Do("free", i) \in Tasks
    BY DEF Tasks, Do
  <2>2. [i \in Images |-> Do("free", i)] \in [Images -> Tasks]
    BY <2>1
  <2> QED
    BY <2>2
<1>9. r \in Tasks /\ h \in Tasks
  BY <1>5, <1>6 DEF Tasks, Event, Do, Changes
<1>10. /\ r.op = "release" /\ r.image = img
       /\ h.op = "event" /\ h.change = "hidden" /\ h.image = img
       /\ \A i \in Images :
            /\ d[i].op = "event" /\ d[i].change = "about to destroy" /\ d[i].image = i
            /\ f[i].op = "free" /\ f[i].image = i
       /\ \A i : Do("release", i).op = "release" /\ Do("release", i).image = i
  <2>1. r.op = "release" /\ r.image = img
    BY <1>5 DEF Do
  <2>2. h.op = "event" /\ h.change = "hidden" /\ h.image = img
    BY <1>6 DEF Event
  <2>3. ASSUME NEW i \in Images
        PROVE  d[i].op = "event" /\ d[i].change = "about to destroy" /\ d[i].image = i
    <3>1. PICK e : e = Event(i, "about to destroy")
      OBVIOUS
    <3>2. e.op = "event" /\ e.change = "about to destroy" /\ e.image = i
      BY <3>1 DEF Event
    <3>3. d[i] = e
      BY <1>7, <3>1
    <3> QED
      BY <3>2, <3>3
  <2>4. ASSUME NEW i \in Images PROVE f[i].op = "free" /\ f[i].image = i
    BY <1>8 DEF Do
  <2>5. \A i : Do("release", i).op = "release" /\ Do("release", i).image = i
    BY DEF Do
  <2> QED
    BY <2>1, <2>2, <2>3, <2>4, <2>5
<1>11. \/ tasks' = <<r>> /\ viewers[img] > 1
       \/ tasks' = <<h, r, d[img], f[img]>> /\ viewers[img] = 1
       \/ tasks' = <<h, r>> /\ viewers[img] = 1
       \/ \E i \in Images : viewers[i] = 0 /\ tasks' = <<d[i], f[i], h, r>>
  <2>1. viewers[img] > 1 \/ viewers[img] = 1
    BY <1>1, <1>4
  <2>2. live \subseteq Images
    BY DEF IInv, Types
  <2>3. CASE viewers[img] > 1
    BY <1>5, <2>3 DEF UnloadViewer
  <2>4. CASE ~ (viewers[img] > 1)
    BY <1>5, <1>6, <1>7, <1>8, <2>1, <2>2, <2>4 DEF UnloadViewer
  <2> QED
    BY <2>3, <2>4
<1>12. \A i \in Images : /\ InOrder(h, r) /\ InOrder(h, d[i]) /\ InOrder(h, f[i])
                         /\ InOrder(r, d[i]) /\ InOrder(r, f[i]) /\ InOrder(d[i], f[i])
                         /\ InOrder(d[i], h) /\ InOrder(d[i], r) /\ InOrder(f[i], h)
                         /\ i # img => InOrder(f[i], r)
                         /\ Precedes(d[i], f[i])
  <2> SUFFICES ASSUME NEW i \in Images
               PROVE  /\ InOrder(h, r) /\ InOrder(h, d[i]) /\ InOrder(h, f[i])
                      /\ InOrder(r, d[i]) /\ InOrder(r, f[i]) /\ InOrder(d[i], f[i])
                      /\ InOrder(d[i], h) /\ InOrder(d[i], r) /\ InOrder(f[i], h)
                      /\ i # img => InOrder(f[i], r)
                      /\ Precedes(d[i], f[i])
    OBVIOUS
  <2> QED
    <3>1. PICK a : a = d[i]
      OBVIOUS
    <3>2. PICK b : b = f[i]
      OBVIOUS
    <3>3. /\ a.op = "event" /\ a.change = "about to destroy" /\ a.image = i
          /\ b.op = "free" /\ b.image = i
      BY <1>10, <3>1, <3>2
    <3>4. /\ r.op = "release" /\ r.image = img
          /\ h.op = "event" /\ h.change = "hidden" /\ h.image = img
      BY <1>10
    <3>5. InOrder(h, r) /\ InOrder(h, a) /\ InOrder(h, b)
      BY <3>3, <3>4 DEF InOrder
    <3>6. InOrder(r, a) /\ InOrder(r, b) /\ InOrder(a, b)
      BY <3>3, <3>4 DEF InOrder
    <3>7. InOrder(a, h) /\ InOrder(a, r) /\ InOrder(b, h)
      BY <3>3, <3>4 DEF InOrder
    <3>8. i # img => InOrder(b, r)
      BY <3>3, <3>4 DEF InOrder, Tells
    <3>9. Precedes(a, b)
      BY <3>3 DEF Precedes, Tells
    <3> QED
      BY <3>1, <3>2, <3>5, <3>6, <3>7, <3>8, <3>9
<1>13. Ready(r)' /\ Ready(h)'
  BY <1>1, <1>10 DEF Ready, Dooms, Tells
<1>14. ASSUME \A i : (\E j \in DOMAIN tasks' : tasks'[j] = Do("release", i)) <=> i = img
       PROVE  /\ Watching(img)' = viewers[img] - 1
              /\ \A i : i # img => Watching(i)' = viewers[i]
  BY <1>1, <1>14 DEF Watching, Leaving
<1>15. ASSUME NEW i \in Images, Watching(i)' = 0
       PROVE  Ready(d[i])' /\ Ready(f[i])'
  BY <1>10, <1>15 DEF Ready
<1>16. \A i : /\ Do("release", i) = r <=> i = img
              /\ Do("release", i) # h
              /\ \A o \in Images : Do("release", i) # d[o] /\ Do("release", i) # f[o]
  <2>1. ASSUME NEW i PROVE Do("release", i) = r <=> i = img
    <3>1. Do("release", i).image = i /\ r.image = img
      BY <1>10
    <3> QED
      BY <1>5, <3>1
  <2>2. \A i : Do("release", i).op # h.op
    BY <1>10
  <2>3. ASSUME NEW i, NEW o \in Images
        PROVE  Do("release", i).op # d[o].op /\ Do("release", i).op # f[o].op
    <3>1. Do("release", i).op = "release" /\ d[o].op = "event" /\ f[o].op = "free"
      BY <1>10
    <3> QED
      BY <3>1
  <2> QED
    BY <2>1, <2>2, <2>3
<1>17. /\ tasks' \in Seq(Tasks) /\ OrderInv' /\ EndsInv' /\ WalksAreSafe'
       /\ Watching(img)' = viewers[img] - 1
       /\ \A i : i # img => Watching(i)' = viewers[i]
  <2>1. CASE tasks' = <<r>>
    <3>1. /\ tasks' \in Seq(Tasks) /\ OrderInv' /\ EndsInv' /\ WalksAreSafe'
          /\ \A t : (\E i \in DOMAIN tasks' : tasks'[i] = t) <=> t = r
      BY <1>9, <1>10, <1>13, <2>1, OneTask
    <3> QED
      BY <1>14, <1>16, <3>1
  <2>2. CASE tasks' = <<h, r>>
    <3>1. /\ tasks' \in Seq(Tasks) /\ OrderInv' /\ EndsInv' /\ WalksAreSafe'
          /\ \A t : (\E i \in DOMAIN tasks' : tasks'[i] = t) <=> t \in {h, r}
      BY <1>9, <1>10, <1>12, <1>13, <2>2, TwoTasks
    <3> QED
      BY <1>14, <1>16, <3>1
  <2>3. CASE tasks' = <<h, r, d[img], f[img]>> /\ viewers[img] = 1
    <3>1. PICK a \in Tasks : a = d[img]
      OBVIOUS
    <3>2. PICK b \in Tasks : b = f[img]
      OBVIOUS
    <3>3. tasks' = <<h, r, a, b>>
      BY <2>3, <3>1, <3>2
    <3>4. \A i : (\E j \in DOMAIN tasks' : tasks'[j] = Do("release", i)) <=> i = img
      <4>1. DOMAIN tasks' = {1, 2, 3, 4} /\ tasks'[1] = h /\ tasks'[2] = r
            /\ tasks'[3] = a /\ tasks'[4] = b
        BY <3>3
      <4>2. \A i : Do("release", i) # a /\ Do("release", i) # b
        BY <1>16, <3>1, <3>2
      <4> QED
        BY <1>16, <4>1, <4>2
    <3>5. Watching(img)' = 0
      BY <1>14, <2>3, <3>4
    <3>6. Ready(a)' /\ Ready(b)'
      BY <1>15, <3>1, <3>2, <3>5
    <3>7. /\ tasks' \in Seq(Tasks) /\ OrderInv' /\ EndsInv' /\ WalksAreSafe'
      <4>1. /\ a.op = "event" /\ b.op = "free"
            /\ InOrder(h, r) /\ InOrder(h, a) /\ InOrder(h, b)
            /\ InOrder(r, a) /\ InOrder(r, b) /\ InOrder(a, b) /\ Precedes(a, b)
        BY <1>10, <1>12, <3>1, <3>2
      <4>2. /\ h.op \notin {"walk", "free", "change"} /\ r.op \notin {"walk", "change"}
            /\ a.op \notin {"walk", "free", "change"} /\ b.op \notin {"walk", "change"}
            /\ ~ r.op = "free"
        BY <1>10, <4>1
      <4> QED
        BY <1>9, <1>13, <3>3, <3>6, <4>1, <4>2, FourTasks
    <3> QED
      BY <1>14, <3>4, <3>7
  <2>4. ASSUME NEW i \in Images, viewers[i] = 0, tasks' = <<d[i], f[i], h, r>>
        PROVE  /\ tasks' \in Seq(Tasks) /\ OrderInv' /\ EndsInv' /\ WalksAreSafe'
               /\ Watching(img)' = viewers[img] - 1
               /\ \A o : o # img => Watching(o)' = viewers[o]
    <3>1. PICK a \in Tasks : a = d[i]
      OBVIOUS
    <3>2. PICK b \in Tasks : b = f[i]
      OBVIOUS
    <3>3. tasks' = <<a, b, h, r>>
      BY <2>4, <3>1, <3>2
    <3>4. \A o : (\E j \in DOMAIN tasks' : tasks'[j] = Do("release", o)) <=> o = img
      <4>1. DOMAIN tasks' = {1, 2, 3, 4} /\ tasks'[1] = a /\ tasks'[2] = b
            /\ tasks'[3] = h /\ tasks'[4] = r
        BY <3>3
      <4>2. \A o : Do("release", o) # a /\ Do("release", o) # b
        BY <1>16, <3>1, <3>2
      <4> QED
        BY <1>16, <4>1, <4>2
    <3>5. i # img
      BY <1>1, <2>4
    <3>6. Watching(i)' = 0
      BY <1>14, <2>4, <3>4, <3>5
    <3>7. Ready(a)' /\ Ready(b)'
      BY <1>15, <3>1, <3>2, <3>6
    <3>8. /\ tasks' \in Seq(Tasks) /\ OrderInv' /\ EndsInv' /\ WalksAreSafe'
      <4>1. /\ a.op = "event" /\ b.op = "free"
            /\ InOrder(a, b) /\ InOrder(a, h) /\ InOrder(a, r)
            /\ InOrder(b, h) /\ InOrder(b, r) /\ InOrder(h, r) /\ Precedes(a, b)
        BY <1>10, <1>12, <3>1, <3>2, <3>5
      <4>2. /\ a.op \notin {"walk", "free", "change"} /\ b.op \notin {"walk", "change"}
            /\ h.op \notin {"walk", "free", "change"} /\ r.op \notin {"walk", "change"}
            /\ ~ r.op = "free"
        BY <1>10, <4>1
      <4> QED
        BY <1>9, <1>13, <3>3, <3>7, <4>1, <4>2, FourTasks
    <3> QED
      BY <1>14, <3>4, <3>8
  <2> QED
    BY <1>11, <2>1, <2>2, <2>3, <2>4
<1>18. \A i \in Images, w \in Windows : <<i, w>> # k
  BY <1>2 DEF Windows, Computed
<1>19. Types'
  BY <1>1, <1>3, <1>17 DEF IInv, Types, WindowTypes, windowVars
<1>20. CountsInv'
  <2>1. \A q \in Recs(observers') : q.who = "viewers" => q.image \in Images
    BY <1>3, RecordTypes
  <2>2. ASSUME NEW q \in Recs(observers')
        PROVE  IF q.who = "viewers" THEN q.nrefs <= Watching(q.image)' ELSE q.nrefs = 1
    <3>1. CASE q \in Recs(observers) /\ KeyOf(q) # k
      <4>1. IF q.who = "viewers" THEN q.nrefs <= viewers[q.image] ELSE q.nrefs = 1
        BY <1>1, <3>1, IdleFacts DEF IInv, CountsInv
      <4>2. q.who = "viewers" => q.image # img
        BY <1>2, <3>1 DEF KeyOf
      <4> QED
        BY <1>17, <4>1, <4>2
    <3>2. CASE q.who = "viewers" /\ q.image = img /\ q.nrefs <= viewers[img] - 1
      BY <1>17, <3>2
    <3> QED
      BY <1>3, <3>1, <3>2
  <2>3. ASSUME NEW i \in Images
        PROVE  /\ viewers[i] > 0 => i \in live
               /\ Watching(i)' > 0 /\ <<i, "viewers">> \notin deaf' =>
                    \E q \in Recs(observers') :
                      KeyOf(q) = <<i, "viewers">> /\ q.nrefs = Watching(i)'
    <3>0. viewers[i] > 0 => i \in live
      BY DEF IInv, CountsInv
    <3>1. CASE i = img
      <4>1. viewers[img] - 1 > 0 => viewers[img] > 1
        BY <1>4
      <4> QED
        BY <1>2, <1>3, <1>17, <3>0, <3>1, <4>1
    <3>2. CASE i # img
      <4>1. Watching(i)' = viewers[i] /\ <<i, "viewers">> # k
        BY <1>2, <1>17, <3>2
      <4>2. viewers[i] > 0 /\ <<i, "viewers">> \notin deaf' =>
              \E q \in Recs(observers) :
                KeyOf(q) = <<i, "viewers">> /\ q.nrefs = viewers[i]
        BY <1>1, <1>3, <4>1, IdleFacts DEF IInv, CountsInv
      <4> QED
        BY <1>3, <3>0, <4>1, <4>2
    <3> QED
      BY <3>1, <3>2
  <2> QED
    BY <1>1, <2>1, <2>2, <2>3 DEF CountsInv
<1>21. WindowsInv'
  <2>1. ASSUME NEW i \in Images, NEW w \in Windows, win[i][w] # "none"
        PROVE  <<i, w>> \in Registered' \cup deaf'
    BY <1>3, <1>18, <2>1 DEF IInv, WindowsInv
  <2>2. ASSUME NEW i \in Images, NEW w \in Windows, <<i, w>> \in Registered'
        PROVE  win[i][w] # "none"
    BY <1>1, <1>3, <2>2, IdleFacts
  <2> QED
    BY <1>1, <2>1, <2>2 DEF WindowsInv, Windows, windowVars
<1>22. NoneOutlivesItsImage'
  BY <1>1, <1>3, <1>18 DEF IInv, NoneOutlivesItsImage, windowVars
<1>23. ShownInv'
  <2>1. \A i \in Images, w \in Computed : <<i, w>> \notin deaf' => <<i, w>> \notin deaf
    BY <1>3, <1>18 DEF Windows
  <2> QED
    BY <1>1, <2>1, IdleFacts DEF ShownInv, Fresh, windowVars
<1> QED
  BY <1>17, <1>19, <1>20, <1>21, <1>22, <1>23 DEF IInv

-----------------------------------------------------------------------------
(* The theorems                                                            *)

(* The inductive invariant holds: whatever the windows do while the        *)
(* observers are walked (image-observer.c, imageobwin.c, effects.c).       *)
THEOREM Invariance == Spec => []IInv
<1>1. ASSUME Init PROVE IInv
  <2>1. observers = << >> /\ tasks = << >>
    BY <1>1 DEF Init
  <2>2. \A i : i \notin DOMAIN observers /\ i \notin DOMAIN tasks
    BY <2>1
  <2>3. observers \in Seq(Records) /\ tasks \in Seq(Tasks)
    BY <2>1
  <2>4. Types
    <3>1. WindowTypes
      BY <1>1 DEF Init, WindowTypes, Data
    <3>2. viewers \in [Images -> 0 .. MaxViewers]
      BY <1>1, ObserversAssumption DEF Init
    <3> QED
      BY <1>1, <2>2, <2>3, <3>1, <3>2 DEF Init, Types, Unique
  <2>5. Recs(observers) = {} /\ Registered = {}
    BY <2>2 DEF Recs, Registered
  <2>6. CountsInv
    <3>1. \A img \in Images : Watching(img) = 0 /\ viewers[img] = 0
      BY <1>1, <2>2 DEF Watching, Leaving, Init
    <3> QED
      BY <2>5, <3>1 DEF CountsInv
  <2>7. \A img \in Images, w \in Windows : win[img][w] = "none"
    BY <1>1 DEF Init
  <2>8. WindowsInv /\ NoneOutlivesItsImage
    BY <2>5, <2>7 DEF WindowsInv, NoneOutlivesItsImage, Windows
  <2>9. OrderInv /\ EndsInv /\ WalksAreSafe
    BY <2>2 DEF OrderInv, EndsInv, WalksAreSafe
  <2>10. ShownInv
    BY <2>7 DEF ShownInv, Windows
  <2> QED
    BY <2>4, <2>6, <2>8, <2>9, <2>10 DEF IInv
<1>2. ASSUME IInv, [Next]_vars PROVE IInv'
  <2>1. CASE UNCHANGED vars
    <3>1. UNCHANGED <<observers, tasks, live, viewers, deaf, avail, win, shows, hists>>
      BY <2>1 DEF vars, windowVars
    <3>2. Registered' = Registered /\ (\A img : Watching(img)' = Watching(img))
      BY <3>1 DEF Registered, Watching, Leaving
    <3>3. Types' /\ NoneOutlivesItsImage' /\ WalksAreSafe'
      BY <1>2, <3>1, <3>2 DEF IInv, Types, WindowTypes, NoneOutlivesItsImage, WalksAreSafe
    <3>4. CountsInv'
      BY <1>2, <3>1, <3>2 DEF IInv, CountsInv
    <3>5. WindowsInv'
      BY <1>2, <3>1, <3>2 DEF IInv, WindowsInv
    <3>6. OrderInv'
      <4>1. ASSUME NEW t PROVE Ready(t)' = Ready(t)
        BY <3>1, <3>2 DEF Ready
      <4>2. \A img : Unwatched(img)' = Unwatched(img)
        BY <3>2 DEF Unwatched
      <4>3. ASSUME NEW i \in DOMAIN tasks PROVE Ready(tasks[i])'
        <5>1. PICK t : t = tasks[i]
          OBVIOUS
        <5>2. Ready(t)'
          BY <1>2, <4>1, <5>1 DEF IInv, OrderInv
        <5> QED
          BY <3>1, <5>1, <5>2
      <4> QED
        BY <1>2, <3>1, <4>2, <4>3 DEF IInv, OrderInv
    <3>7. EndsInv'
      BY <1>2, <3>1, <3>2 DEF IInv, EndsInv
    <3>8. ShownInv'
      BY <1>2, <3>1 DEF IInv, ShownInv, WillHear, Fresh
    <3> QED
      BY <3>3, <3>4, <3>5, <3>6, <3>7, <3>8 DEF IInv
  <2>2. CASE WalkBegins
    BY <1>2, <2>2, WalkBeginsSafely
  <2>3. CASE WalkEnds
    BY <1>2, <2>3, WalkEndsSafely
  <2>4. CASE CallQuiet
    BY <1>2, <2>4, CallQuietSafely
  <2>5. CASE Unwatch
    BY <1>2, <2>5, UnwatchSafely
  <2>6. CASE Release
    BY <1>2, <2>6, ReleaseSafely
  <2>7. CASE Free
    BY <1>2, <2>7, FreeSafely
  <2>8. CASE Change
    BY <1>2, <2>8, ChangeSafely
  <2>9. CASE OpenTags
    BY <1>2, <2>9, OpenTagsSafely
  <2>10. ASSUME NEW img \in Images,
                \/ CallEffects(img) \/ LoadViewer(img) \/ UnloadViewer(img) \/ Evict(img)
                \/ Modify(img) \/ Kick(img) \/ OpenEffects(img) \/ CloseEffects(img)
         PROVE  IInv'
    BY <1>2, <2>10, CallEffectsSafely, LoadViewerSafely, UnloadViewerSafely, EvictSafely,
       ModifySafely, KickSafely, OpenEffectsSafely, CloseEffectsSafely
  <2>11. ASSUME NEW img \in Images, NEW w \in Computed,
                CallComputed(img, w) \/ OpenComputed(img, w) \/ CloseWindow(img, w)
         PROVE  IInv'
    BY <1>2, <2>11, CallComputedSafely, OpenComputedSafely, CloseWindowSafely
  <2> QED
    BY <1>2, <2>1, <2>2, <2>3, <2>4, <2>5, <2>6, <2>7, <2>8, <2>9, <2>10, <2>11 DEF Next
<1> QED
  BY <1>1, <1>2, PTL DEF Spec

THEOREM TypeCorrect == Spec => []TypeOK
BY Invariance, IInvImplies, PTL

(* The observer that a walk calls next is never one which a callback, or a *)
(* walk that it started, has freed (imageobserver_event).                  *)
THEOREM NoWalkExplodes == Spec => []WalksAreSafe
BY Invariance, IInvImplies, PTL

(* Nothing that watches an image is left when its block is freed           *)
(* (image_destroy), but the windows that could not register.               *)
THEOREM ObserversGoFirst == Spec => []NoneOutlivesItsImage
BY Invariance, IInvImplies, PTL

(* The viewers' one observer is shared by as many as show the image        *)
(* (imageobserver_register and _deregister).                               *)
THEOREM ViewersShareTheirObserver == Spec => []ViewersAreTold
BY Invariance, IInvImplies, PTL

(* Whoever was told shows the image as it is (imageobwin.c, hist.c).       *)
THEOREM WindowsKeepUp == Spec => []ShownIsCurrent
BY Invariance, IInvImplies, PTL
=============================================================================
