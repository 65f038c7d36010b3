------------------------ MODULE EventDispatchProofs -------------------------
(***************************************************************************)
(* Proofs about EventDispatch, for any handlers, windows and bounds: the   *)
(* walks of its arrays implement Delivery.                                 *)
(***************************************************************************)
EXTENDS EventDispatch, SequenceTheorems, FiniteSetTheorems, TLAPS

-----------------------------------------------------------------------------
(* The inductive invariant *)

(* The handlers that a walk which has got to a place has passed, and those *)
(* for a window which are beyond.                                          *)
Passed(s, at) == { s[i] : i \in 1 .. at }

Beyond(s, w, at) == { h \in ToSet(s) \ Passed(s, at) : Matches(h, w) }

Arrays ==
  /\ entries \in [Classes -> Seq(Handlers)]
  /\ allocated \in [Classes -> Nat]
  /\ \A c \in Classes :
       /\ IsInjective(entries[c])
       /\ Len(entries[c]) <= allocated[c]
       /\ \A h \in ToSet(entries[c]) : ClassOf[h] = c

(* The handlers of a message that are for one window come first.           *)
SpecificFirst(s) == \A i, j \in DOMAIN s : i < j => ~ MoreSpecific(s[j], s[i])

(* Nobody is due who is not there any more; and those who are due are the  *)
(* ones beyond the pointer, as long as it is where the walk has got to.    *)
Follows(walk) ==
  /\ walk.due \subseteq { h \in ToSet(entries[walk.class]) : Matches(h, walk.window) }
  /\ ~ walk.shifted =>
       /\ walk.at <= Len(entries[walk.class])
       /\ walk.due = Beyond(entries[walk.class], walk.window, walk.at)

IInv ==
  /\ Arrays
  /\ SpecificFirst(entries["message"])
  /\ walks \in Seq(Walks)
  /\ outcome \in {"none", "handled", "not handled"}
  /\ \A k \in DOMAIN walks : Follows(walks[k])

-----------------------------------------------------------------------------
(* Sequences and sets *)

(* A set of numbers that is not empty has a smallest. The intervals up to  *)
(* each are finite, and one of them is part of all others.                 *)
LEMMA FirstProperties ==
  ASSUME NEW S \in SUBSET Nat, S # {}
  PROVE  First(S) \in S /\ \A j \in S : First(S) <= j
<1> DEFINE T == { 1 .. i : i \in S }
<1>1. T \subseteq FiniteSubsetsOf(Nat) /\ T # {}
  <2>1. \A i \in S : IsFiniteSet(1 .. i) /\ 1 .. i \subseteq Nat
    BY FS_Interval
  <2> QED
    BY <2>1 DEF FiniteSubsetsOf
<1>2. PICK x \in T : \A y \in T : ~ (<<y, x>> \in StrictSubsetOrdering(Nat))
  BY <1>1, FS_StrictSubsetOrderingWellFounded, WFMin
<1>3. PICK i \in S : x = 1 .. i
  BY <1>2
<1>4. ASSUME NEW j \in S, ~ (i <= j)
      PROVE  FALSE
  <2>1. PICK y \in T : y = 1 .. j
    OBVIOUS
  <2>2. y \subseteq x /\ y # x /\ x \subseteq Nat
    BY <1>3, <1>4, <2>1
  <2>3. <<y, x>> \in StrictSubsetOrdering(Nat)
    BY <2>2 DEF StrictSubsetOrdering
  <2> QED
    BY <1>2, <2>3
<1> QED
  BY <1>4 DEF First

(* All but the last                                                        *)
LEMMA FrontProperties ==
  ASSUME NEW S, NEW s \in Seq(S), s # << >>
  PROVE  /\ Len(s) \in Nat \ {0} /\ DOMAIN s = 1 .. Len(s)
         /\ Front(s) \in Seq(S)
         /\ DOMAIN Front(s) = 1 .. Len(s) - 1 /\ Len(Front(s)) = Len(s) - 1
         /\ \A i \in 1 .. Len(s) - 1 : Front(s)[i] = s[i]
         /\ \A i \in DOMAIN Front(s) : i \in DOMAIN s /\ Front(s)[i] = s[i]
         /\ Last(s) \in S /\ Last(s) = s[Len(s)]
<1>1. Len(s) \in Nat \ {0} /\ DOMAIN s = 1 .. Len(s) /\ \A i \in 1 .. Len(s) : s[i] \in S
  BY LenProperties, ElementOfSeq, EmptySeq
<1>2. /\ Front(s) \in Seq(S) /\ Len(Front(s)) = Len(s) - 1
      /\ \A i \in 1 .. Len(s) - 1 : Front(s)[i] = s[i]
  BY <1>1, SubSeqProperties DEF Front
<1>3. DOMAIN Front(s) = 1 .. Len(s) - 1
  BY <1>2, LenProperties
<1>4. 1 .. Len(s) - 1 \subseteq 1 .. Len(s)
  BY <1>1
<1> QED
  BY <1>1, <1>2, <1>3, <1>4 DEF Last

(* Removing an entry of a sequence closes the gap it leaves.               *)
LEMMA RemoveAtProperties ==
  ASSUME NEW S, NEW s \in Seq(S), NEW k \in DOMAIN s
  PROVE  /\ RemoveAt(s, k) \in Seq(S)
         /\ DOMAIN RemoveAt(s, k) = 1 .. Len(s) - 1
         /\ Len(RemoveAt(s, k)) = Len(s) - 1
         /\ \A j \in 1 .. Len(s) - 1 :
              RemoveAt(s, k)[j] = IF j < k THEN s[j] ELSE s[j + 1]
<1> DEFINE a == SubSeq(s, 1, k - 1)
           b == SubSeq(s, k + 1, Len(s))
           c == RemoveAt(s, k)
<1>1. k \in 1 .. Len(s) /\ Len(s) \in Nat /\ \A j \in 1 .. Len(s) : s[j] \in S
  BY LenProperties, ElementOfSeq
<1>2. /\ a \in Seq(S) /\ Len(a) = k - 1
      /\ \A j \in 1 .. k - 1 : a[j] = s[j]
  BY <1>1, SubSeqProperties
<1>3. /\ b \in Seq(S) /\ Len(b) = Len(s) - k
      /\ \A j \in 1 .. Len(s) - k : b[j] = s[k + j]
  BY <1>1, SubSeqProperties
<1>4. c = a \o b
  BY DEF RemoveAt
<1> HIDE DEF a, b, c
<1>5. /\ c \in Seq(S) /\ Len(c) = Len(s) - 1
      /\ \A j \in 1 .. Len(s) - 1 : c[j] = IF j <= k - 1 THEN a[j] ELSE b[j - (k - 1)]
  <2>1. /\ c \in Seq(S) /\ Len(c) = Len(a) + Len(b)
        /\ \A j \in 1 .. Len(a) + Len(b) : c[j] = IF j <= Len(a) THEN a[j] ELSE b[j - Len(a)]
    BY <1>2, <1>3, <1>4, ConcatProperties
  <2>2. Len(a) = k - 1 /\ Len(a) + Len(b) = Len(s) - 1
    BY <1>1, <1>2, <1>3
  <2> QED
    BY <2>1, <2>2
<1>6. ASSUME NEW j \in 1 .. Len(s) - 1
      PROVE  c[j] = IF j < k THEN s[j] ELSE s[j + 1]
  <2>1. CASE j < k
    <3>1. j \in 1 .. k - 1 /\ j <= k - 1
      BY <1>1, <2>1
    <3>2. c[j] = a[j]
      BY <1>5, <3>1
    <3> QED
      BY <1>2, <2>1, <3>1, <3>2
  <2>2. CASE j >= k
    <3>1. j - (k - 1) \in 1 .. Len(s) - k /\ k + (j - (k - 1)) = j + 1 /\ ~ (j <= k - 1)
      BY <1>1, <2>2
    <3>2. b[j - (k - 1)] = s[j + 1]
      BY <1>3, <3>1
    <3> QED
      BY <1>5, <2>2, <3>1, <3>2
  <2> QED
    BY <1>1, <2>1, <2>2
<1>7. DOMAIN c = 1 .. Len(s) - 1
  BY <1>5, LenProperties
<1> QED
  BY <1>5, <1>6, <1>7 DEF c

(* ... and an array without it has all the others, in their order.         *)
LEMMA WithoutEntry ==
  ASSUME NEW S, NEW s \in Seq(S), IsInjective(s), NEW k \in DOMAIN s
  PROVE  /\ ToSet(RemoveAt(s, k)) = ToSet(s) \ {s[k]}
         /\ IsInjective(RemoveAt(s, k))
         /\ SpecificFirst(s) => SpecificFirst(RemoveAt(s, k))
<1> DEFINE t == RemoveAt(s, k)
           From(i) == IF i < k THEN i ELSE i + 1
           To(j) == IF j < k THEN j ELSE j - 1
<1>1. /\ DOMAIN t = 1 .. Len(s) - 1
      /\ \A i \in 1 .. Len(s) - 1 : t[i] = IF i < k THEN s[i] ELSE s[i + 1]
  BY RemoveAtProperties
<1>2. DOMAIN s = 1 .. Len(s) /\ Len(s) \in Nat /\ k \in 1 .. Len(s)
  BY LenProperties
<1> HIDE DEF t
<1>3. \A i \in DOMAIN t : From(i) \in DOMAIN s \ {k} /\ t[i] = s[From(i)]
  BY <1>1, <1>2
<1>4. \A j \in DOMAIN s \ {k} : To(j) \in DOMAIN t /\ t[To(j)] = s[j]
  BY <1>1, <1>2
<1>5. \A i, j \in DOMAIN t : From(i) = From(j) => i = j
  BY <1>1, <1>2
<1>6. \A i, j \in DOMAIN t : i < j => From(i) < From(j)
  BY <1>1, <1>2
<1> HIDE DEF From, To
<1>7. IsInjective(t)
  BY <1>3, <1>5 DEF IsInjective
<1>8. \A j \in DOMAIN s \ {k} : s[j] # s[k]
  BY DEF IsInjective
<1>9. ToSet(t) = ToSet(s) \ {s[k]}
  BY <1>3, <1>4, <1>8 DEF ToSet
<1>10. SpecificFirst(s) => SpecificFirst(t)
  BY <1>3, <1>6 DEF SpecificFirst
<1> QED
  BY <1>7, <1>9, <1>10 DEF t

(* An entry that is new comes last ...                                     *)
LEMMA WithEntry ==
  ASSUME NEW S, NEW s \in Seq(S), IsInjective(s), NEW h \in S, h \notin ToSet(s)
  PROVE  /\ Append(s, h) \in Seq(S)
         /\ Len(Append(s, h)) = Len(s) + 1
         /\ ToSet(Append(s, h)) = ToSet(s) \cup {h}
         /\ IsInjective(Append(s, h))
<1> DEFINE t == Append(s, h)
<1>1. /\ t \in Seq(S) /\ Len(t) = Len(s) + 1
      /\ \A i \in 1 .. Len(s) : t[i] = s[i]
      /\ t[Len(s) + 1] = h
  BY AppendProperties
<1>2. /\ DOMAIN s = 1 .. Len(s) /\ Len(s) \in Nat /\ DOMAIN t = 1 .. Len(s) + 1
  BY <1>1, LenProperties
<1> HIDE DEF t
<1>3. \A i \in DOMAIN t : i = Len(s) + 1 \/ i \in DOMAIN s
  BY <1>2
<1>4. DOMAIN s \subseteq DOMAIN t /\ Len(s) + 1 \in DOMAIN t
  BY <1>2
<1>5. ToSet(t) = ToSet(s) \cup {h}
  <2>1. ASSUME NEW i \in DOMAIN t PROVE t[i] = h \/ (i \in DOMAIN s /\ t[i] = s[i])
    <3>1. CASE i = Len(s) + 1
      BY <1>1, <3>1
    <3>2. CASE i \in DOMAIN s
      BY <1>1, <1>2, <3>2
    <3> QED
      BY <1>3, <3>1, <3>2
  <2>2. \A i \in DOMAIN s : t[i] = s[i]
    BY <1>1, <1>2
  <2> QED
    BY <1>1, <1>4, <2>1, <2>2 DEF ToSet
<1>6. IsInjective(t)
  <2>1. \A i \in DOMAIN s : s[i] # h
    BY DEF ToSet
  <2> QED
    BY <1>1, <1>2, <1>3, <2>1 DEF IsInjective
<1> QED
  BY <1>1, <1>5, <1>6 DEF t

(* ... and those of a message are sorted: nobody is lost.                  *)
LEMMA SortedProperties ==
  ASSUME NEW S, NEW s \in Seq(S), IsInjective(s), NEW p \in Sorted(s)
  PROVE  /\ p \in Seq(S) /\ Len(p) = Len(s)
         /\ ToSet(p) = ToSet(s)
         /\ IsInjective(p) /\ SpecificFirst(p)
<1> DEFINE T == ToSet(s)
           n == Cardinality(T)
<1>1. /\ Len(s) \in Nat /\ DOMAIN s = 1 .. Len(s) /\ s \in [1 .. Len(s) -> S]
      /\ \A i \in 1 .. Len(s) : s[i] \in S
  BY LenProperties, ElementOfSeq
<1>2. IsFiniteSet(1 .. Len(s)) /\ Cardinality(1 .. Len(s)) = Len(s)
  <2>1. /\ IsFiniteSet(1 .. Len(s))
        /\ Cardinality(1 .. Len(s)) = IF 1 > Len(s) THEN 0 ELSE Len(s) - 1 + 1
    <3>1. 1 \in Int /\ Len(s) \in Int
      BY <1>1
    <3> QED
      BY <3>1, FS_Interval
  <2>2. (IF 1 > Len(s) THEN 0 ELSE Len(s) - 1 + 1) = Len(s)
    BY <1>1
  <2> QED
    BY <2>1, <2>2
<1>3. s \in Surjection(1 .. Len(s), T) /\ s \in Injection(1 .. Len(s), T)
  BY <1>1 DEF Surjection, Injection, ToSet
<1>4. IsFiniteSet(T) /\ n = Len(s)
  BY <1>2, <1>3, FS_Surjection
<1>5. /\ p \in [1 .. n -> T]
      /\ \A i, j \in 1 .. n : i # j => p[i] # p[j]
      /\ SpecificFirst(p)
  BY DEF Sorted, SetToSeqs, SpecificFirst
<1>6. p \in Injection(1 .. n, T) /\ IsInjective(p)
  BY <1>5 DEF Injection, IsInjective
<1>7. p \in Surjection(1 .. n, T)
  BY <1>1, <1>2, <1>4, <1>6, FS_Injection
<1>8. ToSet(p) = T
  <2>1. DOMAIN p = 1 .. n /\ \A i \in 1 .. n : p[i] \in T
    BY <1>5
  <2>2. \A t \in T : \E i \in 1 .. n : p[i] = t
    BY <1>7 DEF Surjection
  <2>3. ToSet(p) = { p[i] : i \in 1 .. n }
    BY <2>1 DEF ToSet
  <2> HIDE DEF T, n
  <2> QED
    BY <2>1, <2>2, <2>3
<1>9. T \subseteq S
  BY <1>1 DEF ToSet
<1>10. p \in Seq(S) /\ Len(p) = n
  <2>1. p \in [1 .. n -> S] /\ n \in Nat
    BY <1>1, <1>4, <1>5, <1>9
  <2> QED
    BY <2>1, IsASeq, LenProperties
<1> QED
  BY <1>4, <1>5, <1>6, <1>8, <1>10

-----------------------------------------------------------------------------
(* Walks *)

LEMMA ArrayTypes ==
  ASSUME Arrays, NEW c \in Classes
  PROVE  /\ entries[c] \in Seq(Handlers) /\ IsInjective(entries[c])
         /\ Len(entries[c]) \in Nat /\ DOMAIN entries[c] = 1 .. Len(entries[c])
         /\ Len(entries[c]) <= allocated[c] /\ allocated[c] \in Nat
         /\ ToSet(entries[c]) \subseteq Handlers
         /\ \A h \in ToSet(entries[c]) : ClassOf[h] = c
<1>1. /\ entries[c] \in Seq(Handlers) /\ IsInjective(entries[c])
      /\ Len(entries[c]) <= allocated[c] /\ allocated[c] \in Nat
      /\ \A h \in ToSet(entries[c]) : ClassOf[h] = c
  BY DEF Arrays
<1>2. Len(entries[c]) \in Nat /\ DOMAIN entries[c] = 1 .. Len(entries[c])
  BY <1>1, LenProperties
<1>3. ToSet(entries[c]) \subseteq Handlers
  BY <1>1, <1>2, ElementOfSeq DEF ToSet
<1> QED
  BY <1>1, <1>2, <1>3

(* Whom a walk has passed is known by his place.                           *)
LEMMA PlaceTells ==
  ASSUME NEW s, NEW n \in Nat, DOMAIN s = 1 .. n, IsInjective(s),
         NEW at \in Nat, at <= n, NEW i \in 1 .. n
  PROVE  s[i] \in Passed(s, at) <=> i <= at
BY DEF Passed, IsInjective

LEMMA RemainingAreBeyond ==
  ASSUME Arrays, NEW c \in Classes, NEW w, NEW at \in Nat, at <= Len(entries[c])
  PROVE  /\ Remaining(c, w, at) \in SUBSET Nat
         /\ { entries[c][i] : i \in Remaining(c, w, at) } = Beyond(entries[c], w, at)
<1>1. PICK s : s = entries[c]
  OBVIOUS
<1>2. PICK n \in Nat : n = Len(s) /\ DOMAIN s = 1 .. n /\ IsInjective(s)
  BY <1>1, ArrayTypes
<1>3. Remaining(c, w, at) = { i \in at + 1 .. n : Matches(s[i], w) }
  BY <1>1, <1>2 DEF Remaining
<1>4. \A i \in 1 .. n : s[i] \in Passed(s, at) <=> i <= at
  BY <1>1, <1>2, PlaceTells
<1>5. ASSUME NEW i \in at + 1 .. n, Matches(s[i], w)
      PROVE  s[i] \in Beyond(s, w, at)
  <2>1. i \in 1 .. n /\ ~ (i <= at)
    OBVIOUS
  <2> QED
    BY <1>2, <1>4, <1>5, <2>1 DEF Beyond, ToSet
<1>6. ASSUME NEW h \in Beyond(s, w, at)
      PROVE  \E i \in at + 1 .. n : Matches(s[i], w) /\ h = s[i]
  <2>1. PICK i \in 1 .. n : h = s[i] /\ Matches(s[i], w) /\ s[i] \notin Passed(s, at)
    BY <1>2 DEF Beyond, ToSet
  <2>2. i \in at + 1 .. n
    BY <1>4, <2>1
  <2> QED
    BY <2>1, <2>2
<1> QED
  BY <1>1, <1>2, <1>3, <1>5, <1>6

(* To call the first of those which remain leaves the others beyond it; in *)
(* the array of a message none of them is more specific.                   *)
LEMMA FirstOfThem ==
  ASSUME Arrays, SpecificFirst(entries["message"]), NEW c \in Classes, NEW w,
         NEW at \in Nat, at <= Len(entries[c]), Remaining(c, w, at) # {}
  PROVE  \E i \in DOMAIN entries[c] :
           /\ i = First(Remaining(c, w, at)) /\ i \in Nat \ {0} /\ i <= Len(entries[c])
           /\ entries[c][i] \in Handlers /\ entries[c][i] \in Beyond(entries[c], w, at)
           /\ Beyond(entries[c], w, i) = Beyond(entries[c], w, at) \ {entries[c][i]}
           /\ c = "message" =>
                \A k \in Beyond(entries[c], w, at) : ~ MoreSpecific(k, entries[c][i])
<1>1. PICK s : s = entries[c]
  OBVIOUS
<1>2. PICK n \in Nat : n = Len(s) /\ DOMAIN s = 1 .. n /\ IsInjective(s)
  BY <1>1, ArrayTypes
<1>3. /\ Remaining(c, w, at) \in SUBSET Nat
      /\ { s[i] : i \in Remaining(c, w, at) } = Beyond(s, w, at)
  BY <1>1, RemainingAreBeyond
<1>4. PICK i : i = First(Remaining(c, w, at))
  OBVIOUS
<1>5. i \in Remaining(c, w, at) /\ \A j \in Remaining(c, w, at) : i <= j
  BY <1>3, <1>4, FirstProperties
<1>6. i \in at + 1 .. n /\ Matches(s[i], w) /\ i \in 1 .. n /\ i <= n /\ at <= n
  BY <1>1, <1>2, <1>5 DEF Remaining
<1>7. s[i] \in Beyond(s, w, at) /\ s[i] \in Handlers
  BY <1>1, <1>2, <1>3, <1>5, <1>6, ArrayTypes DEF ToSet
<1>8. ASSUME NEW h \in Beyond(s, w, at)
      PROVE  \E j \in Remaining(c, w, at) : j \in 1 .. n /\ h = s[j] /\ i <= j /\ at < j
  <2>1. PICK j \in Remaining(c, w, at) : h = s[j]
    BY <1>3
  <2> QED
    BY <1>1, <1>2, <1>5, <2>1 DEF Remaining
<1>9. /\ \A j \in 1 .. n : s[j] \in Passed(s, at) <=> j <= at
      /\ \A j \in 1 .. n : s[j] \in Passed(s, i) <=> j <= i
  BY <1>2, <1>6, PlaceTells
<1>10. Beyond(s, w, i) = Beyond(s, w, at) \ {s[i]}
  <2>1. ASSUME NEW h \in Beyond(s, w, i) PROVE h \in Beyond(s, w, at) \ {s[i]}
    <3>1. PICK j \in 1 .. n : h = s[j] /\ Matches(h, w) /\ ~ (j <= i)
      BY <1>2, <1>9, <2>1 DEF Beyond, ToSet
    <3>2. ~ (j <= at) /\ j # i
      BY <1>6, <3>1
    <3>3. s[j] # s[i]
      BY <1>2, <1>6, <3>2 DEF IsInjective
    <3> QED
      BY <1>2, <1>9, <3>1, <3>2, <3>3 DEF Beyond, ToSet
  <2>2. ASSUME NEW h \in Beyond(s, w, at), h # s[i] PROVE h \in Beyond(s, w, i)
    <3>1. PICK j \in 1 .. n : h = s[j] /\ i <= j
      BY <1>8
    <3>2. ~ (j <= i)
      BY <1>6, <2>2, <3>1
    <3> QED
      BY <1>9, <3>1, <3>2 DEF Beyond
  <2> QED
    BY <2>1, <2>2
<1>11. c = "message" => \A k \in Beyond(s, w, at) : ~ MoreSpecific(k, s[i])
  <2>1. ASSUME c = "message", NEW k \in Beyond(s, w, at) PROVE ~ MoreSpecific(k, s[i])
    <3>1. PICK j \in 1 .. n : k = s[j] /\ i <= j
      BY <1>8
    <3>2. CASE i = j
      BY <3>1, <3>2 DEF MoreSpecific
    <3>3. CASE i < j
      BY <1>1, <1>2, <1>6, <2>1, <3>1, <3>3 DEF SpecificFirst
    <3> QED
      BY <1>6, <3>1, <3>2, <3>3
  <2> QED
    BY <2>1
<1> QED
  BY <1>1, <1>2, <1>4, <1>6, <1>7, <1>10, <1>11

(* A walk on its way to a handler                                          *)
Begun == [class: Classes, window: Windows, at: Nat, asking: Handlers \cup {AnyWindow},
          due: SUBSET Handlers, shifted: BOOLEAN]

(* What is told of a walk to those who only rely on Delivery               *)
Told(walk) == [class |-> walk.class, window |-> walk.window,
               asking |-> walk.asking, due |-> walk.due]

(* The walk calls one of those who are due, before whom none is to come.   *)
LEMMA CallProperties ==
  ASSUME Arrays, SpecificFirst(entries["message"]), NEW walk \in Begun, ~ walk.shifted,
         walk.at <= Len(entries[walk.class]),
         walk.due = Beyond(entries[walk.class], walk.window, walk.at),
         Remaining(walk.class, walk.window, walk.at) # {},
         NEW new, new = CallFrom(walk, First(Remaining(walk.class, walk.window, walk.at)))
  PROVE  /\ new \in Walks /\ Follows(new)
         /\ new.class = walk.class /\ new.window = walk.window
         /\ new.asking \in walk.due /\ new.due = walk.due \ {new.asking}
         /\ walk.class = "message" => \A k \in walk.due : ~ MoreSpecific(k, new.asking)
<1>1. /\ walk.class \in Classes /\ walk.window \in Windows /\ walk.at \in Nat
      /\ walk.due \in SUBSET Handlers
  BY DEF Begun
<1>2. PICK i \in DOMAIN entries[walk.class] :
        /\ i = First(Remaining(walk.class, walk.window, walk.at))
        /\ i \in Nat \ {0} /\ i <= Len(entries[walk.class])
        /\ entries[walk.class][i] \in Handlers
        /\ entries[walk.class][i] \in Beyond(entries[walk.class], walk.window, walk.at)
        /\ Beyond(entries[walk.class], walk.window, i) =
             Beyond(entries[walk.class], walk.window, walk.at) \ {entries[walk.class][i]}
        /\ walk.class = "message" =>
             \A k \in Beyond(entries[walk.class], walk.window, walk.at) :
               ~ MoreSpecific(k, entries[walk.class][i])
  BY <1>1, FirstOfThem
<1>3. PICK h : h = entries[walk.class][i]
  OBVIOUS
<1>4. new = [walk EXCEPT !.at = i, !.asking = h, !.due = @ \ {h}]
  BY <1>2, <1>3 DEF CallFrom
<1>5. /\ new.class = walk.class /\ new.window = walk.window /\ new.at = i
      /\ new.asking = h /\ new.due = walk.due \ {h} /\ new.shifted = walk.shifted
  BY <1>4 DEF Begun
<1>6. new \in Walks
  <2>1. i \in Nat \ {0} /\ h \in Handlers /\ walk.due \ {h} \in SUBSET Handlers
    BY <1>1, <1>2, <1>3
  <2> QED
    BY <1>4, <2>1 DEF Begun, Walks
<1>7. Follows(new)
  <2>1. new.due = Beyond(entries[new.class], new.window, new.at)
    BY <1>2, <1>3, <1>5
  <2>2. new.due \subseteq { k \in ToSet(entries[new.class]) : Matches(k, new.window) }
    BY <2>1 DEF Beyond
  <2> QED
    BY <1>2, <1>5, <2>1, <2>2 DEF Follows
<1> QED
  BY <1>2, <1>3, <1>5, <1>6, <1>7

(* What a walk becomes when the array of its class becomes new             *)
Moved(walk, class, new, moved) ==
  IF walk.class # class THEN walk
  ELSE [walk EXCEPT
         !.due = (@ \cap ToSet(new))
                   \cup { h \in ToSet(new) \ ToSet(entries[class]) : Matches(h, walk.window) },
         !.shifted = \/ @ \/ moved
                     \/ Len(new) < walk.at
                     \/ SubSeq(new, 1, walk.at) # SubSeq(entries[class], 1, walk.at)]

(* ... and who is due then.                                                *)
DueIn(walk, class, new) ==
  IF walk.class # class THEN walk.due
  ELSE (walk.due \cap ToSet(new))
         \cup { h \in ToSet(new) \ ToSet(entries[class]) : Matches(h, walk.window) }

LEMMA MovedProperties ==
  ASSUME Arrays, NEW walk \in Walks, Follows(walk), NEW c \in Classes,
         NEW new \in Seq(Handlers),
         entries'[c] = new, \A d \in Classes \ {c} : entries'[d] = entries[d],
         NEW next, \E moved \in BOOLEAN : next = Moved(walk, c, new, moved)
  PROVE  /\ next \in Walks /\ Follows(next)'
         /\ next.class = walk.class /\ next.window = walk.window
         /\ next.asking = walk.asking
         /\ next.due = DueIn(walk, c, new)
<1>1. PICK moved \in BOOLEAN : next = Moved(walk, c, new, moved)
  OBVIOUS
<1>2. entries'[c] = new /\ \A d \in Classes \ {c} : entries'[d] = entries[d]
  OBVIOUS
<1>3. /\ walk.class \in Classes /\ walk.window \in Windows /\ walk.at \in Nat \ {0}
      /\ walk.due \in SUBSET Handlers
  BY DEF Walks
<1>4. CASE walk.class # c
  <2>1. next = walk
    BY <1>1, <1>4 DEF Moved
  <2>2. entries'[walk.class] = entries[walk.class]
    BY <1>2, <1>3, <1>4
  <2>3. Follows(walk)'
    BY <2>2 DEF Follows
  <2> QED
    BY <1>1, <1>4, <2>1, <2>3 DEF DueIn
<1>5. CASE walk.class = c
  <2> DEFINE due == (walk.due \cap ToSet(new))
                      \cup { h \in ToSet(new) \ ToSet(entries[c]) : Matches(h, walk.window) }
             shifted == \/ walk.shifted \/ moved \/ Len(new) < walk.at
                        \/ SubSeq(new, 1, walk.at) # SubSeq(entries[c], 1, walk.at)
  <2>1. next = [walk EXCEPT !.due = due, !.shifted = shifted]
    BY <1>1, <1>5 DEF Moved
  <2>2. ToSet(new) \subseteq Handlers /\ Len(new) \in Nat /\ DOMAIN new = 1 .. Len(new)
    BY LenProperties, ElementOfSeq DEF ToSet
  <2>3. due \in SUBSET Handlers /\ shifted \in BOOLEAN
    BY <1>3, <2>2
  <2>4. ~ shifted => ~ walk.shifted /\ walk.at <= Len(new)
                     /\ SubSeq(new, 1, walk.at) = SubSeq(entries[c], 1, walk.at)
    BY <1>3, <2>2
  <2>5. /\ due \subseteq { h \in ToSet(new) : Matches(h, walk.window) }
        /\ walk.due \subseteq { h \in ToSet(entries[c]) : Matches(h, walk.window) }
    BY <1>5 DEF Follows
  <2>6. ASSUME ~ shifted PROVE due = Beyond(new, walk.window, walk.at)
    <3>1. /\ walk.at <= Len(entries[c])
          /\ walk.due = Beyond(entries[c], walk.window, walk.at)
      BY <1>5, <2>4, <2>6 DEF Follows
    <3>2. entries[c] \in Seq(Handlers) /\ Len(entries[c]) \in Nat
          /\ DOMAIN entries[c] = 1 .. Len(entries[c])
      BY ArrayTypes
    <3>3. \A i \in 1 .. walk.at : new[i] \in Handlers /\ entries[c][i] \in Handlers
      BY <1>3, <2>2, <2>4, <2>6, <3>1, <3>2, ElementOfSeq
    <3>4. \A i \in 1 .. walk.at : new[i] = entries[c][i]
      <4>1. /\ \A i \in 1 .. walk.at - 1 + 1 : SubSeq(new, 1, walk.at)[i] = new[1 + i - 1]
            /\ \A i \in 1 .. walk.at - 1 + 1 :
                 SubSeq(entries[c], 1, walk.at)[i] = entries[c][1 + i - 1]
        BY <1>3, <3>3, SubSeqProperties
      <4>2. ASSUME NEW i \in 1 .. walk.at PROVE new[i] = entries[c][i]
        <5>1. i \in 1 .. walk.at - 1 + 1 /\ 1 + i - 1 = i
          BY <1>3
        <5>2. SubSeq(new, 1, walk.at)[i] = new[i]
              /\ SubSeq(entries[c], 1, walk.at)[i] = entries[c][i]
          BY <4>1, <5>1
        <5> QED
          BY <2>4, <2>6, <5>2
      <4> QED
        BY <4>2
    <3>5. Passed(new, walk.at) = Passed(entries[c], walk.at)
      BY <3>4 DEF Passed
    <3>6. Passed(entries[c], walk.at) \subseteq ToSet(entries[c])
      BY <1>3, <3>1, <3>2 DEF Passed, ToSet
    <3> QED
      BY <3>1, <3>5, <3>6 DEF Beyond
  <2> HIDE DEF due, shifted
  <2>7. /\ next.class = walk.class /\ next.window = walk.window /\ next.at = walk.at
        /\ next.asking = walk.asking /\ next.due = due /\ next.shifted = shifted
    BY <2>1 DEF Walks
  <2>8. next \in Walks
    BY <2>1, <2>3 DEF Walks
  <2>9. Follows(next)'
    BY <1>2, <1>5, <2>4, <2>5, <2>6, <2>7 DEF Follows
  <2> QED
    BY <1>1, <1>5, <2>7, <2>8, <2>9 DEF due, DueIn
<1> QED
  BY <1>4, <1>5

-----------------------------------------------------------------------------
(* What is told of all the walks                                           *)

LEMMA AskedNext ==
  ASSUME NEW walk, NEW h
  PROVE  [Told(walk) EXCEPT !.asking = h, !.due = @ \ {h}]
           = [class |-> walk.class, window |-> walk.window,
              asking |-> h, due |-> walk.due \ {h}]
<1> DEFINE s == Told(walk)
           t == [s EXCEPT !.asking = h, !.due = @ \ {h}]
<1>1. /\ s \in [class: {walk.class}, window: {walk.window}, asking: {walk.asking},
                due: {walk.due}]
      /\ s.due = walk.due
  BY DEF Told
<1> HIDE DEF s
<1>2. t \in [class: {walk.class}, window: {walk.window}, asking: {h}, due: {walk.due \ {h}}]
  BY <1>1
<1> HIDE DEF t
<1>3. t = [class |-> walk.class, window |-> walk.window,
           asking |-> h, due |-> walk.due \ {h}]
  BY <1>2
<1> QED
  BY <1>3 DEF s, t

ToldAll(ws) == [k \in DOMAIN ws |-> Told(ws[k])]

Stories == { Told(walk) : walk \in Walks }

LEMMA ToldType ==
  ASSUME NEW ws \in Seq(Walks)
  PROVE  /\ ToldAll(ws) \in Seq(Stories) /\ Len(ToldAll(ws)) = Len(ws) /\ Len(ws) \in Nat
         /\ DOMAIN ToldAll(ws) = DOMAIN ws /\ DOMAIN ws = 1 .. Len(ws)
         /\ \A k \in DOMAIN ws : ToldAll(ws)[k] = Told(ws[k]) /\ ws[k] \in Walks
<1>1. Len(ws) \in Nat /\ DOMAIN ws = 1 .. Len(ws) /\ \A k \in 1 .. Len(ws) : ws[k] \in Walks
  BY LenProperties, ElementOfSeq
<1>2. ToldAll(ws) \in [1 .. Len(ws) -> Stories]
  BY <1>1 DEF ToldAll, Stories
<1>3. ToldAll(ws) \in Seq(Stories)
  BY <1>1, <1>2, IsASeq
<1>4. Len(ToldAll(ws)) = Len(ws)
  BY <1>1, <1>2, <1>3, LenProperties
<1> QED
  BY <1>1, <1>2, <1>3, <1>4 DEF ToldAll

LEMMA ToldAppend ==
  ASSUME NEW ws \in Seq(Walks), NEW new \in Walks
  PROVE  /\ ToldAll(Append(ws, new)) = Append(ToldAll(ws), Told(new))
         /\ Append(ws, new) \in Seq(Walks)
         /\ DOMAIN Append(ws, new) = 1 .. Len(ws) + 1
         /\ \A k \in 1 .. Len(ws) : Append(ws, new)[k] = ws[k]
         /\ Append(ws, new)[Len(ws) + 1] = new
<1> DEFINE a == Append(ws, new)
           t == ToldAll(ws)
           b == Append(t, Told(new))
<1>1. /\ a \in Seq(Walks) /\ Len(a) = Len(ws) + 1 /\ Len(ws) \in Nat
      /\ \A k \in 1 .. Len(ws) : a[k] = ws[k]
      /\ a[Len(ws) + 1] = new
      /\ DOMAIN a = 1 .. Len(ws) + 1
  BY AppendProperties, LenProperties
<1>2. t \in Seq(Stories) /\ Len(t) = Len(ws) /\ \A k \in 1 .. Len(ws) : t[k] = Told(ws[k])
  BY ToldType
<1>3. Told(new) \in Stories
  BY DEF Stories
<1> HIDE DEF t
<1>4. /\ b \in Seq(Stories) /\ Len(b) = Len(ws) + 1
      /\ \A k \in 1 .. Len(ws) : b[k] = t[k]
      /\ b[Len(ws) + 1] = Told(new)
  BY <1>2, <1>3, AppendProperties
<1> HIDE DEF a, b
<1>5. /\ ToldAll(a) \in Seq(Stories) /\ Len(ToldAll(a)) = Len(ws) + 1
      /\ \A k \in 1 .. Len(ws) + 1 : ToldAll(a)[k] = Told(a[k])
  BY <1>1, ToldType
<1>6. \A k \in 1 .. Len(ws) + 1 : ToldAll(a)[k] = b[k]
  <2>1. ASSUME NEW k \in 1 .. Len(ws) + 1 PROVE ToldAll(a)[k] = b[k]
    <3>1. CASE k = Len(ws) + 1
      BY <1>1, <1>4, <1>5, <3>1
    <3>2. CASE k \in 1 .. Len(ws)
      BY <1>1, <1>2, <1>4, <1>5, <3>2
    <3> QED
      BY <1>1, <3>1, <3>2
  <2> QED
    BY <2>1
<1>7. ToldAll(a) = b
  BY <1>4, <1>5, <1>6, SeqEqual
<1> QED
  BY <1>1, <1>7 DEF a, b, t

LEMMA ToldFront ==
  ASSUME NEW ws \in Seq(Walks), ws # << >>
  PROVE  /\ ToldAll(Front(ws)) = Front(ToldAll(ws))
         /\ ToldAll(ws) # << >>
         /\ Last(ToldAll(ws)) = Told(Last(ws))
<1> DEFINE t == ToldAll(ws)
           f == Front(ws)
<1>1. /\ Len(ws) \in Nat \ {0} /\ DOMAIN ws = 1 .. Len(ws)
      /\ f \in Seq(Walks) /\ Len(f) = Len(ws) - 1
      /\ \A i \in 1 .. Len(ws) - 1 : f[i] = ws[i]
      /\ Last(ws) = ws[Len(ws)]
  BY FrontProperties
<1>2. t \in Seq(Stories) /\ Len(t) = Len(ws) /\ \A k \in 1 .. Len(ws) : t[k] = Told(ws[k])
  BY <1>1, ToldType
<1> HIDE DEF t, f
<1>3. t # << >>
  BY <1>1, <1>2, EmptySeq
<1>4. /\ Front(t) \in Seq(Stories) /\ Len(Front(t)) = Len(ws) - 1
      /\ \A i \in 1 .. Len(ws) - 1 : Front(t)[i] = t[i]
      /\ Last(t) = t[Len(ws)]
  BY <1>2, <1>3, FrontProperties
<1>5. /\ ToldAll(f) \in Seq(Stories) /\ Len(ToldAll(f)) = Len(ws) - 1
      /\ \A k \in 1 .. Len(ws) - 1 : ToldAll(f)[k] = Told(f[k])
  BY <1>1, ToldType
<1>6. \A k \in 1 .. Len(ws) - 1 : ToldAll(f)[k] = Front(t)[k]
  BY <1>1, <1>2, <1>4, <1>5
<1>7. ToldAll(f) = Front(t)
  BY <1>4, <1>5, <1>6, SeqEqual
<1>8. Last(t) = Told(Last(ws))
  BY <1>1, <1>2, <1>4
<1> QED
  BY <1>3, <1>7, <1>8 DEF t, f

(* The handlers there are                                                  *)
There == UNION { ToSet(entries[c]) : c \in Classes }

LEMMA ThereAre ==
  ASSUME Arrays
  PROVE  /\ \A h \in There : ClassOf[h] \in Classes /\ h \in ToSet(entries[ClassOf[h]])
         /\ \A c \in Classes : ToSet(entries[c]) \subseteq There
BY ArrayTypes DEF There

(* Promised!Deliver and the others say this of There and ToldAll(walks).   *)
LEMMA WhatIsPromised ==
  /\ UNION { ToSet(entries[c]) : c \in Classes } = There
  /\ [k \in DOMAIN walks |-> [class |-> walks[k].class, window |-> walks[k].window,
                              asking |-> walks[k].asking, due |-> walks[k].due]]
       = ToldAll(walks)
  /\ UNION { ToSet(entries'[c]) : c \in Classes } = There'
  /\ [k \in DOMAIN walks' |-> [class |-> walks'[k].class, window |-> walks'[k].window,
                               asking |-> walks'[k].asking, due |-> walks'[k].due]]
       = ToldAll(walks)'
BY DEF There, ToldAll, Told

-----------------------------------------------------------------------------
(* The steps of walks *)

(* The innermost walk ends.                                                *)
LEMMA Stops ==
  ASSUME IInv, walks # << >>, walks' = Front(walks), UNCHANGED <<entries, allocated>>,
         outcome' \in {"handled", "not handled"}
  PROVE  IInv'
<1>0. walks \in Seq(Walks)
  BY DEF IInv
<1>1. walks' \in Seq(Walks) /\ \A k \in DOMAIN walks' : k \in DOMAIN walks /\ walks'[k] = walks[k]
  BY <1>0, FrontProperties
<1>2. \A k \in DOMAIN walks' : Follows(walks[k])'
  BY <1>1 DEF IInv, Follows
<1> QED
  BY <1>1, <1>2 DEF IInv, Arrays

LEMMA HandledPromised ==
  ASSUME IInv, Handled
  PROVE  IInv' /\ Promised!Handled
<1>1. /\ walks \in Seq(Walks) /\ walks # << >> /\ walks' = Front(walks)
      /\ outcome' = "handled" /\ entries' = entries /\ allocated' = allocated
  BY DEF IInv, Handled
<1>2. IInv'
  BY <1>1, Stops
<1>3. ToldAll(walks)' = Front(ToldAll(walks)) /\ ToldAll(walks) # << >> /\ There' = There
  BY <1>1, ToldFront DEF There
<1>4. Promised!Handled
  BY <1>1, <1>3, WhatIsPromised DEF Promised!Handled, Promised!Front, Front
<1> QED
  BY <1>2, <1>4

(* Nothing beyond is left for the walk, if nobody is due.                  *)
LEMMA NobodyLeft ==
  ASSUME Arrays, NEW c \in Classes, NEW w, NEW at \in Nat, at <= Len(entries[c])
  PROVE  Remaining(c, w, at) = {} <=> Beyond(entries[c], w, at) = {}
<1>1. { entries[c][i] : i \in Remaining(c, w, at) } = Beyond(entries[c], w, at)
  BY RemainingAreBeyond
<1> QED
  BY <1>1

(* A walk of the innermost event goes on.                                  *)
LEMMA GoesOn ==
  ASSUME IInv, walks # << >>, NEW new \in Walks, Follows(new),
         walks' = Append(Front(walks), new), UNCHANGED <<entries, allocated, outcome>>
  PROVE  IInv'
<1>1. walks \in Seq(Walks)
  BY DEF IInv
<1>2. /\ Front(walks) \in Seq(Walks) /\ DOMAIN Front(walks) = 1 .. Len(walks) - 1
      /\ Len(Front(walks)) = Len(walks) - 1 /\ Len(walks) \in Nat \ {0}
      /\ \A i \in 1 .. Len(walks) - 1 : Front(walks)[i] = walks[i]
      /\ DOMAIN walks = 1 .. Len(walks)
  BY <1>1, FrontProperties
<1>3. /\ walks' \in Seq(Walks) /\ DOMAIN walks' = 1 .. Len(Front(walks)) + 1
      /\ \A k \in 1 .. Len(Front(walks)) : walks'[k] = Front(walks)[k]
      /\ walks'[Len(Front(walks)) + 1] = new
  BY <1>2, ToldAppend
<1>4. ASSUME NEW k \in DOMAIN walks' PROVE Follows(walks[k])'
  <2>1. CASE k = Len(walks)
    <3>1. walks'[k] = new
      BY <1>2, <1>3, <2>1
    <3>2. Follows(new)'
      BY DEF Follows
    <3> QED
      BY <3>1, <3>2
  <2>2. CASE k # Len(walks)
    <3>1. k \in DOMAIN walks /\ walks'[k] = walks[k]
      BY <1>2, <1>3, <2>2
    <3>2. PICK walk : walk = walks[k]
      OBVIOUS
    <3>3. Follows(walk)
      BY <3>1, <3>2 DEF IInv
    <3>4. Follows(walk)'
      BY <3>3 DEF Follows
    <3> QED
      BY <3>1, <3>2, <3>4
  <2> QED
    BY <2>1, <2>2
<1> QED
  BY <1>3, <1>4 DEF IInv, Arrays

LEMMA PassOnPromised ==
  ASSUME IInv, PassOn
  PROVE  IInv' /\ Promised!PassOn
<1>1. /\ Arrays /\ SpecificFirst(entries["message"])
      /\ walks \in Seq(Walks) /\ walks # << >>
      /\ entries' = entries /\ allocated' = allocated
  BY DEF IInv, PassOn
<1>2. PICK walk \in Walks : walk = Last(walks) /\ Follows(walk)
  <2>1. Last(walks) \in Walks /\ Last(walks) = walks[Len(walks)] /\ Len(walks) \in DOMAIN walks
    BY <1>1, FrontProperties
  <2> QED
    BY <2>1 DEF IInv
<1>3. /\ walk.class \in Classes /\ walk.window \in Windows /\ walk.at \in Nat
      /\ walk \in Begun
  BY <1>2 DEF Walks, Begun
<1>4. PICK left : left = Remaining(walk.class, walk.window, walk.at)
  OBVIOUS
<1>5. /\ ~ walk.shifted
      /\ IF left = {} THEN walks' = Front(walks) /\ outcome' = "not handled"
         ELSE /\ walks' = Append(Front(walks), CallFrom(walk, First(left)))
              /\ outcome' = outcome
  BY <1>2, <1>4 DEF PassOn, Current
<1>6. /\ walk.at <= Len(entries[walk.class])
      /\ walk.due = Beyond(entries[walk.class], walk.window, walk.at)
  BY <1>2, <1>5 DEF Follows
<1>7. left = {} <=> walk.due = {}
  BY <1>1, <1>3, <1>4, <1>6, NobodyLeft
<1>8. ToldAll(walks) # << >> /\ Last(ToldAll(walks)) = Told(walk) /\ There' = There
      /\ Front(ToldAll(walks)) = ToldAll(Front(walks))
  BY <1>1, <1>2, ToldFront DEF There
<1>9. Told(walk).due = walk.due /\ Told(walk).class = walk.class
  BY DEF Told
<1>0. Promised!Innermost = Told(walk)
  BY <1>8, WhatIsPromised DEF Promised!Innermost, Promised!Last, Last
<1>10. CASE left = {}
  <2>1. walks' = Front(walks) /\ outcome' = "not handled"
    BY <1>5, <1>10
  <2>2. IInv'
    BY <1>1, <2>1, Stops
  <2>3. ToldAll(walks)' = Front(ToldAll(walks))
    BY <1>8, <2>1
  <2>4. Promised!PassOn
    <3>1. Told(walk).due = {}
      BY <1>7, <1>9, <1>10
    <3> QED
      BY <1>8, <1>0, <2>1, <2>3, <3>1, WhatIsPromised
         DEF Promised!PassOn, Promised!Front, Front
  <2> QED
    BY <2>2, <2>4
<1>11. CASE left # {}
  <2>1. PICK new : new = CallFrom(walk, First(left))
    OBVIOUS
  <2>2. /\ new \in Walks /\ Follows(new)
        /\ new.class = walk.class /\ new.window = walk.window
        /\ new.asking \in walk.due /\ new.due = walk.due \ {new.asking}
        /\ walk.class = "message" => \A k \in walk.due : ~ MoreSpecific(k, new.asking)
    <3>1. ~ walk.shifted
      BY <1>5
    <3> QED
      BY <1>1, <1>3, <1>4, <1>6, <1>11, <2>1, <3>1, CallProperties, Zenon
  <2>3. walks' = Append(Front(walks), new) /\ outcome' = outcome
    BY <1>5, <1>11, <2>1
  <2>4. IInv'
    BY <1>1, <2>2, <2>3, GoesOn
  <2>5. ToldAll(walks)' = Append(Front(ToldAll(walks)), Told(new))
    <3>1. Front(walks) \in Seq(Walks)
      BY <1>1, FrontProperties
    <3> QED
      BY <1>8, <2>2, <2>3, <3>1, ToldAppend
  <2>6. PICK h : h = new.asking
    OBVIOUS
  <2>7. Told(new) = [Told(walk) EXCEPT !.asking = h, !.due = @ \ {h}]
    <3>1. [Told(walk) EXCEPT !.asking = h, !.due = @ \ {h}]
            = [class |-> walk.class, window |-> walk.window,
               asking |-> h, due |-> walk.due \ {h}]
      BY AskedNext
    <3>2. Told(new) = [class |-> walk.class, window |-> walk.window,
                       asking |-> h, due |-> walk.due \ {h}]
      BY <2>2, <2>6 DEF Told
    <3> QED
      BY <3>1, <3>2
  <2>8. Promised!PassOn
    <3>1. Promised!May(h, Told(walk))
      BY <1>9, <2>2, <2>6 DEF Promised!May, Promised!MoreSpecific, MoreSpecific
    <3>2. Told(walk).due # {}
      BY <1>7, <1>9, <1>11
    <3>3. h \in Told(walk).due
      BY <1>9, <2>2, <2>6
    <3>4. ToldAll(walks)' = Append(Front(ToldAll(walks)), Promised!Ask(h, Told(walk)))
      BY <2>5, <2>7 DEF Promised!Ask
    <3> QED
      BY <1>8, <1>0, <2>3, <3>1, <3>2, <3>3, <3>4, WhatIsPromised
         DEF Promised!PassOn, Promised!Front, Front
  <2> QED
    BY <2>4, <2>8
<1> QED
  BY <1>10, <1>11

(* ... or is about to start.                                               *)
LEMMA DeliverPromised ==
  ASSUME IInv, NEW c \in Classes, NEW w \in Windows, Deliver(c, w)
  PROVE  IInv' /\ Promised!Deliver(c, w)
<1>1. /\ Arrays /\ SpecificFirst(entries["message"])
      /\ walks \in Seq(Walks) /\ outcome \in {"none", "handled", "not handled"}
      /\ entries' = entries /\ allocated' = allocated
  BY DEF IInv, Deliver
<1>2. PICK s \in Seq(Handlers) : s = entries[c] /\ 0 <= Len(s) /\ ToSet(s) \subseteq Handlers
  <2>1. /\ entries[c] \in Seq(Handlers) /\ Len(entries[c]) \in Nat
        /\ ToSet(entries[c]) \subseteq Handlers
    BY <1>1, ArrayTypes
  <2> QED
    BY <2>1
<1>3. PICK all : all = { h \in ToSet(s) : Matches(h, w) }
  OBVIOUS
<1>4. Beyond(s, w, 0) = all
  BY <1>3 DEF Beyond, Passed
<1>5. PICK begun : begun = [class |-> c, window |-> w, at |-> 0, asking |-> AnyWindow,
                            due |-> all, shifted |-> FALSE]
  OBVIOUS
<1>6. /\ begun.class = c /\ begun.window = w /\ begun.at = 0 /\ begun.due = all
      /\ ~ begun.shifted
  BY <1>5
<1>7. begun \in Begun
  <2>1. all \in SUBSET Handlers
    BY <1>2, <1>3
  <2> QED
    BY <1>5, <2>1 DEF Begun
<1>8. PICK left : left = Remaining(c, w, 0)
  OBVIOUS
<1>9. IF left = {} THEN outcome' = "not handled" /\ walks' = walks
      ELSE walks' = Append(walks, CallFrom(begun, First(left))) /\ outcome' = outcome
  BY <1>2, <1>3, <1>5, <1>8 DEF Deliver
<1>10. left = {} <=> all = {}
  BY <1>1, <1>2, <1>4, <1>8, NobodyLeft
<1>11. There' = There
  BY <1>1 DEF There
<1>12. all = { h \in There : Promised!Concerns(h, [class |-> c, window |-> w]) }
  <2>1. \A h : Promised!Concerns(h, [class |-> c, window |-> w])
                 <=> ClassOf[h] = c /\ Matches(h, w)
    BY DEF Promised!Concerns, Matches
  <2>2. \A h : h \in ToSet(s) <=> h \in There /\ ClassOf[h] = c
    BY <1>1, <1>2, ThereAre, ArrayTypes
  <2> QED
    BY <1>3, <2>1, <2>2
<1>13. CASE left = {}
  <2>1. outcome' = "not handled" /\ walks' = walks
    BY <1>9, <1>13
  <2>2. IInv'
    <3>1. \A k \in DOMAIN walks' : Follows(walks[k])'
      BY <1>1, <2>1 DEF IInv, Follows
    <3> QED
      BY <1>1, <2>1, <3>1 DEF IInv, Arrays
  <2>3. ToldAll(walks)' = ToldAll(walks)
    BY <2>1
  <2>4. all = {}
    BY <1>10, <1>13
  <2>5. Promised!Deliver(c, w)
    BY <1>11, <1>12, <2>1, <2>3, <2>4, WhatIsPromised DEF Promised!Deliver
  <2> QED
    BY <2>2, <2>5
<1>14. CASE left # {}
  <2>1. PICK new : new = CallFrom(begun, First(left))
    OBVIOUS
  <2>2. /\ new \in Walks /\ Follows(new)
        /\ new.class = c /\ new.window = w
        /\ new.asking \in all /\ new.due = all \ {new.asking}
        /\ c = "message" => \A k \in all : ~ MoreSpecific(k, new.asking)
    <3>1. /\ begun.at <= Len(entries[begun.class])
          /\ begun.due = Beyond(entries[begun.class], begun.window, begun.at)
          /\ left = Remaining(begun.class, begun.window, begun.at)
      BY <1>2, <1>4, <1>6, <1>8
    <3>2. /\ new \in Walks /\ Follows(new)
          /\ new.class = begun.class /\ new.window = begun.window
          /\ new.asking \in begun.due /\ new.due = begun.due \ {new.asking}
          /\ begun.class = "message" => \A k \in begun.due : ~ MoreSpecific(k, new.asking)
      BY <1>1, <1>6, <1>7, <1>14, <2>1, <3>1, CallProperties, Zenon
    <3> QED
      BY <1>6, <3>2
  <2>3. walks' = Append(walks, new) /\ outcome' = outcome
    BY <1>9, <1>14, <2>1
  <2>4. /\ ToldAll(walks)' = Append(ToldAll(walks), Told(new))
        /\ walks' \in Seq(Walks) /\ DOMAIN walks' = 1 .. Len(walks) + 1
        /\ \A k \in 1 .. Len(walks) : walks'[k] = walks[k]
        /\ walks'[Len(walks) + 1] = new
    <3>1. walks \in Seq(Walks) /\ new \in Walks
      BY <1>1, <2>2
    <3>2. /\ ToldAll(Append(walks, new)) = Append(ToldAll(walks), Told(new))
          /\ Append(walks, new) \in Seq(Walks)
          /\ DOMAIN Append(walks, new) = 1 .. Len(walks) + 1
          /\ \A k \in 1 .. Len(walks) : Append(walks, new)[k] = walks[k]
          /\ Append(walks, new)[Len(walks) + 1] = new
      BY <3>1, ToldAppend
    <3> QED
      BY <2>3, <3>2
  <2>5. Len(walks) \in Nat /\ DOMAIN walks = 1 .. Len(walks)
    BY <1>1, LenProperties
  <2>6. ASSUME NEW k \in DOMAIN walks' PROVE Follows(walks[k])'
    <3>1. CASE k = Len(walks) + 1
      <4>1. Follows(new)'
        BY <1>1, <2>2 DEF Follows
      <4> QED
        BY <2>4, <3>1, <4>1
    <3>2. CASE k # Len(walks) + 1
      <4>1. k \in DOMAIN walks /\ walks'[k] = walks[k]
        BY <2>4, <2>5, <3>2
      <4>2. PICK walk : walk = walks[k]
        OBVIOUS
      <4>3. Follows(walk)
        BY <4>1, <4>2 DEF IInv
      <4>4. Follows(walk)'
        BY <1>1, <4>3 DEF Follows
      <4> QED
        BY <4>1, <4>2, <4>4
    <3> QED
      BY <3>1, <3>2
  <2>7. IInv'
    BY <1>1, <2>3, <2>4, <2>6 DEF IInv, Arrays
  <2>8. PICK h : h = new.asking
    OBVIOUS
  <2>9. PICK first : first = [class |-> c, window |-> w, asking |-> h, due |-> all]
    OBVIOUS
  <2>10. Told(new) = Promised!Ask(h, first)
    <3>1. Told(new) = [class |-> c, window |-> w, asking |-> h, due |-> all \ {h}]
      BY <2>2, <2>8 DEF Told
    <3>2. Told(first) = first /\ first.class = c /\ first.window = w /\ first.due = all
      BY <2>9 DEF Told
    <3>3. [Told(first) EXCEPT !.asking = h, !.due = @ \ {h}]
            = [class |-> first.class, window |-> first.window,
               asking |-> h, due |-> first.due \ {h}]
      BY AskedNext
    <3>4. Promised!Ask(h, first) = [Told(first) EXCEPT !.asking = h, !.due = @ \ {h}]
      BY <3>2 DEF Promised!Ask
    <3> QED
      BY <3>1, <3>2, <3>3, <3>4
  <2>11. Promised!May(h, first)
    BY <2>2, <2>8, <2>9 DEF Promised!May, Promised!MoreSpecific, MoreSpecific
  <2>12. all # {} /\ h \in all
    BY <2>2, <2>8
  <2>13. Promised!Deliver(c, w)
    BY <1>11, <1>12, <2>3, <2>4, <2>9, <2>10, <2>11, <2>12, WhatIsPromised
       DEF Promised!Deliver
  <2> QED
    BY <2>7, <2>13
<1> QED
  BY <1>13, <1>14

-----------------------------------------------------------------------------
(* The steps of handlers                                                   *)

(* The walks under way keep track of an array that becomes new.            *)
LEMMA RearrangedWalks ==
  ASSUME IInv, NEW c \in Classes, NEW new \in Seq(Handlers), NEW moved \in BOOLEAN,
         Rearrange(c, new, moved)
  PROVE  /\ walks' \in Seq(Walks) /\ DOMAIN walks' = DOMAIN walks
         /\ \A k \in DOMAIN walks :
              /\ Follows(walks[k])'
              /\ walks[k] \in Walks /\ Follows(walks[k])
              /\ walks'[k].class = walks[k].class /\ walks'[k].window = walks[k].window
              /\ walks'[k].asking = walks[k].asking
              /\ walks'[k].due = DueIn(walks[k], c, new)
<1>1. /\ Arrays /\ walks \in Seq(Walks)
      /\ entries' = [entries EXCEPT ![c] = new]
      /\ \A k \in DOMAIN walks : Follows(walks[k])
  BY DEF IInv, Rearrange
<1>2. Len(walks) \in Nat /\ DOMAIN walks = 1 .. Len(walks)
      /\ \A k \in DOMAIN walks : walks[k] \in Walks
  BY <1>1, LenProperties, ElementOfSeq
<1>3. walks' = [k \in DOMAIN walks |-> Moved(walks[k], c, new, moved)]
  BY DEF Rearrange, Moved
<1>4. ASSUME NEW k \in DOMAIN walks
      PROVE  /\ walks'[k] \in Walks /\ Follows(walks[k])'
             /\ walks'[k].class = walks[k].class /\ walks'[k].window = walks[k].window
             /\ walks'[k].asking = walks[k].asking
             /\ walks'[k].due = DueIn(walks[k], c, new)
  <2>1. PICK walk \in Walks : walk = walks[k] /\ Follows(walk)
    BY <1>1, <1>2
  <2>2. PICK next : next = walks'[k] /\ next = Moved(walk, c, new, moved)
    BY <1>3, <2>1
  <2>3. /\ next \in Walks /\ Follows(next)'
        /\ next.class = walk.class /\ next.window = walk.window
        /\ next.asking = walk.asking
        /\ next.due = DueIn(walk, c, new)
    <3>1. /\ \E m \in BOOLEAN : next = Moved(walk, c, new, m)
          /\ Arrays /\ Follows(walk)
          /\ entries'[c] = new /\ \A d \in Classes \ {c} : entries'[d] = entries[d]
          /\ new \in Seq(Handlers) /\ c \in Classes /\ walk \in Walks
      BY <1>1, <2>1, <2>2 DEF Arrays
    <3> QED
      BY <3>1, MovedProperties
  <2> QED
    BY <2>1, <2>2, <2>3
<1>5. DOMAIN walks' = DOMAIN walks
  BY <1>3
<1>6. walks' \in Seq(Walks)
  <2>1. walks' \in [1 .. Len(walks) -> Walks]
    BY <1>2, <1>3, <1>4
  <2> QED
    BY <1>2, <2>1, IsASeq
<1> QED
  BY <1>1, <1>2, <1>4, <1>5, <1>6

(* ... which is as good as the one before.                                 *)
LEMMA Rearranged ==
  ASSUME IInv, NEW c \in Classes, NEW new \in Seq(Handlers), NEW moved \in BOOLEAN,
         Rearrange(c, new, moved), IsInjective(new),
         \A h \in ToSet(new) : ClassOf[h] = c,
         c = "message" => SpecificFirst(new),
         allocated' \in [Classes -> Nat], Len(new) <= allocated'[c],
         \A d \in Classes \ {c} : allocated'[d] = allocated[d]
  PROVE  /\ IInv'
         /\ entries'[c] = new /\ \A d \in Classes \ {c} : entries'[d] = entries[d]
<1>1. entries' = [entries EXCEPT ![c] = new] /\ outcome' = outcome
  BY DEF Rearrange
<1>2. entries \in [Classes -> Seq(Handlers)]
  BY DEF IInv, Arrays
<1>3. /\ entries' \in [Classes -> Seq(Handlers)]
      /\ entries'[c] = new /\ \A d \in Classes \ {c} : entries'[d] = entries[d]
  BY <1>1, <1>2
<1>4. ASSUME NEW d \in Classes
      PROVE  /\ IsInjective(entries'[d]) /\ Len(entries'[d]) <= allocated'[d]
             /\ \A h \in ToSet(entries'[d]) : ClassOf[h] = d
  <2>1. CASE d = c
    BY <1>3, <2>1
  <2>2. CASE d # c
    <3>1. entries'[d] = entries[d] /\ allocated'[d] = allocated[d]
      BY <1>3, <2>2
    <3>2. /\ IsInjective(entries[d]) /\ Len(entries[d]) <= allocated[d]
          /\ \A h \in ToSet(entries[d]) : ClassOf[h] = d
      BY DEF IInv, Arrays
    <3> QED
      BY <3>1, <3>2
  <2> QED
    BY <2>1, <2>2
<1>5. Arrays'
  BY <1>3, <1>4 DEF Arrays
<1>6. SpecificFirst(entries'["message"])
  <2>1. "message" \in Classes /\ SpecificFirst(entries["message"])
    BY DEF Classes, IInv
  <2>2. CASE c = "message"
    BY <1>3, <2>2
  <2>3. CASE c # "message"
    BY <1>3, <2>1, <2>3
  <2> QED
    BY <2>2, <2>3
<1>7. walks' \in Seq(Walks) /\ \A k \in DOMAIN walks' : Follows(walks[k])'
  BY RearrangedWalks
<1>8. outcome' \in {"none", "handled", "not handled"}
  BY <1>1 DEF IInv
<1> QED
  BY <1>3, <1>5, <1>6, <1>7, <1>8 DEF IInv

LEMMA DueNext ==
  ASSUME NEW walk, NEW h
  PROVE  /\ [Told(walk) EXCEPT !.due = @ \cup {h}]
              = [class |-> walk.class, window |-> walk.window,
                 asking |-> walk.asking, due |-> walk.due \cup {h}]
         /\ [Told(walk) EXCEPT !.due = @ \ {h}]
              = [class |-> walk.class, window |-> walk.window,
                 asking |-> walk.asking, due |-> walk.due \ {h}]
<1> DEFINE s == Told(walk)
           t == [s EXCEPT !.due = @ \cup {h}]
           u == [s EXCEPT !.due = @ \ {h}]
<1>1. /\ s \in [class: {walk.class}, window: {walk.window}, asking: {walk.asking},
                due: {walk.due}]
      /\ s.due = walk.due
  BY DEF Told
<1> HIDE DEF s
<1>2. t \in [class: {walk.class}, window: {walk.window}, asking: {walk.asking},
             due: {walk.due \cup {h}}]
  BY <1>1
<1>3. u \in [class: {walk.class}, window: {walk.window}, asking: {walk.asking},
             due: {walk.due \ {h}}]
  BY <1>1
<1> HIDE DEF t, u
<1>4. t = [class |-> walk.class, window |-> walk.window,
           asking |-> walk.asking, due |-> walk.due \cup {h}]
  BY <1>2
<1>5. u = [class |-> walk.class, window |-> walk.window,
           asking |-> walk.asking, due |-> walk.due \ {h}]
  BY <1>3
<1> QED
  BY <1>4, <1>5 DEF s, t, u

LEMMA RegisterPromised ==
  ASSUME IInv, NEW h \in Handlers, Register(h)
  PROVE  IInv' /\ Promised!Register(h)
<1>1. PICK c \in Classes : c = ClassOf[h]
  BY DispatchAssumption DEF Classes
<1>2. PICK s \in Seq(Handlers) : s = entries[c] /\ IsInjective(s) /\ h \notin ToSet(s)
                                 /\ \A x \in ToSet(s) : ClassOf[x] = c
  <2>1. Arrays /\ h \notin ToSet(entries[c])
    BY <1>1 DEF IInv, Register, New
  <2> QED
    BY <2>1, ArrayTypes
<1>3. PICK full \in BOOLEAN : full <=> Len(entries[c]) = allocated[c]
  OBVIOUS
<1>4. PICK added : added = Append(s, h)
  OBVIOUS
<1>5. /\ added \in Seq(Handlers) /\ Len(added) = Len(s) + 1
      /\ ToSet(added) = ToSet(s) \cup {h} /\ IsInjective(added)
  BY <1>2, <1>4, WithEntry
<1>6. PICK new : new \in (IF c = "message" THEN Sorted(added) ELSE {added})
                 /\ \E moved \in BOOLEAN : Rearrange(c, new, moved)
  <2>1. \E new \in (IF c = "message" THEN Sorted(added) ELSE {added}) :
          Rearrange(c, new, Len(entries[c]) = allocated[c])
    BY <1>1, <1>2, <1>4 DEF Register
  <2> QED
    BY <2>1
<1>7. PICK moved \in BOOLEAN : Rearrange(c, new, moved)
  BY <1>6
<1>8. /\ new \in Seq(Handlers) /\ Len(new) = Len(s) + 1
      /\ ToSet(new) = ToSet(s) \cup {h} /\ IsInjective(new)
      /\ c = "message" => SpecificFirst(new)
  <2>1. CASE c = "message"
    BY <1>5, <1>6, <2>1, SortedProperties
  <2>2. CASE c # "message"
    BY <1>5, <1>6, <2>2
  <2> QED
    BY <2>1, <2>2
<1>9. \A x \in ToSet(new) : ClassOf[x] = c
  BY <1>1, <1>2, <1>8
<1>10. /\ allocated' \in [Classes -> Nat] /\ Len(new) <= allocated'[c]
       /\ \A d \in Classes \ {c} : allocated'[d] = allocated[d]
  <2>1. /\ Len(s) \in Nat /\ allocated[c] \in Nat /\ Len(s) <= allocated[c]
        /\ allocated \in [Classes -> Nat]
    BY <1>2, ArrayTypes DEF IInv, Arrays
  <2>2. CASE Len(s) # allocated[c]
    <3>1. allocated' = allocated
      BY <1>1, <1>2, <2>2 DEF Register
    <3> QED
      BY <1>8, <2>1, <2>2, <3>1
  <2>3. CASE Len(s) = allocated[c]
    <3>1. PICK n : n = IF 2 * allocated[c] < Smallest THEN Smallest ELSE 2 * allocated[c]
      OBVIOUS
    <3>2. n \in Nat /\ Len(s) + 1 <= n
      BY <2>1, <2>3, <3>1, DispatchAssumption
    <3>3. allocated' = [allocated EXCEPT ![c] = n]
      BY <1>1, <1>2, <2>3, <3>1 DEF Register
    <3> QED
      BY <1>8, <2>1, <3>2, <3>3
  <2> QED
    BY <2>2, <2>3
<1>11. IInv' /\ entries'[c] = new /\ \A d \in Classes \ {c} : entries'[d] = entries[d]
  BY <1>7, <1>8, <1>9, <1>10, Rearranged
<1>12. There' = There \cup {h} /\ h \notin There
  <2>1. \A x : x \in There' <=> \E d \in Classes : x \in ToSet(entries'[d])
    BY DEF There
  <2>2. \A x : x \in There <=> \E d \in Classes : x \in ToSet(entries[d])
    BY DEF There
  <2>3. h \notin There
    <3>1. Arrays
      BY DEF IInv
    <3> QED
      BY <1>1, <1>2, <3>1, ThereAre
  <2> QED
    BY <1>2, <1>8, <1>11, <2>1, <2>2, <2>3
<1>13. /\ walks \in Seq(Walks) /\ walks' \in Seq(Walks) /\ DOMAIN walks' = DOMAIN walks
       /\ \A k \in DOMAIN walks :
            /\ walks[k] \in Walks /\ Follows(walks[k])
            /\ walks'[k].class = walks[k].class /\ walks'[k].window = walks[k].window
            /\ walks'[k].asking = walks[k].asking
            /\ walks'[k].due = DueIn(walks[k], c, new)
  BY <1>7, <1>8, RearrangedWalks DEF IInv
<1>14. ASSUME NEW k \in DOMAIN walks
       PROVE  Told(walks'[k]) = IF Promised!Concerns(h, Told(walks[k]))
                                THEN [Told(walks[k]) EXCEPT !.due = @ \cup {h}]
                                ELSE Told(walks[k])
  <2>1. PICK walk \in Walks : walk = walks[k] /\ Follows(walk)
    BY <1>13
  <2>2. PICK next : next = walks'[k]
    OBVIOUS
  <2>3. /\ next.class = walk.class /\ next.window = walk.window
        /\ next.asking = walk.asking /\ next.due = DueIn(walk, c, new)
    BY <1>13, <2>1, <2>2
  <2>4. Promised!Concerns(h, Told(walk)) <=> walk.class = c /\ Matches(h, walk.window)
    BY <1>1 DEF Promised!Concerns, Matches, Told
  <2>5. walk.due \subseteq ToSet(entries[walk.class])
    BY <2>1 DEF Follows
  <2>6. next.due = IF Promised!Concerns(h, Told(walk)) THEN walk.due \cup {h} ELSE walk.due
    <3>1. CASE walk.class # c
      BY <2>3, <2>4, <3>1 DEF DueIn
    <3>2. CASE walk.class = c
      <4>1. walk.due \cap ToSet(new) = walk.due
        BY <1>2, <1>8, <2>5, <3>2
      <4>2. { x \in ToSet(new) \ ToSet(entries[c]) : Matches(x, walk.window) }
              = IF Matches(h, walk.window) THEN {h} ELSE {}
        BY <1>2, <1>8
      <4> QED
        BY <2>3, <2>4, <3>2, <4>1, <4>2 DEF DueIn
    <3> QED
      BY <3>1, <3>2
  <2>7. Told(next) = [class |-> walk.class, window |-> walk.window,
                      asking |-> walk.asking, due |-> next.due]
    BY <2>3 DEF Told
  <2>8. CASE Promised!Concerns(h, Told(walk))
    <3>1. Told(next) = [Told(walk) EXCEPT !.due = @ \cup {h}]
      <4>1. [Told(walk) EXCEPT !.due = @ \cup {h}]
              = [class |-> walk.class, window |-> walk.window,
                 asking |-> walk.asking, due |-> walk.due \cup {h}]
        BY DueNext
      <4>2. next.due = walk.due \cup {h}
        BY <2>6, <2>8
      <4> QED
        BY <2>7, <4>1, <4>2
    <3> QED
      BY <2>1, <2>2, <2>8, <3>1
  <2>9. CASE ~ Promised!Concerns(h, Told(walk))
    <3>1. Told(next) = Told(walk)
      BY <2>6, <2>7, <2>9 DEF Told
    <3> QED
      BY <2>1, <2>2, <2>9, <3>1
  <2> QED
    BY <2>8, <2>9
<1>15. PICK d : d = ToldAll(walks)
  OBVIOUS
<1>16. ToldAll(walks)' = [k \in DOMAIN d |->
         IF Promised!Concerns(h, d[k]) THEN [d[k] EXCEPT !.due = @ \cup {h}] ELSE d[k]]
  <2>1. DOMAIN d = DOMAIN walks /\ \A k \in DOMAIN walks : d[k] = Told(walks[k])
    BY <1>15 DEF ToldAll
  <2>2. ToldAll(walks)' = [k \in DOMAIN walks |-> Told(walks'[k])]
    BY <1>13 DEF ToldAll
  <2>3. \A k \in DOMAIN walks : Told(walks'[k]) =
          IF Promised!Concerns(h, d[k]) THEN [d[k] EXCEPT !.due = @ \cup {h}] ELSE d[k]
    BY <1>14, <2>1
  <2> QED
    BY <2>1, <2>2, <2>3
<1>17. outcome' = outcome
  BY <1>7 DEF Rearrange
<1>18. Promised!Register(h)
  BY <1>12, <1>15, <1>16, <1>17, WhatIsPromised DEF Promised!Register
<1> QED
  BY <1>11, <1>18

LEMMA DeregisterPromised ==
  ASSUME IInv, NEW h \in Handlers, Deregister(h)
  PROVE  IInv' /\ Promised!Deregister(h)
<1>1. PICK c \in Classes : c = ClassOf[h]
  BY DispatchAssumption DEF Classes
<1>2. PICK s \in Seq(Handlers) : s = entries[c] /\ IsInjective(s)
                                 /\ \A x \in ToSet(s) : ClassOf[x] = c
  <2>1. Arrays
    BY DEF IInv
  <2> QED
    BY <2>1, ArrayTypes
<1>3. PICK i \in DOMAIN s : s[i] = h /\ Rearrange(c, RemoveAt(s, i), FALSE)
  BY <1>1, <1>2 DEF Deregister
<1>4. PICK new : new = RemoveAt(s, i)
  OBVIOUS
<1>5. /\ new \in Seq(Handlers) /\ Len(new) = Len(s) - 1
      /\ ToSet(new) = ToSet(s) \ {h} /\ IsInjective(new)
      /\ SpecificFirst(s) => SpecificFirst(new)
  BY <1>2, <1>3, <1>4, RemoveAtProperties, WithoutEntry
<1>6. h \in ToSet(s) /\ \A x \in ToSet(new) : ClassOf[x] = c
  BY <1>2, <1>3, <1>5 DEF ToSet
<1>7. PICK moved \in BOOLEAN : Rearrange(c, new, moved)
  <2>1. Rearrange(c, new, FALSE)
    BY <1>3, <1>4
  <2> QED
    BY <2>1
<1>8. allocated' = allocated
  BY DEF Deregister
<1>9. /\ allocated' \in [Classes -> Nat] /\ Len(new) <= allocated'[c]
      /\ \A d \in Classes \ {c} : allocated'[d] = allocated[d]
      /\ c = "message" => SpecificFirst(new)
  <2>1. /\ Len(s) \in Nat /\ allocated[c] \in Nat /\ Len(s) <= allocated[c]
        /\ allocated \in [Classes -> Nat]
    BY <1>2, ArrayTypes DEF IInv, Arrays
  <2>2. Len(s) - 1 <= allocated[c]
    BY <2>1
  <2>3. SpecificFirst(entries["message"])
    BY DEF IInv
  <2> QED
    BY <1>2, <1>5, <1>8, <2>1, <2>2, <2>3
<1>10. IInv' /\ entries'[c] = new /\ \A d \in Classes \ {c} : entries'[d] = entries[d]
  BY <1>5, <1>6, <1>7, <1>9, Rearranged
<1>11. There' = There \ {h} /\ h \in There
  <2>1. \A x : x \in There' <=> \E d \in Classes : x \in ToSet(entries'[d])
    BY DEF There
  <2>2. \A x : x \in There <=> \E d \in Classes : x \in ToSet(entries[d])
    BY DEF There
  <2>3. \A d \in Classes \ {c} : h \notin ToSet(entries[d])
    <3>1. Arrays
      BY DEF IInv
    <3> QED
      BY <1>1, <3>1, ArrayTypes
  <2> QED
    BY <1>2, <1>5, <1>6, <1>10, <2>1, <2>2, <2>3
<1>12. /\ walks \in Seq(Walks) /\ walks' \in Seq(Walks) /\ DOMAIN walks' = DOMAIN walks
       /\ \A k \in DOMAIN walks :
            /\ walks[k] \in Walks /\ Follows(walks[k])
            /\ walks'[k].class = walks[k].class /\ walks'[k].window = walks[k].window
            /\ walks'[k].asking = walks[k].asking
            /\ walks'[k].due = DueIn(walks[k], c, new)
  BY <1>5, <1>7, RearrangedWalks DEF IInv
<1>13. ASSUME NEW k \in DOMAIN walks
       PROVE  Told(walks'[k]) = [Told(walks[k]) EXCEPT !.due = @ \ {h}]
  <2>1. PICK walk \in Walks : walk = walks[k] /\ Follows(walk)
    BY <1>12
  <2>2. PICK next : next = walks'[k]
    OBVIOUS
  <2>3. /\ next.class = walk.class /\ next.window = walk.window
        /\ next.asking = walk.asking /\ next.due = DueIn(walk, c, new)
    BY <1>12, <2>1, <2>2
  <2>4. walk.due \subseteq ToSet(entries[walk.class]) /\ walk.class \in Classes
    BY <2>1 DEF Follows, Walks
  <2>5. next.due = walk.due \ {h}
    <3>1. CASE walk.class # c
      <4>1. h \notin ToSet(entries[walk.class])
        <5>1. Arrays
          BY DEF IInv
        <5> QED
          BY <1>1, <2>4, <3>1, <5>1, ArrayTypes
      <4> QED
        BY <2>3, <2>4, <3>1, <4>1 DEF DueIn
    <3>2. CASE walk.class = c
      <4>1. walk.due \cap ToSet(new) = walk.due \ {h}
        BY <1>2, <1>5, <2>4, <3>2
      <4>2. { x \in ToSet(new) \ ToSet(entries[c]) : Matches(x, walk.window) } = {}
        BY <1>2, <1>5
      <4> QED
        BY <2>3, <3>2, <4>1, <4>2 DEF DueIn
    <3> QED
      BY <3>1, <3>2
  <2>6. Told(next) = [class |-> walk.class, window |-> walk.window,
                      asking |-> walk.asking, due |-> walk.due \ {h}]
    BY <2>3, <2>5 DEF Told
  <2>7. [Told(walk) EXCEPT !.due = @ \ {h}]
          = [class |-> walk.class, window |-> walk.window,
             asking |-> walk.asking, due |-> walk.due \ {h}]
    BY DueNext
  <2> QED
    BY <2>1, <2>2, <2>6, <2>7
<1>14. PICK d : d = ToldAll(walks)
  OBVIOUS
<1>15. ToldAll(walks)' = [k \in DOMAIN d |-> [d[k] EXCEPT !.due = @ \ {h}]]
  <2>1. DOMAIN d = DOMAIN walks /\ \A k \in DOMAIN walks : d[k] = Told(walks[k])
    BY <1>14 DEF ToldAll
  <2>2. ToldAll(walks)' = [k \in DOMAIN walks |-> Told(walks'[k])]
    BY <1>12 DEF ToldAll
  <2>3. \A k \in DOMAIN walks : Told(walks'[k]) = [d[k] EXCEPT !.due = @ \ {h}]
    BY <1>13, <2>1
  <2> QED
    BY <2>1, <2>2, <2>3
<1>16. outcome' = outcome
  BY <1>7 DEF Rearrange
<1>17. Promised!Deregister(h)
  BY <1>11, <1>14, <1>15, <1>16, WhatIsPromised DEF Promised!Deregister
<1> QED
  BY <1>10, <1>17

-----------------------------------------------------------------------------
(* The theorems                                                            *)

LEMMA InitPromised ==
  ASSUME Init
  PROVE  IInv /\ Promised!Init
<1>1. /\ entries = [c \in Classes |-> << >>] /\ allocated = [c \in Classes |-> 0]
      /\ walks = << >> /\ outcome = "none"
  BY DEF Init
<1>2. /\ << >> \in Seq(Handlers) /\ << >> \in Seq(Walks) /\ Len(<< >>) = 0
      /\ DOMAIN << >> = {} /\ ToSet(<< >>) = {} /\ IsInjective(<< >>)
  BY DEF ToSet, IsInjective
<1>3. \A c \in Classes : entries[c] = << >> /\ allocated[c] = 0
  BY <1>1
<1>4. Arrays
  BY <1>1, <1>2, <1>3 DEF Arrays
<1>5. SpecificFirst(entries["message"])
  <2>1. entries["message"] = << >>
    BY <1>3 DEF Classes
  <2> QED
    BY <1>2, <2>1 DEF SpecificFirst
<1>6. IInv
  BY <1>1, <1>2, <1>4, <1>5 DEF IInv
<1>7. There = {}
  BY <1>2, <1>3 DEF There
<1>8. ToldAll(walks) = << >>
  BY <1>1 DEF ToldAll
<1>9. Promised!Init
  BY <1>1, <1>7, <1>8, WhatIsPromised DEF Promised!Init
<1> QED
  BY <1>6, <1>9

(* Every step leads on from there, and is one that Delivery allows.        *)
LEMMA NextPromised ==
  ASSUME IInv, Next
  PROVE  IInv' /\ Promised!Next
<1>1. CASE Handled
  BY <1>1, HandledPromised DEF Promised!Next
<1>2. CASE PassOn
  BY <1>2, PassOnPromised DEF Promised!Next
<1>3. CASE \E c \in Classes, w \in Windows : Deliver(c, w)
  <2>1. PICK c \in Classes, w \in Windows : Deliver(c, w)
    BY <1>3
  <2>2. IInv' /\ Promised!Deliver(c, w)
    BY <2>1, DeliverPromised
  <2>3. c \in Promised!Classes
    BY DEF Classes, Promised!Classes
  <2> QED
    BY <2>2, <2>3 DEF Promised!Next
<1>4. CASE \E h \in Handlers : Register(h)
  <2>1. PICK h \in Handlers : Register(h)
    BY <1>4
  <2>2. IInv' /\ Promised!Register(h)
    BY <2>1, RegisterPromised
  <2> QED
    BY <2>2 DEF Promised!Next
<1>5. CASE \E h \in Handlers : Deregister(h)
  <2>1. PICK h \in Handlers : Deregister(h)
    BY <1>5
  <2>2. IInv' /\ Promised!Deregister(h)
    BY <2>1, DeregisterPromised
  <2> QED
    BY <2>2 DEF Promised!Next
<1> QED
  BY <1>1, <1>2, <1>3, <1>4, <1>5 DEF Next

LEMMA NothingChanges ==
  ASSUME IInv, UNCHANGED vars
  PROVE  /\ IInv'
         /\ UNCHANGED <<UNION { ToSet(entries[c]) : c \in Classes },
                        [k \in DOMAIN walks |->
                           [class |-> walks[k].class, window |-> walks[k].window,
                            asking |-> walks[k].asking, due |-> walks[k].due]], outcome>>
<1>1. /\ entries' = entries /\ allocated' = allocated
      /\ walks' = walks /\ outcome' = outcome
  BY DEF vars
<1>2. IInv'
  BY <1>1 DEF IInv, Arrays, Follows
<1> QED
  BY <1>1, <1>2

(* However handlers come and go while arrays are walked: every walk's      *)
(* pointer is where it has got to, and those beyond are all who are due,   *)
(* unless what it passed has changed or the array has moved.               *)
THEOREM Invariance == Spec => []IInv
<1>1. Init => IInv
  BY InitPromised
<1>2. IInv /\ [Next]_vars => IInv'
  BY NextPromised, NothingChanges
<1> QED
  BY <1>1, <1>2, PTL DEF Spec

(* The arrays of handlers are without duplicates, each for one event, and  *)
(* never longer than the memory they have (event_register_wimp_handler).   *)
THEOREM TypeCorrect == Spec => []TypeOK
<1>1. IInv => TypeOK
  <2>1. ASSUME Arrays, NEW c \in Classes
        PROVE  entries[c] \in Seq({ h \in Handlers : ClassOf[h] = c })
    <3>1. /\ entries[c] \in Seq(Handlers) /\ Len(entries[c]) \in Nat
          /\ DOMAIN entries[c] = 1 .. Len(entries[c])
          /\ \A h \in ToSet(entries[c]) : ClassOf[h] = c
      BY <2>1, ArrayTypes
    <3>2. \A i \in 1 .. Len(entries[c]) : entries[c][i] \in { h \in Handlers : ClassOf[h] = c }
      BY <3>1, ElementOfSeq DEF ToSet
    <3>3. entries[c] = [i \in 1 .. Len(entries[c]) |-> entries[c][i]]
      BY <3>1, LenProperties
    <3>4. entries[c] \in [1 .. Len(entries[c]) -> { h \in Handlers : ClassOf[h] = c }]
      BY <3>2, <3>3
    <3> QED
      BY <3>1, <3>4, IsASeq
  <2> QED
    BY <2>1 DEF IInv, Arrays, TypeOK
<1> QED
  BY Invariance, <1>1, PTL

(* An event is offered once to every handler which is for it, the specific *)
(* before the general if it is a message, and to no other (event-wimp.c,   *)
(* 112; event-message.c, 247): the walks implement Delivery.               *)
THEOREM EveryoneIsAskedOnce == Spec => Promise
<1>1. Init => Promised!Init
  BY InitPromised
<1>2. IInv /\ [Next]_vars =>
        [Promised!Next]_<<UNION { ToSet(entries[c]) : c \in Classes },
                          [k \in DOMAIN walks |->
                             [class |-> walks[k].class, window |-> walks[k].window,
                              asking |-> walks[k].asking, due |-> walks[k].due]], outcome>>
  BY NextPromised, NothingChanges
<1> QED
  BY Invariance, <1>1, <1>2, PTL DEF Spec, Promise, Promised!Spec
=============================================================================
