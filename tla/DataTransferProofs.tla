------------------------- MODULE DataTransferProofs -------------------------
(***************************************************************************)
(* Proofs about DataTransfer, for any viewers, pictures, programs and      *)
(* number of transfers under way.                                          *)
(***************************************************************************)
EXTENDS DataTransfer, FiniteSetTheorems, SequenceTheorems, TLAPS

-----------------------------------------------------------------------------
(* The inductive invariant *)

(* The messages that belong to a transfer under way; each bears the        *)
(* reference of one offer at most. Only other programs translate.          *)
Pending(l) == { i \in DOMAIN l : l[i].action # "TranslateFFGAck" }

Proper(m) ==
  /\ m.my = 0 \/ m.your = 0
  /\ m.action = "TranslateFFGAck" => m.my = 0 /\ m.your = 0 /\ m.from # Self

MailInv ==
  /\ Cardinality(Pending(mail)) <= MaxTransfers
  /\ \A i \in DOMAIN mail : Proper(mail[i])

IInv == TypeOK /\ MailInv

-----------------------------------------------------------------------------
(* Messages *)

Actions == {"DataSave", "DataSaveAck", "DataLoad", "DataRequest", "TranslateFFG", "TranslateFFGAck"}

Tasks == Programs \cup {Self}

(* A message with everything that is told apart about it.                  *)
Full(action, from, to, my, your, file, unsaved, type, of) ==
  [action |-> action, from |-> from, to |-> to, my |-> my, your |-> your,
   file |-> file, unsaved |-> unsaved, type |-> type, of |-> of]

(* The messages that the handlers and the other programs send, in full.    *)
LEMMA PlainInFull ==
  ASSUME NEW a, NEW f, NEW t
  PROVE  Message(a, f, t) = Full(a, f, t, 0, 0, "none", FALSE, "image", None)
BY DEF Message, Full

AskForScrap(f, t, r, v) ==
  [Message("DataSaveAck", f, t) EXCEPT
     !.my = r, !.file = "scrap", !.unsaved = TRUE, !.of = v]

LEMMA AskForScrapInFull ==
  ASSUME NEW f, NEW t, NEW r, NEW v
  PROVE  AskForScrap(f, t, r, v) = Full("DataSaveAck", f, t, r, 0, "scrap", TRUE, "image", v)
<1> DEFINE m == Message("DataSaveAck", f, t)
           n == [m EXCEPT !.my = r, !.file = "scrap", !.unsaved = TRUE, !.of = v]
<1>1. m \in [action : {"DataSaveAck"}, from : {f}, to : {t}, my : {0}, your : {0},
             file : {"none"}, unsaved : {FALSE}, type : {"image"}, of : {None}]
  BY DEF Message
<1> HIDE DEF m
<1>2. n \in [action : {"DataSaveAck"}, from : {f}, to : {t}, my : {r}, your : {0},
             file : {"scrap"}, unsaved : {TRUE}, type : {"image"}, of : {v}]
  BY <1>1
<1> HIDE DEF n
<1>3. n = Full("DataSaveAck", f, t, r, 0, "scrap", TRUE, "image", v)
  BY <1>2 DEF Full
<1> QED
  BY <1>3 DEF m, n, AskForScrap

Accept(f, t, x, u, v) ==
  [Message("DataSaveAck", f, t) EXCEPT
     !.file = x, !.unsaved = u, !.of = v]

LEMMA AcceptInFull ==
  ASSUME NEW f, NEW t, NEW x, NEW u, NEW v
  PROVE  Accept(f, t, x, u, v) = Full("DataSaveAck", f, t, 0, 0, x, u, "image", v)
<1> DEFINE m == Message("DataSaveAck", f, t)
           n == [m EXCEPT !.file = x, !.unsaved = u, !.of = v]
<1>1. m \in [action : {"DataSaveAck"}, from : {f}, to : {t}, my : {0}, your : {0},
             file : {"none"}, unsaved : {FALSE}, type : {"image"}, of : {None}]
  BY DEF Message
<1> HIDE DEF m
<1>2. n \in [action : {"DataSaveAck"}, from : {f}, to : {t}, my : {0}, your : {0},
             file : {x}, unsaved : {u}, type : {"image"}, of : {v}]
  BY <1>1
<1> HIDE DEF n
<1>3. n = Full("DataSaveAck", f, t, 0, 0, x, u, "image", v)
  BY <1>2 DEF Full
<1> QED
  BY <1>3 DEF m, n, Accept

Forward(a, f, t, r, x, u) ==
  [Message(a, f, t) EXCEPT
     !.your = r, !.file = x, !.unsaved = u]

LEMMA ForwardInFull ==
  ASSUME NEW a, NEW f, NEW t, NEW r, NEW x, NEW u
  PROVE  Forward(a, f, t, r, x, u) = Full(a, f, t, 0, r, x, u, "image", None)
<1> DEFINE m == Message(a, f, t)
           n == [m EXCEPT !.your = r, !.file = x, !.unsaved = u]
<1>1. m \in [action : {a}, from : {f}, to : {t}, my : {0}, your : {0},
             file : {"none"}, unsaved : {FALSE}, type : {"image"}, of : {None}]
  BY DEF Message
<1> HIDE DEF m
<1>2. n \in [action : {a}, from : {f}, to : {t}, my : {0}, your : {r},
             file : {x}, unsaved : {u}, type : {"image"}, of : {None}]
  BY <1>1
<1> HIDE DEF n
<1>3. n = Full(a, f, t, 0, r, x, u, "image", None)
  BY <1>2 DEF Full
<1> QED
  BY <1>3 DEF m, n, Forward

Request(f, t, r, x) ==
  [Message("TranslateFFG", f, t) EXCEPT
     !.your = r, !.file = x]

LEMMA RequestInFull ==
  ASSUME NEW f, NEW t, NEW r, NEW x
  PROVE  Request(f, t, r, x) = Full("TranslateFFG", f, t, 0, r, x, FALSE, "image", None)
<1> DEFINE m == Message("TranslateFFG", f, t)
           n == [m EXCEPT !.your = r, !.file = x]
<1>1. m \in [action : {"TranslateFFG"}, from : {f}, to : {t}, my : {0}, your : {0},
             file : {"none"}, unsaved : {FALSE}, type : {"image"}, of : {None}]
  BY DEF Message
<1> HIDE DEF m
<1>2. n \in [action : {"TranslateFFG"}, from : {f}, to : {t}, my : {0}, your : {r},
             file : {x}, unsaved : {FALSE}, type : {"image"}, of : {None}]
  BY <1>1
<1> HIDE DEF n
<1>3. n = Full("TranslateFFG", f, t, 0, r, x, FALSE, "image", None)
  BY <1>2 DEF Full
<1> QED
  BY <1>3 DEF m, n, Request

Delivery(f, t, r, u, y) ==
  [Message("DataLoad", f, t) EXCEPT
     !.your = r, !.file = "scrap", !.unsaved = u, !.type = y]

LEMMA DeliveryInFull ==
  ASSUME NEW f, NEW t, NEW r, NEW u, NEW y
  PROVE  Delivery(f, t, r, u, y) = Full("DataLoad", f, t, 0, r, "scrap", u, y, None)
<1> DEFINE m == Message("DataLoad", f, t)
           n == [m EXCEPT !.your = r, !.file = "scrap", !.unsaved = u, !.type = y]
<1>1. m \in [action : {"DataLoad"}, from : {f}, to : {t}, my : {0}, your : {0},
             file : {"none"}, unsaved : {FALSE}, type : {"image"}, of : {None}]
  BY DEF Message
<1> HIDE DEF m
<1>2. n \in [action : {"DataLoad"}, from : {f}, to : {t}, my : {0}, your : {r},
             file : {"scrap"}, unsaved : {u}, type : {y}, of : {None}]
  BY <1>1
<1> HIDE DEF n
<1>3. n = Full("DataLoad", f, t, 0, r, "scrap", u, y, None)
  BY <1>2 DEF Full
<1> QED
  BY <1>3 DEF m, n, Delivery

Gift(f, t, y) ==
  [Message("DataLoad", f, t) EXCEPT
     !.file = "file", !.type = y]

LEMMA GiftInFull ==
  ASSUME NEW f, NEW t, NEW y
  PROVE  Gift(f, t, y) = Full("DataLoad", f, t, 0, 0, "file", FALSE, y, None)
<1> DEFINE m == Message("DataLoad", f, t)
           n == [m EXCEPT !.file = "file", !.type = y]
<1>1. m \in [action : {"DataLoad"}, from : {f}, to : {t}, my : {0}, your : {0},
             file : {"none"}, unsaved : {FALSE}, type : {"image"}, of : {None}]
  BY DEF Message
<1> HIDE DEF m
<1>2. n \in [action : {"DataLoad"}, from : {f}, to : {t}, my : {0}, your : {0},
             file : {"file"}, unsaved : {FALSE}, type : {y}, of : {None}]
  BY <1>1
<1> HIDE DEF n
<1>3. n = Full("DataLoad", f, t, 0, 0, "file", FALSE, y, None)
  BY <1>2 DEF Full
<1> QED
  BY <1>3 DEF m, n, Gift

Offer(f, t, v) ==
  [Message("DataSave", f, t) EXCEPT
     !.of = v]

LEMMA OfferInFull ==
  ASSUME NEW f, NEW t, NEW v
  PROVE  Offer(f, t, v) = Full("DataSave", f, t, 0, 0, "none", FALSE, "image", v)
<1> DEFINE m == Message("DataSave", f, t)
           n == [m EXCEPT !.of = v]
<1>1. m \in [action : {"DataSave"}, from : {f}, to : {t}, my : {0}, your : {0},
             file : {"none"}, unsaved : {FALSE}, type : {"image"}, of : {None}]
  BY DEF Message
<1> HIDE DEF m
<1>2. n \in [action : {"DataSave"}, from : {f}, to : {t}, my : {0}, your : {0},
             file : {"none"}, unsaved : {FALSE}, type : {"image"}, of : {v}]
  BY <1>1
<1> HIDE DEF n
<1>3. n = Full("DataSave", f, t, 0, 0, "none", FALSE, "image", v)
  BY <1>2 DEF Full
<1> QED
  BY <1>3 DEF m, n, Offer

-----------------------------------------------------------------------------
(* Mail *)

(* A set of numbers that is not empty has a smallest: the intervals up to  *)
(* each are finite, and one of them is part of all others.                 *)
LEMMA LeastProperties ==
  ASSUME NEW S \in SUBSET Nat, S # {}
  PROVE  \E i \in S : \A j \in S : i <= j
<1> DEFINE T == { 1 .. i : i \in S }
<1>1. T \subseteq FiniteSubsetsOf(Nat) /\ T # {}
  <2>1. \A i \in S : IsFiniteSet(1 .. i) /\ 1 .. i \subseteq Nat
    BY FS_Interval
  <2> QED
    BY <2>1 DEF FiniteSubsetsOf
<1>2. PICK x \in T : \A y \in T : ~ (<<y, x>> \in StrictSubsetOrdering(Nat))
  BY <1>1, FS_StrictSubsetOrderingWellFounded, WFMin
<1>3. PICK i \in S : x = 1 .. i
  BY <1>2
<1>4. ASSUME NEW j \in S, ~ (i <= j)
      PROVE  FALSE
  <2>1. PICK y \in T : y = 1 .. j
    OBVIOUS
  <2>2. y \subseteq x /\ y # x /\ x \subseteq Nat
    BY <1>3, <1>4, <2>1
  <2>3. <<y, x>> \in StrictSubsetOrdering(Nat)
    BY <2>2 DEF StrictSubsetOrdering
  <2> QED
    BY <1>2, <2>3
<1> QED
  BY <1>4

(* The messages without one of them: the later ones move up.               *)
LEMMA RemoveAtProperties ==
  ASSUME NEW S, NEW s \in Seq(S), NEW k \in DOMAIN s
  PROVE  /\ RemoveAt(s, k) \in Seq(S)
         /\ DOMAIN RemoveAt(s, k) = 1 .. Len(s) - 1
         /\ Len(RemoveAt(s, k)) = Len(s) - 1
         /\ \A j \in 1 .. Len(s) - 1 :
              RemoveAt(s, k)[j] = IF j < k THEN s[j] ELSE s[j + 1]
<1> DEFINE a == SubSeq(s, 1, k - 1)
           b == SubSeq(s, k + 1, Len(s))
           c == RemoveAt(s, k)
<1>1. k \in 1 .. Len(s) /\ Len(s) \in Nat /\ \A j \in 1 .. Len(s) : s[j] \in S
  BY LenProperties, ElementOfSeq
<1>2. /\ a \in Seq(S) /\ Len(a) = k - 1
      /\ \A j \in 1 .. k - 1 : a[j] = s[j]
  BY <1>1, SubSeqProperties
<1>3. /\ b \in Seq(S) /\ Len(b) = Len(s) - k
      /\ \A j \in 1 .. Len(s) - k : b[j] = s[k + j]
  BY <1>1, SubSeqProperties
<1>4. c = a \o b
  BY DEF RemoveAt
<1> HIDE DEF a, b, c
<1>5. /\ c \in Seq(S) /\ Len(c) = Len(s) - 1
      /\ \A j \in 1 .. Len(s) - 1 : c[j] = IF j <= k - 1 THEN a[j] ELSE b[j - (k - 1)]
  <2>1. /\ c \in Seq(S) /\ Len(c) = Len(a) + Len(b)
        /\ \A j \in 1 .. Len(a) + Len(b) : c[j] = IF j <= Len(a) THEN a[j] ELSE b[j - Len(a)]
    BY <1>2, <1>3, <1>4, ConcatProperties
  <2>2. Len(a) = k - 1 /\ Len(a) + Len(b) = Len(s) - 1
    BY <1>1, <1>2, <1>3
  <2> QED
    BY <2>1, <2>2
<1>6. ASSUME NEW j \in 1 .. Len(s) - 1
      PROVE  c[j] = IF j < k THEN s[j] ELSE s[j + 1]
  <2>1. CASE j < k
    <3>1. j \in 1 .. k - 1 /\ j <= k - 1
      BY <1>1, <2>1
    <3>2. c[j] = a[j]
      BY <1>5, <3>1
    <3> QED
      BY <1>2, <2>1, <3>1, <3>2
  <2>2. CASE j >= k
    <3>1. j - (k - 1) \in 1 .. Len(s) - k /\ k + (j - (k - 1)) = j + 1 /\ ~ (j <= k - 1)
      BY <1>1, <2>2
    <3>2. b[j - (k - 1)] = s[j + 1]
      BY <1>3, <3>1
    <3> QED
      BY <1>5, <2>2, <3>1, <3>2
  <2> QED
    BY <1>1, <2>1, <2>2
<1>7. DOMAIN c = 1 .. Len(s) - 1
  BY <1>5, LenProperties
<1> QED
  BY <1>5, <1>6, <1>7 DEF c

LEMMA PendingIsFinite ==
  ASSUME NEW l \in Seq(Messages)
  PROVE  /\ IsFiniteSet(Pending(l)) /\ Pending(l) \subseteq 1 .. Len(l)
         /\ Cardinality(Pending(l)) \in Nat /\ Cardinality(Pending(l)) <= Len(l)
<1>1. DOMAIN l = 1 .. Len(l) /\ Len(l) \in Nat
  BY LenProperties
<1>2. Pending(l) \in SUBSET (1 .. Len(l))
  BY <1>1 DEF Pending
<1>3. IsFiniteSet(1 .. Len(l)) /\ Cardinality(1 .. Len(l)) = Len(l)
  BY <1>1, FS_Interval
<1> QED
  BY <1>2, <1>3, FS_Subset, FS_CardinalityType

(* Who takes a message of a transfer has one fewer left.                   *)
LEMMA PendingWithout ==
  ASSUME NEW l \in Seq(Messages), NEW k \in DOMAIN l
  PROVE  Cardinality(Pending(RemoveAt(l, k)))
           <= IF k \in Pending(l) THEN Cardinality(Pending(l)) - 1 ELSE Cardinality(Pending(l))
<1> DEFINE r == RemoveAt(l, k)
           A == Pending(r)
           B == Pending(l) \ {k}
           Up(i) == IF i < k THEN i ELSE i + 1
           f == [i \in A |-> Up(i)]
<1>1. /\ r \in Seq(Messages) /\ DOMAIN r = 1 .. Len(l) - 1
      /\ \A i \in 1 .. Len(l) - 1 : r[i] = IF i < k THEN l[i] ELSE l[i + 1]
  BY RemoveAtProperties
<1>2. DOMAIN l = 1 .. Len(l) /\ Len(l) \in Nat /\ k \in 1 .. Len(l)
  BY LenProperties
<1>3. IsFiniteSet(Pending(l)) /\ Cardinality(Pending(l)) \in Nat
  BY PendingIsFinite
<1> HIDE DEF r
<1>4. ASSUME NEW i \in A
      PROVE  Up(i) \in B
  <2>1. i \in 1 .. Len(l) - 1 /\ r[i].action # "TranslateFFGAck"
    BY <1>1 DEF Pending
  <2>2. Up(i) \in 1 .. Len(l) /\ Up(i) # k /\ r[i] = l[Up(i)]
    BY <1>1, <1>2, <2>1
  <2> QED
    BY <1>2, <2>1, <2>2 DEF Pending
<1>5. \A i, j \in A : Up(i) = Up(j) => i = j
  BY <1>1, <1>2 DEF Pending
<1>6. IsFiniteSet(B) /\ Cardinality(B) = IF k \in Pending(l) THEN Cardinality(Pending(l)) - 1
                                                            ELSE Cardinality(Pending(l))
  BY <1>3, FS_RemoveElement
<1>7. f \in Injection(A, B)
  <2>1. f \in [A -> B]
    BY <1>4
  <2> QED
    BY <1>5, <2>1 DEF Injection, IsInjective
<1>8. Cardinality(A) <= Cardinality(B)
  BY <1>6, <1>7, FS_Injection
<1> QED
  BY <1>6, <1>8 DEF r

(* Two series of messages, of the second of which none, or one, is of a    *)
(* transfer                                                                *)
LEMMA PendingConcat ==
  ASSUME NEW l \in Seq(Messages), NEW m \in Seq(Messages), NEW x, Pending(m) \subseteq {x}
  PROVE  Cardinality(Pending(l \o m))
           <= IF Pending(m) = {} THEN Cardinality(Pending(l)) ELSE Cardinality(Pending(l)) + 1
<1> DEFINE c == l \o m
           y == Len(l) + x
<1>1. /\ Len(l) \in Nat /\ Len(m) \in Nat /\ DOMAIN l = 1 .. Len(l) /\ DOMAIN m = 1 .. Len(m)
      /\ c \in Seq(Messages) /\ DOMAIN c = 1 .. Len(l) + Len(m)
      /\ \A i \in 1 .. Len(l) + Len(m) : c[i] = IF i <= Len(l) THEN l[i] ELSE m[i - Len(l)]
  BY ConcatProperties, LenProperties
<1>2. IsFiniteSet(Pending(l)) /\ Cardinality(Pending(l)) \in Nat
  BY PendingIsFinite
<1> HIDE DEF c
<1>3. ASSUME NEW i \in Pending(c), i \notin Pending(l)
      PROVE  i - Len(l) \in Pending(m) /\ i = Len(l) + (i - Len(l))
  <2>1. i \in 1 .. Len(l) + Len(m) /\ c[i].action # "TranslateFFGAck"
    BY <1>1 DEF Pending
  <2>2. ~ (i <= Len(l))
    BY <1>1, <1>3, <2>1 DEF Pending
  <2>3. i - Len(l) \in 1 .. Len(m) /\ c[i] = m[i - Len(l)] /\ i = Len(l) + (i - Len(l))
    BY <1>1, <2>1, <2>2
  <2> QED
    BY <1>1, <2>1, <2>3 DEF Pending
<1>4. CASE Pending(m) = {}
  <2>1. Pending(c) \in SUBSET Pending(l)
    BY <1>3, <1>4
  <2> QED
    BY <1>2, <1>4, <2>1, FS_Subset DEF c
<1>5. CASE Pending(m) # {}
  <2>1. Pending(c) \in SUBSET (Pending(l) \cup {y})
    BY <1>3
  <2> HIDE DEF y
  <2>2. /\ IsFiniteSet(Pending(l) \cup {y})
        /\ Cardinality(Pending(l) \cup {y}) <= Cardinality(Pending(l)) + 1
    <3> DEFINE P == Pending(l)
    <3>1. IsFiniteSet(P) /\ Cardinality(P) \in Nat
      BY <1>2
    <3> HIDE DEF P
    <3>2. IsFiniteSet(P \cup {y})
      BY <3>1, FS_AddElement
    <3>3. Cardinality(P \cup {y}) = IF y \in P THEN Cardinality(P) ELSE Cardinality(P) + 1
      BY <3>1, FS_AddElement
    <3>4. Cardinality(P \cup {y}) <= Cardinality(P) + 1
      BY <3>1, <3>3
    <3> QED
      BY <3>2, <3>4 DEF P
  <2>3. Cardinality(Pending(c)) <= Cardinality(Pending(l) \cup {y}) /\ IsFiniteSet(Pending(c))
    BY <2>1, <2>2, FS_Subset
  <2>4. Cardinality(Pending(c)) \in Nat /\ Cardinality(Pending(l) \cup {y}) \in Nat
    BY <2>2, <2>3, FS_CardinalityType
  <2> QED
    BY <1>2, <1>5, <2>2, <2>3, <2>4 DEF c
<1> QED
  BY <1>4, <1>5

LEMMA NextProperties ==
  ASSUME mail \in Seq(Messages), NEW to, ForOf(to) # {}
  PROVE  /\ NextFor(to) \in DOMAIN mail
         /\ Got(to) \in Messages /\ Got(to).to = to
<1>1. DOMAIN mail = 1 .. Len(mail) /\ Len(mail) \in Nat
  BY LenProperties
<1>2. ForOf(to) \in SUBSET Nat
  BY <1>1 DEF ForOf
<1>3. NextFor(to) \in ForOf(to)
  BY <1>2, LeastProperties DEF NextFor
<1> QED
  BY <1>1, <1>3, ElementOfSeq DEF ForOf, Got

(* The messages but for the one that a task has got                        *)
Others(to) == { mail[j] : j \in DOMAIN mail \ {NextFor(to)} }

(* A message of a transfer is answered by at most one other.               *)
LEMMA ReplyProperties ==
  ASSUME IInv, NEW to, ForOf(to) # {},
         NEW replies \in Seq(Messages), Reply(to, replies),
         NEW x, Pending(replies) \subseteq {x},
         Pending(replies) # {} => Got(to).action # "TranslateFFGAck",
         \A i \in DOMAIN replies : Proper(replies[i])
  PROVE  /\ mail' \in Seq(Messages) /\ MailInv'
         /\ \A i \in DOMAIN mail' : mail'[i] \in Others(to) \cup ToSet(replies)
<1> DEFINE k == NextFor(to)
           l == Without(to)
<1>1. mail \in Seq(Messages) /\ k \in DOMAIN mail
  BY NextProperties DEF IInv, TypeOK
<1>2. /\ l \in Seq(Messages) /\ DOMAIN l = 1 .. Len(mail) - 1 /\ Len(l) = Len(mail) - 1
      /\ \A i \in 1 .. Len(mail) - 1 : l[i] = IF i < k THEN mail[i] ELSE mail[i + 1]
  BY <1>1, RemoveAtProperties DEF Without
<1>3. mail' = l \o replies
  BY DEF Reply
<1>4. DOMAIN mail = 1 .. Len(mail) /\ Len(mail) \in Nat
  BY <1>1, LenProperties
<1>5. \A i \in DOMAIN l : l[i] \in Others(to)
  <2>1. ASSUME NEW i \in DOMAIN l
        PROVE  l[i] \in Others(to)
    <3>1. i \in 1 .. Len(mail) - 1 /\ k \in 1 .. Len(mail)
      BY <1>1, <1>2, <1>4
    <3>2. CASE i < k
      BY <1>2, <1>4, <3>1, <3>2 DEF Others
    <3>3. CASE ~ (i < k)
      <4>1. i + 1 \in 1 .. Len(mail) /\ i + 1 # k
        BY <1>4, <3>1, <3>3
      <4> QED
        BY <1>2, <1>4, <3>1, <3>3, <4>1 DEF Others
    <3> QED
      BY <3>2, <3>3
  <2> QED
    BY <2>1
<1>6. Cardinality(Pending(l)) <=
        IF k \in Pending(mail) THEN Cardinality(Pending(mail)) - 1 ELSE Cardinality(Pending(mail))
  BY <1>1, PendingWithout DEF Without
<1> HIDE DEF l, k
<1>7. /\ Len(l) \in Nat /\ Len(replies) \in Nat
      /\ DOMAIN l = 1 .. Len(l) /\ DOMAIN replies = 1 .. Len(replies)
      /\ mail' \in Seq(Messages) /\ DOMAIN mail' = 1 .. Len(l) + Len(replies)
      /\ \A i \in 1 .. Len(l) + Len(replies) :
           mail'[i] = IF i <= Len(l) THEN l[i] ELSE replies[i - Len(l)]
  <2> DEFINE c == l \o replies
  <2>1. /\ Len(l) \in Nat /\ Len(replies) \in Nat
        /\ DOMAIN l = 1 .. Len(l) /\ DOMAIN replies = 1 .. Len(replies)
    BY <1>2, LenProperties
  <2>2. /\ c \in Seq(Messages) /\ Len(c) = Len(l) + Len(replies)
        /\ \A i \in 1 .. Len(l) + Len(replies) :
             c[i] = IF i <= Len(l) THEN l[i] ELSE replies[i - Len(l)]
    BY <1>2, ConcatProperties
  <2>3. mail' = c
    BY <1>3
  <2> HIDE DEF c
  <2>4. DOMAIN c = 1 .. Len(l) + Len(replies)
    BY <2>2, LenProperties
  <2> QED
    BY <2>1, <2>2, <2>3, <2>4
<1>8. \A i \in DOMAIN mail' : mail'[i] \in Others(to) \cup ToSet(replies)
  <2>1. ASSUME NEW i \in DOMAIN mail'
        PROVE  mail'[i] \in Others(to) \cup ToSet(replies)
    <3>1. CASE i <= Len(l)
      <4>1. i \in DOMAIN l /\ mail'[i] = l[i]
        BY <1>7, <2>1, <3>1
      <4> QED
        BY <1>5, <4>1
    <3>2. CASE ~ (i <= Len(l))
      <4>1. i - Len(l) \in DOMAIN replies /\ mail'[i] = replies[i - Len(l)]
        BY <1>7, <2>1, <3>2
      <4> QED
        BY <4>1 DEF ToSet
    <3> QED
      BY <3>1, <3>2
  <2> QED
    BY <2>1
<1>9. Cardinality(Pending(mail')) <= MaxTransfers
  <2>1. Cardinality(Pending(mail')) <=
          IF Pending(replies) = {} THEN Cardinality(Pending(l)) ELSE Cardinality(Pending(l)) + 1
    BY <1>2, <1>3, PendingConcat
  <2>2. Pending(replies) # {} => k \in Pending(mail)
    BY <1>1 DEF Pending, Got, k
  <2>3. Cardinality(Pending(mail)) <= MaxTransfers
    BY DEF IInv, MailInv
  <2>4. /\ Cardinality(Pending(mail)) \in Nat /\ Cardinality(Pending(l)) \in Nat
        /\ Cardinality(Pending(mail')) \in Nat /\ MaxTransfers \in Nat
    BY <1>1, <1>2, <1>7, PendingIsFinite, TransferAssumption
  <2> QED
    BY <1>6, <2>1, <2>2, <2>3, <2>4
<1>10. \A i \in DOMAIN mail' : Proper(mail'[i])
  <2>1. \A m \in Others(to) \cup ToSet(replies) : Proper(m)
    BY DEF IInv, MailInv, Others, ToSet
  <2> QED
    BY <1>8, <2>1
<1> QED
  BY <1>7, <1>8, <1>9, <1>10 DEF MailInv

LEMMA NoReply ==
  ASSUME IInv, NEW to, ForOf(to) # {}, Reply(to, << >>)
  PROVE  /\ mail' \in Seq(Messages) /\ MailInv'
         /\ \A i \in DOMAIN mail' : mail'[i] \in Others(to)
<1> DEFINE replies == << >>
<1>1. replies \in Seq(Messages) /\ DOMAIN replies = {} /\ Pending(replies) = {} /\ ToSet(replies) = {}
  BY EmptySeq DEF Pending, ToSet
<1>2. Reply(to, replies)
  OBVIOUS
<1> HIDE DEF replies
<1> QED
  BY <1>1, <1>2, ReplyProperties

LEMMA OneReply ==
  ASSUME IInv, NEW to, ForOf(to) # {}, Got(to).action # "TranslateFFGAck",
         NEW m \in Messages, Proper(m), Reply(to, <<m>>)
  PROVE  /\ mail' \in Seq(Messages) /\ MailInv'
         /\ \A i \in DOMAIN mail' : mail'[i] \in Others(to) \cup {m}
<1> DEFINE replies == <<m>>
<1>1. /\ replies \in Seq(Messages) /\ DOMAIN replies = {1} /\ replies[1] = m
      /\ Pending(replies) \subseteq {1} /\ ToSet(replies) = {m}
  BY DEF Pending, ToSet
<1>2. Reply(to, replies)
  OBVIOUS
<1> HIDE DEF replies
<1> QED
  BY <1>1, <1>2, ReplyProperties

LEMMA TwoReplies ==
  ASSUME IInv, NEW to, ForOf(to) # {}, Got(to).action # "TranslateFFGAck",
         NEW a \in Messages, Proper(a), a.action = "TranslateFFGAck",
         NEW m \in Messages, Proper(m), Reply(to, <<a, m>>)
  PROVE  /\ mail' \in Seq(Messages) /\ MailInv'
         /\ \A i \in DOMAIN mail' : mail'[i] \in Others(to) \cup {a, m}
<1> DEFINE replies == <<a, m>>
<1>1. /\ replies \in Seq(Messages) /\ DOMAIN replies = {1, 2}
      /\ replies[1] = a /\ replies[2] = m
  OBVIOUS
<1>2. Reply(to, replies)
  OBVIOUS
<1> HIDE DEF replies
<1>3. Pending(replies) \subseteq {2} /\ ToSet(replies) = {a, m}
  BY <1>1 DEF Pending, ToSet
<1>4. \A i \in DOMAIN replies : Proper(replies[i])
  BY <1>1
<1> QED
  BY <1>1, <1>2, <1>3, <1>4, ReplyProperties

(* A transfer begins only within the bound.                                *)
LEMMA BeginProperties ==
  ASSUME IInv, MayBegin, NEW m \in Messages, Proper(m), mail' = Append(mail, m)
  PROVE  /\ mail' \in Seq(Messages) /\ MailInv'
         /\ \A i \in DOMAIN mail' : (i \in DOMAIN mail /\ mail'[i] = mail[i]) \/ mail'[i] = m
<1>1. mail \in Seq(Messages) /\ Len(mail) \in Nat /\ DOMAIN mail = 1 .. Len(mail)
  BY LenProperties DEF IInv, TypeOK
<1>2. /\ mail' \in Seq(Messages) /\ Len(mail') = Len(mail) + 1 /\ mail'[Len(mail) + 1] = m
      /\ \A i \in 1 .. Len(mail) : mail'[i] = mail[i]
  BY <1>1, AppendProperties
<1>3. DOMAIN mail' = 1 .. Len(mail) + 1
  BY <1>2, LenProperties
<1>4. ASSUME NEW i \in DOMAIN mail'
      PROVE  (i \in DOMAIN mail /\ mail'[i] = mail[i]) \/ mail'[i] = m
  <2>1. i \in 1 .. Len(mail) \/ i = Len(mail) + 1
    BY <1>1, <1>3
  <2> QED
    BY <1>1, <1>2, <2>1
<1>5. \A i \in DOMAIN mail' : Proper(mail'[i])
  BY <1>4 DEF IInv, MailInv
<1>6. Cardinality(Pending(mail')) <= MaxTransfers
  <2>1. Cardinality(Pending(mail')) <= Len(mail') /\ Cardinality(Pending(mail')) \in Nat
    BY <1>2, PendingIsFinite
  <2> QED
    BY <1>1, <1>2, <2>1, TransferAssumption DEF MayBegin
<1> QED
  BY <1>2, <1>4, <1>5, <1>6 DEF MailInv

(* There is a reference left for an answer: the messages of the transfers  *)
(* bear no more than one each, and one is remembered.                      *)
LEMMA NewRefProperties ==
  ASSUME IInv
  PROVE  NewRef \in Refs \ {0} /\ NewRef \notin LiveRefs
<1> DEFINE P == Pending(mail)
           RefOf(i) == IF mail[i].my = 0 THEN mail[i].your ELSE mail[i].my
           R == { RefOf(i) : i \in P }
           f == [i \in P |-> RefOf(i)]
           L == R \cup {lastRef}
<1>1. /\ mail \in Seq(Messages) /\ IsFiniteSet(P) /\ Cardinality(P) \in Nat
      /\ Cardinality(P) <= MaxTransfers /\ MaxTransfers \in Nat
  BY PendingIsFinite, TransferAssumption DEF IInv, TypeOK, MailInv
<1>2. f \in Surjection(P, R)
  BY DEF Surjection
<1>3. IsFiniteSet(R) /\ Cardinality(R) <= Cardinality(P) /\ Cardinality(R) \in Nat
  BY <1>1, <1>2, FS_Surjection, FS_CardinalityType
<1>4. ASSUME NEW r \in LiveRefs, r # 0
      PROVE  r \in L
  <2>1. CASE r = lastRef
    BY <2>1
  <2>2. ASSUME NEW i \in DOMAIN mail, r = mail[i].my \/ r = mail[i].your
        PROVE  r \in L
    <3>1. Proper(mail[i])
      BY DEF IInv, MailInv
    <3>2. i \in P /\ r = RefOf(i)
      BY <1>4, <2>2, <3>1 DEF Proper, Pending
    <3> QED
      BY <3>2
  <2> QED
    BY <2>1, <2>2 DEF LiveRefs
<1> HIDE DEF P, R, f
<1>5. IsFiniteSet(L) /\ Cardinality(L) <= Cardinality(R) + 1 /\ Cardinality(L) \in Nat
  <2>1. IsFiniteSet(L) /\ Cardinality(L) \in Nat
    BY <1>3, FS_AddElement, FS_CardinalityType
  <2>2. Cardinality(L) = IF lastRef \in R THEN Cardinality(R) ELSE Cardinality(R) + 1
    BY <1>3, FS_AddElement
  <2> QED
    BY <1>3, <2>1, <2>2
<1>6. \E r \in Refs \ {0} : r \notin LiveRefs
  <2> SUFFICES ASSUME \A r \in Refs \ {0} : r \in LiveRefs
               PROVE  FALSE
    OBVIOUS
  <2> DEFINE N == 1 .. MaxTransfers + 3
  <2>1. N \in SUBSET L
    <3>1. \A r \in N : r \in Refs \ {0}
      BY <1>1 DEF Refs
    <3>2. \A r \in N : r # 0 /\ r \in LiveRefs
      BY <3>1
    <3> QED
      BY <1>4, <3>2
  <2>2. Cardinality(N) = MaxTransfers + 3
    <3>1. 1 \in Int /\ MaxTransfers + 3 \in Int /\ ~ (1 > MaxTransfers + 3)
          /\ (MaxTransfers + 3) - 1 + 1 = MaxTransfers + 3
      BY <1>1
    <3> QED
      BY <3>1, FS_Interval
  <2> HIDE DEF N, L
  <2>3. Cardinality(N) <= Cardinality(L)
    BY <1>5, <2>1, FS_Subset
  <2> QED
    BY <1>1, <1>3, <1>5, <2>2, <2>3
<1> QED
  BY <1>6 DEF NewRef

-----------------------------------------------------------------------------
(* What is kept, as long as one exchange goes on at a time *)

(* Everything but the loading of a picture from a file of the user's may   *)
(* have to do with the scrap file.                                         *)
InExchange(m) ==
  /\ m.action # "TranslateFFGAck"
  /\ ~ (m.action = "DataLoad" /\ m.file = "file" /\ m.type = "image")

OneAtATime ==
  \A i, j \in DOMAIN mail : InExchange(mail[i]) /\ InExchange(mail[j]) => i = j

(* A message that leads to a load from the scrap file                      *)
BringsScrap(m) ==
  /\ m.file = "scrap"
  /\ m.action = "TranslateFFG" \/ (m.action = "DataLoad" /\ m.to = Self)

(* What is brought is in a file of the user's, or the message that brings  *)
(* it answers the offer that is remembered, and says so where it can.      *)
Safe(m, ref, p, files) ==
  /\ m.from = Self \/ m.to = Self
  /\ m.unsaved => m.file = "scrap"
  /\ m.action = "DataSaveAck" /\ m.from = Self => m.unsaved /\ m.my = ref /\ ref # 0
  /\ BringsScrap(m) =>
       \/ p \in files \cup {None}
       \/ m.your = ref /\ ref # 0 /\ (m.action = "DataLoad" => m.unsaved)

KeptInv ==
  /\ UnmodifiedIsKept
  /\ \A i \in DOMAIN mail : Safe(mail[i], lastRef, scrap, kept)

LEMMA FieldTypes ==
  ASSUME NEW m \in Messages
  PROVE  /\ m.action \in Actions /\ m.from \in Tasks /\ m.to \in Tasks
         /\ m.my \in Refs /\ m.your \in Refs /\ m.file \in {"file", "scrap", "none"}
         /\ m.unsaved \in BOOLEAN /\ m.type \in {"image", "foreign", "unset"}
         /\ m.of \in Viewers \cup {None}
BY DEF Messages, Actions, Tasks

LEMMA ZeroIsRef == 0 \in Refs
BY TransferAssumption DEF Refs

(* While a message of the one exchange is answered, no other is concerned. *)
LEMMA OthersAreSafe ==
  ASSUME IInv, KeptInv, OneAtATime, NEW to, ForOf(to) # {}, InExchange(Got(to)),
         NEW ref, NEW p, NEW files
  PROVE  \A m \in Others(to) : Safe(m, ref, p, files)
<1>1. NextFor(to) \in DOMAIN mail /\ mail \in Seq(Messages)
  BY NextProperties DEF IInv, TypeOK
<1>2. ASSUME NEW j \in DOMAIN mail, j # NextFor(to)
      PROVE  Safe(mail[j], ref, p, files)
  <2>1. ~ InExchange(mail[j])
    BY <1>1, <1>2 DEF OneAtATime, Got
  <2>2. mail[j].from = Self \/ mail[j].to = Self
    BY DEF KeptInv, Safe
  <2>3. mail[j].unsaved => mail[j].file = "scrap"
    BY DEF KeptInv, Safe
  <2> QED
    BY <2>1, <2>2, <2>3 DEF InExchange, Safe, BringsScrap
<1> QED
  BY <1>2 DEF Others

(* ... and else what was safe is, if there are more files, or no picture   *)
(* is left in the scrap file.                                              *)
LEMMA StaysSafe ==
  ASSUME NEW m, NEW ref, NEW p, NEW q, NEW files, NEW more,
         Safe(m, ref, p, files), files \subseteq more, q \in {p, None}
  PROVE  Safe(m, ref, q, more)
BY DEF Safe

LEMMA OthersStaySafe ==
  ASSUME KeptInv, NEW to, NEW q \in {scrap, None}
  PROVE  \A m \in Others(to) : Safe(m, lastRef, q, kept)
BY StaysSafe DEF KeptInv, Others

(* A step that sends, or takes, messages only                              *)
LEMMA MailTypes ==
  ASSUME IInv, mail' \in Seq(Messages) /\ MailInv',
         lastRef' \in Refs, translator' \in Programs \cup {None},
         UNCHANGED <<pictureVars, clipboard, dialogueVars, undefined>>
  PROVE  IInv'
BY DEF IInv, TypeOK, Open, pictureVars, dialogueVars

LEMMA MailKept ==
  ASSUME KeptInv, UNCHANGED <<image, kept>>,
         \A i \in DOMAIN mail' : Safe(mail'[i], lastRef', scrap', kept')
  PROVE  KeptInv'
BY DEF KeptInv, UnmodifiedIsKept, Open

(* A step without messages                                                 *)
LEMMA NoMailTypes ==
  ASSUME IInv, UNCHANGED mail
  PROVE  mail' \in Seq(Messages) /\ MailInv'
BY DEF IInv, TypeOK, MailInv

LEMMA NoMailKept ==
  ASSUME KeptInv, UNCHANGED <<mail, lastRef, scrap>>, kept \subseteq kept'
  PROVE  \A i \in DOMAIN mail' : Safe(mail'[i], lastRef', scrap', kept')
<1>1. ASSUME NEW i \in DOMAIN mail
      PROVE  Safe(mail[i], lastRef, scrap, kept')
  BY StaysSafe DEF KeptInv
<1> QED
  BY <1>1

-----------------------------------------------------------------------------
(* The program's handlers *)

LEMMA GetsProperties ==
  ASSUME IInv, NEW to, NEW action, Gets(to, action)
  PROVE  /\ ForOf(to) # {} /\ Got(to) \in Messages /\ Got(to).to = to /\ Got(to).action = action
         /\ KeptInv => Safe(Got(to), lastRef, scrap, kept)
<1>1. ForOf(to) # {} /\ Got(to).action = action
  BY DEF Gets, Got
<1>2. NextFor(to) \in DOMAIN mail /\ Got(to) \in Messages /\ Got(to).to = to
  BY <1>1, NextProperties DEF IInv, TypeOK
<1> QED
  BY <1>1, <1>2 DEF KeptInv, Got

(* A message is taken, or answered in a way that is safe, and nothing else *)
(* changes but for the translator.                                         *)
LEMMA TakenStep ==
  ASSUME IInv, NEW to, ForOf(to) # {}, Reply(to, << >>), translator' \in Programs \cup {None},
         UNCHANGED <<pictureVars, lastRef, clipboard, dialogueVars, undefined>>
  PROVE  IInv' /\ (KeptInv => KeptInv')
<1>1. /\ mail' \in Seq(Messages) /\ MailInv'
      /\ \A i \in DOMAIN mail' : mail'[i] \in Others(to)
  BY NoReply
<1>2. lastRef' \in Refs
  BY DEF IInv, TypeOK
<1>3. IInv'
  BY <1>1, <1>2, MailTypes
<1>4. ASSUME KeptInv
      PROVE  KeptInv'
  BY <1>1, <1>4, OthersStaySafe, MailKept DEF pictureVars
<1> QED
  BY <1>3, <1>4

LEMMA AnsweredStep ==
  ASSUME IInv, NEW to, ForOf(to) # {}, Got(to).action # "TranslateFFGAck",
         NEW m \in Messages, Proper(m), KeptInv => Safe(m, lastRef, scrap, kept),
         Reply(to, <<m>>), translator' \in Programs \cup {None},
         UNCHANGED <<pictureVars, lastRef, clipboard, dialogueVars, undefined>>
  PROVE  IInv' /\ (KeptInv => KeptInv')
<1>1. /\ mail' \in Seq(Messages) /\ MailInv'
      /\ \A i \in DOMAIN mail' : mail'[i] \in Others(to) \cup {m}
  BY OneReply
<1>2. lastRef' \in Refs
  BY DEF IInv, TypeOK
<1>3. IInv'
  BY <1>1, <1>2, MailTypes
<1>4. ASSUME KeptInv
      PROVE  KeptInv'
  BY <1>1, <1>4, OthersStaySafe, MailKept DEF pictureVars
<1> QED
  BY <1>3, <1>4

LEMMA DataSaveStep ==
  ASSUME IInv, DataSave
  PROVE  IInv' /\ (KeptInv /\ OneAtATime => KeptInv')
<1> DEFINE g == Got(Self)
           m == AskForScrap(Self, g.from, NewRef, g.of)
<1>1. ForOf(Self) # {} /\ g \in Messages /\ g.action = "DataSave"
  BY GetsProperties DEF DataSave
<1>2. m = Full("DataSaveAck", Self, g.from, NewRef, 0, "scrap", TRUE, "image", g.of)
  BY AskForScrapInFull
<1>3. NewRef \in Refs /\ NewRef # 0
  BY NewRefProperties
<1>4. UNCHANGED <<pictureVars, translator, clipboard, dialogueVars, undefined>>
  BY DEF DataSave
<1>5. translator' \in Programs \cup {None} /\ lastRef \in Refs
  BY <1>4 DEF IInv, TypeOK
<1>6. CASE Reply(Self, << >>) /\ UNCHANGED lastRef
  BY <1>1, <1>4, <1>5, <1>6, TakenStep
<1>7. CASE Reply(Self, <<m>>) /\ lastRef' = NewRef
  <2> HIDE DEF m
  <2>1. /\ m.action = "DataSaveAck" /\ m.from = Self /\ m.my = NewRef /\ m.your = 0
        /\ m.file = "scrap" /\ m.unsaved = TRUE
    BY <1>2 DEF Full
  <2>2. m \in Messages
    <3>1. g.from \in Tasks /\ g.of \in Viewers \cup {None}
      BY <1>1, FieldTypes
    <3> HIDE DEF g
    <3> QED
      BY <1>2, <1>3, <3>1, ZeroIsRef DEF Full, Messages, Tasks
  <2>3. Proper(m)
    BY <2>1 DEF Proper
  <2>4. /\ mail' \in Seq(Messages) /\ MailInv'
        /\ \A i \in DOMAIN mail' : mail'[i] \in Others(Self) \cup {m}
    BY <1>1, <1>7, <2>2, <2>3, OneReply
  <2>5. IInv'
    BY <1>3, <1>4, <1>5, <1>7, <2>4, MailTypes
  <2>6. ASSUME KeptInv, OneAtATime
        PROVE  KeptInv'
    <3>1. InExchange(g)
      BY <1>1 DEF InExchange
    <3>2. \A n \in Others(Self) : Safe(n, lastRef', scrap', kept')
      BY <1>1, <2>6, <3>1, OthersAreSafe
    <3>3. Safe(m, lastRef', scrap', kept')
      BY <1>3, <1>7, <2>1 DEF Safe, BringsScrap
    <3> QED
      BY <1>4, <2>4, <2>6, <3>2, <3>3, MailKept DEF pictureVars
  <2> QED
    BY <2>5, <2>6
<1> QED
  BY <1>6, <1>7 DEF DataSave, AskForScrap

LEMMA DataSaveAckStep ==
  ASSUME IInv, DataSaveAck
  PROVE  IInv' /\ (KeptInv /\ OneAtATime => KeptInv')
<1> DEFINE g == Got(Self)
           m == Forward("DataLoad", Self, g.from, g.my, g.file, g.unsaved)
           v == AskedFor
<1>1. /\ ForOf(Self) # {} /\ g \in Messages /\ g.action = "DataSaveAck"
      /\ KeptInv => Safe(g, lastRef, scrap, kept)
  BY GetsProperties DEF DataSaveAck
<1>2. UNCHANGED <<lastRef, translator, clipboard>>
  BY DEF DataSaveAck
<1>3. translator' \in Programs \cup {None} /\ lastRef' \in Refs
  BY <1>2 DEF IInv, TypeOK
<1>4. CASE /\ v \in Open /\ Written(v, g) /\ Reply(Self, <<m>>) /\ SaveDone
           /\ UNCHANGED <<current, dragging, undefined>>
  <2>1. m = Full("DataLoad", Self, g.from, 0, g.my, g.file, g.unsaved, "image", None)
    BY ForwardInFull
  <2> HIDE DEF m
  <2>2. /\ m.action = "DataLoad" /\ m.from = Self /\ m.to = g.from /\ m.my = 0 /\ m.your = g.my
        /\ m.file = g.file /\ m.unsaved = g.unsaved
    BY <2>1 DEF Full
  <2>3. m \in Messages
    <3>1. /\ g.from \in Tasks /\ g.my \in Refs
          /\ g.file \in {"file", "scrap", "none"} /\ g.unsaved \in BOOLEAN
      BY <1>1, FieldTypes
    <3> HIDE DEF g
    <3> QED
      BY <2>1, <3>1, ZeroIsRef DEF Full, Messages, Tasks
  <2>4. Proper(m)
    BY <2>2 DEF Proper
  <2>5. /\ mail' \in Seq(Messages) /\ MailInv'
        /\ \A i \in DOMAIN mail' : mail'[i] \in Others(Self) \cup {m}
    BY <1>1, <1>4, <2>3, <2>4, OneReply
  <2>6. /\ v \in Viewers /\ image[v] \in Images /\ image[v].picture \in Pictures
        /\ image \in [Viewers -> Images \cup {None}]
    BY <1>4 DEF IInv, TypeOK, Open, Images
  <2>7. /\ image' \in [Viewers -> Images \cup {None}]
        /\ kept' \subseteq Pictures /\ scrap' \in Pictures \cup {None}
        /\ \A w \in Viewers : image'[w] = None <=> image[w] = None
    <3>1. /\ kept' \in {kept, kept \cup {image[v].picture}}
          /\ scrap' \in {scrap, image[v].picture}
          /\ image' \in {image, [image EXCEPT ![v].modified = FALSE]}
      BY <1>4 DEF Written
    <3>2. [image[v] EXCEPT !.modified = FALSE] \in Images
      BY <2>6 DEF Images
    <3>3. \A p \in Images : p # None
      BY TransferAssumption DEF Images
    <3> QED
      BY <2>6, <3>1, <3>2, <3>3 DEF IInv, TypeOK
  <2>8. /\ saving' \in Viewers \cup {None} /\ menu' \in {"nothing", "save", "other"}
        /\ closes' \in BOOLEAN
    BY <1>4 DEF SaveDone, MenuCloses, IInv, TypeOK
  <2>9. IInv'
    BY <1>2, <1>3, <1>4, <2>5, <2>7, <2>8 DEF IInv, TypeOK, Open
  <2>10. ASSUME KeptInv, OneAtATime
         PROVE  KeptInv'
    <3>1. InExchange(g)
      BY <1>1 DEF InExchange
    <3>2. \A n \in Others(Self) : Safe(n, lastRef', scrap', kept')
      BY <1>1, <2>10, <3>1, OthersAreSafe
    <3>3. Safe(g, lastRef, scrap, kept)
      BY <1>1, <2>10
    <3>4. m.to = Self => m.unsaved /\ m.your = lastRef /\ lastRef # 0
      BY <1>1, <2>2, <3>3 DEF Safe
    <3>5. Safe(m, lastRef', scrap', kept')
      BY <1>2, <2>2, <3>3, <3>4 DEF Safe, BringsScrap
    <3>6. \A i \in DOMAIN mail' : Safe(mail'[i], lastRef', scrap', kept')
      BY <2>5, <3>2, <3>5
    <3>7. ASSUME NEW w \in Viewers, image'[w] # None
          PROVE  image'[w].modified \/ image'[w].picture \in kept'
      <4>1. kept \subseteq kept' /\ image[w] # None /\ (image[w].modified \/ image[w].picture \in kept)
        BY <1>4, <2>7, <2>10, <3>7 DEF KeptInv, UnmodifiedIsKept, Open, Written
      <4>2. CASE image' = image
        BY <4>1, <4>2
      <4>3. CASE image' = [image EXCEPT ![v].modified = FALSE] /\ SavedForGood(g)
        <5>1. image[v].picture \in kept'
          BY <1>4, <4>3 DEF Written, SavedForGood
        <5>2. CASE w = v
          <6>1. image'[w].picture = image[v].picture
            BY <2>6, <4>3, <5>2 DEF Images
          <6> QED
            BY <5>1, <6>1
        <5>3. CASE w # v
          BY <2>6, <4>1, <4>3, <5>3
        <5> QED
          BY <5>2, <5>3
      <4> QED
        BY <1>4, <4>2, <4>3 DEF Written
    <3> QED
      BY <3>6, <3>7 DEF KeptInv, UnmodifiedIsKept, Open
  <2> QED
    BY <2>9, <2>10
<1>5. CASE /\ Reply(Self, << >>)
           /\ undefined' = (v \notin Open \cup {None})
           /\ UNCHANGED <<pictureVars, dialogueVars>>
  <2>1. /\ mail' \in Seq(Messages) /\ MailInv'
        /\ \A i \in DOMAIN mail' : mail'[i] \in Others(Self)
    BY <1>1, <1>5, NoReply
  <2>2. undefined' \in BOOLEAN
    BY <1>5
  <2>3. IInv'
    BY <1>2, <1>3, <1>5, <2>1, <2>2 DEF IInv, TypeOK, Open, pictureVars, dialogueVars
  <2>4. ASSUME KeptInv
        PROVE  KeptInv'
    BY <1>2, <1>5, <2>1, <2>4, OthersStaySafe, MailKept DEF pictureVars
  <2> QED
    BY <2>3, <2>4
<1> QED
  BY <1>4, <1>5 DEF DataSaveAck, Forward

(* A viewer that shows a picture, or another, or none                      *)
LEMMA LoadTypes ==
  ASSUME IInv, NEW v \in Viewers, NEW img \in Images \cup {None}, Load(v, img)
  PROVE  /\ image' \in [Viewers -> Images \cup {None}]
         /\ clipboard' \in Open' \cup {None}
         /\ \A w \in Viewers : image'[w] = IF w = v THEN img ELSE image[w]
BY DEF IInv, TypeOK, Load, Dispose, Open

LEMMA DestroyIsLoad ==
  ASSUME NEW v, Destroy(v)
  PROVE  Load(v, None)
BY DEF Destroy, Load

LEMMA ShowType ==
  ASSUME NEW p \in Pictures, NEW b \in BOOLEAN
  PROVE  Show(p, b) \in Images /\ Show(p, b).picture = p /\ Show(p, b).modified = b
BY DEF Show, Images

LEMMA UnsafeType ==
  ASSUME NEW m
  PROVE  Unsafe(m) \in BOOLEAN
BY DEF Unsafe

LEMMA InFileType ==
  ASSUME IInv, NEW file, NEW p \in InFile(file)
  PROVE  p \in Pictures /\ (file # "scrap" => p \in kept) /\ (file = "scrap" => p = scrap /\ p # None)
BY DEF IInv, TypeOK, InFile

(* Viewers that show what is kept still do, if one shows what is kept, or  *)
(* shows it as modified, or nothing.                                       *)
LEMMA LoadKept ==
  ASSUME IInv, UnmodifiedIsKept, NEW v \in Viewers, NEW img \in Images \cup {None}, Load(v, img),
         kept \subseteq kept', img # None => img.modified \/ img.picture \in kept
  PROVE  UnmodifiedIsKept'
<1>1. \A w \in Viewers : image'[w] = IF w = v THEN img ELSE image[w]
  BY LoadTypes
<1> QED
  BY <1>1 DEF UnmodifiedIsKept, Open

(* What a message brings, unless it is told to be unsafe, is in a file.    *)
LEMMA BroughtIsKept ==
  ASSUME IInv, NEW m, Safe(m, lastRef, scrap, kept), m.action = "DataLoad", m.to = Self,
         NEW p \in InFile(m.file)
  PROVE  Unsafe(m) \/ p \in kept
BY InFileType DEF Safe, BringsScrap, Unsafe

LEMMA DataLoadStep ==
  ASSUME IInv, DataLoad
  PROVE  IInv' /\ (KeptInv /\ OneAtATime => KeptInv')
<1> DEFINE g == Got(Self)
<1>1. /\ ForOf(Self) # {} /\ g \in Messages /\ g.action = "DataLoad" /\ g.to = Self
      /\ KeptInv => Safe(g, lastRef, scrap, kept)
  BY GetsProperties DEF DataLoad
<1>2. /\ mail' \in Seq(Messages) /\ MailInv'
      /\ \A i \in DOMAIN mail' : mail'[i] \in Others(Self)
  BY <1>1, NoReply DEF DataLoad
<1>3. UNCHANGED <<kept, closes, current, dragging, undefined>>
  BY DEF DataLoad
<1>4. /\ translator' \in Programs \cup {None} /\ menu' \in {"nothing", "save", "other"}
      /\ saving' \in Viewers \cup {None}
  BY DEF DataLoad, IInv, TypeOK
<1>5. CASE \E v \in Viewers : LoadInto(v, g)
  <2>1. PICK v \in Viewers : LoadInto(v, g)
    BY <1>5
  <2>2. CASE Destroy(v) /\ UNCHANGED <<lastRef, scrap>>
    <3>1. Load(v, None)
      BY <2>2, DestroyIsLoad
    <3>2. IInv'
      BY <1>2, <1>3, <1>4, <2>2, <3>1, LoadTypes DEF IInv, TypeOK
    <3>3. ASSUME KeptInv
          PROVE  KeptInv'
      <4>1. UnmodifiedIsKept'
        BY <1>3, <3>1, <3>3, LoadKept DEF KeptInv
      <4>2. \A i \in DOMAIN mail' : Safe(mail'[i], lastRef', scrap', kept')
        BY <1>2, <1>3, <2>2, <3>3, OthersStaySafe
      <4> QED
        BY <4>1, <4>2 DEF KeptInv
    <3> QED
      BY <3>2, <3>3
  <2>3. CASE /\ \E p \in InFile(g.file) : Load(v, Show(p, Unsafe(g)))
             /\ IF Unsafe(g)
                THEN lastRef' = 0 /\ scrap' = IF g.file = "scrap" THEN None ELSE scrap
                ELSE UNCHANGED <<lastRef, scrap>>
    <3>1. PICK p \in InFile(g.file) : Load(v, Show(p, Unsafe(g)))
      BY <2>3
    <3> DEFINE img == Show(p, Unsafe(g))
    <3>2. img \in Images /\ img.picture = p /\ img.modified = Unsafe(g)
      BY InFileType, ShowType, UnsafeType
    <3>3. lastRef' \in Refs /\ scrap' \in Pictures \cup {None}
      BY <2>3, ZeroIsRef DEF IInv, TypeOK
    <3> HIDE DEF img
    <3>4. Load(v, img)
      BY <3>1 DEF img
    <3>5. IInv'
      BY <1>2, <1>3, <1>4, <3>2, <3>3, <3>4, LoadTypes DEF IInv, TypeOK
    <3>6. ASSUME KeptInv, OneAtATime
          PROVE  KeptInv'
      <4>1. Safe(g, lastRef, scrap, kept)
        BY <1>1, <3>6
      <4>2. img.modified \/ img.picture \in kept
        BY <1>1, <3>2, <4>1, BroughtIsKept
      <4>3. UnmodifiedIsKept'
        BY <1>3, <3>2, <3>4, <3>6, <4>2, LoadKept DEF KeptInv
      <4>4. CASE Unsafe(g)
        <5>1. g.file = "scrap"
          BY <4>1, <4>4 DEF Unsafe, Safe
        <5>2. InExchange(g)
          BY <1>1, <5>1 DEF InExchange
        <5> QED
          BY <1>1, <1>2, <3>6, <4>3, <5>2, OthersAreSafe DEF KeptInv
      <4>5. CASE ~ Unsafe(g)
        <5>1. \A i \in DOMAIN mail' : Safe(mail'[i], lastRef', scrap', kept')
          BY <1>2, <1>3, <2>3, <3>6, <4>5, OthersStaySafe
        <5> QED
          BY <4>3, <5>1 DEF KeptInv
      <4> QED
        BY <4>4, <4>5
    <3> QED
      BY <3>5, <3>6
  <2> QED
    BY <2>1, <2>2, <2>3 DEF LoadInto
<1>6. CASE UNCHANGED <<image, scrap, lastRef, clipboard>>
  <2>1. IInv'
    BY <1>2, <1>3, <1>4, <1>6 DEF IInv, TypeOK, Open
  <2>2. ASSUME KeptInv
        PROVE  KeptInv'
    BY <1>2, <1>3, <1>6, <2>2, OthersStaySafe, MailKept
  <2> QED
    BY <2>1, <2>2
<1> QED
  BY <1>5, <1>6 DEF DataLoad

LEMMA ConvertStep ==
  ASSUME IInv, Convert
  PROVE  IInv' /\ (KeptInv => KeptInv')
<1> DEFINE g == Got(Self)
<1>1. /\ ForOf(Self) # {} /\ g \in Messages /\ g.action = "DataLoad" /\ g.to = Self
      /\ KeptInv => Safe(g, lastRef, scrap, kept)
  BY GetsProperties DEF Convert
<1>2. UNCHANGED <<pictureVars, lastRef, clipboard, dialogueVars, undefined>>
  BY DEF Convert
<1>3. translator' \in Programs \cup {None}
  BY DEF Convert, IInv, TypeOK
<1>4. CASE Reply(Self, << >>)
  BY <1>1, <1>2, <1>3, <1>4, TakenStep
<1>5. ASSUME NEW t \in Programs,
             Reply(Self, <<Request(Self, t, g.your, g.file)>>)
      PROVE  IInv' /\ (KeptInv => KeptInv')
  <2> DEFINE m == Request(Self, t, g.your, g.file)
  <2>1. m = Full("TranslateFFG", Self, t, 0, g.your, g.file, FALSE, "image", None)
    BY RequestInFull
  <2> HIDE DEF m
  <2>2. /\ m.action = "TranslateFFG" /\ m.from = Self /\ m.my = 0 /\ m.your = g.your
        /\ m.file = g.file /\ m.unsaved = FALSE
    BY <2>1 DEF Full
  <2>3. m \in Messages
    <3>1. g.your \in Refs /\ g.file \in {"file", "scrap", "none"}
      BY <1>1, FieldTypes
    <3> HIDE DEF g
    <3> QED
      BY <2>1, <3>1, ZeroIsRef DEF Full, Messages
  <2>4. Proper(m)
    BY <2>2 DEF Proper
  <2>5. KeptInv => Safe(m, lastRef, scrap, kept)
    BY <1>1, <2>2 DEF Safe, BringsScrap
  <2>6. Reply(Self, <<m>>)
    BY <1>5 DEF m
  <2>7. g.action # "TranslateFFGAck"
    BY <1>1
  <2> QED
    BY <1>1, <1>2, <1>3, <2>3, <2>4, <2>5, <2>6, <2>7, AnsweredStep
<1> QED
  BY <1>4, <1>5 DEF Convert, Request

LEMMA TranslateAckStep ==
  ASSUME IInv, TranslateAck
  PROVE  IInv' /\ (KeptInv => KeptInv')
<1>1. ForOf(Self) # {} /\ Got(Self) \in Messages /\ Got(Self).action = "TranslateFFGAck"
  BY GetsProperties DEF TranslateAck
<1>2. Got(Self).from # Self
  BY <1>1, NextProperties DEF IInv, TypeOK, MailInv, Proper, Got
<1>3. Got(Self).from \in Programs
  BY <1>1, <1>2, FieldTypes DEF Tasks
<1>4. translator' \in Programs \cup {None} /\ Reply(Self, << >>)
  BY <1>3 DEF TranslateAck
<1>5. UNCHANGED <<pictureVars, lastRef, clipboard, dialogueVars, undefined>>
  BY DEF TranslateAck
<1> QED
  BY <1>1, <1>4, <1>5, TakenStep

LEMMA DataRequestStep ==
  ASSUME IInv, DataRequest
  PROVE  IInv' /\ (KeptInv => KeptInv')
<1> DEFINE g == Got(Self)
           m == Message("DataSave", Self, g.from)
<1>1. ForOf(Self) # {} /\ g \in Messages /\ g.action = "DataRequest"
  BY GetsProperties DEF DataRequest
<1>2. UNCHANGED <<pictureVars, lastRef, clipboard, dialogueVars, undefined>>
  BY DEF DataRequest
<1>3. translator' \in Programs \cup {None}
  BY DEF DataRequest, IInv, TypeOK
<1>4. CASE Reply(Self, << >>)
  BY <1>1, <1>2, <1>3, <1>4, TakenStep
<1>5. CASE Reply(Self, <<m>>)
  <2>1. m = Full("DataSave", Self, g.from, 0, 0, "none", FALSE, "image", None)
    BY PlainInFull
  <2> HIDE DEF m
  <2>2. m.action = "DataSave" /\ m.from = Self /\ m.my = 0 /\ m.your = 0 /\ m.unsaved = FALSE
    BY <2>1 DEF Full
  <2>3. m \in Messages
    <3>1. g.from \in Tasks
      BY <1>1, FieldTypes
    <3> HIDE DEF g
    <3> QED
      BY <2>1, <3>1, ZeroIsRef DEF Full, Messages, Tasks
  <2>4. Proper(m) /\ Safe(m, lastRef, scrap, kept)
    BY <2>2 DEF Proper, Safe, BringsScrap
  <2>5. g.action # "TranslateFFGAck"
    BY <1>1
  <2> QED
    BY <1>1, <1>2, <1>3, <1>5, <2>3, <2>4, <2>5, AnsweredStep
<1> QED
  BY <1>4, <1>5 DEF DataRequest

LEMMA DataOpenStep ==
  ASSUME IInv, NEW v \in Viewers, DataOpen(v)
  PROVE  IInv' /\ (KeptInv => KeptInv')
<1>1. UNCHANGED <<kept, scrap, mail, lastRef, translator, dialogueVars, undefined>>
  BY DEF DataOpen
<1>2. PICK img \in Images \cup {None} :
        Load(v, img) /\ (img # None => img.modified \/ img.picture \in kept)
  <2>1. CASE Destroy(v)
    BY <2>1, DestroyIsLoad
  <2>2. ASSUME NEW p \in kept, Load(v, Show(p, FALSE))
        PROVE  Show(p, FALSE) \in Images /\ Show(p, FALSE).picture = p
    <3>1. p \in Pictures
      BY DEF IInv, TypeOK
    <3> QED
      BY <3>1, ShowType
  <2> QED
    BY <2>1, <2>2 DEF DataOpen
<1>3. IInv'
  <2>1. mail' \in Seq(Messages) /\ MailInv'
    BY <1>1, NoMailTypes
  <2> QED
    BY <1>1, <1>2, <2>1, LoadTypes DEF IInv, TypeOK, dialogueVars
<1>4. ASSUME KeptInv
      PROVE  KeptInv'
  <2>1. UnmodifiedIsKept'
    BY <1>1, <1>2, <1>4, LoadKept DEF KeptInv
  <2> QED
    BY <1>1, <1>4, <2>1, NoMailKept DEF KeptInv
<1> QED
  BY <1>3, <1>4

-----------------------------------------------------------------------------
(* Other programs *)

(* A message that begins a transfer brings nothing yet.                    *)
LEMMA BeginsSafe ==
  ASSUME IInv, MayBegin, NEW m \in Messages, Proper(m), mail' = Append(mail, m),
         \A ref, p, files : Safe(m, ref, p, files), UNCHANGED <<lastRef, pictureVars>>
  PROVE  KeptInv => KeptInv'
<1>1. \A i \in DOMAIN mail' : (i \in DOMAIN mail /\ mail'[i] = mail[i]) \/ mail'[i] = m
  BY BeginProperties
<1> SUFFICES ASSUME KeptInv
             PROVE  KeptInv'
  OBVIOUS
<1>2. \A i \in DOMAIN mail' : Safe(mail'[i], lastRef', scrap', kept')
  BY <1>1 DEF KeptInv, pictureVars
<1> QED
  BY <1>2, MailKept DEF pictureVars

LEMMA BeginStep ==
  ASSUME IInv, NEW t \in Programs, Begin(t)
  PROVE  IInv' /\ (KeptInv => KeptInv')
<1>1. /\ MayBegin
      /\ UNCHANGED <<pictureVars, lastRef, translator, clipboard, dialogueVars, undefined>>
  BY DEF Begin
<1>2. PICK m : /\ mail' = Append(mail, m)
               /\ \/ m = Message("DataSave", t, Self) \/ m = Message("DataRequest", t, Self)
                  \/ \E type \in {"image", "foreign"} : m = Gift(t, Self, type)
  BY DEF Begin, Gift
<1>3. \/ m = Full("DataSave", t, Self, 0, 0, "none", FALSE, "image", None)
      \/ m = Full("DataRequest", t, Self, 0, 0, "none", FALSE, "image", None)
      \/ \E type \in {"image", "foreign"} :
           m = Full("DataLoad", t, Self, 0, 0, "file", FALSE, type, None)
  BY <1>2, PlainInFull, GiftInFull
<1>4. /\ m.action \in {"DataSave", "DataRequest", "DataLoad"} /\ m.to = Self
      /\ m.my = 0 /\ m.your = 0 /\ m.unsaved = FALSE /\ m.file # "scrap"
  BY <1>3 DEF Full
<1>5. m \in Messages
  <2>1. CASE m = Full("DataSave", t, Self, 0, 0, "none", FALSE, "image", None)
    BY <2>1, ZeroIsRef DEF Full, Messages
  <2>2. CASE m = Full("DataRequest", t, Self, 0, 0, "none", FALSE, "image", None)
    BY <2>2, ZeroIsRef DEF Full, Messages
  <2>3. ASSUME NEW type \in {"image", "foreign"},
               m = Full("DataLoad", t, Self, 0, 0, "file", FALSE, type, None)
        PROVE  m \in Messages
    BY <2>3, ZeroIsRef DEF Full, Messages
  <2> QED
    BY <1>3, <2>1, <2>2, <2>3
<1>6. Proper(m) /\ \A ref, p, files : Safe(m, ref, p, files)
  BY <1>4 DEF Proper, Safe, BringsScrap
<1>7. mail' \in Seq(Messages) /\ MailInv'
  BY <1>1, <1>2, <1>5, <1>6, BeginProperties
<1>8. IInv'
  BY <1>1, <1>7, MailTypes DEF IInv, TypeOK
<1>9. KeptInv => KeptInv'
  BY <1>1, <1>2, <1>5, <1>6, BeginsSafe
<1> QED
  BY <1>8, <1>9

LEMMA TakeOfferStep ==
  ASSUME IInv, NEW t \in Programs, TakeOffer(t)
  PROVE  IInv' /\ (KeptInv => KeptInv')
<1> DEFINE g == Got(t)
<1>1. ForOf(t) # {} /\ g \in Messages /\ g.action # "TranslateFFGAck"
  BY GetsProperties DEF TakeOffer
<1>2. UNCHANGED <<pictureVars, lastRef, clipboard, dialogueVars, undefined>>
  BY DEF TakeOffer
<1>3. translator' \in Programs \cup {None}
  BY DEF TakeOffer, IInv, TypeOK
<1>4. \E x, u : /\ (x = "scrap" /\ u \in BOOLEAN) \/ (x = "file" /\ u = FALSE)
                /\ Reply(t, <<Accept(t, Self, x, u, g.of)>>)
  <2>1. PICK w \in {<<"scrap", TRUE>>, <<"scrap", FALSE>>, <<"file", FALSE>>} :
          Reply(t, <<Accept(t, Self, w[1], w[2], g.of)>>)
    BY DEF TakeOffer, Accept
  <2> HIDE DEF g
  <2>2. CASE w = <<"scrap", TRUE>>
    <3>1. w[1] = "scrap" /\ w[2] = TRUE
      BY <2>2
    <3> QED
      BY <2>1, <3>1
  <2>3. CASE w = <<"scrap", FALSE>>
    <3>1. w[1] = "scrap" /\ w[2] = FALSE
      BY <2>3
    <3> QED
      BY <2>1, <3>1
  <2>4. CASE w = <<"file", FALSE>>
    <3>1. w[1] = "file" /\ w[2] = FALSE
      BY <2>4
    <3> QED
      BY <2>1, <3>1
  <2> QED
    BY <2>2, <2>3, <2>4
<1>5. PICK x, u : /\ (x = "scrap" /\ u \in BOOLEAN) \/ (x = "file" /\ u = FALSE)
                  /\ Reply(t, <<Accept(t, Self, x, u, g.of)>>)
  BY <1>4
<1> DEFINE m == Accept(t, Self, x, u, g.of)
<1>6. m = Full("DataSaveAck", t, Self, 0, 0, x, u, "image", g.of)
  BY AcceptInFull
<1>7. Reply(t, <<m>>)
  BY <1>5
<1> HIDE DEF m
<1>8. /\ m.action = "DataSaveAck" /\ m.from = t /\ m.to = Self /\ m.my = 0 /\ m.your = 0
      /\ m.file = x /\ m.unsaved = u
  BY <1>6 DEF Full
<1>9. m \in Messages
  <2>1. g.of \in Viewers \cup {None}
    BY <1>1, FieldTypes
  <2>2. x \in {"file", "scrap", "none"} /\ u \in BOOLEAN
    BY <1>5
  <2> HIDE DEF g
  <2> QED
    BY <1>6, <2>1, <2>2, ZeroIsRef DEF Full, Messages
<1>10. Proper(m) /\ Safe(m, lastRef, scrap, kept)
  <2>1. u => x = "scrap"
    BY <1>5
  <2> QED
    BY <1>8, <2>1, TransferAssumption DEF Proper, Safe, BringsScrap
<1> QED
  BY <1>1, <1>2, <1>3, <1>7, <1>9, <1>10, AnsweredStep

(* What it puts in the scrap file answers what this program asked it for.  *)
LEMMA PutInScrapStep ==
  ASSUME IInv, NEW t \in Programs, PutInScrap(t)
  PROVE  IInv' /\ (KeptInv /\ OneAtATime => KeptInv')
<1> DEFINE g == Got(t)
<1>1. /\ ForOf(t) # {} /\ g \in Messages /\ g.action = "DataSaveAck" /\ g.to = t
      /\ KeptInv => Safe(g, lastRef, scrap, kept)
  BY GetsProperties DEF PutInScrap
<1>2. UNCHANGED <<image, kept, lastRef, translator, clipboard, dialogueVars, undefined>>
  BY DEF PutInScrap
<1>3. PICK p \in Pictures, type \in {"image", "foreign"} :
        scrap' = p /\ Reply(t, <<Delivery(t, Self, g.my, TRUE, type)>>)
  BY DEF PutInScrap, Delivery
<1> DEFINE m == Delivery(t, Self, g.my, TRUE, type)
<1>4. m = Full("DataLoad", t, Self, 0, g.my, "scrap", TRUE, type, None)
  BY DeliveryInFull
<1>5. Reply(t, <<m>>)
  BY <1>3
<1> HIDE DEF m
<1>6. /\ m.action = "DataLoad" /\ m.from = t /\ m.to = Self /\ m.my = 0 /\ m.your = g.my
      /\ m.file = "scrap" /\ m.unsaved = TRUE
  BY <1>4 DEF Full
<1>7. m \in Messages
  <2>1. g.my \in Refs
    BY <1>1, FieldTypes
  <2> HIDE DEF g
  <2> QED
    BY <1>4, <2>1, ZeroIsRef DEF Full, Messages
<1>8. Proper(m)
  BY <1>6 DEF Proper
<1>9. /\ mail' \in Seq(Messages) /\ MailInv'
      /\ \A i \in DOMAIN mail' : mail'[i] \in Others(t) \cup {m}
  BY <1>1, <1>5, <1>7, <1>8, OneReply
<1>10. IInv'
  BY <1>2, <1>3, <1>9 DEF IInv, TypeOK, Open, dialogueVars
<1>11. ASSUME KeptInv, OneAtATime
       PROVE  KeptInv'
  <2>1. InExchange(g)
    BY <1>1 DEF InExchange
  <2>2. \A n \in Others(t) : Safe(n, lastRef', scrap', kept')
    BY <1>1, <1>11, <2>1, OthersAreSafe
  <2>3. g.my = lastRef /\ lastRef # 0
    BY <1>1, <1>11, TransferAssumption DEF Safe
  <2>4. Safe(m, lastRef', scrap', kept')
    BY <1>2, <1>6, <2>3 DEF Safe
  <2> QED
    BY <1>2, <1>9, <1>11, <2>2, <2>4, MailKept
<1> QED
  BY <1>10, <1>11

LEMMA TakeFileStep ==
  ASSUME IInv, NEW t \in Programs, TakeFile(t)
  PROVE  IInv' /\ (KeptInv => KeptInv')
<1>1. ForOf(t) # {}
  BY GetsProperties DEF TakeFile
<1>2. UNCHANGED <<image, kept, lastRef, translator, clipboard, dialogueVars, undefined>>
  BY DEF TakeFile
<1>3. scrap' \in {scrap, None}
  BY DEF TakeFile
<1>4. /\ mail' \in Seq(Messages) /\ MailInv'
      /\ \A i \in DOMAIN mail' : mail'[i] \in Others(t)
  BY <1>1, NoReply DEF TakeFile
<1>5. IInv'
  BY <1>2, <1>3, <1>4 DEF IInv, TypeOK, Open, dialogueVars
<1>6. ASSUME KeptInv
      PROVE  KeptInv'
  BY <1>2, <1>3, <1>4, <1>6, OthersStaySafe, MailKept
<1> QED
  BY <1>5, <1>6

(* A translation by a faithful translator is as safe as what is translated.*)
LEMMA TranslateStep ==
  ASSUME IInv, NEW t \in Programs, Translate(t)
  PROVE  IInv' /\ (t \in Faithful /\ KeptInv /\ OneAtATime => KeptInv')
<1> DEFINE g == Got(t)
           a == Message("TranslateFFGAck", t, Self)
<1>1. /\ ForOf(t) # {} /\ g \in Messages /\ g.action = "TranslateFFG"
      /\ KeptInv => Safe(g, lastRef, scrap, kept)
  BY GetsProperties DEF Translate
<1>2. UNCHANGED <<image, kept, lastRef, translator, clipboard, dialogueVars, undefined>>
  BY DEF Translate
<1>3. PICK p \in InFile(g.file), type \in {"image", "unset"},
           your \in Refs, unsaved \in BOOLEAN :
        /\ t \in Faithful => your = g.your /\ unsaved
        /\ scrap' = p /\ Reply(t, <<a, Delivery(t, Self, your, unsaved, type)>>)
  BY DEF Translate, Delivery
<1> DEFINE m == Delivery(t, Self, your, unsaved, type)
<1>4. /\ a = Full("TranslateFFGAck", t, Self, 0, 0, "none", FALSE, "image", None)
      /\ m = Full("DataLoad", t, Self, 0, your, "scrap", unsaved, type, None)
  BY PlainInFull, DeliveryInFull
<1>5. Reply(t, <<a, m>>)
  BY <1>3
<1> HIDE DEF m, a
<1>6. /\ m.action = "DataLoad" /\ m.from = t /\ m.to = Self /\ m.my = 0 /\ m.your = your
      /\ m.file = "scrap" /\ m.unsaved = unsaved
      /\ a.action = "TranslateFFGAck" /\ a.from = t /\ a.to = Self /\ a.my = 0 /\ a.your = 0
      /\ a.unsaved = FALSE
  BY <1>4 DEF Full
<1>7. m \in Messages /\ a \in Messages
  BY <1>4, ZeroIsRef DEF Full, Messages
<1>8. Proper(m) /\ Proper(a)
  BY <1>6, TransferAssumption DEF Proper
<1>9. /\ mail' \in Seq(Messages) /\ MailInv'
      /\ \A i \in DOMAIN mail' : mail'[i] \in Others(t) \cup {a, m}
  BY <1>1, <1>5, <1>6, <1>7, <1>8, TwoReplies
<1>10. p \in Pictures /\ (g.file # "scrap" => p \in kept) /\ (g.file = "scrap" => p = scrap /\ p # None)
  BY InFileType
<1>11. IInv'
  BY <1>2, <1>3, <1>9, <1>10 DEF IInv, TypeOK, Open, dialogueVars
<1>12. ASSUME t \in Faithful, KeptInv, OneAtATime
       PROVE  KeptInv'
  <2>1. InExchange(g)
    BY <1>1 DEF InExchange
  <2>2. \A n \in Others(t) : Safe(n, lastRef', scrap', kept')
    BY <1>1, <1>12, <2>1, OthersAreSafe
  <2>3. p \in kept \/ (g.your = lastRef /\ lastRef # 0)
    BY <1>1, <1>10, <1>12 DEF Safe, BringsScrap
  <2>4. Safe(m, lastRef', scrap', kept') /\ Safe(a, lastRef', scrap', kept')
    BY <1>2, <1>3, <1>6, <1>12, <2>3 DEF Safe, BringsScrap
  <2> QED
    BY <1>2, <1>9, <1>12, <2>2, <2>4, MailKept
<1> QED
  BY <1>11, <1>12

LEMMA IgnoreStep ==
  ASSUME IInv, NEW t \in Programs, Ignore(t)
  PROVE  IInv' /\ (KeptInv => KeptInv')
<1>1. translator' \in Programs \cup {None}
  BY DEF Ignore, IInv, TypeOK
<1> QED
  BY <1>1, TakenStep DEF Ignore

-----------------------------------------------------------------------------
(* The user *)

(* A step of the user's that shows no other picture                        *)
LEMMA StillKept ==
  ASSUME UNCHANGED <<pictureVars, mail, lastRef>>
  PROVE  KeptInv => KeptInv'
<1> SUFFICES ASSUME KeptInv
             PROVE  KeptInv'
  OBVIOUS
<1>1. UNCHANGED image /\ UNCHANGED kept /\ UNCHANGED scrap
  BY DEF pictureVars
<1> QED
  BY <1>1, NoMailKept, MailKept

LEMMA MenuTypes ==
  ASSUME IInv, MenuCloses \/ UNCHANGED <<menu, saving>>
  PROVE  menu' \in {"nothing", "save", "other"} /\ saving' \in Viewers \cup {None}
BY DEF IInv, TypeOK, MenuCloses

LEMMA OpenTypes ==
  ASSUME IInv, UNCHANGED image
  PROVE  /\ Open' = Open /\ image' \in [Viewers -> Images \cup {None}]
         /\ clipboard \in Open \cup {None}
BY DEF IInv, TypeOK, Open

LEMMA QuietStep ==
  ASSUME IInv,
         \/ \E v \in Viewers : Click(v) \/ Copy(v)
         \/ \E m \in {"save", "other"} : OpenMenu(m)
         \/ CloseMenu \/ DragIcon \/ DropAtHome \/ LoseClipboard
  PROVE  IInv' /\ (KeptInv => KeptInv')
<1>1. UNCHANGED <<pictureVars, mail, lastRef, translator>>
  BY DEF Click, Copy, OpenMenu, CloseMenu, DragIcon, DropAtHome, LoseClipboard
<1>2. mail' \in Seq(Messages) /\ MailInv'
  BY <1>1, NoMailTypes
<1>3. clipboard' \in Open' \cup {None}
  <2>1. UNCHANGED image
    BY <1>1 DEF pictureVars
  <2> QED
    BY <2>1, OpenTypes DEF Click, Copy, OpenMenu, CloseMenu, DragIcon, DropAtHome, LoseClipboard
<1>4. /\ menu' \in {"nothing", "save", "other"} /\ saving' \in Viewers \cup {None}
      /\ current' \in Viewers \cup {None}
      /\ closes' \in BOOLEAN /\ dragging' \in BOOLEAN
  <2>1. menu' \in {"nothing", "save", "other"} /\ saving' \in Viewers \cup {None}
    BY MenuTypes DEF Click, Copy, OpenMenu, CloseMenu, DragIcon, DropAtHome, LoseClipboard,
                     dialogueVars, IInv, TypeOK
  <2> QED
    BY <2>1 DEF Click, Copy, OpenMenu, CloseMenu, DragIcon, DropAtHome, LoseClipboard,
                dialogueVars, IInv, TypeOK
<1>5. undefined' \in BOOLEAN
  BY DEF Click, Copy, OpenMenu, CloseMenu, DragIcon, DropAtHome, LoseClipboard, IInv, TypeOK
<1>6. IInv'
  BY <1>1, <1>2, <1>3, <1>4, <1>5 DEF IInv, TypeOK, pictureVars
<1> QED
  BY <1>1, <1>6, StillKept

LEMMA DropStep ==
  ASSUME IInv, NEW t \in Tasks, Drop(t)
  PROVE  IInv' /\ (KeptInv => KeptInv')
<1> DEFINE m == Offer(Self, t, current)
<1>1. /\ MayBegin /\ mail' = Append(mail, m)
      /\ UNCHANGED <<pictureVars, lastRef, translator, clipboard, closes, current, menu>>
  BY DEF Drop, Offer
<1>2. m = Full("DataSave", Self, t, 0, 0, "none", FALSE, "image", current)
  BY OfferInFull
<1> HIDE DEF m
<1>3. /\ m.action = "DataSave" /\ m.from = Self /\ m.my = 0 /\ m.your = 0 /\ m.unsaved = FALSE
  BY <1>2 DEF Full
<1>4. m \in Messages
  <2>1. current \in Viewers \cup {None}
    BY DEF IInv, TypeOK
  <2> QED
    BY <1>2, <2>1, ZeroIsRef DEF Full, Messages, Tasks
<1>5. Proper(m) /\ \A ref, p, files : Safe(m, ref, p, files)
  BY <1>3 DEF Proper, Safe, BringsScrap
<1>6. mail' \in Seq(Messages) /\ MailInv'
  BY <1>1, <1>4, <1>5, BeginProperties
<1>7. /\ saving' \in Viewers \cup {None} /\ dragging' \in BOOLEAN /\ undefined' \in BOOLEAN
  BY DEF Drop, IInv, TypeOK
<1>8. IInv'
  BY <1>1, <1>6, <1>7 DEF IInv, TypeOK, Open, pictureVars
<1>9. KeptInv => KeptInv'
  BY <1>1, <1>4, <1>5, BeginsSafe
<1> QED
  BY <1>8, <1>9

LEMMA PressSaveStep ==
  ASSUME IInv, PressSave
  PROVE  IInv' /\ (KeptInv => KeptInv')
<1>1. UNCHANGED <<scrap, mail, lastRef, translator, clipboard, closes, current, dragging>>
  BY DEF PressSave
<1>2. mail' \in Seq(Messages) /\ MailInv'
  BY <1>1, NoMailTypes
<1>3. menu' \in {"nothing", "save", "other"} /\ saving' \in Viewers \cup {None}
  BY MenuTypes DEF PressSave
<1>4. undefined' \in BOOLEAN
  BY DEF PressSave
<1>5. CASE UNCHANGED <<image, kept>>
  <2>1. IInv'
    BY <1>1, <1>2, <1>3, <1>4, <1>5 DEF IInv, TypeOK, Open
  <2> QED
    BY <1>1, <1>5, <2>1, StillKept DEF pictureVars
<1>6. CASE /\ current \in Open
           /\ kept' = kept \cup {image[current].picture}
           /\ image' = [image EXCEPT ![current] = Show(@.picture, FALSE)]
  <2> DEFINE p == image[current].picture
  <2>1. /\ current \in Viewers /\ p \in Pictures
        /\ image \in [Viewers -> Images \cup {None}] /\ kept \subseteq Pictures
    BY <1>6 DEF IInv, TypeOK, Open, Images
  <2>2. Show(p, FALSE) \in Images /\ Show(p, FALSE).picture = p
    BY <2>1, ShowType
  <2> DEFINE img == Show(p, FALSE)
  <2>3. image' = [image EXCEPT ![current] = img] /\ kept' = kept \cup {p}
    BY <1>6
  <2>4. img \in Images /\ img # None /\ img.picture = p
    BY <2>2, TransferAssumption DEF Images
  <2> HIDE DEF img, p
  <2>5. \A w \in Viewers : image'[w] = IF w = current THEN img ELSE image[w]
    BY <2>1, <2>3
  <2>6. Open' = Open
    BY <1>6, <2>4, <2>5 DEF Open
  <2>7. IInv'
    <3>1. image' \in [Viewers -> Images \cup {None}] /\ kept' \subseteq Pictures
      BY <2>1, <2>3, <2>4
    <3> QED
      BY <1>1, <1>2, <1>3, <1>4, <2>6, <3>1 DEF IInv, TypeOK
  <2>8. ASSUME KeptInv
        PROVE  KeptInv'
    <3>1. UnmodifiedIsKept'
      BY <2>3, <2>4, <2>5, <2>6, <2>8 DEF KeptInv, UnmodifiedIsKept, Open
    <3> QED
      BY <1>1, <2>3, <2>8, <3>1, NoMailKept DEF KeptInv
  <2> QED
    BY <2>7, <2>8
<1> QED
  BY <1>5, <1>6 DEF PressSave

(* A viewer's picture is edited, or goes.                                  *)
LEMMA ViewerStep ==
  ASSUME IInv, NEW v \in Viewers, NEW img \in Images \cup {None}, Load(v, img),
         img # None => img.modified, MenuCloses,
         UNCHANGED <<kept, scrap, mail, lastRef, translator, closes, current, dragging, undefined>>
  PROVE  IInv' /\ (KeptInv => KeptInv')
<1>1. mail' \in Seq(Messages) /\ MailInv'
  BY NoMailTypes
<1>2. menu' \in {"nothing", "save", "other"} /\ saving' \in Viewers \cup {None}
  BY MenuTypes
<1>3. IInv'
  BY <1>1, <1>2, LoadTypes DEF IInv, TypeOK
<1>4. ASSUME KeptInv
      PROVE  KeptInv'
  <2>1. UnmodifiedIsKept'
    BY <1>4, LoadKept DEF KeptInv
  <2> QED
    BY <1>4, <2>1, NoMailKept DEF KeptInv
<1> QED
  BY <1>3, <1>4

LEMMA CloseStep ==
  ASSUME IInv, NEW v \in Viewers, Close(v)
  PROVE  IInv' /\ (KeptInv => KeptInv')
<1>1. Load(v, None)
  BY DestroyIsLoad DEF Close
<1> QED
  BY <1>1, ViewerStep DEF Close

(* An edited picture is another one, and modified.                         *)
LEMMA EditIsLoad ==
  ASSUME IInv, NEW v \in Viewers, Edit(v)
  PROVE  \E p \in Pictures : Load(v, Show(p, TRUE))
<1>1. PICK p \in Pictures : image' = [image EXCEPT ![v].picture = p, ![v].modified = TRUE]
  BY DEF Edit
<1>2. image \in [Viewers -> Images \cup {None}] /\ image[v] \in Images
  BY DEF IInv, TypeOK, Edit, Open
<1>3. [[image[v] EXCEPT !.picture = p] EXCEPT !.modified = TRUE] = Show(p, TRUE)
  <2> DEFINE a == [image[v] EXCEPT !.picture = p]
             b == [a EXCEPT !.modified = TRUE]
  <2>1. a \in [picture : {p}, modified : BOOLEAN]
    BY <1>2 DEF Images
  <2> HIDE DEF a
  <2>2. b \in [picture : {p}, modified : {TRUE}]
    BY <2>1
  <2> HIDE DEF b
  <2>3. b = Show(p, TRUE)
    BY <2>2 DEF Show
  <2> QED
    BY <2>3 DEF a, b
<1>4. image' = [image EXCEPT ![v] = [[image[v] EXCEPT !.picture = p] EXCEPT !.modified = TRUE]]
  BY <1>1, <1>2
<1> QED
  BY <1>3, <1>4 DEF Edit, Load

LEMMA EditStep ==
  ASSUME IInv, NEW v \in Viewers, Edit(v)
  PROVE  IInv' /\ (KeptInv => KeptInv')
<1>1. PICK p \in Pictures : Load(v, Show(p, TRUE))
  BY EditIsLoad
<1>2. Show(p, TRUE) \in Images /\ Show(p, TRUE).modified
  BY ShowType
<1> QED
  BY <1>1, <1>2, ViewerStep DEF Edit

-----------------------------------------------------------------------------
(* What Documents promises *)

PromisedStep == [Desk!Next]_<<image, kept>>

LEMMA StutterPromised ==
  ASSUME UNCHANGED <<image, kept>>
  PROVE  PromisedStep
BY DEF PromisedStep

(* A viewer comes by a picture from a file, or one that is marked, or lets *)
(* its picture go.                                                         *)
LEMMA LoadPromised ==
  ASSUME IInv, NEW v \in Viewers, NEW img \in Images \cup {None}, Load(v, img), UNCHANGED kept,
         img # None => img.modified \/ img.picture \in kept
  PROVE  PromisedStep
<1>1. image' = [image EXCEPT ![v] = img] /\ image \in [Viewers -> Images \cup {None}]
  BY DEF Load, IInv, TypeOK
<1>2. CASE img = None
  <2>1. CASE image[v] = None
    <3>1. image' = image
      BY <1>1, <1>2, <2>1
    <3> QED
      BY <3>1, StutterPromised
  <2>2. CASE image[v] # None
    <3>1. Desk!Close(v)
      BY <1>1, <1>2, <2>2 DEF Desk!Close
    <3> QED
      BY <3>1 DEF PromisedStep, Desk!Next
  <2> QED
    BY <2>1, <2>2
<1>3. CASE img # None
  <2>1. /\ img.picture \in Pictures /\ img.modified \in BOOLEAN
        /\ img = [picture |-> img.picture, modified |-> img.modified]
    BY <1>3 DEF Images
  <2>2. CASE img.modified
    <3>1. img = [picture |-> img.picture, modified |-> TRUE]
      BY <2>1, <2>2
    <3>2. Desk!Take(v, img.picture)
      BY <1>1, <3>1 DEF Desk!Take
    <3> QED
      BY <2>1, <3>2 DEF PromisedStep, Desk!Next
  <2>3. CASE ~ img.modified
    <3>1. img = [picture |-> img.picture, modified |-> FALSE]
      BY <2>1, <2>3
    <3>2. Desk!Load(v, img.picture)
      BY <1>1, <1>3, <2>3, <3>1 DEF Desk!Load
    <3> QED
      BY <2>1, <3>2 DEF PromisedStep, Desk!Next
  <2> QED
    BY <2>1, <2>2, <2>3
<1> QED
  BY <1>2, <1>3

(* A picture goes to a file.                                               *)
LEMMA KeepPromised ==
  ASSUME IInv, NEW v \in Open, kept' = kept \cup {image[v].picture}, NEW b \in BOOLEAN,
         image' = [image EXCEPT ![v] = Show(image[v].picture, b)]
  PROVE  PromisedStep
<1>1. /\ v \in Viewers /\ image[v] # None /\ image[v] \in Images
      /\ image \in [Viewers -> Images \cup {None}]
  BY DEF IInv, TypeOK, Open
<1>2. [image[v] EXCEPT !.modified = b] = Show(image[v].picture, b)
  <2> DEFINE p == image[v].picture
             a == image[v]
             c == [a EXCEPT !.modified = b]
  <2>1. a \in [picture : {p}, modified : BOOLEAN]
    BY <1>1 DEF Images
  <2> HIDE DEF a, p
  <2>2. c \in [picture : {p}, modified : {b}]
    BY <2>1
  <2> HIDE DEF c
  <2>3. c = Show(p, b)
    BY <2>2 DEF Show
  <2> QED
    BY <2>3 DEF a, c, p
<1>3. image' = [image EXCEPT ![v].modified = b]
  BY <1>2
<1>4. Desk!Keep(v)
  BY <1>1, <1>3 DEF Desk!Keep
<1> QED
  BY <1>1, <1>4 DEF PromisedStep, Desk!Next

LEMMA SavePromised ==
  ASSUME IInv, NEW v \in Open, NEW m, Written(v, m)
  PROVE  PromisedStep
<1>1. /\ v \in Viewers /\ image[v] \in Images /\ image \in [Viewers -> Images \cup {None}]
  BY DEF IInv, TypeOK, Open
<1>2. /\ image[v] = Show(image[v].picture, image[v].modified) /\ image[v].modified \in BOOLEAN
  BY <1>1 DEF Images, Show
<1>3. CASE m.file = "scrap"
  BY <1>3, StutterPromised DEF Written, SavedForGood
<1>4. CASE m.file # "scrap" /\ ~ SavedForGood(m)
  <2>1. kept' = kept \cup {image[v].picture} /\ image' = image
    BY <1>4 DEF Written
  <2>2. image' = [image EXCEPT ![v] = Show(image[v].picture, image[v].modified)]
    BY <1>1, <1>2, <2>1
  <2> QED
    BY <1>2, <2>1, <2>2, KeepPromised
<1>5. CASE m.file # "scrap" /\ SavedForGood(m)
  <2> DEFINE p == image[v].picture
             a == image[v]
             c == [a EXCEPT !.modified = FALSE]
  <2>1. kept' = kept \cup {p} /\ image' = [image EXCEPT ![v].modified = FALSE]
    BY <1>5 DEF Written
  <2>2. image' = [image EXCEPT ![v] = c]
    BY <2>1
  <2>3. a \in [picture : {p}, modified : BOOLEAN]
    BY <1>1 DEF Images
  <2> HIDE DEF a, p
  <2>4. c \in [picture : {p}, modified : {FALSE}]
    BY <2>3
  <2> HIDE DEF c
  <2>5. c = Show(p, FALSE)
    BY <2>4 DEF Show
  <2>6. /\ kept' = kept \cup {image[v].picture}
        /\ image' = [image EXCEPT ![v] = Show(image[v].picture, FALSE)]
    BY <2>1, <2>2, <2>5 DEF p
  <2> QED
    BY <2>6, KeepPromised
<1> QED
  BY <1>3, <1>4, <1>5

LEMMA DataLoadPromised ==
  ASSUME IInv, KeptInv, DataLoad
  PROVE  PromisedStep
<1> DEFINE g == Got(Self)
<1>1. /\ g.action = "DataLoad" /\ g.to = Self /\ Safe(g, lastRef, scrap, kept)
  BY GetsProperties DEF DataLoad
<1>2. UNCHANGED kept
  BY DEF DataLoad
<1>3. CASE UNCHANGED image
  BY <1>2, <1>3, StutterPromised
<1>4. ASSUME NEW v \in Viewers, Destroy(v)
      PROVE  PromisedStep
  BY <1>2, <1>4, DestroyIsLoad, LoadPromised
<1>5. ASSUME NEW v \in Viewers, NEW p \in InFile(g.file), Load(v, Show(p, Unsafe(g)))
      PROVE  PromisedStep
  <2> DEFINE img == Show(p, Unsafe(g))
  <2>1. img \in Images /\ img.picture = p /\ img.modified = Unsafe(g)
    BY InFileType, ShowType, UnsafeType
  <2>2. img.modified \/ img.picture \in kept
    BY <1>1, <2>1, BroughtIsKept
  <2>3. Load(v, img)
    BY <1>5
  <2> HIDE DEF img
  <2> QED
    BY <1>2, <2>1, <2>2, <2>3, LoadPromised
<1> QED
  BY <1>3, <1>4, <1>5 DEF DataLoad, LoadInto

LEMMA DataOpenPromised ==
  ASSUME IInv, NEW v \in Viewers, DataOpen(v)
  PROVE  PromisedStep
<1>1. UNCHANGED kept
  BY DEF DataOpen
<1>2. CASE Destroy(v)
  BY <1>1, <1>2, DestroyIsLoad, LoadPromised
<1>3. ASSUME NEW p \in kept, Load(v, Show(p, FALSE))
      PROVE  PromisedStep
  <2>1. p \in Pictures
    BY DEF IInv, TypeOK
  <2>2. Show(p, FALSE) \in Images /\ Show(p, FALSE).picture = p
    BY <2>1, ShowType
  <2> QED
    BY <1>1, <1>3, <2>2, LoadPromised
<1> QED
  BY <1>2, <1>3 DEF DataOpen

LEMMA PressSavePromised ==
  ASSUME IInv, PressSave
  PROVE  PromisedStep
<1>1. CASE UNCHANGED <<image, kept>>
  BY <1>1, StutterPromised
<1>2. CASE /\ current \in Open
           /\ kept' = kept \cup {image[current].picture}
           /\ image' = [image EXCEPT ![current] = Show(@.picture, FALSE)]
  BY <1>2, KeepPromised
<1> QED
  BY <1>1, <1>2 DEF PressSave

LEMMA NextPromised ==
  ASSUME IInv, KeptInv, [Next]_vars
  PROVE  PromisedStep
<1>1. CASE UNCHANGED pictureVars
  BY <1>1, StutterPromised DEF pictureVars
<1>2. CASE UNCHANGED <<image, kept>>
  BY <1>2, StutterPromised
<1>3. CASE UNCHANGED vars \/ DataSave \/ Convert \/ TranslateAck \/ DataRequest \/ LoseClipboard
           \/ CloseMenu \/ DragIcon \/ DropAtHome \/ \E m \in {"save", "other"} : OpenMenu(m)
           \/ \E t \in Tasks : Drop(t)
           \/ \E v \in Viewers : Click(v) \/ Copy(v)
  BY <1>1, <1>3 DEF vars, DataSave, Convert, TranslateAck, DataRequest, LoseClipboard, CloseMenu,
                    DragIcon, DropAtHome, OpenMenu, Drop, Click, Copy
<1>4. CASE \E t \in Programs :
             Begin(t) \/ TakeOffer(t) \/ PutInScrap(t) \/ TakeFile(t) \/ Translate(t) \/ Ignore(t)
  BY <1>1, <1>2, <1>4 DEF Begin, TakeOffer, PutInScrap, TakeFile, Translate, Ignore
<1>5. CASE DataSaveAck
  <2>1. CASE AskedFor \in Open /\ Written(AskedFor, Got(Self))
    BY <2>1, SavePromised
  <2> QED
    BY <1>1, <1>5, <2>1 DEF DataSaveAck
<1>6. CASE DataLoad \/ PressSave \/ \E v \in Viewers : DataOpen(v)
  BY <1>6, DataLoadPromised, PressSavePromised, DataOpenPromised
<1>7. ASSUME NEW v \in Viewers, Close(v)
      PROVE  PromisedStep
  <2>1. Load(v, None) /\ UNCHANGED kept
    BY <1>7, DestroyIsLoad DEF Close
  <2> QED
    BY <2>1, LoadPromised
<1>8. ASSUME NEW v \in Viewers, Edit(v)
      PROVE  PromisedStep
  <2>1. PICK p \in Pictures : Load(v, Show(p, TRUE))
    BY <1>8, EditIsLoad
  <2>2. Show(p, TRUE) \in Images /\ Show(p, TRUE).modified /\ UNCHANGED kept
    BY <1>8, ShowType DEF Edit
  <2> QED
    BY <2>1, <2>2, LoadPromised
<1> QED
  BY <1>3, <1>4, <1>5, <1>6, <1>7, <1>8 DEF Next, Tasks

-----------------------------------------------------------------------------
(* Theorems *)

LEMMA InitHolds ==
  ASSUME Init
  PROVE  IInv /\ KeptInv
<1>1. mail = << >> /\ DOMAIN mail = {} /\ mail \in Seq(Messages)
  BY EmptySeq DEF Init
<1>2. MailInv
  <2>1. Pending(mail) = {}
    BY <1>1 DEF Pending
  <2> QED
    <3>1. Cardinality(Pending(mail)) = 0
      BY <2>1, FS_EmptySet
    <3>2. 0 <= MaxTransfers
      BY TransferAssumption
    <3> QED
      BY <1>1, <3>1, <3>2 DEF MailInv
<1>3. TypeOK
  BY <1>1, ZeroIsRef DEF Init, TypeOK
<1>4. KeptInv
  BY <1>1 DEF Init, KeptInv, UnmodifiedIsKept, Open
<1> QED
  BY <1>2, <1>3, <1>4 DEF IInv

AllFaithful == Programs \subseteq Faithful

LEMMA NextStep ==
  ASSUME IInv, [Next]_vars
  PROVE  IInv' /\ (AllFaithful /\ KeptInv /\ OneAtATime => KeptInv')
<1>1. CASE UNCHANGED vars
  <2>1. /\ UNCHANGED <<pictureVars, lastRef, translator, clipboard, dialogueVars, undefined>>
        /\ UNCHANGED mail
    BY <1>1 DEF vars
  <2>2. mail' \in Seq(Messages) /\ MailInv'
    BY <2>1, NoMailTypes
  <2>3. IInv'
    BY <2>1, <2>2, MailTypes DEF IInv, TypeOK
  <2> QED
    BY <2>1, <2>3, StillKept
<1>2. CASE DataSave
  BY <1>2, DataSaveStep
<1>3. CASE DataSaveAck
  BY <1>3, DataSaveAckStep
<1>4. CASE DataLoad
  BY <1>4, DataLoadStep
<1>5. CASE Convert
  BY <1>5, ConvertStep
<1>6. CASE TranslateAck
  BY <1>6, TranslateAckStep
<1>7. CASE DataRequest
  BY <1>7, DataRequestStep
<1>8. CASE PressSave
  BY <1>8, PressSaveStep
<1>9. CASE \/ LoseClipboard \/ CloseMenu \/ DragIcon \/ DropAtHome
           \/ \E m \in {"save", "other"} : OpenMenu(m)
  BY <1>9, QuietStep
<1>10. CASE Drop(Self)
  BY <1>10, DropStep DEF Tasks
<1>11. ASSUME NEW t \in Programs,
              \/ Begin(t) \/ TakeOffer(t) \/ PutInScrap(t) \/ TakeFile(t)
              \/ Translate(t) \/ Ignore(t) \/ Drop(t)
       PROVE  IInv' /\ (AllFaithful /\ KeptInv /\ OneAtATime => KeptInv')
  <2>1. t \in Tasks /\ (AllFaithful => t \in Faithful)
    BY DEF Tasks, AllFaithful
  <2> QED
    BY <1>11, <2>1, BeginStep, TakeOfferStep, PutInScrapStep, TakeFileStep, TranslateStep,
       IgnoreStep, DropStep
<1>12. ASSUME NEW v \in Viewers,
              Click(v) \/ Edit(v) \/ Copy(v) \/ Close(v) \/ DataOpen(v)
       PROVE  IInv' /\ (AllFaithful /\ KeptInv /\ OneAtATime => KeptInv')
  BY <1>12, QuietStep, EditStep, CloseStep, DataOpenStep
<1> QED
  BY <1>1, <1>2, <1>3, <1>4, <1>5, <1>6, <1>7, <1>8, <1>9, <1>10, <1>11, <1>12 DEF Next

(* The invariant holds of every behaviour.                                 *)
THEOREM Invariance == Spec => []IInv
<1>1. Init => IInv
  BY InitHolds
<1>2. IInv /\ [Next]_vars => IInv'
  BY NextStep
<1> QED
  BY <1>1, <1>2, PTL DEF Spec

(* Messages are what the protocol knows, however many transfers overlap:   *)
(* in particular an answer always gets a reference of its own.             *)
THEOREM TypeCorrect == Spec => []TypeOK
<1>1. IInv => TypeOK
  BY DEF IInv
<1> QED
  BY Invariance, <1>1, PTL

(* Provided that the translators return what they are given, as long as    *)
(* one exchange through the scrap file goes on at a time, among any loads  *)
(* of the user's files, a viewer that is not marked as modified shows a    *)
(* picture that is in a file (dataxfer.c, 222).                            *)
THEOREM KeptUnlessOverlapping ==
  Programs \subseteq Faithful => (Spec /\ []OneAtATime => []UnmodifiedIsKept)
<1> SUFFICES ASSUME AllFaithful
             PROVE  Spec /\ []OneAtATime => []UnmodifiedIsKept
  BY DEF AllFaithful
<1>1. Init => KeptInv
  BY InitHolds
<1>2. IInv /\ KeptInv /\ OneAtATime /\ [Next]_vars => KeptInv'
  BY NextStep
<1>3. KeptInv => UnmodifiedIsKept
  BY DEF KeptInv
<1> QED
  BY Invariance, <1>1, <1>2, <1>3, PTL DEF Spec

(* One transfer at a time is one exchange at a time.                       *)
LEMMA OneTransfer ==
  ASSUME MaxTransfers = 1, IInv
  PROVE  OneAtATime
<1>1. mail \in Seq(Messages) /\ Cardinality(Pending(mail)) <= 1
  BY DEF IInv, TypeOK, MailInv
<1>2. IsFiniteSet(Pending(mail)) /\ Cardinality(Pending(mail)) \in Nat
  BY <1>1, PendingIsFinite
<1>3. Pending(mail) = {} \/ \E x : Pending(mail) = {x}
  <2>1. Cardinality(Pending(mail)) = 0 \/ Cardinality(Pending(mail)) = 1
    BY <1>1, <1>2
  <2> QED
    BY <1>2, <2>1, FS_EmptySet, FS_Singleton
<1>4. ASSUME NEW i \in DOMAIN mail, InExchange(mail[i])
      PROVE  i \in Pending(mail)
  BY <1>4 DEF InExchange, Pending
<1> QED
  BY <1>3, <1>4 DEF OneAtATime

(* ... which is what transfer_safety checks, and why transfer_overlap      *)
(* needs two.                                                              *)
THEOREM KeptOneByOne ==
  MaxTransfers = 1 /\ Programs \subseteq Faithful => (Spec => []UnmodifiedIsKept)
<1> SUFFICES ASSUME MaxTransfers = 1, Programs \subseteq Faithful
             PROVE  Spec => []UnmodifiedIsKept
  OBVIOUS
<1>1. IInv => OneAtATime
  BY OneTransfer
<1>2. Spec /\ []OneAtATime => []UnmodifiedIsKept
  BY KeptUnlessOverlapping
<1> QED
  BY Invariance, <1>1, <1>2, PTL

(* On the same conditions viewers come by pictures, keep them and lose     *)
(* them as Documents says: one that is told to be saved is in a file then, *)
(* one from the scrap file is marked as modified (dataxfer.c, 159, 222).   *)
THEOREM PromisedUnlessOverlapping ==
  Programs \subseteq Faithful => (Spec /\ []OneAtATime => Promise)
<1> SUFFICES ASSUME AllFaithful
             PROVE  Spec /\ []OneAtATime => Promise
  BY DEF AllFaithful
<1>1. Init => KeptInv /\ Desk!Init
  BY InitHolds DEF Init, Desk!Init
<1>2. IInv /\ KeptInv /\ OneAtATime /\ [Next]_vars => KeptInv'
  BY NextStep
<1>3. IInv /\ KeptInv /\ [Next]_vars => [Desk!Next]_<<image, kept>>
  BY NextPromised DEF PromisedStep
<1> QED
  BY Invariance, <1>1, <1>2, <1>3, PTL DEF Spec, Promise, Desk!Spec

(* One transfer at a time, as transfer_safety has it.                      *)
THEOREM PromisedOneByOne ==
  MaxTransfers = 1 /\ Programs \subseteq Faithful => (Spec => Promise)
<1> SUFFICES ASSUME MaxTransfers = 1, Programs \subseteq Faithful
             PROVE  Spec => Promise
  OBVIOUS
<1>1. IInv => OneAtATime
  BY OneTransfer
<1>2. Spec /\ []OneAtATime => Promise
  BY PromisedUnlessOverlapping
<1> QED
  BY Invariance, <1>1, <1>2, PTL
=============================================================================
