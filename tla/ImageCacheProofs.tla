-------------------------- MODULE ImageCacheProofs --------------------------
(***************************************************************************)
(* Proofs about ImageCache, for any number of images, files, viewers and   *)
(* entries, and for any sizes: its invariant first, then that it keeps its *)
(* promise, ReadThroughCache.                                              *)
(***************************************************************************)
EXTENDS ImageCache, FiniteSetTheorems, SequenceTheorems, TLAPS

-----------------------------------------------------------------------------
(* The array as a sequence without repetitions *)

Elems(s) == { s[j] : j \in DOMAIN s }

Distinct(s) == \A j, k \in DOMAIN s : s[j] = s[k] => j = k

(* Removing one entry of a sequence closes the gap it leaves.              *)
LEMMA RemoveAtProperties ==
  ASSUME NEW S, NEW s \in Seq(S), NEW k \in DOMAIN s
  PROVE  /\ RemoveAt(s, k) \in Seq(S)
         /\ Len(RemoveAt(s, k)) = Len(s) - 1
         /\ \A j \in 1 .. Len(s) - 1 :
              RemoveAt(s, k)[j] = IF j < k THEN s[j] ELSE s[j + 1]
<1> DEFINE a == SubSeq(s, 1, k - 1)
           b == SubSeq(s, k + 1, Len(s))
<1>0. k \in 1 .. Len(s) /\ Len(s) \in Nat
  BY LenProperties
<1>1. /\ a \in Seq(S)
      /\ Len(a) = k - 1
      /\ \A j \in 1 .. k - 1 : a[j] = s[j]
  <2>1. \A j \in 1 .. k - 1 : s[j] \in S
    BY <1>0, ElementOfSeq
  <2> QED
    BY <1>0, <2>1, SubSeqProperties
<1>2. /\ b \in Seq(S)
      /\ Len(b) = Len(s) - k
      /\ \A j \in 1 .. Len(s) - k : b[j] = s[k + j]
  <2>1. \A j \in k + 1 .. Len(s) : s[j] \in S
    BY <1>0, ElementOfSeq
  <2> QED
    BY <1>0, <2>1, SubSeqProperties
<1> HIDE DEF a, b
<1> DEFINE c == RemoveAt(s, k)
<1>3. /\ c \in Seq(S)
      /\ Len(c) = Len(a) + Len(b)
      /\ \A j \in 1 .. Len(a) + Len(b) :
           c[j] = IF j <= Len(a) THEN a[j] ELSE b[j - Len(a)]
  <2>1. c = a \o b
    BY DEF RemoveAt, a, b
  <2> HIDE DEF c
  <2> QED
    BY <1>1, <1>2, <2>1, ConcatProperties
<1> HIDE DEF c
<1>4. Len(c) = Len(s) - 1
  BY <1>0, <1>1, <1>2, <1>3
<1>5. ASSUME NEW j \in 1 .. Len(s) - 1
      PROVE  c[j] = IF j < k THEN s[j] ELSE s[j + 1]
  <2>0. c[j] = IF j <= k - 1 THEN a[j] ELSE b[j - (k - 1)]
    <3>1. Len(a) = k - 1 /\ Len(b) = Len(s) - k
      BY <1>1, <1>2
    <3>2. j \in 1 .. Len(a) + Len(b)
      BY <1>0, <3>1
    <3>3. c[j] = IF j <= Len(a) THEN a[j] ELSE b[j - Len(a)]
      BY <1>3, <3>2
    <3> QED
      BY <3>1, <3>3
  <2>1. CASE j < k
    BY <1>0, <1>1, <2>0, <2>1
  <2>2. CASE j >= k
    <3>1. j - (k - 1) \in 1 .. Len(s) - k /\ k + (j - (k - 1)) = j + 1
      BY <1>0, <2>2
    <3>2. b[j - (k - 1)] = s[j + 1]
      BY <1>2, <3>1
    <3> QED
      BY <1>0, <2>0, <2>2, <3>2
  <2> QED
    BY <1>0, <2>1, <2>2
<1> QED
  BY <1>3, <1>4, <1>5 DEF c

(* Removing one of distinct entries removes one element.                   *)
LEMMA RemoveAtElems ==
  ASSUME NEW S, NEW s \in Seq(S), NEW k \in DOMAIN s, Distinct(s)
  PROVE  /\ Distinct(RemoveAt(s, k))
         /\ Elems(RemoveAt(s, k)) = Elems(s) \ {s[k]}
<1> DEFINE t == RemoveAt(s, k)
<1>1. /\ t \in Seq(S)
      /\ Len(t) = Len(s) - 1
      /\ \A j \in 1 .. Len(s) - 1 : t[j] = IF j < k THEN s[j] ELSE s[j + 1]
  BY RemoveAtProperties
<1>2. /\ DOMAIN s = 1 .. Len(s) /\ Len(s) \in Nat /\ k \in 1 .. Len(s)
      /\ DOMAIN t = 1 .. Len(s) - 1
  BY <1>1, LenProperties
<1> HIDE DEF t
<1>3. Distinct(t)
  <2> SUFFICES ASSUME NEW i \in DOMAIN t, NEW j \in DOMAIN t, t[i] = t[j]
               PROVE  i = j
    BY DEF Distinct
  <2> DEFINE From(n) == IF n < k THEN n ELSE n + 1
  <2>1. \A n \in DOMAIN t : From(n) \in DOMAIN s /\ t[n] = s[From(n)]
    BY <1>1, <1>2
  <2>2. From(i) = From(j) => i = j
    BY <1>2
  <2> HIDE DEF From
  <2> QED
    BY <2>1, <2>2 DEF Distinct
<1>4. ASSUME NEW x \in Elems(t)
      PROVE  x \in Elems(s) \ {s[k]}
  <2>1. PICK j \in 1 .. Len(s) - 1 : x = t[j]
    BY <1>2 DEF Elems
  <2>2. CASE j < k
    <3>1. x = s[j] /\ j \in DOMAIN s /\ j # k
      BY <1>1, <1>2, <2>1, <2>2
    <3> QED
      BY <3>1 DEF Elems, Distinct
  <2>3. CASE j >= k
    <3>1. x = s[j + 1] /\ j + 1 \in DOMAIN s /\ j + 1 # k
      BY <1>1, <1>2, <2>1, <2>3
    <3> QED
      BY <3>1 DEF Elems, Distinct
  <2> QED
    BY <1>2, <2>2, <2>3
<1>5. ASSUME NEW x \in Elems(s) \ {s[k]}
      PROVE  x \in Elems(t)
  <2>1. PICK j \in 1 .. Len(s) : x = s[j] /\ j # k
    BY <1>2 DEF Elems
  <2>2. CASE j < k
    <3>1. j \in DOMAIN t /\ t[j] = x
      BY <1>1, <1>2, <2>1, <2>2
    <3> QED
      BY <3>1 DEF Elems
  <2>3. CASE j > k
    <3>1. j - 1 \in DOMAIN t /\ t[j - 1] = x
      BY <1>1, <1>2, <2>1, <2>3
    <3> QED
      BY <3>1 DEF Elems
  <2> QED
    BY <1>2, <2>1, <2>2, <2>3
<1> QED
  BY <1>3, <1>4, <1>5 DEF t

(* A new element at the end of distinct entries.                           *)
LEMMA AppendElems ==
  ASSUME NEW S, NEW s \in Seq(S), NEW e \in S, Distinct(s), e \notin Elems(s)
  PROVE  /\ Append(s, e) \in Seq(S)
         /\ Distinct(Append(s, e))
         /\ Elems(Append(s, e)) = Elems(s) \cup {e}
<1> DEFINE t == Append(s, e)
<1>1. /\ t \in Seq(S)
      /\ Len(t) = Len(s) + 1
      /\ \A j \in 1 .. Len(s) : t[j] = s[j]
      /\ t[Len(s) + 1] = e
  BY AppendProperties
<1>2. /\ DOMAIN s = 1 .. Len(s) /\ Len(s) \in Nat
      /\ DOMAIN t = 1 .. Len(s) + 1
  BY <1>1, LenProperties
<1> HIDE DEF t
<1>3. Distinct(t)
  BY <1>1, <1>2 DEF Distinct, Elems
<1>4. Elems(t) = Elems(s) \cup {e}
  <2>1. ASSUME NEW x \in Elems(t) PROVE x \in Elems(s) \cup {e}
    BY <1>1, <1>2 DEF Elems
  <2>2. ASSUME NEW x \in Elems(s) PROVE x \in Elems(t)
    BY <1>1, <1>2 DEF Elems
  <2>3. e \in Elems(t)
    <3>1. Len(s) + 1 \in DOMAIN t
      BY <1>2
    <3> QED
      BY <1>1, <3>1 DEF Elems
  <2> QED
    BY <2>1, <2>2, <2>3
<1> QED
  BY <1>1, <1>3, <1>4 DEF t

(* Moving an entry to the end leaves the set of entries alone.             *)
LEMMA MoveToEndElems ==
  ASSUME NEW S, NEW s \in Seq(S), NEW k \in DOMAIN s, Distinct(s)
  PROVE  /\ Append(RemoveAt(s, k), s[k]) \in Seq(S)
         /\ Distinct(Append(RemoveAt(s, k), s[k]))
         /\ Elems(Append(RemoveAt(s, k), s[k])) = Elems(s)
<1>1. s[k] \in S
  BY LenProperties, ElementOfSeq
<1>2. /\ RemoveAt(s, k) \in Seq(S)
      /\ Distinct(RemoveAt(s, k))
      /\ Elems(RemoveAt(s, k)) = Elems(s) \ {s[k]}
  BY RemoveAtProperties, RemoveAtElems
<1> DEFINE t == RemoveAt(s, k)
<1> HIDE DEF t
<1>3. /\ Append(t, s[k]) \in Seq(S)
      /\ Distinct(Append(t, s[k]))
      /\ Elems(Append(t, s[k])) = Elems(t) \cup {s[k]}
  <2>1. t \in Seq(S) /\ Distinct(t) /\ s[k] \notin Elems(t)
    BY <1>2 DEF t
  <2> QED
    BY <1>1, <2>1, AppendElems
<1>4. s[k] \in Elems(s)
  BY DEF Elems
<1> QED
  BY <1>2, <1>3, <1>4 DEF t

-----------------------------------------------------------------------------
(* The bytes of a set of images *)

Bytes(S, sz) == UNION { {i} \X (1 .. sz[i]) : i \in S }

LEMMA BytesFinite ==
  ASSUME NEW S \in SUBSET Images, NEW sz \in [Images -> Nat]
  PROVE  /\ IsFiniteSet(Bytes(S, sz))
         /\ Cardinality(Bytes(S, sz)) \in Nat
<1> DEFINE T == { {i} \X (1 .. sz[i]) : i \in S }
           f == [i \in S |-> {i} \X (1 .. sz[i])]
<1>1. IsFiniteSet(S)
  BY CacheAssumption, FS_Subset DEF CacheAssumption
<1>2. f \in Surjection(S, T)
  <2>1. f \in [S -> T]
    OBVIOUS
  <2>2. \A U \in T : \E i \in S : f[i] = U
    OBVIOUS
  <2> HIDE DEF T, f
  <2> QED
    BY <2>1, <2>2 DEF Surjection
<1>3. IsFiniteSet(T)
  <2> HIDE DEF T, f
  <2> QED
    BY <1>1, <1>2, FS_Surjection
<1>4. \A U \in T : IsFiniteSet(U)
  <2>1. ASSUME NEW i \in S PROVE IsFiniteSet({i} \X (1 .. sz[i]))
    <3>0. sz[i] \in Nat
      OBVIOUS
    <3>1. IsFiniteSet({i})
      BY FS_Singleton
    <3>2. IsFiniteSet(1 .. sz[i])
      BY <3>0, FS_Interval
    <3> QED
      BY <3>1, <3>2, FS_Product
  <2> QED
    BY <2>1
<1>5. IsFiniteSet(UNION T)
  <2> HIDE DEF T, f
  <2> QED
    BY <1>3, <1>4, FS_UNION
<1> QED
  BY <1>5, FS_CardinalityType DEF Bytes

LEMMA OwnBytes ==
  ASSUME NEW x \in Images, NEW sz \in [Images -> Nat]
  PROVE  /\ IsFiniteSet({x} \X (1 .. sz[x]))
         /\ Cardinality({x} \X (1 .. sz[x])) = sz[x]
<1>1. IsFiniteSet({x}) /\ Cardinality({x}) = 1
  BY FS_Singleton
<1>2. sz[x] \in Nat
  OBVIOUS
<1>3. IsFiniteSet(1 .. sz[x]) /\ Cardinality(1 .. sz[x]) = sz[x]
  BY <1>2, FS_Interval
<1>4. Cardinality({x} \X (1 .. sz[x])) = 1 * sz[x] /\ IsFiniteSet({x} \X (1 .. sz[x]))
  BY <1>1, <1>3, FS_Product
<1> QED
  BY <1>2, <1>4

(* Another image adds its bytes; so an image that goes takes its bytes.    *)
LEMMA BytesAdd ==
  ASSUME NEW S \in SUBSET Images, NEW x \in Images \ S, NEW sz \in [Images -> Nat]
  PROVE  Cardinality(Bytes(S \cup {x}, sz)) = Cardinality(Bytes(S, sz)) + sz[x]
<1> DEFINE A == Bytes(S, sz)
           B == {x} \X (1 .. sz[x])
<1>1. Bytes(S \cup {x}, sz) = A \cup B
  BY DEF Bytes
<1>2. A \cap B = {}
  BY DEF Bytes
<1>3. IsFiniteSet(A) /\ IsFiniteSet(B) /\ Cardinality(B) = sz[x]
      /\ Cardinality(A) \in Nat
  BY BytesFinite, OwnBytes
<1> HIDE DEF A, B
<1>4. Cardinality(A \cup B) = Cardinality(A) + Cardinality(B) - Cardinality({})
  <2>1. Cardinality(A \cup B) = Cardinality(A) + Cardinality(B) - Cardinality(A \cap B)
    BY <1>3, FS_Union
  <2> QED
    BY <1>2, <2>1
<1>5. Cardinality({}) = 0 /\ sz[x] \in Nat
  BY FS_EmptySet
<1>6. Cardinality(A \cup B) = Cardinality(A) + sz[x]
  BY <1>3, <1>4, <1>5
<1> QED
  BY <1>1, <1>6 DEF A, B

LEMMA BytesRemove ==
  ASSUME NEW S \in SUBSET Images, NEW x \in S, NEW sz \in [Images -> Nat]
  PROVE  Cardinality(Bytes(S \ {x}, sz)) = Cardinality(Bytes(S, sz)) - sz[x]
<1>1. (S \ {x}) \cup {x} = S /\ S \ {x} \in SUBSET Images /\ x \in Images \ (S \ {x})
  OBVIOUS
<1>2. Cardinality(Bytes(S, sz)) = Cardinality(Bytes(S \ {x}, sz)) + sz[x]
  BY <1>1, BytesAdd
<1>3. Cardinality(Bytes(S \ {x}, sz)) \in Nat /\ sz[x] \in Nat
  BY <1>1, BytesFinite
<1> QED
  BY <1>2, <1>3

LEMMA BytesNone ==
  ASSUME NEW sz
  PROVE  Cardinality(Bytes({}, sz)) = 0
<1>1. Bytes({}, sz) = {}
  BY DEF Bytes
<1> QED
  BY <1>1, FS_EmptySet

(* The bytes depend on the sizes of these images only.                     *)
LEMMA BytesSame ==
  ASSUME NEW S, NEW sz, NEW tz, \A i \in S : sz[i] = tz[i]
  PROVE  Bytes(S, sz) = Bytes(S, tz)
BY DEF Bytes

LEMMA IdleBytesAreBytes == IdleBytes = Cardinality(Bytes(Idle, size))
BY DEF IdleBytes, BytesOf, Bytes

-----------------------------------------------------------------------------
(* The holders of an image *)

HoldersOf(g, i) == { v \in Viewers : g[v] = i }

LEMMA HoldersFinite ==
  ASSUME NEW g, NEW i
  PROVE  IsFiniteSet(HoldersOf(g, i)) /\ Cardinality(HoldersOf(g, i)) \in Nat
<1>1. IsFiniteSet(HoldersOf(g, i))
  BY CacheAssumption, FS_Subset DEF HoldersOf, CacheAssumption
<1> QED
  BY <1>1, FS_CardinalityType

(* A viewer which takes an image is one holder more.                       *)
LEMMA HoldersGain ==
  ASSUME NEW g \in [Viewers -> Images \cup {None}],
         NEW v \in Viewers, NEW i \in Images, g[v] # i
  PROVE  Cardinality(HoldersOf([g EXCEPT ![v] = i], i)) =
           Cardinality(HoldersOf(g, i)) + 1
<1>1. /\ HoldersOf([g EXCEPT ![v] = i], i) = HoldersOf(g, i) \cup {v}
      /\ v \notin HoldersOf(g, i)
  BY DEF HoldersOf
<1>2. IsFiniteSet(HoldersOf(g, i))
  BY HoldersFinite
<1> QED
  BY <1>1, <1>2, FS_AddElement

(* A viewer which lets its image go is one holder less.                    *)
LEMMA HoldersLose ==
  ASSUME NEW g \in [Viewers -> Images \cup {None}],
         NEW v \in Viewers, g[v] # None
  PROVE  Cardinality(HoldersOf([g EXCEPT ![v] = None], g[v])) =
           Cardinality(HoldersOf(g, g[v])) - 1
<1>1. /\ HoldersOf([g EXCEPT ![v] = None], g[v]) = HoldersOf(g, g[v]) \ {v}
      /\ v \in HoldersOf(g, g[v])
  BY DEF HoldersOf
<1>2. IsFiniteSet(HoldersOf(g, g[v]))
  BY HoldersFinite
<1> QED
  BY <1>1, <1>2, FS_RemoveElement

LEMMA SoleHolder ==
  ASSUME NEW g, NEW i, Cardinality(HoldersOf(g, i)) = 1,
         NEW v \in Viewers, NEW w \in Viewers, g[v] = i, g[w] = i
  PROVE  v = w
<1>1. IsFiniteSet(HoldersOf(g, i)) /\ v \in HoldersOf(g, i)
  BY HoldersFinite DEF HoldersOf
<1>2. Cardinality(HoldersOf(g, i) \ {v}) = 0 /\ IsFiniteSet(HoldersOf(g, i) \ {v})
  BY <1>1, FS_RemoveElement
<1>3. HoldersOf(g, i) \ {v} = {}
  BY <1>2, FS_EmptySet
<1> QED
  BY <1>3 DEF HoldersOf

LEMMA SomeHolder ==
  ASSUME NEW g, NEW i, NEW v \in Viewers, g[v] = i
  PROVE  Cardinality(HoldersOf(g, i)) >= 1
<1>1. IsFiniteSet(HoldersOf(g, i)) /\ HoldersOf(g, i) # {}
      /\ Cardinality(HoldersOf(g, i)) \in Nat
  BY HoldersFinite DEF HoldersOf
<1>2. Cardinality(HoldersOf(g, i)) # 0
  BY <1>1, FS_EmptySet
<1> QED
  BY <1>1, <1>2

-----------------------------------------------------------------------------
(* The inductive invariant. The properties about images need each other:   *)
(* an image may be evicted safely only because a count of zero means that  *)
(* nobody has it.                                                          *)

(* TypeOK of all but the rotate dialogue, and of that.                     *)
CoreType ==
  /\ live \subseteq Images
  /\ name \in [Images -> Files \cup {NoName}]
  /\ refcount \in [Images -> Nat]
  /\ size \in [Images -> Nat]
  /\ modified \subseteq live
  /\ watched \subseteq live
  /\ entries \in Seq(Images)
  /\ maxidle \in Nat
  /\ viewing \in [Viewers -> Images \cup {None}]
  /\ pc \in Calls
  /\ call \in [viewer: Viewers \cup {None}, file: Files \cup {NoName},
               index: Nat, need: Int, limit: Nat]

DialogueType == rotating \in Images \cup {None} /\ strained \in BOOLEAN

LEMMA TypeParts == TypeOK <=> CoreType /\ DialogueType
BY DEF TypeOK, CoreType, DialogueType

Structure ==
  /\ CoreType
  /\ HeldAreCached
  /\ HoldersAreCounted
  /\ WatchedAreViewed

Holder == viewing[call.viewer]

(* What a call in progress knows of its viewer and of that viewer's image. *)
CallOK ==
  /\ pc \in {"load", "discard"} =>
       call.viewer \in Viewers /\ call.file \in Files /\ Holder = None
  /\ pc \in {"makeroom", "retire"} =>
       /\ call.viewer \in Viewers
       /\ Holder # None
       /\ refcount[Holder] = 1
       /\ Holder \notin modified
       /\ call.index \in Nat \ {0}

(* What the evictions have still to find for the bytes to fit.             *)
Budget ==
  /\ IdleBytes <= maxidle
  /\ pc = "makeroom" => /\ size[Holder] <= maxidle
                        /\ IdleBytes + size[Holder] <= maxidle + call.need
  /\ pc = "retire" => IdleBytes + size[Holder] <= maxidle
  /\ pc = "shrink" => IdleBytes <= call.limit + call.need
  /\ pc = "resize" => IdleBytes <= call.limit

(* The dialogue may turn an idle image, after which the budget is spoilt.  *)
Base == Structure /\ CallOK

IInv == Base /\ DialogueType /\ (strained \/ Budget)

(* What the lemmas show of each step.                                      *)
Keeps == Base' /\ (Budget => Budget')

(* The facts about entries every step below starts from.                   *)
LEMMA EntriesType ==
  ASSUME CoreType
  PROVE  /\ Entries = Elems(entries)
         /\ Entries \subseteq Images
         /\ Idle \subseteq Entries
         /\ \A k \in DOMAIN entries : entries[k] \in Entries
         /\ IdleBytes \in Nat
<1>1. Entries = Elems(entries) /\ Idle \subseteq Entries
      /\ \A k \in DOMAIN entries : entries[k] \in Entries
  BY DEF Entries, Elems, Idle
<1>2. ASSUME NEW k \in DOMAIN entries PROVE entries[k] \in Images
  <2>1. entries \in Seq(Images) /\ k \in 1 .. Len(entries)
    BY LenProperties DEF CoreType
  <2> QED
    BY <2>1, ElementOfSeq
<1>3. Entries \subseteq Images
  BY <1>2 DEF Entries
<1>4. Idle \in SUBSET Images /\ size \in [Images -> Nat]
  BY <1>1, <1>3 DEF CoreType
<1>5. IdleBytes \in Nat
  BY <1>4, IdleBytesAreBytes, BytesFinite
<1> QED
  BY <1>1, <1>3, <1>5

(* The same of the state a step leads to.                                  *)
LEMMA IdleBytesTypeNext ==
  ASSUME CoreType'
  PROVE  IdleBytes' \in Nat
<1>1. ASSUME NEW k \in DOMAIN entries' PROVE entries'[k] \in Images
  <2>1. entries' \in Seq(Images) /\ k \in 1 .. Len(entries')
    BY LenProperties DEF CoreType
  <2> QED
    BY <2>1, ElementOfSeq
<1>2. Idle' \in SUBSET Images /\ size' \in [Images -> Nat]
  BY <1>1 DEF Idle, Entries, CoreType
<1>3. IdleBytes' = Cardinality(Bytes(Idle', size'))
  BY DEF IdleBytes, BytesOf, Bytes
<1> QED
  BY <1>2, <1>3, BytesFinite

(* A viewer's image is an entry which counts a reference and is not idle.  *)
LEMMA HeldIsCounted ==
  ASSUME Structure, NEW v \in Viewers, viewing[v] # None
  PROVE  /\ viewing[v] \in Images
         /\ viewing[v] \in Entries
         /\ viewing[v] \in Viewed
         /\ refcount[viewing[v]] \in Nat
         /\ refcount[viewing[v]] >= 1
         /\ viewing[v] \notin Idle
<1>1. viewing[v] \in Viewed
  BY DEF Viewed
<1>2. viewing[v] \in Entries
  BY <1>1 DEF Structure, HeldAreCached
<1>3. viewing[v] \in Images /\ refcount[viewing[v]] \in Nat
  BY DEF Structure, CoreType
<1>4. refcount[viewing[v]] = Cardinality(HoldersOf(viewing, viewing[v]))
  BY <1>2 DEF Structure, HoldersAreCounted, Holders, HoldersOf
<1>5. refcount[viewing[v]] >= 1
  BY <1>4, SomeHolder
<1>6. viewing[v] \notin Idle
  BY <1>3, <1>5 DEF Idle
<1> QED
  BY <1>1, <1>2, <1>3, <1>5, <1>6

(* Nobody has an idle image, so no window shows it.                        *)
LEMMA IdleUnviewed ==
  ASSUME Structure
  PROVE  /\ Idle \cap Viewed = {}
         /\ Idle \cap watched = {}
<1>1. ASSUME NEW i \in Idle, i \in Viewed PROVE FALSE
  <2>1. PICK v \in Viewers : viewing[v] = i /\ viewing[v] # None
    BY <1>1 DEF Viewed
  <2> QED
    BY <2>1, HeldIsCounted
<1> QED
  BY <1>1 DEF Structure, WatchedAreViewed

(* A viewer whose image counts one reference is the only one to have it.   *)
LEMMA SoleViewer ==
  ASSUME Structure, NEW v \in Viewers, viewing[v] # None, refcount[viewing[v]] = 1,
         NEW w \in Viewers, viewing[w] = viewing[v]
  PROVE  w = v
<1>1. viewing[v] \in Entries
  BY HeldIsCounted
<1>2. Cardinality(HoldersOf(viewing, viewing[v])) = 1
  BY <1>1 DEF Structure, HoldersAreCounted, Holders, HoldersOf
<1> QED
  BY <1>2, SoleHolder

-----------------------------------------------------------------------------
(* What the steps have in common *)

(* Nothing that idles comes, goes or changes its size.                     *)
LEMMA IdleSame ==
  ASSUME CoreType, Idle' = Idle, \A i \in Idle : size'[i] = size[i]
  PROVE  IdleBytes' = IdleBytes
<1>1. IdleBytes' = Cardinality(Bytes(Idle, size'))
  BY DEF IdleBytes, BytesOf, Bytes
<1>2. Bytes(Idle, size') = Bytes(Idle, size)
  BY BytesSame
<1> QED
  BY <1>1, <1>2, IdleBytesAreBytes

(* An entry is destroyed, and whoever had its image has it no more.        *)
LEMMA DestroyEffect ==
  ASSUME Structure, NEW k \in DOMAIN entries, DestroyEntry(k),
         viewing' = [w \in Viewers |->
                       IF viewing[w] = entries[k] THEN None ELSE viewing[w]]
  PROVE  /\ entries[k] \in Images
         /\ entries' \in Seq(Images)
         /\ Entries' = Entries \ {entries[k]}
         /\ Viewed' = Viewed \ {entries[k]}
         /\ Idle' = Idle \ {entries[k]}
         /\ HeldAreCached' /\ HoldersAreCounted' /\ WatchedAreViewed'
<1> DEFINE x == entries[k]
<1>1. /\ entries \in Seq(Images) /\ Distinct(entries)
      /\ Entries = Elems(entries) /\ x \in Images /\ Entries \subseteq Images
  BY EntriesType DEF Structure, CoreType, HeldAreCached, Distinct
<1>2. /\ entries' \in Seq(Images)
      /\ Distinct(entries')
      /\ Elems(entries') = Elems(entries) \ {x}
  BY <1>1, RemoveAtProperties, RemoveAtElems DEF DestroyEntry
<1>3. /\ live' = live \ {x}
      /\ refcount' = [refcount EXCEPT ![x] = 0]
      /\ modified' = modified \ {x}
      /\ watched' = watched \ {x}
  BY DEF DestroyEntry, DestroyImage
<1>4. Entries' = Entries \ {x}
  BY <1>1, <1>2 DEF Entries, Elems
<1>5. Viewed' = Viewed \ {x}
  BY DEF Viewed
<1>6. Idle' = Idle \ {x}
  BY <1>1, <1>3, <1>4 DEF Idle, Structure, CoreType
<1>7. HeldAreCached'
  BY <1>2, <1>3, <1>4, <1>5 DEF HeldAreCached, Structure, Distinct
<1>8. HoldersAreCounted'
  <2>1. ASSUME NEW i \in Entries \ {x} PROVE refcount'[i] = Cardinality(Holders(i)')
    <3>1. Holders(i)' = Holders(i)
      BY <1>1, <2>1, CacheAssumption DEF Holders, CacheAssumption
    <3>2. refcount'[i] = refcount[i]
      BY <1>1, <1>3, <2>1 DEF Structure, CoreType
    <3> QED
      BY <2>1, <3>1, <3>2 DEF Structure, HoldersAreCounted
  <2> QED
    BY <1>4, <2>1 DEF HoldersAreCounted
<1>9. WatchedAreViewed'
  BY <1>3, <1>5 DEF WatchedAreViewed, Structure
<1> QED
  BY <1>1, <1>2, <1>4, <1>5, <1>6, <1>7, <1>8, <1>9

(* An eviction: an idle entry goes and its bytes with it.                  *)
LEMMA EvictEffect ==
  ASSUME Structure, NEW k \in DOMAIN entries, refcount[entries[k]] = 0,
         DestroyEntry(k), UNCHANGED viewing
  PROVE  /\ entries[k] \in Idle
         /\ entries' \in Seq(Images)
         /\ HeldAreCached' /\ HoldersAreCounted' /\ WatchedAreViewed'
         /\ size[entries[k]] \in Nat
         /\ IdleBytes' = IdleBytes - size[entries[k]]
         /\ \A v \in Viewers : viewing[v] # None =>
              /\ refcount'[viewing[v]] = refcount[viewing[v]]
              /\ size'[viewing[v]] = size[viewing[v]]
              /\ viewing[v] \in modified' <=> viewing[v] \in modified
<1> DEFINE x == entries[k]
<1>1. x \in Entries /\ x \in Images /\ x \in Idle /\ Idle \subseteq Images
  BY EntriesType DEF Structure, Idle
<1>2. \A v \in Viewers : viewing[v] # x
  <2>1. ASSUME NEW v \in Viewers, viewing[v] = x PROVE FALSE
    <3>1. viewing[v] # None
      BY <1>1, <2>1, CacheAssumption DEF CacheAssumption
    <3> QED
      BY <1>1, <2>1, <3>1, HeldIsCounted
  <2> QED
    BY <2>1
<1>3. viewing' = [w \in Viewers |-> IF viewing[w] = x THEN None ELSE viewing[w]]
  BY <1>2 DEF Structure, CoreType
<1>4. /\ entries' \in Seq(Images) /\ Idle' = Idle \ {x}
      /\ HeldAreCached' /\ HoldersAreCounted' /\ WatchedAreViewed'
  BY <1>3, DestroyEffect
<1>5. /\ refcount' = [refcount EXCEPT ![x] = 0]
      /\ size' = [size EXCEPT ![x] = 0]
      /\ modified' = modified \ {x}
  BY DEF DestroyEntry, DestroyImage
<1>6. size \in [Images -> Nat] /\ refcount \in [Images -> Nat]
  BY DEF Structure, CoreType
<1>7. IdleBytes' = IdleBytes - size[x]
  <2>1. IdleBytes' = Cardinality(Bytes(Idle \ {x}, size'))
    BY <1>4 DEF IdleBytes, BytesOf, Bytes
  <2>2. Bytes(Idle \ {x}, size') = Bytes(Idle \ {x}, size)
    <3>1. \A i \in Idle \ {x} : size'[i] = size[i]
      BY <1>1, <1>5, <1>6
    <3> QED
      BY <3>1, BytesSame
  <2>3. Cardinality(Bytes(Idle \ {x}, size)) = Cardinality(Bytes(Idle, size)) - size[x]
    BY <1>1, <1>6, BytesRemove
  <2> QED
    BY <2>1, <2>2, <2>3, IdleBytesAreBytes
<1>8. ASSUME NEW v \in Viewers, viewing[v] # None
      PROVE  /\ refcount'[viewing[v]] = refcount[viewing[v]]
             /\ size'[viewing[v]] = size[viewing[v]]
             /\ viewing[v] \in modified' <=> viewing[v] \in modified
  BY <1>2, <1>5, <1>6, <1>8, HeldIsCounted
<1> QED
  BY <1>1, <1>4, <1>6, <1>7, <1>8

(* A step which leaves images, entries and viewers alone.                  *)
LEMMA QuietEffect ==
  ASSUME Structure, UNCHANGED <<imageVars, entries, viewing>>
  PROVE  /\ HeldAreCached' /\ HoldersAreCounted' /\ WatchedAreViewed'
         /\ IdleBytes' = IdleBytes
<1>1. Entries' = Entries /\ Idle' = Idle /\ Viewed' = Viewed
  BY DEF imageVars, Entries, Idle, Viewed
<1>2. \A i \in Entries : Holders(i)' = Holders(i)
  BY DEF Holders
<1>3. HeldAreCached' /\ HoldersAreCounted' /\ WatchedAreViewed'
  BY <1>1, <1>2 DEF imageVars, Structure, HeldAreCached, HoldersAreCounted,
                    WatchedAreViewed
<1>4. IdleBytes' = IdleBytes
  BY <1>1, IdleSame DEF imageVars, Structure
<1> QED
  BY <1>3, <1>4

(* The types of what is left when an entry is destroyed.                   *)
LEMMA DestroyType ==
  ASSUME Structure, NEW k \in DOMAIN entries, DestroyEntry(k)
  PROVE  /\ live' \subseteq Images
         /\ name' \in [Images -> Files \cup {NoName}]
         /\ refcount' \in [Images -> Nat]
         /\ size' \in [Images -> Nat]
         /\ modified' \subseteq live'
         /\ watched' \subseteq live'
         /\ entries' \in Seq(Images)
<1>1. entries' \in Seq(Images)
  BY RemoveAtProperties DEF DestroyEntry, Structure, CoreType
<1> QED
  BY <1>1 DEF DestroyEntry, DestroyImage, Structure, CoreType

(* A viewer takes an image which is, or has become, an entry: the image    *)
(* counts it, and ceases to idle.                                          *)
LEMMA AcquireEffect ==
  ASSUME Structure, NEW v \in Viewers, viewing[v] = None, NEW x \in Images,
         x \in Entries', Entries \subseteq Entries', Entries' \subseteq Entries \cup {x},
         Entries' \subseteq live', \A j, k \in DOMAIN entries' : entries'[j] = entries'[k] => j = k,
         viewing' = [viewing EXCEPT ![v] = x],
         x \in Entries => refcount' = [refcount EXCEPT ![x] = @ + 1] /\ UNCHANGED size,
         x \notin Entries => /\ refcount' = [refcount EXCEPT ![x] = 1]
                             /\ \A i \in Images \ {x} : size'[i] = size[i],
         size' \in [Images -> Nat],
         modified' = modified, watched' = watched
  PROVE  /\ HeldAreCached' /\ HoldersAreCounted' /\ WatchedAreViewed'
         /\ IdleBytes' <= IdleBytes
<1>1. /\ viewing \in [Viewers -> Images \cup {None}] /\ refcount \in [Images -> Nat]
      /\ Entries \subseteq Images /\ x # None
      /\ size \in [Images -> Nat]
  BY EntriesType, CacheAssumption DEF Structure, CoreType, CacheAssumption
<1>2. Viewed' = Viewed \cup {x}
  BY <1>1 DEF Viewed
<1>3. HeldAreCached'
  BY <1>2 DEF HeldAreCached, Structure
<1>4. \A i \in Images \ {x} : Holders(i)' = Holders(i)
  BY <1>1, CacheAssumption DEF Holders, CacheAssumption
<1>5. Cardinality(Holders(x)') = Cardinality(Holders(x)) + 1
  BY <1>1, HoldersGain DEF Holders, HoldersOf
<1>6. refcount'[x] = Cardinality(Holders(x)')
  <2>1. CASE x \in Entries
    BY <1>1, <1>5, <2>1 DEF Structure, HoldersAreCounted
  <2>2. CASE x \notin Entries
    <3>1. Holders(x) = {}
      BY <1>1, <2>2 DEF Holders, Structure, HeldAreCached, Viewed
    <3>2. Cardinality(Holders(x)) = 0
      BY <3>1, FS_EmptySet
    <3> QED
      BY <1>1, <1>5, <2>2, <3>2
  <2> QED
    BY <2>1, <2>2
<1>7. \A i \in Images \ {x} : refcount'[i] = refcount[i]
  BY <1>1
<1>8. HoldersAreCounted'
  BY <1>1, <1>4, <1>6, <1>7 DEF HoldersAreCounted, Structure
<1>9. WatchedAreViewed'
  BY <1>2 DEF WatchedAreViewed, Structure
<1>10. refcount'[x] # 0
  <2>1. Holders(x) = HoldersOf(viewing, x)
    BY DEF Holders, HoldersOf
  <2>2. Cardinality(Holders(x)) \in Nat
    BY <2>1, HoldersFinite
  <2> QED
    BY <1>5, <1>6, <2>2
<1>11. Idle' = Idle \ {x}
  BY <1>1, <1>7, <1>10 DEF Idle
<1>12. IdleBytes' <= IdleBytes
  <2>1. CASE x \in Idle
    <3>0. size' = size
      BY <2>1 DEF Idle
    <3>1. IdleBytes' = Cardinality(Bytes(Idle \ {x}, size))
      BY <1>11, <3>0 DEF IdleBytes, BytesOf, Bytes
    <3>2. IdleBytes' = IdleBytes - size[x] /\ size[x] \in Nat /\ IdleBytes \in Nat
      BY <1>1, <2>1, <3>1, BytesRemove, IdleBytesAreBytes, EntriesType DEF Idle, Structure
    <3> QED
      BY <3>2
  <2>2. CASE x \notin Idle
    <3>1. Idle' = Idle
      BY <1>11, <2>2
    <3>2. \A i \in Idle : size'[i] = size[i]
      BY <1>1, <2>2 DEF Idle
    <3>3. IdleBytes' = IdleBytes /\ IdleBytes \in Nat
      BY <3>1, <3>2, IdleSame, EntriesType DEF Structure
    <3> QED
      BY <3>3
  <2> QED
    BY <2>1, <2>2
<1> QED
  BY <1>3, <1>8, <1>9, <1>12

-----------------------------------------------------------------------------
(* imagecache_get keeps the invariant                                      *)

LEMMA GetCachedStep ==
  ASSUME Base, NEW v \in Viewers, NEW f \in Files, GetCached(v, f)
  PROVE  Keeps
<1>1. PICK k \in DOMAIN entries :
        /\ entries' = MakeYoungest(k)
        /\ AddRef(entries[k])
        /\ viewing' = [viewing EXCEPT ![v] = entries[k]]
  BY DEF GetCached
<1>2. /\ pc = "ready" /\ pc' = "ready" /\ viewing[v] = None
      /\ UNCHANGED <<live, name, size, modified, watched, maxidle, call>>
  BY DEF GetCached
<1> DEFINE x == entries[k]
<1>3. /\ x \in Entries /\ x \in Images /\ Entries = Elems(entries)
      /\ entries \in Seq(Images) /\ Distinct(entries)
  BY EntriesType DEF Base, Structure, CoreType, HeldAreCached, Distinct
<1>4. /\ entries' \in Seq(Images) /\ Distinct(entries') /\ Elems(entries') = Entries
  BY <1>1, <1>3, MoveToEndElems DEF MakeYoungest
<1>5. Entries' = Entries
  BY <1>4 DEF Entries, Elems
<1>6. refcount' = [refcount EXCEPT ![x] = @ + 1]
  BY <1>1 DEF AddRef
<1>7. CoreType'
  <2>1. refcount' \in [Images -> Nat] /\ viewing' \in [Viewers -> Images \cup {None}]
    BY <1>1, <1>3, <1>6 DEF CoreType, Base, Structure
  <2> QED
    BY <1>2, <1>4, <2>1 DEF CoreType, Keeps, Base, Structure
<1>8. /\ HeldAreCached' /\ HoldersAreCounted' /\ WatchedAreViewed'
      /\ IdleBytes' <= IdleBytes
  <2>1. Entries' \subseteq live'
    BY <1>2, <1>5 DEF Base, Structure, HeldAreCached
  <2>2. size' \in [Images -> Nat]
    BY <1>7 DEF CoreType
  <2>3. \A j, l \in DOMAIN entries' : entries'[j] = entries'[l] => j = l
    BY <1>4 DEF Distinct
  <2> QED
    BY <1>1, <1>2, <1>3, <1>5, <1>6, <2>1, <2>2, <2>3, AcquireEffect DEF Base
<1>9. IdleBytes \in Nat /\ IdleBytes' \in Nat /\ maxidle \in Nat
  <2>1. IdleBytes' \in Nat
    BY <1>7, IdleBytesTypeNext
  <2> QED
    BY <2>1, EntriesType DEF Keeps, Base, Structure, CoreType
<1>10. Budget => IdleBytes' <= maxidle'
  BY <1>2, <1>8, <1>9 DEF Base, Budget
<1> QED
  BY <1>2, <1>7, <1>8, <1>10 DEF Keeps, Base, Structure, CallOK, Budget

LEMMA GetUncachedStep ==
  ASSUME Base, NEW v \in Viewers, NEW f \in Files, GetUncached(v, f)
  PROVE  Keeps
<1>1. /\ UNCHANGED <<imageVars, entries, maxidle, viewing>>
      /\ pc' = "load" /\ call' = [NoCall EXCEPT !.viewer = v, !.file = f]
      /\ viewing[v] = None
  BY DEF GetUncached
<1>2. /\ HeldAreCached' /\ HoldersAreCounted' /\ WatchedAreViewed'
      /\ IdleBytes' = IdleBytes
  BY <1>1, QuietEffect DEF Base
<1>3. CoreType'
  <2>1. call' = [viewer |-> v, file |-> f, index |-> 0, need |-> 0, limit |-> 0]
    BY <1>1 DEF NoCall
  <2>2. call' \in [viewer: Viewers \cup {None}, file: Files \cup {NoName},
                   index: Nat, need: Int, limit: Nat]
    BY <2>1
  <2> QED
    BY <1>1, <2>2 DEF CoreType, Keeps, Base, Structure, imageVars, Calls
<1>4. CallOK'
  BY <1>1 DEF CallOK, Holder, NoCall
<1>5. Budget => Budget'
  BY <1>1, <1>2 DEF Budget, Base
<1> QED
  BY <1>2, <1>3, <1>4, <1>5 DEF Keeps, Base, Structure

LEMMA LoadInsertsStep ==
  ASSUME Base, NEW i \in Images, LoadInserts(i)
  PROVE  Keeps
<1>1. /\ pc = "load" /\ pc' = "ready" /\ call' = NoCall
      /\ i \notin live /\ live' = live \cup {i}
      /\ refcount' = [refcount EXCEPT ![i] = 1]
      /\ name' = [name EXCEPT ![i] = call.file]
      /\ size' = [size EXCEPT ![i] = FileSize[call.file]]
      /\ entries' = Append(entries, i)
      /\ viewing' = [viewing EXCEPT ![call.viewer] = i]
      /\ UNCHANGED <<modified, watched, maxidle>>
  BY DEF LoadInserts, CreateImage, Return
<1>2. /\ call.viewer \in Viewers /\ call.file \in Files /\ viewing[call.viewer] = None
  BY <1>1 DEF Base, CallOK, Holder
<1>3. /\ entries \in Seq(Images) /\ Distinct(entries) /\ Entries = Elems(entries)
      /\ Entries \subseteq live /\ i \notin Entries
  BY <1>1, EntriesType DEF Base, Structure, CoreType, HeldAreCached, Distinct
<1>4. /\ entries' \in Seq(Images) /\ Distinct(entries')
      /\ Elems(entries') = Entries \cup {i}
  BY <1>1, <1>3, AppendElems
<1>5. Entries' = Entries \cup {i}
  BY <1>4 DEF Entries, Elems
<1>6. FileSize[call.file] \in Nat
  BY <1>2, CacheAssumption DEF CacheAssumption
<1>7. CoreType'
  <2>1. live' \subseteq Images /\ modified' \subseteq live' /\ watched' \subseteq live'
    BY <1>1 DEF CoreType, Base, Structure
  <2>2. /\ name' \in [Images -> Files \cup {NoName}]
        /\ refcount' \in [Images -> Nat] /\ size' \in [Images -> Nat]
    BY <1>1, <1>2, <1>6 DEF CoreType, Base, Structure
  <2>3. viewing' \in [Viewers -> Images \cup {None}] /\ maxidle' \in Nat
    BY <1>1 DEF CoreType, Base, Structure
  <2>4. pc' \in Calls /\ call' \in [viewer: Viewers \cup {None}, file: Files \cup {NoName},
                                   index: Nat, need: Int, limit: Nat]
    BY <1>1 DEF NoCall, Calls
  <2> QED
    BY <1>4, <2>1, <2>2, <2>3, <2>4 DEF CoreType
<1>8. /\ HeldAreCached' /\ HoldersAreCounted' /\ WatchedAreViewed'
      /\ IdleBytes' <= IdleBytes
  <2>1. Entries' \subseteq live'
    BY <1>1, <1>3, <1>5
  <2>2. size' \in [Images -> Nat] /\ \A j \in Images \ {i} : size'[j] = size[j]
    BY <1>1, <1>7 DEF CoreType, Base, Structure
  <2>3. \A j, l \in DOMAIN entries' : entries'[j] = entries'[l] => j = l
    BY <1>4 DEF Distinct
  <2> QED
    BY <1>1, <1>2, <1>3, <1>5, <2>1, <2>2, <2>3, AcquireEffect DEF Base
<1>9. IdleBytes \in Nat /\ IdleBytes' \in Nat /\ maxidle \in Nat
  BY <1>7, IdleBytesTypeNext, EntriesType DEF Base, Structure, CoreType
<1>10. Budget => IdleBytes' <= maxidle'
  BY <1>1, <1>8, <1>9 DEF Base, Budget
<1> QED
  BY <1>1, <1>7, <1>8, <1>10 DEF Keeps, Base, Structure, CallOK, Budget

(* The image which is made although the array is full is no entry.         *)
LEMMA LoadFindsCacheFullStep ==
  ASSUME Base, NEW i \in Images, LoadFindsCacheFull(i)
  PROVE  Keeps
<1>1. /\ pc = "load" /\ pc' = "ready" /\ call' = NoCall
      /\ i \notin live /\ live' = live \cup {i}
      /\ refcount' = [refcount EXCEPT ![i] = 1]
      /\ name' = [name EXCEPT ![i] = call.file]
      /\ size' = [size EXCEPT ![i] = FileSize[call.file]]
      /\ UNCHANGED <<modified, watched, entries, maxidle, viewing>>
  BY DEF LoadFindsCacheFull, CreateImage, Return
<1>2. call.file \in Files /\ FileSize[call.file] \in Nat
  BY <1>1, CacheAssumption DEF Base, CallOK, CacheAssumption
<1>3. CoreType'
  BY <1>1, <1>2 DEF CoreType, Base, Structure, NoCall, Calls
<1>4. Entries' = Entries /\ Viewed' = Viewed /\ i \notin Entries /\ Entries \subseteq Images
  BY <1>1, EntriesType DEF Entries, Viewed, Base, Structure, HeldAreCached
<1>5. \A j \in Entries : refcount'[j] = refcount[j] /\ size'[j] = size[j]
  BY <1>1, <1>4 DEF CoreType, Base, Structure
<1>6. \A j \in Entries : Holders(j)' = Holders(j)
  BY <1>1 DEF Holders
<1>7. HeldAreCached' /\ HoldersAreCounted' /\ WatchedAreViewed'
  BY <1>1, <1>4, <1>5, <1>6
     DEF Base, Structure, HeldAreCached, HoldersAreCounted, WatchedAreViewed
<1>8. Idle' = Idle /\ \A j \in Idle : size'[j] = size[j]
  BY <1>4, <1>5 DEF Idle
<1>9. IdleBytes' = IdleBytes
  BY <1>8, IdleSame DEF Base, Structure
<1> QED
  BY <1>1, <1>3, <1>7, <1>9 DEF Keeps, Base, Structure, CallOK, Budget

LEMMA LoadFailsStep ==
  ASSUME Base, LoadFails
  PROVE  Keeps
<1>1. /\ UNCHANGED <<imageVars, entries, maxidle, viewing>>
      /\ pc' = "ready" /\ call' = NoCall
  BY DEF LoadFails, Return
<1>2. /\ HeldAreCached' /\ HoldersAreCounted' /\ WatchedAreViewed'
      /\ IdleBytes' = IdleBytes
  BY <1>1, QuietEffect DEF Base
<1>3. CoreType'
  BY <1>1 DEF CoreType, Base, Structure, imageVars, NoCall, Calls
<1> QED
  BY <1>1, <1>2, <1>3 DEF Keeps, Base, Structure, CallOK, Budget

LEMMA LoadRunsOutOfMemoryStep ==
  ASSUME Base, LoadRunsOutOfMemory
  PROVE  Keeps
<1>1. /\ UNCHANGED <<imageVars, entries, maxidle, viewing, call>>
      /\ pc = "load" /\ pc' = "discard"
  BY DEF LoadRunsOutOfMemory
<1>2. /\ HeldAreCached' /\ HoldersAreCounted' /\ WatchedAreViewed'
      /\ IdleBytes' = IdleBytes
  BY <1>1, QuietEffect DEF Base
<1>3. CoreType'
  BY <1>1 DEF CoreType, Base, Structure, imageVars, Calls
<1>4. CallOK'
  BY <1>1 DEF CallOK, Holder, Base
<1> QED
  BY <1>1, <1>2, <1>3, <1>4 DEF Keeps, Base, Structure, Budget

LEMMA EvictOldestStep ==
  ASSUME Base, EvictOldest
  PROVE  Keeps
<1>1. pc = "discard" /\ pc' = "load" /\ UNCHANGED <<maxidle, viewing, call>>
  BY DEF EvictOldest
<1>2. CallOK'
  BY <1>1 DEF Base, CallOK, Holder
<1>3. ASSUME NEW k \in DOMAIN entries, OldestIdle(k), DestroyEntry(k)
      PROVE  Keeps
  <2>1. CoreType'
    BY <1>1, <1>3, DestroyType DEF Base, Structure, CoreType, Calls
  <2>2. /\ HeldAreCached' /\ HoldersAreCounted' /\ WatchedAreViewed'
        /\ IdleBytes' = IdleBytes - size[entries[k]] /\ size[entries[k]] \in Nat
    BY <1>1, <1>3, EvictEffect DEF OldestIdle, Base
  <2>3. IdleBytes \in Nat /\ maxidle \in Nat
    BY EntriesType DEF Base, Structure, CoreType
  <2>4. Budget => Budget'
    BY <1>1, <2>2, <2>3 DEF Budget, Base
  <2> QED
    BY <1>2, <2>1, <2>2, <2>4 DEF Keeps, Base, Structure
<1>4. ASSUME UNCHANGED <<imageVars, entries>>
      PROVE  Keeps
  <2>1. /\ HeldAreCached' /\ HoldersAreCounted' /\ WatchedAreViewed'
        /\ IdleBytes' = IdleBytes
    BY <1>1, <1>4, QuietEffect DEF Base
  <2>2. CoreType'
    BY <1>1, <1>4 DEF CoreType, Base, Structure, imageVars, Calls
  <2> QED
    BY <1>1, <1>2, <2>1, <2>2 DEF Keeps, Base, Structure, Budget
<1> QED
  BY <1>3, <1>4 DEF EvictOldest

-----------------------------------------------------------------------------
(* imagecache_dispose keeps the invariant                                  *)

LEMMA DisposeSharedStep ==
  ASSUME Base, NEW v \in Viewers, DisposeShared(v)
  PROVE  Keeps
<1>0. PICK x : x = viewing[v]
  OBVIOUS
<1>1. /\ pc = "ready" /\ x # None /\ refcount[x] > 1
      /\ refcount' = [refcount EXCEPT ![x] = @ - 1]
      /\ viewing' = [viewing EXCEPT ![v] = None]
      /\ UNCHANGED <<live, name, size, modified, watched, entries, maxidle, pc, call>>
  BY <1>0 DEF DisposeShared
<1>2. /\ x \in Images /\ x \in Entries /\ x \notin Idle /\ refcount[x] \in Nat
      /\ Entries \subseteq Images
  BY <1>0, <1>1, HeldIsCounted, EntriesType DEF Base, Structure
<1>3. CoreType'
  BY <1>1, <1>2 DEF CoreType, Base, Structure
<1>4. PICK w \in Viewers : w # v /\ viewing[w] = x
  <2>1. refcount[x] = Cardinality(HoldersOf(viewing, x))
    BY <1>2 DEF Base, Structure, HoldersAreCounted, Holders, HoldersOf
  <2>2. ASSUME \A w \in Viewers \ {v} : viewing[w] # x PROVE FALSE
    <3>1. HoldersOf(viewing, x) = {v}
      BY <1>0, <2>2 DEF HoldersOf
    <3>2. Cardinality({v}) = 1
      BY FS_Singleton
    <3> QED
      BY <1>1, <2>1, <3>1, <3>2
  <2> QED
    BY <2>2
<1>5. Viewed' = Viewed /\ Entries' = Entries
  <2>1. Viewed' = Viewed
    BY <1>0, <1>1, <1>4 DEF Viewed, Base, Structure, CoreType
  <2> QED
    BY <1>1, <2>1 DEF Entries
<1>6. HeldAreCached' /\ WatchedAreViewed'
  BY <1>1, <1>5 DEF Base, Structure, HeldAreCached, WatchedAreViewed
<1>7. HoldersAreCounted'
  <2>1. Cardinality(Holders(x)') = Cardinality(Holders(x)) - 1
    <3>1. viewing \in [Viewers -> Images \cup {None}]
      BY DEF Base, Structure, CoreType
    <3>2. Cardinality(HoldersOf([viewing EXCEPT ![v] = None], x)) =
            Cardinality(HoldersOf(viewing, x)) - 1
      BY <1>0, <1>1, <3>1, HoldersLose
    <3> QED
      BY <1>0, <1>1, <3>2 DEF Holders, HoldersOf
  <2>2. refcount'[x] = Cardinality(Holders(x)')
    BY <1>1, <1>2, <2>1 DEF Base, Structure, CoreType, HoldersAreCounted
  <2>3. ASSUME NEW i \in Entries \ {x} PROVE refcount'[i] = Cardinality(Holders(i)')
    <3>1. Holders(i)' = Holders(i)
      BY <1>0, <1>1, <1>2, <2>3, CacheAssumption
         DEF Holders, CacheAssumption, Base, Structure, CoreType
    <3>2. refcount'[i] = refcount[i]
      BY <1>1, <1>2, <2>3 DEF Base, Structure, CoreType
    <3> QED
      BY <2>3, <3>1, <3>2 DEF Keeps, Base, Structure, HoldersAreCounted
  <2> QED
    BY <1>5, <2>2, <2>3 DEF HoldersAreCounted
<1>8. IdleBytes' = IdleBytes
  <2>1. Idle' = Idle
    BY <1>1, <1>2, <1>5 DEF Idle, Base, Structure, CoreType
  <2> QED
    BY <1>1, <2>1, IdleSame DEF Keeps, Base, Structure
<1> QED
  BY <1>1, <1>3, <1>6, <1>7, <1>8 DEF Keeps, Base, Structure, CallOK, Budget

(* Where an image is in the array.                                         *)
LEMMA PositionProperties ==
  ASSUME Structure, NEW v \in Viewers, viewing[v] # None
  PROVE  /\ Position(viewing[v]) \in DOMAIN entries
         /\ Position(viewing[v]) \in Nat \ {0}
         /\ entries[Position(viewing[v])] = viewing[v]
<1>1. \E k \in DOMAIN entries : entries[k] = viewing[v]
  BY HeldIsCounted DEF Entries
<1>2. Position(viewing[v]) \in DOMAIN entries /\ entries[Position(viewing[v])] = viewing[v]
  BY <1>1 DEF Position
<1>3. DOMAIN entries = 1 .. Len(entries)
  BY LenProperties DEF Structure, CoreType
<1> QED
  BY <1>2, <1>3

LEMMA DisposeDestroysStep ==
  ASSUME Base, NEW v \in Viewers, DisposeDestroys(v)
  PROVE  Keeps
<1> DEFINE x == viewing[v]
           k == Position(x)
<1>1. /\ pc = "ready" /\ x # None /\ refcount[x] = 1
      /\ DestroyEntry(k)
      /\ viewing' = [viewing EXCEPT ![v] = None]
      /\ UNCHANGED <<maxidle, pc, call>>
  BY DEF DisposeDestroys
<1>2. k \in DOMAIN entries /\ entries[k] = x
  BY <1>1, PositionProperties DEF Base
<1>3. viewing' = [w \in Viewers |-> IF viewing[w] = entries[k] THEN None ELSE viewing[w]]
  <2>1. \A w \in Viewers : viewing[w] = x => w = v
    BY <1>1, SoleViewer DEF Base
  <2>2. viewing \in [Viewers -> Images \cup {None}]
    BY DEF Base, Structure, CoreType
  <2> HIDE DEF k
  <2> QED
    BY <1>1, <1>2, <2>1, <2>2
<1> HIDE DEF k
<1>4. /\ HeldAreCached' /\ HoldersAreCounted' /\ WatchedAreViewed'
      /\ Idle' = Idle \ {x}
  BY <1>1, <1>2, <1>3, DestroyEffect DEF Base
<1>5. CoreType'
  <2>1. viewing' \in [Viewers -> Images \cup {None}]
    BY <1>1 DEF Base, Structure, CoreType
  <2> QED
    BY <1>1, <1>2, <2>1, DestroyType DEF Keeps, Base, Structure, CoreType
<1>6. IdleBytes' = IdleBytes
  <2>1. x \notin Idle /\ x \in Images /\ Idle \subseteq Images
    BY <1>1, HeldIsCounted, EntriesType DEF Base, Structure
  <2>2. Idle' = Idle
    BY <1>4, <2>1
  <2>3. \A i \in Idle : size'[i] = size[i]
    BY <1>1, <1>2, <2>1 DEF DestroyEntry, DestroyImage, Base, Structure, CoreType
  <2> QED
    BY <2>2, <2>3, IdleSame DEF Keeps, Base, Structure
<1> QED
  BY <1>1, <1>4, <1>5, <1>6 DEF Keeps, Base, Structure, CallOK, Budget

(* What is left for idle images, where the difference does not wrap.       *)
LEMMA FreeBytesType ==
  ASSUME IdleBytes \in Nat, maxidle \in Nat
  PROVE  /\ FreeBytes \in Int
         /\ IdleBytes <= maxidle => FreeBytes = maxidle - IdleBytes
<1>1. (maxidle - IdleBytes) % Word \in Int
  BY CacheAssumption DEF CacheAssumption
<1> QED
  BY <1>1 DEF FreeBytes

LEMMA DisposeRetainsStep ==
  ASSUME Base, NEW v \in Viewers, DisposeRetains(v)
  PROVE  Keeps
<1> DEFINE x == viewing[v]
           k == Position(x)
           n == size[x] - FreeBytes
<1>1. /\ x # None /\ refcount[x] = 1 /\ x \notin modified /\ size[x] <= maxidle
      /\ UNCHANGED <<imageVars, entries, maxidle, viewing>>
  BY DEF DisposeRetains, Retainable
<1>2. k \in Nat \ {0} /\ x \in Images
  BY <1>1, PositionProperties, HeldIsCounted DEF Base
<1>3. /\ size[x] \in Nat /\ maxidle \in Nat /\ IdleBytes \in Nat
      /\ viewing \in [Viewers -> Images \cup {None}]
  BY <1>2, EntriesType DEF Base, Structure, CoreType
<1>4. \/ /\ pc' = "makeroom"
         /\ call' = [NoCall EXCEPT !.viewer = v, !.index = k,
                                   !.need = n]
      \/ /\ size[x] <= FreeBytes
         /\ pc' = "retire"
         /\ call' = [NoCall EXCEPT !.viewer = v, !.index = k]
  BY DEF DisposeRetains
<1>10. /\ FreeBytes \in Int /\ n \in Int
       /\ IdleBytes <= maxidle => FreeBytes = maxidle - IdleBytes
  BY <1>3, FreeBytesType
<1>11. IdleBytes <= maxidle => n = size[x] - (maxidle - IdleBytes)
  BY <1>3, <1>10
<1> HIDE DEF k, n
<1>5. /\ HeldAreCached' /\ HoldersAreCounted' /\ WatchedAreViewed'
      /\ IdleBytes' = IdleBytes
  BY <1>1, QuietEffect DEF Base
<1>6. call'.viewer = v /\ call'.index = k /\ Holder' = x
  <2>1. call'.viewer = v /\ call'.index = k
    BY <1>4 DEF NoCall
  <2> QED
    BY <1>1, <2>1 DEF Holder
<1>7. CoreType'
  <2>1. /\ pc' \in Calls
        /\ call' \in [viewer: Viewers \cup {None}, file: Files \cup {NoName},
                      index: Nat, need: Int, limit: Nat]
    <3>1. \/ call' = [viewer |-> v, file |-> NoName, index |-> k, need |-> n, limit |-> 0]
          \/ call' = [viewer |-> v, file |-> NoName, index |-> k, need |-> 0, limit |-> 0]
      BY <1>4 DEF NoCall
    <3> QED
      BY <1>2, <1>4, <1>10, <3>1 DEF Calls
  <2> QED
    BY <1>1, <2>1 DEF CoreType, Keeps, Base, Structure, imageVars
<1>8. CallOK'
  BY <1>1, <1>2, <1>4, <1>6 DEF CallOK, imageVars
<1>9. ASSUME Budget PROVE Budget'
  <2>0. IdleBytes <= maxidle
    BY <1>9 DEF Budget
  <2>1. CASE pc' = "makeroom"
    <3>1. call'.need = n
      BY <1>4, <2>1 DEF NoCall
    <3>2. IdleBytes + size[x] <= maxidle + call'.need
      BY <1>3, <1>11, <2>0, <3>1
    <3> QED
      BY <1>1, <1>5, <1>6, <2>0, <2>1, <3>2 DEF Budget, imageVars
  <2>2. CASE pc' = "retire" /\ size[x] <= FreeBytes
    <3>1. IdleBytes + size[x] <= maxidle
      BY <1>3, <1>10, <2>0, <2>2
    <3> QED
      BY <1>1, <1>5, <1>6, <2>0, <2>2, <3>1 DEF Budget, imageVars
  <2> QED
    BY <1>4, <2>1, <2>2
<1> QED
  BY <1>5, <1>7, <1>8, <1>9 DEF Keeps, Base, Structure

LEMMA MakeRoomStep ==
  ASSUME Base, MakeRoom
  PROVE  Keeps
<1>1. pc = "makeroom" /\ UNCHANGED <<maxidle, viewing>>
  BY DEF MakeRoom, EvictNBytes
<1>2. PICK v \in Viewers : v = call.viewer
  BY <1>1 DEF Base, CallOK
<1>3. PICK x : x = viewing[v]
  OBVIOUS
<1>4. /\ x # None /\ refcount[x] = 1 /\ x \notin modified /\ call.index \in Nat \ {0}
      /\ Budget => size[x] <= maxidle /\ IdleBytes + size[x] <= maxidle + call.need
      /\ x \in Images /\ call.need \in Int
      /\ IdleBytes \in Nat /\ maxidle \in Nat /\ size[x] \in Nat
  BY <1>1, <1>2, <1>3, EntriesType, HeldIsCounted
     DEF Base, CallOK, Budget, Holder, Structure, CoreType
<1>5. ASSUME NEW k \in DOMAIN entries, OldestIdle(k), DestroyEntry(k),
             call' = [call EXCEPT !.need = call.need - size[entries[k]]],
             pc' = IF call.need - size[entries[k]] <= 0 THEN "retire" ELSE "makeroom"
      PROVE  Keeps
  <2>1. /\ HeldAreCached' /\ HoldersAreCounted' /\ WatchedAreViewed'
        /\ IdleBytes' = IdleBytes - size[entries[k]] /\ size[entries[k]] \in Nat
        /\ refcount'[x] = refcount[x] /\ size'[x] = size[x]
        /\ x \in modified' <=> x \in modified
    BY <1>1, <1>3, <1>4, <1>5, EvictEffect DEF OldestIdle, Base
  <2>2. call.need - size[entries[k]] \in Int
    BY <1>4, <2>1
  <2>3. CoreType'
    BY <1>1, <1>5, <2>2, DestroyType DEF Base, Structure, CoreType, Calls
  <2>4. /\ call'.viewer = v /\ call'.index = call.index
        /\ call'.need = call.need - size[entries[k]] /\ Holder' = x
    <3>1. /\ call'.viewer = v /\ call'.index = call.index
          /\ call'.need = call.need - size[entries[k]]
      BY <1>2, <1>5 DEF Base, Structure, CoreType
    <3> QED
      BY <1>1, <1>3, <3>1 DEF Holder
  <2>5. CallOK'
    BY <1>4, <1>5, <2>1, <2>4 DEF CallOK
  <2>6. ASSUME Budget PROVE Budget'
    <3>1. IdleBytes' <= maxidle'
      BY <1>1, <1>4, <2>1, <2>6 DEF Budget
    <3>2. IdleBytes' + size'[x] <= maxidle' + call'.need
      BY <1>1, <1>4, <2>1, <2>4, <2>6
    <3>3. pc' = "retire" => IdleBytes' + size'[x] <= maxidle'
      BY <1>1, <1>4, <1>5, <2>1, <2>6
    <3> QED
      BY <1>1, <1>4, <1>5, <2>1, <2>4, <2>6, <3>1, <3>2, <3>3 DEF Budget
  <2> QED
    BY <2>1, <2>3, <2>5, <2>6 DEF Keeps, Base, Structure
<1>6. ASSUME Idle = {}, pc' = "retire", UNCHANGED <<imageVars, entries, call>>
      PROVE  Keeps
  <2>1. /\ HeldAreCached' /\ HoldersAreCounted' /\ WatchedAreViewed'
        /\ IdleBytes' = IdleBytes
    BY <1>1, <1>6, QuietEffect DEF Base
  <2>2. CoreType'
    BY <1>1, <1>6 DEF CoreType, Base, Structure, imageVars, Calls
  <2>3. Holder' = x
    BY <1>1, <1>2, <1>3, <1>6 DEF Holder
  <2>4. CallOK'
    BY <1>2, <1>4, <1>6, <2>3 DEF CallOK, imageVars
  <2>5. IdleBytes = 0
    BY <1>6, BytesNone, IdleBytesAreBytes
  <2>6. Budget => Budget'
    BY <1>1, <1>4, <1>6, <2>1, <2>3, <2>5 DEF Budget, imageVars
  <2> QED
    BY <2>1, <2>2, <2>4, <2>6 DEF Keeps, Base, Structure
<1> QED
  BY <1>5, <1>6 DEF MakeRoom, EvictNBytes

(* The image idles from here on, whichever entry is moved.                 *)
LEMMA RetireStep ==
  ASSUME Base, Retire
  PROVE  Keeps
<1>1. PICK v \in Viewers : v = call.viewer /\ pc = "retire"
  BY DEF Retire, Base, CallOK
<1>2. PICK x : x = viewing[v]
  OBVIOUS
<1>3. /\ watched' = watched \ {x}
      /\ refcount' = [refcount EXCEPT ![x] = @ - 1]
      /\ viewing' = [viewing EXCEPT ![v] = None]
      /\ UNCHANGED <<live, name, size, modified, maxidle>>
  BY <1>1, <1>2 DEF Retire, HideImage
<1>4. /\ x # None /\ refcount[x] = 1 /\ x \notin modified /\ call.index \in Nat \ {0}
      /\ Budget => IdleBytes + size[x] <= maxidle
      /\ x \in Images /\ x \in Entries /\ x \notin Idle
      /\ IdleBytes \in Nat /\ maxidle \in Nat /\ size[x] \in Nat
  BY <1>1, <1>2, EntriesType, HeldIsCounted
     DEF Base, CallOK, Budget, Holder, Structure, CoreType
<1>5. /\ entries' \in Seq(Images) /\ Distinct(entries') /\ Elems(entries') = Elems(entries)
      /\ pc' \in {"ready", "aborted"}
      /\ call' \in [viewer: Viewers \cup {None}, file: Files \cup {NoName},
                    index: Nat, need: Int, limit: Nat]
  <2>1. entries \in Seq(Images) /\ Distinct(entries)
    BY DEF Base, Structure, CoreType, HeldAreCached, Distinct
  <2>2. CASE call.index <= Len(entries) /\ entries' = MakeYoungest(call.index) /\ Return
    <3>1. call.index \in DOMAIN entries
      BY <1>4, <2>1, <2>2, LenProperties
    <3>2. /\ entries' \in Seq(Images) /\ Distinct(entries')
          /\ Elems(entries') = Elems(entries)
      BY <2>1, <2>2, <3>1, MoveToEndElems DEF MakeYoungest
    <3> QED
      BY <2>2, <3>2 DEF Return, NoCall
  <2>3. CASE pc' = "aborted" /\ UNCHANGED <<entries, call>>
    BY <2>1, <2>3 DEF Base, Structure, CoreType
  <2> QED
    BY <2>2, <2>3 DEF Retire
<1>6. Entries' = Entries
  BY <1>5 DEF Entries, Elems
<1>7. CoreType'
  BY <1>3, <1>4, <1>5 DEF CoreType, Base, Structure, Calls
<1>8. Viewed' = Viewed \ {x}
  <2>1. \A w \in Viewers : viewing[w] = x => w = v
    BY <1>2, <1>4, SoleViewer DEF Base
  <2> QED
    BY <1>2, <1>3, <2>1 DEF Viewed, Keeps, Base, Structure, CoreType
<1>9. HeldAreCached' /\ WatchedAreViewed'
  <2>1. HeldAreCached'
    BY <1>3, <1>5, <1>6, <1>8 DEF HeldAreCached, Base, Structure, Distinct
  <2> QED
    BY <1>3, <1>4, <1>8, <2>1 DEF WatchedAreViewed, Keeps, Base, Structure
<1>10. HoldersAreCounted'
  <2>1. Holders(x)' = {} /\ refcount'[x] = 0
    <3>1. Holders(x)' = {}
      BY <1>4, <1>8 DEF Holders, Viewed
    <3> QED
      BY <1>3, <1>4, <3>1 DEF Keeps, Base, Structure, CoreType
  <2>2. refcount'[x] = Cardinality(Holders(x)')
    BY <2>1, FS_EmptySet
  <2>3. ASSUME NEW i \in Entries \ {x} PROVE refcount'[i] = Cardinality(Holders(i)')
    <3>0. i \in Images /\ i # None
      BY <2>3, EntriesType, CacheAssumption DEF Base, Structure, CacheAssumption
    <3>1. Holders(i)' = Holders(i)
      BY <1>2, <1>3, <2>3, <3>0 DEF Holders, Base, Structure, CoreType
    <3>2. refcount'[i] = refcount[i]
      BY <1>3, <2>3, <3>0 DEF Base, Structure, CoreType
    <3> QED
      BY <2>3, <3>1, <3>2 DEF Keeps, Base, Structure, HoldersAreCounted
  <2> QED
    BY <1>6, <2>2, <2>3 DEF HoldersAreCounted
<1>11. IdleBytes' = IdleBytes + size[x]
  <2>1. Idle' = Idle \cup {x}
    BY <1>3, <1>4, <1>6 DEF Idle, Base, Structure, CoreType
  <2>2. IdleBytes' = Cardinality(Bytes(Idle \cup {x}, size))
    BY <1>3, <2>1 DEF IdleBytes, BytesOf, Bytes
  <2>3. Idle \in SUBSET Images /\ x \in Images \ Idle /\ size \in [Images -> Nat]
    BY <1>4, EntriesType DEF Base, Structure, CoreType
  <2> QED
    BY <2>2, <2>3, BytesAdd, IdleBytesAreBytes
<1> QED
  BY <1>3, <1>4, <1>5, <1>7, <1>9, <1>10, <1>11 DEF Keeps, Base, Structure, CallOK, Budget

-----------------------------------------------------------------------------
(* imagecache_resize and imagecache_empty keep the invariant               *)

LEMMA ResizeUpStep ==
  ASSUME Base, NEW n \in Limits, ResizeUp(n)
  PROVE  Keeps
<1>1. /\ n > maxidle /\ maxidle' = n /\ pc = "ready" /\ n \in Nat
      /\ UNCHANGED <<imageVars, entries, viewing, pc, call>>
  BY CacheAssumption DEF ResizeUp, CacheAssumption
<1>2. /\ HeldAreCached' /\ HoldersAreCounted' /\ WatchedAreViewed'
      /\ IdleBytes' = IdleBytes
  BY <1>1, QuietEffect DEF Base
<1>3. CoreType'
  BY <1>1 DEF CoreType, Base, Structure, imageVars
<1>4. IdleBytes \in Nat /\ maxidle \in Nat
  BY EntriesType DEF Base, Structure, CoreType
<1> QED
  BY <1>1, <1>2, <1>3, <1>4 DEF Keeps, Base, Structure, CallOK, Budget

LEMMA ResizeDownStep ==
  ASSUME Base, NEW n \in Limits, ResizeDown(n)
  PROVE  Keeps
<1>1. /\ n < maxidle /\ pc' = "shrink" /\ n \in Nat /\ maxidle \in Nat /\ IdleBytes \in Nat
      /\ call' = [NoCall EXCEPT !.need = maxidle - n, !.limit = n]
      /\ UNCHANGED <<imageVars, entries, maxidle, viewing>>
  BY CacheAssumption, EntriesType DEF ResizeDown, CacheAssumption, Base, Structure, CoreType
<1>2. /\ HeldAreCached' /\ HoldersAreCounted' /\ WatchedAreViewed'
      /\ IdleBytes' = IdleBytes
  BY <1>1, QuietEffect DEF Base
<1>3. PICK d \in Int : d = maxidle - n
  BY <1>1
<1>4. call' = [viewer |-> None, file |-> NoName, index |-> 0, need |-> d, limit |-> n]
  BY <1>1, <1>3 DEF NoCall
<1>5. CoreType'
  <2>1. call' \in [viewer: Viewers \cup {None}, file: Files \cup {NoName},
                   index: Nat, need: Int, limit: Nat]
    BY <1>1, <1>4
  <2> QED
    BY <1>1, <2>1 DEF CoreType, Keeps, Base, Structure, imageVars, Calls
<1>6. Budget => Budget'
  BY <1>1, <1>2, <1>3, <1>4 DEF Budget, Base
<1> QED
  BY <1>1, <1>2, <1>5, <1>6 DEF Keeps, Base, Structure, CallOK

LEMMA ShrinkStep ==
  ASSUME Base, Shrink
  PROVE  Keeps
<1>1. pc = "shrink" /\ UNCHANGED <<maxidle, viewing>>
  BY DEF Shrink, EvictNBytes
<1>2. /\ Budget => IdleBytes <= maxidle /\ IdleBytes <= call.limit + call.need
      /\ call.limit \in Nat /\ call.need \in Int /\ IdleBytes \in Nat /\ maxidle \in Nat
  BY <1>1, EntriesType DEF Base, Budget, Structure, CoreType
<1>3. ASSUME NEW k \in DOMAIN entries, OldestIdle(k), DestroyEntry(k),
             call' = [call EXCEPT !.need = call.need - size[entries[k]]],
             pc' = IF call.need - size[entries[k]] <= 0 THEN "resize" ELSE "shrink"
      PROVE  Keeps
  <2>1. /\ HeldAreCached' /\ HoldersAreCounted' /\ WatchedAreViewed'
        /\ IdleBytes' = IdleBytes - size[entries[k]] /\ size[entries[k]] \in Nat
    BY <1>1, <1>3, EvictEffect DEF OldestIdle, Base
  <2>2. call.need - size[entries[k]] \in Int
    BY <1>2, <2>1
  <2>3. CoreType'
    BY <1>1, <1>3, <2>2, DestroyType DEF Base, Structure, CoreType, Calls
  <2>4. call'.limit = call.limit /\ call'.need = call.need - size[entries[k]]
    BY <1>3 DEF Base, Structure, CoreType
  <2>5. CallOK'
    BY <1>3 DEF CallOK
  <2>6. Budget => Budget'
    BY <1>1, <1>2, <1>3, <2>1, <2>4 DEF Budget
  <2> QED
    BY <2>1, <2>3, <2>5, <2>6 DEF Keeps, Base, Structure
<1>4. ASSUME Idle = {}, pc' = "resize", UNCHANGED <<imageVars, entries, call>>
      PROVE  Keeps
  <2>1. /\ HeldAreCached' /\ HoldersAreCounted' /\ WatchedAreViewed'
        /\ IdleBytes' = IdleBytes
    BY <1>1, <1>4, QuietEffect DEF Base
  <2>2. CoreType'
    BY <1>1, <1>4 DEF CoreType, Base, Structure, imageVars, Calls
  <2>3. IdleBytes = 0
    BY <1>4, BytesNone, IdleBytesAreBytes
  <2> QED
    BY <1>1, <1>2, <1>4, <2>1, <2>2, <2>3 DEF Keeps, Base, Structure, CallOK, Budget
<1> QED
  BY <1>3, <1>4 DEF Shrink, EvictNBytes

LEMMA SetMaxIdleStep ==
  ASSUME Base, SetMaxIdle
  PROVE  Keeps
<1>1. /\ pc = "resize" /\ maxidle' = call.limit /\ pc' = "ready" /\ call' = NoCall
      /\ UNCHANGED <<imageVars, entries, viewing>>
  BY DEF SetMaxIdle, Return
<1>2. /\ HeldAreCached' /\ HoldersAreCounted' /\ WatchedAreViewed'
      /\ IdleBytes' = IdleBytes
  BY <1>1, QuietEffect DEF Base
<1>3. CoreType'
  BY <1>1 DEF CoreType, Base, Structure, imageVars, NoCall, Calls
<1> QED
  BY <1>1, <1>2, <1>3 DEF Keeps, Base, Structure, CallOK, Budget

LEMMA EmptyStep ==
  ASSUME Base, Empty \/ EmptyDone
  PROVE  Keeps
<1>1. /\ UNCHANGED <<imageVars, entries, maxidle, viewing>>
      /\ pc' \in {"ready", "empty"} /\ call' \in {call, NoCall}
  BY DEF Empty, EmptyDone, Return
<1>2. /\ HeldAreCached' /\ HoldersAreCounted' /\ WatchedAreViewed'
      /\ IdleBytes' = IdleBytes
  BY <1>1, QuietEffect DEF Base
<1>3. CoreType'
  BY <1>1 DEF CoreType, Base, Structure, imageVars, NoCall, Calls
<1> QED
  BY <1>1, <1>2, <1>3 DEF Keeps, Base, Structure, CallOK, Budget

LEMMA EmptyOneStep ==
  ASSUME Base, EmptyOne
  PROVE  Keeps
<1>1. /\ pc = "empty" /\ UNCHANGED <<maxidle, viewing, pc, call>>
  BY DEF EmptyOne
<1>2. PICK k \in DOMAIN entries : YoungestIdle(k) /\ DestroyEntry(k)
  BY DEF EmptyOne
<1>3. CoreType'
  BY <1>1, <1>2, DestroyType DEF Base, Structure, CoreType
<1>4. /\ HeldAreCached' /\ HoldersAreCounted' /\ WatchedAreViewed'
      /\ IdleBytes' = IdleBytes - size[entries[k]] /\ size[entries[k]] \in Nat
  BY <1>1, <1>2, EvictEffect DEF YoungestIdle, Base
<1>5. IdleBytes \in Nat /\ maxidle \in Nat
  BY EntriesType DEF Base, Structure, CoreType
<1> QED
  BY <1>1, <1>3, <1>4, <1>5 DEF Keeps, Base, Structure, CallOK, Budget

-----------------------------------------------------------------------------
(* What the viewers do to an image keeps the invariant                     *)

LEMMA CloneStep ==
  ASSUME Base, NEW v \in Viewers, NEW w \in Viewers, Clone(v, w)
  PROVE  Keeps
<1>1. PICK x : x = viewing[v]
  OBVIOUS
<1>2. /\ pc = "ready" /\ x # None /\ viewing[w] = None
      /\ refcount' = [refcount EXCEPT ![x] = @ + 1]
      /\ viewing' = [viewing EXCEPT ![w] = x]
      /\ UNCHANGED <<live, name, size, modified, watched, entries, maxidle, pc, call>>
  BY <1>1 DEF Clone, AddRef
<1>3. x \in Images /\ x \in Entries /\ Entries' = Entries
  BY <1>1, <1>2, HeldIsCounted DEF Base, Entries
<1>4. CoreType'
  BY <1>2, <1>3 DEF CoreType, Base, Structure
<1>5. /\ HeldAreCached' /\ HoldersAreCounted' /\ WatchedAreViewed'
      /\ IdleBytes' <= IdleBytes
  <2>1. /\ Entries' \subseteq live' /\ size' \in [Images -> Nat]
        /\ \A j, k \in DOMAIN entries' : entries'[j] = entries'[k] => j = k
    BY <1>2, <1>3 DEF Base, Structure, CoreType, HeldAreCached
  <2> QED
    BY <1>2, <1>3, <2>1, AcquireEffect DEF Base
<1>6. IdleBytes \in Nat /\ IdleBytes' \in Nat /\ maxidle \in Nat
  BY <1>4, IdleBytesTypeNext, EntriesType DEF Base, Structure, CoreType
<1> QED
  BY <1>2, <1>4, <1>5, <1>6 DEF Keeps, Base, Structure, CallOK, Budget

(* A step which changes the flags, the name or the size of a viewed image  *)
(* or the windows on it.                                                   *)
LEMMA TouchStep ==
  ASSUME Base, NEW v \in Viewers, pc = "ready", viewing[v] # None,
         UNCHANGED <<live, refcount, entries, maxidle, viewing, pc, call>>,
         name' \in [Images -> Files \cup {NoName}],
         size' \in [Images -> Nat],
         \A i \in Images \ {viewing[v]} : size'[i] = size[i],
         modified' \subseteq modified \cup {viewing[v]},
         watched' \subseteq watched \cup {viewing[v]}
  PROVE  Keeps
<1>1. PICK x : x = viewing[v]
  OBVIOUS
<1>2. /\ x \in Entries /\ x \in live /\ x \in Viewed /\ x \notin Idle /\ Idle \subseteq Images
  BY <1>1, HeldIsCounted, EntriesType DEF Base, Structure, HeldAreCached
<1>3. CoreType'
  BY <1>1, <1>2 DEF CoreType, Base, Structure
<1>4. Entries' = Entries /\ Viewed' = Viewed /\ Idle' = Idle
  BY DEF Entries, Viewed, Idle
<1>5. \A i \in Entries : Holders(i)' = Holders(i)
  BY DEF Holders
<1>6. HeldAreCached' /\ HoldersAreCounted' /\ WatchedAreViewed'
  BY <1>1, <1>2, <1>4, <1>5
     DEF Base, Structure, HeldAreCached, HoldersAreCounted, WatchedAreViewed
<1>7. IdleBytes' = IdleBytes
  BY <1>1, <1>2, <1>4, IdleSame DEF Base, Structure
<1> QED
  BY <1>3, <1>6, <1>7 DEF Keeps, Base, Structure, CallOK, Budget

LEMMA ModifyStep ==
  ASSUME Base, NEW v \in Viewers, NEW n \in EditedSizes, Modify(v, n)
  PROVE  Keeps
<1>1. n \in Nat /\ size \in [Images -> Nat] /\ name \in [Images -> Files \cup {NoName}]
  BY CacheAssumption DEF CacheAssumption, Base, Structure, CoreType
<1> QED
  BY <1>1, TouchStep DEF Modify

LEMMA SaveStep ==
  ASSUME Base, NEW v \in Viewers, NEW f \in Files \cup {NoName}, Save(v, f)
  PROVE  Keeps
<1>1. size \in [Images -> Nat] /\ name \in [Images -> Files \cup {NoName}]
  BY DEF Base, Structure, CoreType
<1> QED
  BY <1>1, TouchStep DEF Save

LEMMA MarkUnsafeStep ==
  ASSUME Base, NEW v \in Viewers, MarkUnsafe(v)
  PROVE  Keeps
<1>1. size \in [Images -> Nat] /\ name \in [Images -> Files \cup {NoName}]
  BY DEF Base, Structure, CoreType
<1> QED
  BY <1>1, TouchStep DEF MarkUnsafe

LEMMA NameTemplateStep ==
  ASSUME Base, NEW v \in Viewers, NameTemplate(v)
  PROVE  Keeps
<1>1. size \in [Images -> Nat] /\ name \in [Images -> Files \cup {NoName}]
  BY DEF Base, Structure, CoreType
<1> QED
  BY <1>1, TouchStep DEF NameTemplate

LEMMA OpenWindowStep ==
  ASSUME Base, NEW v \in Viewers, OpenWindow(v)
  PROVE  Keeps
<1>1. size \in [Images -> Nat] /\ name \in [Images -> Files \cup {NoName}]
  BY DEF Base, Structure, CoreType
<1> QED
  BY <1>1, TouchStep DEF OpenWindow

LEMMA CloseWindowStep ==
  ASSUME Base, NEW v \in Viewers, CloseWindow(v)
  PROVE  Keeps
<1>1. size \in [Images -> Nat] /\ name \in [Images -> Files \cup {NoName}]
  BY DEF Base, Structure, CoreType
<1>2. viewing[v] # None
  <2>1. watched \subseteq Images
    BY DEF Base, Structure, CoreType
  <2> QED
    BY <2>1, CacheAssumption DEF CacheAssumption, CloseWindow
<1> QED
  BY <1>1, <1>2, TouchStep DEF CloseWindow

-----------------------------------------------------------------------------
(* The rotate dialogue keeps the invariant, though it may spoil the budget *)

LEMMA TurnStep ==
  ASSUME IInv, NEW n \in EditedSizes, Turn(n)
  PROVE  IInv'
<1>1. PICK x : x = rotating
  OBVIOUS
<1>2. /\ pc = "ready" /\ x \in live /\ modified' = modified \cup {x}
      /\ size' = [size EXCEPT ![x] = n] /\ watched' \in {watched, watched \ {x}}
      /\ rotating' \in {x, None} /\ n \in Nat
      /\ UNCHANGED <<live, name, refcount, entries, maxidle, viewing, pc, call>>
      /\ strained' = (IdleBytes' > maxidle)
  BY <1>1, CacheAssumption DEF Turn, CacheAssumption
<1>3. CoreType'
  BY <1>2 DEF CoreType, IInv, Base, Structure
<1>4. Entries' = Entries /\ Viewed' = Viewed
  BY <1>2 DEF Entries, Viewed
<1>5. HeldAreCached' /\ WatchedAreViewed'
  BY <1>2, <1>4 DEF IInv, Base, Structure, HeldAreCached, WatchedAreViewed
<1>6. HoldersAreCounted'
  <2>1. \A i \in Entries : Holders(i)' = Holders(i)
    BY <1>2 DEF Holders
  <2> QED
    BY <1>2, <1>4, <2>1 DEF HoldersAreCounted, IInv, Base, Structure
<1>7. Base'
  BY <1>2, <1>3, <1>5, <1>6 DEF Base, Structure, CallOK
<1>8. DialogueType'
  BY <1>1, <1>2 DEF IInv, DialogueType
<1>9. strained' \/ Budget'
  <2>1. IdleBytes' \in Nat /\ maxidle \in Nat
    BY <1>3, IdleBytesTypeNext DEF IInv, Base, Structure, CoreType
  <2>2. CASE IdleBytes' > maxidle
    BY <1>2, <2>2
  <2>3. CASE ~ IdleBytes' > maxidle
    <3>1. IdleBytes' <= maxidle' /\ pc' = "ready"
      BY <1>2, <2>1, <2>3
    <3> QED
      BY <3>1 DEF Budget
  <2> QED
    BY <2>2, <2>3
<1> QED
  BY <1>7, <1>8, <1>9 DEF IInv

(* What opens, closes or outlives the dialogue changes nothing else.       *)
LEMMA DialogueStep ==
  ASSUME Base, (\E v \in Viewers : OpenRotate(v)) \/ CloseRotate \/ UseFreed
  PROVE  Keeps
<1>1. /\ UNCHANGED <<imageVars, entries, maxidle, viewing, call>>
      /\ pc = "ready" /\ pc' \in {"ready", "aborted"}
  BY DEF OpenRotate, CloseRotate, UseFreed
<1>2. /\ HeldAreCached' /\ HoldersAreCounted' /\ WatchedAreViewed'
      /\ IdleBytes' = IdleBytes
  BY <1>1, QuietEffect DEF Base
<1>3. CoreType'
  BY <1>1 DEF CoreType, Base, Structure, imageVars, Calls
<1> QED
  BY <1>1, <1>2, <1>3 DEF Keeps, Base, Structure, CallOK, Budget

LEMMA AsideType ==
  ASSUME IInv, Aside
  PROVE  Settle /\ DialogueType'
BY DEF IInv, DialogueType, Aside, Settle

-----------------------------------------------------------------------------
(* The invariant                                                           *)

LEMMA InitInv == Init => IInv
<1> SUFFICES ASSUME Init PROVE IInv
  OBVIOUS
<1>1. Entries = {} /\ Idle = {} /\ Viewed = {}
  BY DEF Init, Entries, Idle, Viewed
<1>2. CoreType /\ DialogueType
  <2>1. <<>> \in Seq(Images)
    OBVIOUS
  <2>2. CoreType
    BY <2>1, CacheAssumption DEF Init, CoreType, Calls, NoCall, CacheAssumption
  <2>3. DialogueType
    BY DEF Init, DialogueType
  <2> QED
    BY <2>2, <2>3
<1>3. HeldAreCached /\ HoldersAreCounted /\ WatchedAreViewed
  BY <1>1 DEF Init, HeldAreCached, HoldersAreCounted, WatchedAreViewed
<1>4. IdleBytes = 0
  BY <1>1, BytesNone, IdleBytesAreBytes
<1> QED
  BY <1>2, <1>3, <1>4 DEF Init, IInv, Base, Structure, CoreType, CallOK, Budget

(* While the cache is strained a step owes only the base; the strain ends  *)
(* between two calls, when no more idles than may.                         *)
LEMMA SettleInv ==
  ASSUME IInv, Settle, DialogueType', Keeps
  PROVE  IInv'
<1>1. strained' = (strained /\ (pc' # "ready" \/ IdleBytes' > maxidle'))
  BY DEF Settle
<1>2. CASE ~ strained
  BY <1>2 DEF IInv, Keeps
<1>3. CASE pc' = "ready" /\ ~ IdleBytes' > maxidle'
  <2>1. IdleBytes' \in Nat /\ maxidle' \in Nat
    BY IdleBytesTypeNext DEF Keeps, Base, Structure, CoreType
  <2>2. Budget'
    BY <1>3, <2>1 DEF Budget
  <2> QED
    BY <2>2 DEF IInv, Keeps
<1>4. CASE strained'
  BY <1>4 DEF IInv, Keeps
<1> QED
  BY <1>1, <1>2, <1>3, <1>4

LEMMA ProgressInv ==
  ASSUME IInv, Progress
  PROVE  IInv'
<1>1. Keeps
  BY LoadInsertsStep, LoadFindsCacheFullStep, LoadFailsStep, LoadRunsOutOfMemoryStep,
     EvictOldestStep, MakeRoomStep, RetireStep, ShrinkStep, SetMaxIdleStep, EmptyOneStep,
     EmptyStep DEF Progress, IInv
<1>2. Aside
  BY DEF Progress, LoadInserts, LoadFindsCacheFull, LoadFails, LoadRunsOutOfMemory,
         EvictOldest, MakeRoom, Shrink, EvictNBytes, Retire, SetMaxIdle, EmptyOne, EmptyDone
<1> QED
  BY <1>1, <1>2, AsideType, SettleInv

LEMMA ClientInv ==
  ASSUME IInv, Client
  PROVE  IInv'
<1>1. Keeps
  BY GetCachedStep, GetUncachedStep, SaveStep, ModifyStep, CloneStep, DisposeSharedStep,
     DisposeDestroysStep, DisposeRetainsStep, MarkUnsafeStep, NameTemplateStep,
     OpenWindowStep, CloseWindowStep, ResizeUpStep, ResizeDownStep, EmptyStep
     DEF Client, IInv
<1>2. Aside
  BY DEF Client, GetCached, GetUncached, Save, Modify, Clone, DisposeShared,
         DisposeDestroys, DisposeRetains, MarkUnsafe, NameTemplate, OpenWindow,
         CloseWindow, ResizeUp, ResizeDown, Empty
<1> QED
  BY <1>1, <1>2, AsideType, SettleInv

LEMMA DialogueInv ==
  ASSUME IInv, Dialogue
  PROVE  IInv'
<1>1. ASSUME NEW v \in Viewers, OpenRotate(v) PROVE IInv'
  <2>1. Settle /\ rotating' = viewing[v] /\ viewing[v] \in Images \cup {None}
    BY <1>1 DEF OpenRotate, IInv, Base, Structure, CoreType
  <2>2. DialogueType'
    BY <2>1 DEF DialogueType, IInv, Settle
  <2> QED
    BY <1>1, <2>1, <2>2, DialogueStep, SettleInv DEF IInv
<1>2. CASE CloseRotate
  <2>1. Settle /\ rotating' = None
    BY <1>2 DEF CloseRotate
  <2>2. DialogueType'
    BY <2>1 DEF DialogueType, IInv, Settle
  <2> QED
    BY <1>2, <2>1, <2>2, DialogueStep, SettleInv DEF IInv
<1>3. CASE UseFreed
  <2>1. Aside
    BY <1>3 DEF UseFreed
  <2> QED
    BY <1>3, <2>1, AsideType, DialogueStep, SettleInv DEF IInv
<1> QED
  BY <1>1, <1>2, <1>3, TurnStep DEF Dialogue

LEMMA NextInv == IInv /\ [Next]_vars => IInv'
<1> SUFFICES ASSUME IInv, [Next]_vars PROVE IInv'
  OBVIOUS
<1>1. CASE UNCHANGED vars
  <2>1. UNCHANGED <<imageVars, entries, maxidle, viewing, rotating, strained, pc, call>>
    BY <1>1 DEF vars
  <2>2. HeldAreCached' /\ HoldersAreCounted' /\ WatchedAreViewed' /\ IdleBytes' = IdleBytes
    BY <2>1, QuietEffect DEF IInv, Base
  <2>3. CoreType' /\ CallOK' /\ DialogueType'
    BY <2>1 DEF CoreType, DialogueType, IInv, Base, Structure, CallOK, Holder, imageVars
  <2>4. Budget => Budget'
    BY <2>1, <2>2 DEF Budget, Holder, imageVars
  <2> QED
    BY <2>1, <2>2, <2>3, <2>4 DEF IInv, Base, Structure
<1> QED
  BY <1>1, ProgressInv, ClientInv, DialogueInv DEF Next

THEOREM Invariance == Spec => []IInv
BY InitInv, NextInv, PTL DEF Spec

(* Every variable keeps its type, whatever the calls and their order.      *)
THEOREM TypeCorrect == Spec => []TypeOK
<1>1. IInv => TypeOK
  BY TypeParts DEF IInv, Base, Structure
<1> QED
  BY <1>1, Invariance, PTL

(* No viewer is left with a pointer to an image that was destroyed, and    *)
(* the array of imagecache_t never lists a dead image or one image twice.  *)
THEOREM NoDanglingViewer == Spec => []HeldAreCached
<1>1. IInv => HeldAreCached
  BY DEF IInv, Base, Structure
<1> QED
  BY <1>1, Invariance, PTL

(* The reference counts in the cache are exact.                            *)
THEOREM CountsAreExact == Spec => []HoldersAreCounted
<1>1. IInv => HoldersAreCounted
  BY DEF IInv, Base, Structure
<1> QED
  BY <1>1, Invariance, PTL

(* The user's limit on idle images is respected between any two steps,     *)
(* though evict_nbytes works with sizes taken earlier, unless an image     *)
(* that idles was turned.                                                  *)
THEOREM IdleLimited == Spec => []IdleWithinLimit
<1>1. IInv => IdleWithinLimit
  BY DEF IInv, Budget, IdleWithinLimit
<1> QED
  BY <1>1, Invariance, PTL

(* An observer window never shows an image that has no viewer.             *)
THEOREM NoOrphanWindow == Spec => []WatchedAreViewed
<1>1. IInv => WatchedAreViewed
  BY DEF IInv, Base, Structure
<1> QED
  BY <1>1, Invariance, PTL

-----------------------------------------------------------------------------
(* What each step does to the set of entries                               *)

LEMMA MoveEntries ==
  ASSUME IInv, NEW k \in DOMAIN entries, entries' = MakeYoungest(k)
  PROVE  Entries' = Entries
<1>1. entries \in Seq(Images) /\ Distinct(entries)
  BY DEF IInv, Base, Structure, CoreType, HeldAreCached, Distinct
<1>2. Elems(entries') = Elems(entries)
  BY <1>1, MoveToEndElems DEF MakeYoungest
<1> QED
  BY <1>2 DEF Entries, Elems

LEMMA RetireEntries ==
  ASSUME IInv, Retire
  PROVE  Entries' = Entries
<1>1. CASE call.index <= Len(entries) /\ entries' = MakeYoungest(call.index)
  <2>1. call.index \in DOMAIN entries
    BY <1>1, LenProperties DEF Retire, IInv, Base, CallOK, Structure, CoreType
  <2> QED
    BY <1>1, <2>1, MoveEntries
<1>2. CASE entries' = entries
  BY <1>2 DEF Entries
<1> QED
  BY <1>1, <1>2 DEF Retire

LEMMA InsertEntries ==
  ASSUME IInv, NEW i \in Images, LoadInserts(i)
  PROVE  Entries' = Entries \cup {i} /\ i \notin Entries
<1>1. /\ entries \in Seq(Images) /\ Distinct(entries) /\ Entries = Elems(entries)
      /\ i \notin Entries /\ entries' = Append(entries, i)
  BY EntriesType
     DEF IInv, Base, Structure, CoreType, HeldAreCached, Distinct, LoadInserts, CreateImage
<1>2. Elems(entries') = Entries \cup {i}
  BY <1>1, AppendElems
<1> QED
  BY <1>1, <1>2 DEF Entries, Elems

LEMMA DestroyEntries ==
  ASSUME IInv, NEW k \in DOMAIN entries, DestroyEntry(k)
  PROVE  /\ Entries' = Entries \ {entries[k]}
         /\ entries[k] \in Entries
         /\ live' = live \ {entries[k]}
<1>1. entries \in Seq(Images) /\ Distinct(entries)
  BY DEF IInv, Base, Structure, CoreType, HeldAreCached, Distinct
<1>2. Elems(entries') = Elems(entries) \ {entries[k]}
  BY <1>1, RemoveAtElems DEF DestroyEntry
<1>3. live' = live \ {entries[k]}
  BY DEF DestroyEntry, DestroyImage
<1> QED
  BY <1>2, <1>3 DEF Entries, Elems

(* A step destroys an entry only from the loops which evict and from the   *)
(* disposal of an image that may not idle.                                 *)
LEMMA DestroySteps ==
  ASSUME IInv, EvictOldest \/ MakeRoom \/ Shrink \/ EmptyOne
  PROVE  \/ UNCHANGED <<imageVars, entries, viewing, maxidle>>
         \/ /\ UNCHANGED <<viewing, maxidle>>
            /\ \E k \in DOMAIN entries : refcount[entries[k]] = 0 /\ DestroyEntry(k)
BY DEF EvictOldest, MakeRoom, Shrink, EmptyOne, EvictNBytes, OldestIdle, YoungestIdle

(* With no viewer left the entries all idle, and there are none of those   *)
(* when the emptying ends.                                                 *)
LEMMA UnviewedAreIdle ==
  ASSUME IInv, Viewed = {}, Idle = {}
  PROVE  entries = <<>>
<1>0. entries \in Seq(Images)
  BY DEF IInv, Base, Structure, CoreType
<1> SUFFICES ASSUME NEW k \in DOMAIN entries PROVE FALSE
  <2>1. ASSUME entries # <<>> PROVE 1 \in DOMAIN entries
    BY <1>0, <2>1
  <2> QED
    BY <2>1
<1>1. entries[k] \in Entries /\ entries[k] \in Images
  BY DEF Entries, IInv, Base, Structure, CoreType
<1>2. entries[k] # None
  BY <1>1, CacheAssumption
<1>3. Holders(entries[k]) = {}
  BY <1>2 DEF Holders, Viewed
<1>4. refcount[entries[k]] = 0
  <2>1. Cardinality(Holders(entries[k])) = 0
    BY <1>3, FS_EmptySet
  <2> QED
    BY <1>1, <2>1 DEF IInv, Base, Structure, HoldersAreCounted
<1> QED
  BY <1>1, <1>4 DEF Idle

(* Only the last step of imagecache_empty ends it.                         *)
LEMMA OnlyEmptyDone ==
  ASSUME Next, pc = "empty", pc' = "ready"
  PROVE  EmptyDone
<1>1. CASE Progress
  BY <1>1
     DEF Progress, LoadInserts, LoadFindsCacheFull, LoadFails, LoadRunsOutOfMemory,
         EvictOldest, MakeRoom, Shrink, EvictNBytes, Retire, SetMaxIdle, EmptyOne
<1>2. CASE Client
  BY <1>2
     DEF Client, GetCached, GetUncached, Save, Modify, Clone, DisposeShared,
         DisposeDestroys, DisposeRetains, MarkUnsafe, NameTemplate, OpenWindow,
         CloseWindow, ResizeUp, ResizeDown, Empty
<1>3. CASE Dialogue
  BY <1>3 DEF Dialogue, OpenRotate, Turn, CloseRotate, UseFreed
<1> QED
  BY <1>1, <1>2, <1>3 DEF Next

(* What imagecache_destroy asserts (imagecache.c): once the viewers are    *)
(* closed, emptying the cache leaves no entry, whatever was done before.   *)
THEOREM EmptiesAll == Spec => EmptiesOnceUnviewed
<1>1. IInv /\ [Next]_vars =>
        [pc = "empty" /\ pc' = "ready" /\ Viewed = {} => entries' = <<>>]_vars
  <2> SUFFICES ASSUME IInv, Next, pc = "empty", pc' = "ready", Viewed = {}
               PROVE  entries' = <<>>
    OBVIOUS
  <2>1. Idle = {} /\ entries' = entries
    BY OnlyEmptyDone DEF EmptyDone
  <2> QED
    BY <2>1, UnviewedAreIdle
<1> QED
  BY <1>1, Invariance, PTL DEF Spec, EmptiesOnceUnviewed

-----------------------------------------------------------------------------
(* The refinement                                                          *)

Pairs(S, sz) == { <<i, sz[i]>> : i \in S }

(* The promise counts the bytes of pairs, the cache those of its images.   *)
LEMMA PairsBytes ==
  ASSUME NEW S \in SUBSET Images, NEW sz \in [Images -> Nat]
  PROVE  Cardinality(Promise!Bytes(Pairs(S, sz))) = Cardinality(Bytes(S, sz))
<1> DEFINE A == Bytes(S, sz)
           B == Promise!Bytes(Pairs(S, sz))
           g == [p \in A |-> << <<p[1], sz[p[1]]>>, p[2] >>]
<1>1. ASSUME NEW p \in A
      PROVE  \E i \in S : \E n \in 1 .. sz[i] : p = <<i, n>>
  BY DEF Bytes
<1>2. ASSUME NEW i \in S, NEW n \in 1 .. sz[i] PROVE <<i, n>> \in A
  BY DEF Bytes
<1>3. ASSUME NEW q \in B
      PROVE  \E i \in S : \E n \in 1 .. sz[i] : q = << <<i, sz[i]>>, n >>
  BY DEF Promise!Bytes, Pairs
<1>4. ASSUME NEW i \in S, NEW n \in 1 .. sz[i] PROVE << <<i, sz[i]>>, n >> \in B
  BY DEF Promise!Bytes, Pairs
<1>5. g \in Bijection(A, B)
  <2> HIDE DEF A, B
  <2>1. \A p \in A : g[p] \in B
    BY <1>1, <1>4
  <2>2. \A p, q \in A : g[p] = g[q] => p = q
    BY <1>1
  <2>3. \A q \in B : \E p \in A : g[p] = q
    <3> SUFFICES ASSUME NEW q \in B PROVE \E p \in A : g[p] = q
      OBVIOUS
    <3>0. PICK i \in S : \E n \in 1 .. sz[i] : q = << <<i, sz[i]>>, n >>
      BY <1>3
    <3>1. PICK n \in 1 .. sz[i] : q = << <<i, sz[i]>>, n >>
      BY <3>0
    <3>2. <<i, n>> \in A /\ g[<<i, n>>] = q
      BY <1>2, <3>1
    <3> QED
      BY <3>2
  <2>4. g \in [A -> B]
    BY <2>1
  <2> HIDE DEF g
  <2> QED
    BY <2>2, <2>3, <2>4 DEF Bijection, Injection, Surjection, IsInjective
<1>6. IsFiniteSet(A)
  BY BytesFinite
<1> HIDE DEF A, B, g
<1>7. Cardinality(A) = Cardinality(B)
  BY <1>5, <1>6, FS_Bijection DEF ExistsBijection
<1> QED
  BY <1>7 DEF A, B

LEMMA PromiseCardinality ==
  ASSUME NEW S
  PROVE  Promise!Cardinality(S) = Cardinality(S)
BY DEF Promise!Cardinality, Cardinality

LEMMA PromiseFits ==
  ASSUME NEW S \in SUBSET Images, NEW sz \in [Images -> Nat], NEW n
  PROVE  Promise!FitsLimit(Pairs(S, sz), n) <=> Cardinality(Bytes(S, sz)) <= n
BY PairsBytes, PromiseCardinality DEF Promise!FitsLimit

LEMMA PromiseInit == Init => Promise!Init
<1> SUFFICES ASSUME Init PROVE Promise!Init
  OBVIOUS
<1>1. Idle = {}
  BY DEF Init, Entries, Idle
<1> QED
  BY <1>1, CacheAssumption DEF Init, Promise!Init, CacheAssumption

(* What idles, to the promise.                                             *)
IdlePairs == { <<i, size[i]>> : i \in Idle }

LEMMA AcquirePromised ==
  ASSUME NEW v \in Viewers, NEW x \in Images, viewing[v] = None,
         viewing' = [viewing EXCEPT ![v] = x], UNCHANGED maxidle,
         Idle' = Idle \ {x}, \A i \in Idle \ {x} : size'[i] = size[i]
  PROVE  Promise!Work
<1>1. IdlePairs' = { e \in IdlePairs : e[1] # x }
  BY DEF IdlePairs
<1>2. Promise!Acquire(v, x)
  BY <1>1 DEF Promise!Acquire, IdlePairs
<1> QED
  BY <1>2 DEF Promise!Work

LEMMA ForgetPromised ==
  ASSUME IInv, NEW k \in DOMAIN entries, refcount[entries[k]] = 0, DestroyEntry(k),
         UNCHANGED <<viewing, maxidle>>
  PROVE  Promise!Work
<1>1. PICK x : x = entries[k]
  OBVIOUS
<1>2. /\ x \in Idle /\ x \in Images /\ Idle \subseteq Images
      /\ size \in [Images -> Nat] /\ refcount \in [Images -> Nat]
  BY <1>1, EntriesType DEF IInv, Base, Structure, CoreType, Idle
<1>3. /\ Entries' = Entries \ {x}
      /\ refcount' = [refcount EXCEPT ![x] = 0]
      /\ size' = [size EXCEPT ![x] = 0]
  BY <1>1, DestroyEntries DEF DestroyEntry, DestroyImage
<1>4. Idle' = Idle \ {x} /\ \A i \in Idle \ {x} : size'[i] = size[i]
  BY <1>2, <1>3, EntriesType DEF Idle, IInv, Base, Structure
<1>5. PICK e : e = <<x, size[x]>>
  OBVIOUS
<1>6. IdlePairs' = IdlePairs \ {e} /\ e \in IdlePairs
  BY <1>2, <1>4, <1>5 DEF IdlePairs
<1>7. Promise!Forget(e)
  BY <1>6 DEF Promise!Forget, IdlePairs
<1> QED
  BY <1>6, <1>7 DEF Promise!Work, IdlePairs

LEMMA StutterPromised ==
  ASSUME Idle' = Idle, \A i \in Idle : size'[i] = size[i], UNCHANGED <<viewing, maxidle>>
  PROVE  Promise!Work
<1>1. IdlePairs' = IdlePairs
  BY DEF IdlePairs
<1> QED
  BY <1>1 DEF Promise!Work, IdlePairs

LEMMA QuietPromised ==
  ASSUME UNCHANGED <<imageVars, entries, viewing, maxidle>>
  PROVE  Promise!Work
<1>1. Idle' = Idle /\ size' = size
  BY DEF Idle, Entries, imageVars
<1> QED
  BY <1>1, StutterPromised

(* The new limit is one which what idles respects.                         *)
LEMMA LimitPromised ==
  ASSUME IInv, UNCHANGED <<imageVars, entries, viewing>>, maxidle' \in Nat,
         strained \/ IdleBytes <= maxidle'
  PROVE  Promise!Work
<1>1. IdlePairs' = IdlePairs /\ IdlePairs = Pairs(Idle, size)
  BY DEF Idle, Entries, imageVars, IdlePairs, Pairs
<1>2. Idle \in SUBSET Images /\ size \in [Images -> Nat]
  BY EntriesType DEF IInv, Base, Structure, CoreType
<1>3. strained \/ Promise!FitsLimit(IdlePairs, maxidle')
  <2>1. \A n : Promise!FitsLimit(IdlePairs, n) <=> IdleBytes <= n
    BY <1>1, <1>2, PromiseFits, IdleBytesAreBytes
  <2> QED
    BY <2>1
<1>4. Promise!SetLimit
  BY <1>1, <1>3 DEF Promise!SetLimit, IdlePairs
<1> QED
  BY <1>4 DEF Promise!Work

LEMMA RetirePromised ==
  ASSUME IInv, Retire
  PROVE  Promise!Work
<1>1. PICK v \in Viewers : v = call.viewer /\ pc = "retire"
  BY DEF Retire, IInv, Base, CallOK
<1>2. PICK x : x = viewing[v]
  OBVIOUS
<1>3. /\ refcount' = [refcount EXCEPT ![x] = @ - 1]
      /\ viewing' = [viewing EXCEPT ![v] = None]
      /\ UNCHANGED <<size, maxidle>>
  BY <1>1, <1>2 DEF Retire
<1>4. /\ x # None /\ refcount[x] = 1
      /\ x \in Images /\ x \in Entries /\ x \notin Idle
      /\ size \in [Images -> Nat] /\ refcount \in [Images -> Nat]
      /\ Idle \subseteq Images /\ Entries \subseteq Images
  BY <1>1, <1>2, EntriesType, HeldIsCounted DEF IInv, Base, CallOK, Holder, Structure, CoreType
<1>5. Idle' = Idle \cup {x}
  BY <1>3, <1>4, RetireEntries DEF Idle
<1>6. IdlePairs' = IdlePairs \cup {<<x, size[x]>>}
  BY <1>3, <1>5 DEF IdlePairs
<1>7. ASSUME ~ strained PROVE Promise!FitsLimit(IdlePairs', maxidle)
  <2>1. IdleBytes' <= maxidle'
    BY <1>7, RetireStep DEF IInv, Keeps, Budget
  <2>2. IdleBytes' = Cardinality(Bytes(Idle \cup {x}, size))
    BY <1>3, <1>5 DEF IdleBytes, BytesOf, Bytes
  <2>3. IdlePairs' = Pairs(Idle \cup {x}, size)
    BY <1>3, <1>5 DEF IdlePairs, Pairs
  <2>4. Promise!FitsLimit(Pairs(Idle \cup {x}, size), maxidle)
    BY <1>3, <1>4, <2>1, <2>2, PromiseFits
  <2> QED
    BY <2>3, <2>4
<1>8. \A w \in Viewers \ {v} : viewing[w] # x
  BY <1>2, <1>4, SoleViewer DEF IInv, Base
<1>9. size[x] \in Nat /\ viewing[v] = x
  BY <1>2, <1>4
<1>10. Promise!Release(v)
  <2>1. \E e \in IdlePairs' : /\ e[1] = viewing[v] /\ e[2] \in Nat
                              /\ IdlePairs' = IdlePairs \cup {e}
    BY <1>6, <1>9
  <2> QED
    BY <1>3, <1>4, <1>7, <1>8, <1>9, <2>1 DEF Promise!Release, IdlePairs
<1> QED
  BY <1>10 DEF Promise!Work

LEMMA GetCachedPromised ==
  ASSUME IInv, NEW v \in Viewers, NEW f \in Files, GetCached(v, f)
  PROVE  Promise!Work
<1>1. PICK k \in DOMAIN entries :
        /\ entries' = MakeYoungest(k)
        /\ AddRef(entries[k])
        /\ viewing' = [viewing EXCEPT ![v] = entries[k]]
  BY DEF GetCached
<1>2. PICK x : x = entries[k]
  OBVIOUS
<1>3. viewing[v] = None /\ UNCHANGED <<size, maxidle>>
  BY DEF GetCached
<1>4. x \in Images /\ Entries \subseteq Images /\ refcount \in [Images -> Nat]
  BY <1>2, EntriesType DEF IInv, Base, Structure, CoreType
<1>5. Entries' = Entries
  BY <1>1, MoveEntries
<1>6. Idle' = Idle \ {x}
  BY <1>1, <1>2, <1>4, <1>5 DEF Idle, AddRef
<1> QED
  BY <1>1, <1>2, <1>3, <1>4, <1>6, AcquirePromised

LEMMA LoadInsertsPromised ==
  ASSUME IInv, NEW i \in Images, LoadInserts(i)
  PROVE  Promise!Work
<1>1. PICK v \in Viewers : v = call.viewer /\ viewing[v] = None
  BY DEF LoadInserts, IInv, Base, CallOK, Holder
<1>2. /\ refcount' = [refcount EXCEPT ![i] = 1]
      /\ size' = [size EXCEPT ![i] = FileSize[call.file]]
      /\ viewing' = [viewing EXCEPT ![v] = i]
      /\ UNCHANGED maxidle
  BY <1>1 DEF LoadInserts, CreateImage
<1>3. /\ refcount \in [Images -> Nat] /\ size \in [Images -> Nat]
      /\ Entries \subseteq Images /\ Idle \subseteq Images
  BY EntriesType DEF IInv, Base, Structure, CoreType
<1>4. Entries' = Entries \cup {i} /\ i \notin Entries
  BY InsertEntries
<1>5. Idle' = Idle \ {i} /\ \A j \in Idle \ {i} : size'[j] = size[j]
  BY <1>2, <1>3, <1>4 DEF Idle
<1> QED
  BY <1>1, <1>2, <1>5, AcquirePromised

(* The image nobody got is no entry, so the promise does not see it.       *)
LEMMA LoadFindsCacheFullPromised ==
  ASSUME IInv, NEW i \in Images, LoadFindsCacheFull(i)
  PROVE  Promise!Work
<1>1. /\ refcount' = [refcount EXCEPT ![i] = 1] /\ i \notin live
      /\ size' = [size EXCEPT ![i] = FileSize[call.file]]
      /\ UNCHANGED <<entries, viewing, maxidle>>
  BY DEF LoadFindsCacheFull, CreateImage
<1>2. /\ refcount \in [Images -> Nat] /\ size \in [Images -> Nat]
      /\ Entries \subseteq Images /\ Idle \subseteq Entries /\ i \notin Entries
  BY <1>1, EntriesType DEF IInv, Base, Structure, CoreType, HeldAreCached
<1>3. Idle' = Idle /\ \A j \in Idle : size'[j] = size[j]
  BY <1>1, <1>2 DEF Idle, Entries
<1> QED
  BY <1>1, <1>3, StutterPromised

LEMMA ClonePromised ==
  ASSUME IInv, NEW v \in Viewers, NEW w \in Viewers, Clone(v, w)
  PROVE  Promise!Work
<1>1. PICK x : x = viewing[v]
  OBVIOUS
<1>2. /\ x # None /\ viewing[w] = None
      /\ refcount' = [refcount EXCEPT ![x] = @ + 1]
      /\ viewing' = [viewing EXCEPT ![w] = x]
      /\ UNCHANGED <<size, entries, maxidle>>
  BY <1>1 DEF Clone, AddRef
<1>3. /\ x \in Images /\ Entries \subseteq Images /\ refcount \in [Images -> Nat]
      /\ Entries' = Entries
  BY <1>1, <1>2, HeldIsCounted, EntriesType DEF IInv, Base, Structure, CoreType, Entries
<1>4. Idle' = Idle \ {x}
  BY <1>2, <1>3 DEF Idle
<1> QED
  BY <1>2, <1>3, <1>4, AcquirePromised

(* An image that does not idle changes, or the viewer lets it go.          *)
LEMMA DisposePromised ==
  ASSUME IInv, NEW v \in Viewers, DisposeShared(v) \/ DisposeDestroys(v)
  PROVE  Promise!Work
<1>1. PICK x : x = viewing[v]
  OBVIOUS
<1>2. /\ x # None /\ viewing' = [viewing EXCEPT ![v] = None] /\ UNCHANGED maxidle
  BY <1>1 DEF DisposeShared, DisposeDestroys
<1>3. /\ x \in Images /\ x \notin Idle /\ Idle \subseteq Images /\ Entries \subseteq Images
      /\ refcount \in [Images -> Nat] /\ size \in [Images -> Nat]
  BY <1>1, <1>2, HeldIsCounted, EntriesType DEF IInv, Base, Structure, CoreType
<1>4. Idle' = Idle /\ \A i \in Idle : size'[i] = size[i]
  <2>1. CASE DisposeShared(v)
    BY <1>1, <1>3, <2>1 DEF DisposeShared, Idle, Entries
  <2>2. CASE DisposeDestroys(v)
    <3>1. PICK k \in DOMAIN entries : entries[k] = x /\ DestroyEntry(k)
      BY <1>1, <1>2, <2>2, PositionProperties DEF DisposeDestroys, IInv, Base
    <3>2. /\ Entries' = Entries \ {x}
          /\ refcount' = [refcount EXCEPT ![x] = 0]
          /\ size' = [size EXCEPT ![x] = 0]
      BY <3>1, DestroyEntries DEF DestroyEntry, DestroyImage
    <3> QED
      BY <1>3, <3>2 DEF Idle
  <2> QED
    BY <2>1, <2>2
<1>5. IdlePairs' = IdlePairs
  BY <1>4 DEF IdlePairs
<1>6. Promise!Release(v)
  BY <1>1, <1>2, <1>5 DEF Promise!Release, IdlePairs
<1> QED
  BY <1>6 DEF Promise!Work

LEMMA TouchPromised ==
  ASSUME IInv, NEW v \in Viewers, viewing[v] # None,
         UNCHANGED <<refcount, entries, maxidle, viewing>>,
         \A i \in Images \ {viewing[v]} : size'[i] = size[i]
  PROVE  Promise!Work
<1>1. viewing[v] \notin Idle /\ Idle \subseteq Images
  BY HeldIsCounted, EntriesType DEF IInv, Base, Structure
<1>2. Idle' = Idle /\ \A i \in Idle : size'[i] = size[i]
  BY <1>1 DEF Idle, Entries
<1> QED
  BY <1>2, StutterPromised

(* The steps of the calls are all work.                                    *)
LEMMA ProgressPromised ==
  ASSUME IInv, Progress
  PROVE  Promise!Work
<1>1. CASE EvictOldest \/ MakeRoom \/ Shrink \/ EmptyOne
  <2>1. CASE UNCHANGED <<imageVars, entries, viewing, maxidle>>
    BY <2>1, QuietPromised
  <2>2. ASSUME UNCHANGED <<viewing, maxidle>>, NEW k \in DOMAIN entries,
               refcount[entries[k]] = 0, DestroyEntry(k)
        PROVE  Promise!Work
    BY <2>2, ForgetPromised
  <2> QED
    BY <1>1, <2>1, <2>2, DestroySteps
<1>2. CASE LoadFails \/ LoadRunsOutOfMemory \/ EmptyDone
  BY <1>2, QuietPromised DEF LoadFails, LoadRunsOutOfMemory, EmptyDone
<1>3. CASE SetMaxIdle
  <2>1. /\ UNCHANGED <<imageVars, entries, viewing>> /\ maxidle' = call.limit
        /\ call.limit \in Nat
    BY <1>3 DEF SetMaxIdle, IInv, Base, Structure, CoreType
  <2>2. strained \/ IdleBytes <= call.limit
    BY <1>3 DEF SetMaxIdle, IInv, Budget
  <2> QED
    BY <2>1, <2>2, LimitPromised
<1> QED
  BY <1>1, <1>2, <1>3, LoadInsertsPromised, LoadFindsCacheFullPromised, RetirePromised
     DEF Progress

LEMMA ClientPromised ==
  ASSUME IInv, Client
  PROVE  Promise!Work
<1>1. ASSUME NEW v \in Viewers, NEW f \in Files, GetUncached(v, f)
      PROVE  Promise!Work
  BY <1>1, QuietPromised DEF GetUncached
<1>2. ASSUME NEW v \in Viewers, DisposeRetains(v)
      PROVE  Promise!Work
  BY <1>2, QuietPromised DEF DisposeRetains
<1>3. ASSUME NEW v \in Viewers, NEW f \in Files \cup {NoName}, Save(v, f)
      PROVE  Promise!Work
  BY <1>3, TouchPromised DEF Save
<1>4. ASSUME NEW v \in Viewers, NEW n \in EditedSizes, Modify(v, n)
      PROVE  Promise!Work
  <2>1. size \in [Images -> Nat]
    BY DEF IInv, Base, Structure, CoreType
  <2> QED
    BY <1>4, <2>1, TouchPromised DEF Modify
<1>5. ASSUME NEW v \in Viewers, MarkUnsafe(v) \/ NameTemplate(v) \/ OpenWindow(v)
      PROVE  Promise!Work
  BY <1>5, TouchPromised DEF MarkUnsafe, NameTemplate, OpenWindow
<1>6. ASSUME NEW v \in Viewers, CloseWindow(v)
      PROVE  Promise!Work
  BY <1>6, StutterPromised DEF CloseWindow, Idle, Entries
<1>7. ASSUME NEW n \in Limits, ResizeUp(n) \/ ResizeDown(n)
      PROVE  Promise!Work
  <2>1. n \in Nat /\ maxidle \in Nat /\ IdleBytes \in Nat
    BY CacheAssumption, EntriesType DEF CacheAssumption, IInv, Base, Structure, CoreType
  <2>2. strained \/ IdleBytes <= maxidle
    BY DEF IInv, Budget
  <2>3. CASE ResizeUp(n)
    BY <2>1, <2>2, <2>3, LimitPromised DEF ResizeUp
  <2>4. CASE ResizeDown(n)
    BY <2>4, QuietPromised DEF ResizeDown
  <2> QED
    BY <1>7, <2>3, <2>4
<1>8. CASE Empty
  BY <1>8, QuietPromised DEF Empty
<1> QED
  BY <1>1, <1>2, <1>3, <1>4, <1>5, <1>6, <1>7, <1>8, GetCachedPromised, ClonePromised,
     DisposePromised DEF Client

(* A disturbance ends only with what idles within the limit.               *)
LEMMA SteadyPromised ==
  ASSUME IInv, IInv', Settle
  PROVE  Promise!Steady
<1>1. strained' = (strained /\ (pc' # "ready" \/ IdleBytes' > maxidle'))
  BY DEF Settle
<1>2. CASE pc' = "ready" /\ ~ IdleBytes' > maxidle'
  <2>1. CoreType' /\ Entries' \subseteq Images
    BY DEF IInv, Base, Structure, CoreType, Entries
  <2>2. IdleBytes' \in Nat /\ maxidle' \in Nat
    BY <2>1, IdleBytesTypeNext DEF CoreType
  <2>3. IdleBytes' <= maxidle' /\ ~ strained'
    <3>1. IdleBytes' <= maxidle'
      BY <1>2, <2>2
    <3>2. ~ strained'
      BY <1>1, <1>2
    <3> QED
      BY <3>1, <3>2
  <2>4. Idle' \in SUBSET Images /\ size' \in [Images -> Nat]
    BY <2>1 DEF Idle, CoreType
  <2>5. IdleBytes' = Cardinality(Bytes(Idle', size'))
    BY DEF IdleBytes, BytesOf, Bytes
  <2>6. IdlePairs' = Pairs(Idle', size')
    BY DEF IdlePairs, Pairs
  <2>7. Promise!FitsLimit(IdlePairs', maxidle')
    BY <2>3, <2>4, <2>5, <2>6, PromiseFits
  <2> QED
    BY <2>3, <2>7 DEF Promise!Steady, IdlePairs
<1>3. CASE ~ strained
  BY <1>1, <1>3 DEF Promise!Steady, IInv, DialogueType
<1>4. CASE strained' = strained
  BY <1>4 DEF Promise!Steady
<1> QED
  BY <1>1, <1>2, <1>3, <1>4 DEF IInv, DialogueType

(* Turning an idle image disturbs the cache; turning another does not.     *)
LEMMA TurnPromised ==
  ASSUME IInv, IInv', NEW n \in EditedSizes, Turn(n)
  PROVE  Promise!Next
<1>1. PICK x : x = rotating
  OBVIOUS
<1>2. /\ x \in live /\ size' = [size EXCEPT ![x] = n] /\ n \in Nat
      /\ strained' = (IdleBytes' > maxidle) /\ pc' = "ready"
      /\ UNCHANGED <<refcount, entries, maxidle, viewing>>
  BY <1>1, CacheAssumption DEF Turn, CacheAssumption
<1>3. /\ Idle' = Idle /\ Idle \subseteq Images /\ size \in [Images -> Nat]
      /\ size' \in [Images -> Nat] /\ x \in Images /\ maxidle \in Nat
  BY <1>2, EntriesType DEF IInv, Base, Structure, CoreType, Idle, Entries
<1>4. IdleBytes' \in Nat
  BY IdleBytesTypeNext DEF IInv, Base, Structure
<1>5. Promise!FitsLimit(IdlePairs', maxidle') <=> IdleBytes' <= maxidle
  <2>1. IdleBytes' = Cardinality(Bytes(Idle', size'))
    BY DEF IdleBytes, BytesOf, Bytes
  <2>2. IdlePairs' = Pairs(Idle', size')
    BY DEF IdlePairs, Pairs
  <2> QED
    BY <1>2, <1>3, <2>1, <2>2, PromiseFits
<1>6. CASE x \in Idle
  <2>1. PICK e, f : e = <<x, size[x]>> /\ f = <<x, n>>
    OBVIOUS
  <2>2. e \in IdlePairs /\ f \in IdlePairs'
    BY <1>2, <1>3, <1>6, <2>1 DEF IdlePairs
  <2>3. IdlePairs' = (IdlePairs \ {e}) \cup {f}
    <3>1. size'[x] = n /\ \A i \in Idle \ {x} : size'[i] = size[i]
      BY <1>2, <1>3
    <3>2. \A d \in IdlePairs' : d = f \/ (d \in IdlePairs /\ d # e)
      BY <1>3, <2>1, <3>1 DEF IdlePairs
    <3>3. \A d \in IdlePairs \ {e} : d \in IdlePairs'
      BY <1>3, <2>1, <3>1 DEF IdlePairs
    <3> QED
      BY <2>2, <3>2, <3>3
  <2>4. f[1] = e[1] /\ f[2] \in Nat
    BY <1>2, <2>1
  <2>5. strained' = ~ Promise!FitsLimit(IdlePairs', maxidle)
    BY <1>2, <1>3, <1>4, <1>5
  <2>6. Promise!Disturb(e)
    BY <1>2, <2>2, <2>3, <2>4, <2>5 DEF Promise!Disturb, IdlePairs
  <2> QED
    BY <2>2, <2>6 DEF Promise!Next, IdlePairs
<1>7. CASE x \notin Idle
  <2>1. \A i \in Idle : size'[i] = size[i]
    BY <1>2, <1>3, <1>7
  <2>2. Promise!Work
    BY <1>2, <1>3, <2>1, StutterPromised
  <2>3. IdleBytes' = IdleBytes
    BY <1>3, <2>1, IdleSame DEF IInv, Base, Structure
  <2>4. CASE IdleBytes' <= maxidle
    <3>0. ~ IdleBytes' > maxidle
      BY <1>3, <1>4, <2>4
    <3>1. ~ strained'
      BY <1>2, <3>0
    <3> QED
      BY <1>2, <1>5, <2>2, <2>4, <3>1 DEF Promise!Next, Promise!Steady, IdlePairs
  <2>5. CASE IdleBytes' > maxidle
    <3>1. strained' = TRUE /\ strained = TRUE
      BY <1>2, <1>3, <1>4, <2>3, <2>5 DEF IInv, Budget, DialogueType
    <3> QED
      BY <2>2, <3>1 DEF Promise!Next, Promise!Steady
  <2> QED
    BY <1>3, <1>4, <2>4, <2>5
<1> QED
  BY <1>6, <1>7

LEMMA PromiseNext ==
  ASSUME IInv, [Next]_vars
  PROVE  [Promise!Next]_(Promise!vars)
<1>0. IInv'
  BY NextInv
<1>1. CASE Progress
  <2>1. Settle
    BY <1>1 DEF Progress, LoadInserts, LoadFindsCacheFull, LoadFails, LoadRunsOutOfMemory,
         EvictOldest, MakeRoom, Shrink, EvictNBytes, Retire, SetMaxIdle, EmptyOne, EmptyDone,
         Aside
  <2> QED
    BY <1>0, <1>1, <2>1, ProgressPromised, SteadyPromised DEF Promise!Next
<1>2. CASE Client
  <2>1. Settle
    BY <1>2 DEF Client, GetCached, GetUncached, Save, Modify, Clone, DisposeShared,
         DisposeDestroys, DisposeRetains, MarkUnsafe, NameTemplate, OpenWindow,
         CloseWindow, ResizeUp, ResizeDown, Empty, Aside
  <2> QED
    BY <1>0, <1>2, <2>1, ClientPromised, SteadyPromised DEF Promise!Next
<1>3. CASE (\E v \in Viewers : OpenRotate(v)) \/ CloseRotate \/ UseFreed
  <2>1. Settle /\ UNCHANGED <<imageVars, entries, viewing, maxidle>>
    BY <1>3 DEF OpenRotate, CloseRotate, UseFreed, Aside
  <2> QED
    BY <1>0, <2>1, QuietPromised, SteadyPromised DEF Promise!Next
<1>4. ASSUME NEW n \in EditedSizes, Turn(n) PROVE Promise!Next
  BY <1>0, <1>4, TurnPromised
<1>5. CASE UNCHANGED vars
  <2>1. IdlePairs' = IdlePairs
    BY <1>5 DEF vars, imageVars, IdlePairs, Idle, Entries
  <2> QED
    BY <1>5, <2>1 DEF vars, Promise!vars, IdlePairs
<1> QED
  BY <1>1, <1>2, <1>3, <1>4, <1>5 DEF Next, Dialogue

(* The array, the reference counts, the evictions in several steps and the *)
(* stale index of imagecache_dispose together still make a cache which     *)
(* gives a viewer the image it asks for, forgets only what nobody views    *)
(* and lets no more idle than the user chose, unless an idle image is      *)
(* turned: imagecache.h:6.                                                 *)
THEOREM CacheImplementsPromise == Spec => ReadThrough
<1>1. IInv /\ [Next]_vars => [Promise!Next]_(Promise!vars)
  BY PromiseNext
<1> QED
  BY <1>1, PromiseInit, Invariance, PTL DEF Spec, ReadThrough, Promise!Spec

-----------------------------------------------------------------------------
(* Edits that idle                                                         *)

(* An image starts to idle when a viewer lets it go: the promise has it.   *)
LEMMA NewlyIdle ==
  ASSUME IInv, [Next]_vars, NEW i \in Idle' \ Idle
  PROVE  \E v \in Viewers : viewing[v] = i /\ i # None /\ viewing'[v] = None
<1>0. PICK e : e = <<i, size'[i]>>
  OBVIOUS
<1>1. e \in IdlePairs' /\ e[1] = i /\ \A d \in IdlePairs : d[1] # i
  BY <1>0 DEF IdlePairs
<1>2. Promise!Next \/ IdlePairs' = IdlePairs
  BY PromiseNext DEF Promise!vars, IdlePairs
<1>3. ASSUME NEW d \in IdlePairs, Promise!Disturb(d)
      PROVE  FALSE
  BY <1>1, <1>3 DEF Promise!Disturb, IdlePairs
<1>4. PICK v \in Viewers : Promise!Release(v) /\ IdlePairs' # IdlePairs
  BY <1>1, <1>2, <1>3
     DEF Promise!Next, Promise!Work, Promise!Acquire, Promise!Forget, Promise!SetLimit, IdlePairs
<1>5. /\ viewing[v] # None /\ viewing' = [viewing EXCEPT ![v] = None]
      /\ \E d \in IdlePairs' : d[1] = viewing[v] /\ IdlePairs' = IdlePairs \cup {d}
  BY <1>4 DEF Promise!Release, IdlePairs
<1>6. viewing \in [Viewers -> Images \cup {None}]
  BY DEF IInv, Base, Structure, CoreType
<1> QED
  BY <1>1, <1>5, <1>6

(* imagecache_dispose destroys an image with edits, so that no later load  *)
(* of its file finds them; only an image that idles already, turned by a   *)
(* rotate dialogue left behind, is edited and idles.                       *)
THEOREM NoEditedIdles == Spec => EditsAreNotKept
<1>1. IInv /\ [Next]_vars => [Idle' \cap modified' \subseteq Idle]_vars
  <2> SUFFICES ASSUME IInv, Next, NEW i \in Idle' \ Idle
               PROVE  i \notin modified'
    OBVIOUS
  <2>1. PICK v \in Viewers : viewing[v] = i /\ i # None /\ viewing'[v] = None
    BY NewlyIdle
  <2>2. CASE Retire
    BY <2>1, <2>2, SoleViewer DEF Retire, IInv, Base, CallOK, Holder, Structure, CoreType
  <2>3. ASSUME NEW w \in Viewers, DisposeShared(w) PROVE FALSE
    <3>1. refcount' = [refcount EXCEPT ![viewing[w]] = @ - 1] /\ refcount[viewing[w]] > 1
          /\ viewing[w] # None
          /\ UNCHANGED entries
      BY <2>3 DEF DisposeShared
    <3>2. refcount \in [Images -> Nat] /\ viewing[w] \in Images /\ i \in Entries
          /\ i \in Images
      BY <3>1, HeldIsCounted, EntriesType DEF IInv, Base, Structure, CoreType, Idle, Entries
    <3>3. refcount'[i] # 0
      BY <3>1, <3>2 DEF Idle
    <3> QED
      BY <3>3 DEF Idle
  <2>4. ASSUME NEW w \in Viewers, DisposeDestroys(w) PROVE FALSE
    <3>1. PICK k \in DOMAIN entries : entries[k] = viewing[w] /\ DestroyEntry(k)
      BY <2>4, PositionProperties DEF DisposeDestroys, IInv, Base
    <3>2. viewing' = [viewing EXCEPT ![w] = None]
      BY <2>4 DEF DisposeDestroys
    <3>3. v = w
      BY <2>1, <3>2 DEF IInv, Base, Structure, CoreType
    <3> QED
      BY <2>1, <3>1, <3>3, DestroyEntries DEF Idle
  <2>5. CASE UNCHANGED viewing
    BY <2>1, <2>5
  <2>6. ASSUME NEW w \in Viewers, NEW x \in Images, viewing' = [viewing EXCEPT ![w] = x]
        PROVE  FALSE
    BY <2>1, <2>6, CacheAssumption DEF CacheAssumption, IInv, Base, Structure, CoreType
  <2>7. CASE Progress
    <3>1. ASSUME NEW j \in Images, LoadInserts(j) PROVE FALSE
      BY <2>6, <3>1 DEF LoadInserts, IInv, Base, CallOK, Holder
    <3>2. Retire \/ UNCHANGED viewing
      BY <2>7, <3>1 DEF Progress, LoadFindsCacheFull, LoadFails, LoadRunsOutOfMemory,
         EvictOldest, MakeRoom, Shrink, EvictNBytes, SetMaxIdle, EmptyOne, EmptyDone
    <3> QED
      BY <2>2, <2>5, <3>2
  <2>8. CASE Client
    <3>1. ASSUME NEW w \in Viewers, NEW f \in Files, GetCached(w, f) PROVE FALSE
      <4>1. PICK k \in DOMAIN entries : viewing' = [viewing EXCEPT ![w] = entries[k]]
        BY <3>1 DEF GetCached
      <4>2. entries[k] \in Images
        BY DEF IInv, Base, Structure, CoreType
      <4> QED
        BY <2>6, <4>1, <4>2
    <3>2. ASSUME NEW w \in Viewers, NEW u \in Viewers, Clone(w, u) PROVE FALSE
      <4>1. viewing' = [viewing EXCEPT ![u] = viewing[w]] /\ viewing[w] \in Images
        BY <3>2 DEF Clone, IInv, Base, Structure, CoreType
      <4> QED
        BY <2>6, <4>1
    <3>3. UNCHANGED viewing
      BY <2>3, <2>4, <2>8, <3>1, <3>2 DEF Client, GetUncached, Save, Modify, DisposeRetains,
         MarkUnsafe, NameTemplate, OpenWindow, CloseWindow, ResizeUp, ResizeDown, Empty
    <3> QED
      BY <2>5, <3>3
  <2>9. CASE Dialogue
    BY <2>5, <2>9 DEF Dialogue, OpenRotate, Turn, CloseRotate, UseFreed
  <2> QED
    BY <2>7, <2>8, <2>9 DEF Next
<1> QED
  BY <1>1, Invariance, PTL DEF Spec, EditsAreNotKept
=============================================================================
