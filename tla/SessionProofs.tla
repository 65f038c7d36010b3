--------------------------- MODULE SessionProofs ---------------------------
(***************************************************************************)
(* Proofs about Session, for any number of viewers, images and files, and  *)
(* any depth of nested questions.                                          *)
(***************************************************************************)
EXTENDS Session, FiniteSetTheorems, SequenceTheorems, TLAPS

(* The part of the invariant that speaks of viewers and images.            *)
ViewersInv ==
  /\ open \subseteq Viewers
  /\ image \in [Viewers -> Images \cup {None}]
  /\ idle \subseteq Images \ Viewed
  /\ edited \subseteq Viewed \cup idle
  /\ name \in [Images -> Files \cup {NoName}]
  /\ clipboard \in Viewers \cup {None}
  /\ ViewersHaveImages
  /\ ClipboardIsOpen

MenuType ==
  /\ rotating \in Images \cup {None}
  /\ undefined \in BOOLEAN
  /\ shown = "rotate" => rotating # None

QueriesInv ==
  /\ stack \in Seq(Frame)
  /\ command \in {"waiting"} \cup Answers
  /\ shown \in {"nothing", "dcs", "quit", "save", "menu", "rotate"}
  /\ MenuType
  /\ QuestionIsShown
  /\ stack = <<>> => shown \notin {"dcs", "quit"}

(* The inductive invariant: nor is a question shown which nobody asked.    *)
IInv ==
  /\ ViewersInv
  /\ QueriesInv
  /\ current \in Viewers \cup {None}
  /\ quitting \in {"no", "chosen", "told"}

(* What LostByConsent and QuitByConsent say of one step.                   *)
Consented ==
  /\ \A i \in (edited \ edited') \cap Viewed : image' = image \/ Discards
  /\ quitting = "no" /\ quitting' = "chosen" => edited = {} \/ Discards

(* The invariant is stronger than what the runs check.                     *)
LEMMA IInvImplies ==
  IInv => TypeOK /\ ViewersHaveImages /\ ClipboardIsOpen /\ QuestionIsShown
BY DEF IInv, ViewersInv, QueriesInv, MenuType, TypeOK

(* A step that leaves viewers and images alone.                            *)
LEMMA ViewersStutter ==
  ASSUME ViewersInv, UNCHANGED viewerVars
  PROVE  ViewersInv'
BY DEF viewerVars, ViewersInv, ViewersHaveImages, ClipboardIsOpen, Viewed, ViewedIn

-----------------------------------------------------------------------------
(* Steps of handlers on viewers *)

(* The viewers hold other images: what nobody views is forgotten.          *)
LEMMA HoldStep ==
  ASSUME ViewersInv, NEW img \in [Viewers -> Images \cup {None}], NEW ed,
         NEW nm \in [Images -> Files \cup {NoName}], Hold(img, ed, nm)
  PROVE  /\ image' = img
         /\ idle' \subseteq Images \ Viewed'
         /\ edited' \subseteq Viewed' \cup idle'
         /\ name' \in [Images -> Files \cup {NoName}]
         /\ ed \cap ViewedIn(img) \subseteq edited'
<1>1. Viewed \subseteq Images /\ Viewed' = ViewedIn(img)
  BY DEF ViewersInv, Viewed, ViewedIn, Hold
<1> QED
  BY <1>1 DEF Hold, MayIdle, ViewersInv

(* viewer_load leaves each viewer with an image or destroyed, and loses no *)
(* edit of an image that another viewer shows.                             *)
LEMMA LoadFileStep ==
  ASSUME ViewersInv, NEW v \in Viewers, NEW f \in Files,
         NEW img \in [Viewers -> Images \cup {None}],
         img[v] = None,
         \A w \in Viewers \ {v} : w \in open <=> img[w] # None,
         NEW unsafe, NEW template,
         LoadFile(v, img, f, unsafe, template)
  PROVE  /\ ViewersInv'
         /\ edited \cap ViewedIn(img) \subseteq edited'
<1> USE SessionAssumption
<1>1. clipboard' \in Viewers \cup {None} /\ clipboard' # v
  BY DEF LoadFile, ViewerDispose, ViewersInv, ClipboardIsOpen
<1>2. CASE /\ open' = open \ {v}
           /\ Hold(img, edited, name)
  <2>1. /\ image' = img /\ idle' \subseteq Images \ Viewed'
        /\ edited' \subseteq Viewed' \cup idle'
        /\ name' \in [Images -> Files \cup {NoName}]
        /\ edited \cap ViewedIn(img) \subseteq edited'
    BY <1>2, HoldStep DEF ViewersInv
  <2> QED
    BY <1>1, <1>2, <2>1 DEF ViewersInv, ViewersHaveImages, ClipboardIsOpen,
       LoadFile, ViewerDispose
<1>3. ASSUME NEW i \in Images, NEW ed, NEW n \in Files \cup {NoName},
             EditsIn(img) \subseteq ed, open' = open \cup {v},
             Hold([img EXCEPT ![v] = i], ed, [name EXCEPT ![i] = n])
      PROVE  /\ ViewersInv'
             /\ edited \cap ViewedIn(img) \subseteq edited'
  <2> DEFINE new == [img EXCEPT ![v] = i]
             named == [name EXCEPT ![i] = n]
  <2>2. /\ new \in [Viewers -> Images \cup {None}]
        /\ new[v] = i
        /\ \A w \in Viewers \ {v} : new[w] = img[w]
    OBVIOUS
  <2>3. named \in [Images -> Files \cup {NoName}]
    BY DEF ViewersInv
  <2>5. Hold(new, ed, named)
    BY <1>3
  <2> HIDE DEF new, named
  <2>4. ViewedIn(img) \subseteq ViewedIn(new)
    BY <2>2 DEF ViewedIn
  <2>6. /\ image' = new /\ idle' \subseteq Images \ Viewed'
        /\ edited' \subseteq Viewed' \cup idle'
        /\ name' \in [Images -> Files \cup {NoName}]
        /\ ed \cap ViewedIn(new) \subseteq edited'
    BY <2>2, <2>3, <2>5, HoldStep
  <2>7. edited \cap ViewedIn(img) \subseteq ed
    BY <1>3 DEF EditsIn
  <2>8. ViewersHaveImages' /\ open' \subseteq Viewers
    BY <1>3, <2>2, <2>6 DEF ViewersHaveImages, ViewersInv
  <2>9. ClipboardIsOpen'
    BY <1>3, <1>1 DEF LoadFile, ViewerDispose, ViewersInv, ClipboardIsOpen
  <2> QED
    BY <1>1, <2>2, <2>4, <2>6, <2>7, <2>8, <2>9 DEF ViewersInv
<1>4. ASSUME NEW i \in Images, open' = open \cup {v},
             Hold([img EXCEPT ![v] = i],
                  IF unsafe THEN EditsIn(img) \cup {i} ELSE EditsIn(img),
                  [name EXCEPT ![i] = IF unsafe \/ template THEN NoName ELSE f])
      PROVE  /\ ViewersInv'
             /\ edited \cap ViewedIn(img) \subseteq edited'
  <2> DEFINE ed == IF unsafe THEN EditsIn(img) \cup {i} ELSE EditsIn(img)
             n == IF unsafe \/ template THEN NoName ELSE f
  <2>1. EditsIn(img) \subseteq ed /\ n \in Files \cup {NoName}
    OBVIOUS
  <2>2. Hold([img EXCEPT ![v] = i], ed, [name EXCEPT ![i] = n])
    BY <1>4
  <2> HIDE DEF ed, n
  <2> QED
    BY <1>3, <1>4, <2>1, <2>2
<1> QED
  BY <1>2, <1>4 DEF LoadFile

(* viewer_unload and viewer_destroy likewise.                              *)
LEMMA CloseViewerStep ==
  ASSUME ViewersInv, NEW v \in open, CloseViewer(v)
  PROVE  /\ ViewersInv'
         /\ edited \cap ViewedIn(Without(v)) \subseteq edited'
<1>1. PICK img : img = Without(v)
  OBVIOUS
<1>2. /\ v \in Viewers /\ img \in [Viewers -> Images \cup {None}]
      /\ img = [image EXCEPT ![v] = None]
  BY <1>1 DEF Without, ViewersInv
<1>3. Hold(img, edited, name) /\ open' = open \ {v} /\ ViewerDispose(v)
  BY <1>1 DEF CloseViewer, Hold, MayIdle
<1>4. /\ image' = img /\ idle' \subseteq Images \ Viewed'
      /\ edited' \subseteq Viewed' \cup idle'
      /\ name' \in [Images -> Files \cup {NoName}]
      /\ edited \cap ViewedIn(img) \subseteq edited'
  BY <1>2, <1>3, HoldStep DEF ViewersInv
<1> QED
  BY <1>1, <1>2, <1>3, <1>4, SessionAssumption
     DEF ViewersInv, ViewersHaveImages, ClipboardIsOpen, ViewerDispose

LEMMA CloseAllStep ==
  ASSUME ViewersInv, CloseAll
  PROVE  ViewersInv'
<1>1. PICK img : img = [v \in Viewers |-> None]
  OBVIOUS
<1>2. img \in [Viewers -> Images \cup {None}] /\ \A v \in Viewers : img[v] = None
  BY <1>1
<1>3. Hold(img, edited, name) /\ open' = {} /\ clipboard' = None
  BY <1>1 DEF CloseAll, Hold, MayIdle
<1>4. /\ image' = img /\ idle' \subseteq Images \ Viewed'
      /\ edited' \subseteq Viewed' \cup idle'
      /\ name' \in [Images -> Files \cup {NoName}]
  BY <1>2, <1>3, HoldStep DEF ViewersInv
<1> QED
  BY <1>2, <1>3, <1>4, SessionAssumption
     DEF ViewersInv, ViewersHaveImages, ClipboardIsOpen

(* Whatever a handler does once it may go on, on a viewer that is there.   *)
LEMMA PerformStep ==
  ASSUME ViewersInv, NEW fr \in Frame,
         fr.viewer \in open \cup {None}, Perform(fr)
  PROVE  /\ ViewersInv'
         /\ quitting' \in {quitting, "chosen"}
         /\ fr \in Unloads => edited \cap ViewedIn(Without(fr.viewer)) \subseteq edited'
<1> USE SessionAssumption
<1>1. CASE fr.op = "close" /\ CloseViewer(fr.viewer) /\ UNCHANGED quitting
  <2>1. fr.viewer \in open
    BY <1>1 DEF Frame, Unloads, Quits, ViewersInv
  <2> QED
    BY <1>1, <2>1, CloseViewerStep
<1>2. CASE /\ fr.op = "replace"
           /\ LoadFile(fr.viewer, Without(fr.viewer), fr.file, fr.unsafe, FALSE)
           /\ UNCHANGED quitting
  <2>1. /\ fr.viewer \in open /\ fr.viewer \in Viewers
        /\ fr.file \in Files /\ fr.unsafe \in BOOLEAN
    BY <1>2 DEF Frame, Unloads, Quits, ViewersInv
  <2>2. /\ Without(fr.viewer) \in [Viewers -> Images \cup {None}]
        /\ Without(fr.viewer)[fr.viewer] = None
        /\ \A w \in Viewers \ {fr.viewer} : w \in open <=> Without(fr.viewer)[w] # None
    BY <2>1 DEF Without, ViewersInv, ViewersHaveImages
  <2>3. /\ ViewersInv'
        /\ edited \cap ViewedIn(Without(fr.viewer)) \subseteq edited'
    <3>1. PICK img : img = Without(fr.viewer)
      OBVIOUS
    <3>2. LoadFile(fr.viewer, img, fr.file, fr.unsafe, FALSE)
      BY ONLY <1>2, <3>1, Zenon
    <3>3. /\ img \in [Viewers -> Images \cup {None}]
          /\ img[fr.viewer] = None
          /\ \A w \in Viewers \ {fr.viewer} : w \in open <=> img[w] # None
          /\ FALSE \in BOOLEAN
      BY <2>2, <3>1
    <3>4. ViewersInv' /\ edited \cap ViewedIn(img) \subseteq edited'
      BY ONLY ViewersInv, <2>1, <3>2, <3>3, LoadFileStep, Zenon
    <3> QED
      BY <3>1, <3>4
  <2> QED
    BY <1>2, <2>3
<1>3. CASE /\ fr.op = "closeall" /\ CloseAll /\ UNCHANGED quitting
  BY <1>3, CloseAllStep DEF Unloads
<1>4. CASE /\ fr.op = "quit" /\ quitting' = "chosen" /\ UNCHANGED viewerVars
  BY <1>4, ViewersStutter DEF Unloads
<1>5. CASE /\ fr.op = "prequit" /\ CloseAll /\ quitting' = "chosen"
  BY <1>5, CloseAllStep DEF Unloads
<1> QED
  BY <1>1, <1>2, <1>3, <1>4, <1>5 DEF Perform

(* An edited image which may go without a question stays in another view.  *)
LEMMA NotLost ==
  ASSUME ViewersInv, NEW v \in open, ~ MustAsk(v)
  PROVE  edited \cap Viewed \subseteq ViewedIn(Without(v))
<1> USE SessionAssumption
<1> DEFINE S == { w \in open : image[w] = image[v] }
<1>1. v \in S /\ S \subseteq Viewers /\ v \in Viewers
  BY DEF ViewersInv
<1>2. SUFFICES ASSUME NEW i \in edited \cap Viewed
               PROVE  \E w \in Viewers \ {v} : image[w] = i /\ i # None
  BY <1>1 DEF ViewedIn, Without, ViewersInv
<1>3. PICK u \in open : image[u] = i /\ i # None
  BY DEF ViewersInv, Viewed, ViewedIn, ViewersHaveImages
<1>4. CASE u # v
  BY <1>1, <1>3, <1>4 DEF ViewersInv
<1>5. CASE u = v
  <2>1. Cardinality(S) # 1
    BY <1>3, <1>5 DEF MustAsk
  <2>2. S # {v}
    BY <2>1, FS_Singleton
  <2>3. PICK w \in S : w # v
    BY <1>1, <2>2
  <2> QED
    BY <1>1, <1>3, <1>5, <2>3
<1> QED
  BY <1>4, <1>5

-----------------------------------------------------------------------------
(* Steps of handlers on questions *)

LEMMA AppendFrame ==
  ASSUME NEW S, NEW s \in Seq(S), NEW x \in S
  PROVE  /\ Append(s, x) \in Seq(S)
         /\ Append(s, x) # <<>>
         /\ Last(Append(s, x)) = x
         /\ Len(Append(s, x)) = Len(s) + 1
BY DEF Last

(* The innermost handler returns.                                          *)
LEMMA FrontFrame ==
  ASSUME NEW S, NEW s \in Seq(S), s # <<>>
  PROVE  /\ Front(s) \in Seq(S)
         /\ Len(Front(s)) = Len(s) - 1
         /\ Last(s) \in S
<1>1. Len(s) \in Nat \ {0} /\ Last(s) \in S
  BY EmptySeq DEF Last
<1>2. \A i \in 1 .. Len(s) - 1 : s[i] \in S
  BY <1>1
<1>3. /\ SubSeq(s, 1, Len(s) - 1) \in Seq(S)
      /\ Len(SubSeq(s, 1, Len(s) - 1)) = IF 1 <= Len(s) - 1 THEN Len(s) - 1 - 1 + 1 ELSE 0
  BY <1>1, <1>2, SubSeqProperties
<1>4. Front(s) = SubSeq(s, 1, Len(s) - 1)
  BY Zenon DEF Front
<1>5. Len(Front(s)) = IF 1 <= Len(s) - 1 THEN Len(s) - 1 - 1 + 1 ELSE 0
  BY <1>3, <1>4, Zenon
<1>6. Len(Front(s)) = Len(s) - 1
  <2>1. PICK n, m : n = Len(s) /\ m = Len(Front(s))
    OBVIOUS
  <2>2. n \in Nat \ {0} /\ m = IF 1 <= n - 1 THEN n - 1 - 1 + 1 ELSE 0
    BY <1>1, <1>5, <2>1
  <2>3. m = n - 1
    BY <2>2
  <2> QED
    BY <2>1, <2>3
<1> QED
  BY <1>1, <1>3, <1>4, <1>6, Zenon

(* Whatever is shown instead, the rotate dialogue keeps its type.          *)
LEMMA ShowStep ==
  ASSUME MenuType, NEW s, s # "rotate" \/ shown = "rotate", Show(s)
  PROVE  MenuType'
<1>1. Dangling \in BOOLEAN
  BY DEF Dangling
<1> QED
  BY <1>1 DEF MenuType, Show

(* A question that opens is the one which is shown.                        *)
LEMMA AskStep ==
  ASSUME QueriesInv, NEW fr \in Frame, NEW question,
         question = IF fr.viewer = None THEN "quit" ELSE "dcs",
         Ask(question, fr)
  PROVE  QueriesInv' /\ UNCHANGED <<viewerVars, quitting>>
<1>1. stack \in Seq(Frame)
  BY DEF QueriesInv
<1>2. /\ stack' = Append(stack, fr) /\ command' = "waiting" /\ shown' = question
      /\ MenuType'
      /\ UNCHANGED <<viewerVars, quitting>>
  BY ShowStep DEF Ask, Show, QueriesInv
<1>3. stack' \in Seq(Frame) /\ Last(stack') = fr
  BY <1>1, <1>2, AppendFrame
<1> QED
  BY <1>2, <1>3 DEF QueriesInv, QuestionIsShown

(* The user starts something only while no handler waits.                  *)
LEMMA UserFreeIdle ==
  ASSUME QueriesInv, UserFree
  PROVE  stack = <<>> /\ quitting = "no"
BY DEF QueriesInv, QuestionIsShown, UserFree, Polling

(* A step which leaves no question and opens none.                         *)
LEMMA QueriesIdle ==
  ASSUME QueriesInv, stack = <<>>, UNCHANGED <<stack, command>>, MenuType',
         shown' \in {"nothing", "save", "menu", "rotate", shown}
  PROVE  QueriesInv'
BY DEF QueriesInv, QuestionIsShown

LEMMA QueriesStutter ==
  ASSUME QueriesInv, UNCHANGED <<stack, command, shown>>, MenuType'
  PROVE  QueriesInv'
BY DEF QueriesInv, QuestionIsShown

-----------------------------------------------------------------------------
(* Handlers that may ask *)

(* A handler which would unload a viewer that is there.                    *)
LEMMA StartUnloadStep ==
  ASSUME IInv, NEW fr \in Unloads, fr.viewer \in open, NEW after,
         after = shown \/ (stack = <<>> /\ after = "nothing"),
         StartUnload(fr, after), UNCHANGED current
  PROVE  IInv' /\ Consented
<1> USE DEF IInv
<1>1. /\ fr \in Frame /\ fr.viewer # None
      /\ fr.viewer \in open \cup {None}
  BY SessionAssumption DEF Frame, Unloads
<1>2. CASE MustAsk(fr.viewer) /\ Ask("dcs", fr)
  <2>1. QueriesInv' /\ UNCHANGED <<viewerVars, quitting>>
    BY <1>1, <1>2, AskStep
  <2>2. ViewersInv'
    BY <2>1, ViewersStutter
  <2> QED
    BY <2>1, <2>2 DEF Consented, viewerVars
<1>3. CASE /\ ~ MustAsk(fr.viewer) /\ Perform(fr)
           /\ Show(after) /\ UNCHANGED <<stack, command>>
  <2>1. /\ ViewersInv' /\ quitting' \in {quitting, "chosen"}
        /\ edited \cap ViewedIn(Without(fr.viewer)) \subseteq edited'
    BY <1>1, <1>3, PerformStep
  <2>2. edited \cap Viewed \subseteq edited'
    BY <1>3, <2>1, NotLost
  <2>3. UNCHANGED quitting
    BY <1>3 DEF Perform, Unloads
  <2>4. QueriesInv'
    BY <1>3, QueriesIdle, QueriesStutter, ShowStep DEF Show, QueriesInv
  <2> QED
    BY <2>1, <2>2, <2>3, <2>4 DEF Consented
<1> QED
  BY <1>2, <1>3 DEF StartUnload

(* A handler which would throw everything away.                            *)
LEMMA StartQuitStep ==
  ASSUME IInv, NEW fr \in Quits, NEW after,
         after = shown \/ (stack = <<>> /\ after = "nothing"),
         StartQuit(fr, after), UNCHANGED current
  PROVE  IInv' /\ Consented
<1> USE DEF IInv
<1>1. /\ fr \in Frame /\ fr.viewer = None
      /\ fr.viewer \in open \cup {None}
  BY DEF Frame, Quits
<1>2. CASE edited # {} /\ Ask("quit", fr)
  <2>1. QueriesInv' /\ UNCHANGED <<viewerVars, quitting>>
    BY <1>1, <1>2, AskStep
  <2>2. ViewersInv'
    BY <2>1, ViewersStutter
  <2> QED
    BY <2>1, <2>2 DEF Consented, viewerVars
<1>3. CASE edited = {} /\ Perform(fr) /\ Show(after) /\ UNCHANGED <<stack, command>>
  <2>1. ViewersInv' /\ quitting' \in {quitting, "chosen"}
    BY <1>1, <1>3, PerformStep
  <2>2. QueriesInv'
    BY <1>3, QueriesIdle, QueriesStutter, ShowStep DEF Show, QueriesInv
  <2> QED
    BY <1>3, <2>1, <2>2 DEF Consented
<1> QED
  BY <1>2, <1>3 DEF StartQuit

-----------------------------------------------------------------------------
(* The actions *)

LEMMA ResumeStep ==
  ASSUME IInv, Resume
  PROVE  IInv' /\ Consented
<1> USE DEF IInv
<1> DEFINE gone == Last(stack).viewer # None /\ Last(stack).viewer \notin open
<1>1. PICK fr : fr = Last(stack)
  OBVIOUS
<1>2. /\ stack \in Seq(Frame) /\ stack # <<>>
      /\ command \in Answers /\ command # "waiting"
      /\ stack' = Front(stack) /\ UNCHANGED <<current, command>>
  BY DEF Resume, QueriesInv, Answers
<1>3. /\ stack' \in Seq(Frame) /\ fr \in Frame
      /\ Len(stack') = Len(stack) - 1 /\ Len(stack) \in Nat
  BY <1>1, <1>2, FrontFrame, LenProperties
<1>4. ASSUME shown' \in {"nothing", "save"}, MenuType'
      PROVE  QueriesInv'
  BY <1>2, <1>3, <1>4 DEF QueriesInv, QuestionIsShown
<1>5. CASE GoesAhead("discard") /\ ~ gone /\ Perform(Last(stack))
           /\ Show("nothing")
  <2>1. fr.viewer \in open \cup {None}
    BY <1>1, <1>5
  <2>2. Perform(fr)
    BY <1>1, <1>5
  <2>3. ViewersInv' /\ quitting' \in {quitting, "chosen"}
    BY <1>3, <2>1, <2>2, PerformStep
  <2>4. Discards
    BY <1>3, <1>5 DEF Discards, GoesAhead
  <2>5. MenuType' /\ shown' = "nothing"
    BY <1>5, ShowStep DEF QueriesInv, Show
  <2> QED
    BY <1>2, <1>4, <2>3, <2>4, <2>5 DEF Consented
<1>6. CASE /\ UNCHANGED <<viewerVars, quitting>> /\ shown' \in {"nothing", "save"}
           /\ MenuType'
  <2>1. ViewersInv'
    BY <1>6, ViewersStutter
  <2> QED
    BY <1>2, <1>4, <1>6, <2>1 DEF Consented, viewerVars
<1>7. ASSUME NEW s \in {"nothing", "save"}, Show(s) PROVE MenuType' /\ shown' = s
  BY <1>7, ShowStep DEF QueriesInv, Show
<1>8. CASE /\ undefined' = TRUE /\ shown' = "nothing" /\ rotating' = None
           /\ UNCHANGED <<viewerVars, quitting>>
  BY <1>6, <1>8 DEF MenuType
<1> QED
  BY <1>5, <1>6, <1>7, <1>8 DEF Resume

LEMMA AnswerStep ==
  ASSUME IInv, NEW c \in Answers, Answer(c)
  PROVE  IInv' /\ Consented
<1> USE DEF IInv
<1>1. stack # <<>> /\ stack \in Seq(Frame) /\ command = "waiting"
  BY DEF Answer, Polling, QueriesInv
<1>2. Len(stack) \in 1 .. Len(stack) /\ stack[Len(stack)] \in Frame
  BY <1>1, EmptySeq
<1>3. [stack[Len(stack)] EXCEPT !.answered = TRUE] \in Frame
  BY <1>2 DEF Frame, Unloads, Quits
<1>4. stack' = [stack EXCEPT ![Len(stack)] = [stack[Len(stack)] EXCEPT !.answered = TRUE]]
  BY DEF Answer
<1>5. stack' \in Seq(Frame) /\ Len(stack') = Len(stack)
  BY <1>1, <1>2, <1>3, <1>4, ExceptSeq
<1>6. QueriesInv'
  BY <1>5 DEF Answer, QueriesInv, QuestionIsShown, Answers, MenuType, menuVars
<1>7. ViewersInv'
  BY ViewersStutter DEF Answer
<1> QED
  BY <1>6, <1>7 DEF Answer, Consented, viewerVars

(* A step of the user, while nothing waits, which loses no edit.           *)
LEMMA UserStep ==
  ASSUME IInv, UserFree, ViewersInv',
         UNCHANGED <<stack, command, quitting>>,
         shown' \in {"nothing", "save", "menu", "rotate", shown},
         current' \in Viewers \cup {None}, MenuType',
         \A i \in (edited \ edited') \cap Viewed : image' = image
  PROVE  IInv' /\ Consented
<1>1. QueriesInv'
  <2>1. stack = <<>>
    BY UserFreeIdle DEF IInv
  <2> QED
    BY <2>1, QueriesIdle DEF IInv
<1> QED
  BY <1>1 DEF IInv, Consented

(* The steps of the user which change no viewer.                           *)
LEMMA QuietUserStep ==
  ASSUME IInv, UserFree, UNCHANGED <<viewerVars, stack, command, quitting>>,
         shown' \in {"nothing", "save", "menu", "rotate", shown},
         current' \in Viewers \cup {None}, MenuType'
  PROVE  IInv' /\ Consented
BY ViewersStutter, UserStep DEF IInv, viewerVars

(* What is shown next, as far as a step of the user goes.                  *)
LEMMA UserShows ==
  ASSUME IInv, NEW s, s \in {"nothing", "save", "menu", shown}, Show(s)
  PROVE  shown' \in {"nothing", "save", "menu", shown} /\ MenuType'
BY ShowStep DEF IInv, QueriesInv, Show

(* An image of a viewer, or one that idles, is edited.                     *)
LEMMA ChangeStep ==
  ASSUME ViewersInv, NEW i \in Viewed \cup idle, Change(i),
         UNCHANGED <<open, image, idle, name>>
  PROVE  ViewersInv'
BY DEF Change, ViewersInv, ViewersHaveImages, ClipboardIsOpen, Viewed, ViewedIn

LEMMA ModifyStep ==
  ASSUME IInv, NEW v \in Viewers, Modify(v)
  PROVE  IInv' /\ Consented
<1>1. image[v] \in Viewed
  BY DEF Modify, IInv, ViewersInv, ViewersHaveImages, Viewed, ViewedIn
<1>2. ViewersInv'
  BY <1>1, ChangeStep DEF Modify, IInv
<1>3. shown' \in {"nothing", "save", "menu", shown} /\ MenuType'
  BY UserShows DEF Modify, ByClickOrKey
<1>4. edited \subseteq edited'
  BY DEF Modify, Change
<1> QED
  BY <1>2, <1>3, <1>4, UserStep DEF Modify, IInv

LEMMA OpenRotateStep ==
  ASSUME IInv, NEW v \in Viewers, OpenRotate(v)
  PROVE  IInv' /\ Consented
<1>1. MenuType'
  <2>1. image[v] \in Images
    BY SessionAssumption DEF OpenRotate, IInv, ViewersInv, ViewersHaveImages
  <2>2. Dangling \in BOOLEAN /\ undefined \in BOOLEAN
    BY DEF Dangling, IInv, QueriesInv, MenuType
  <2> QED
    BY <2>1, <2>2, SessionAssumption DEF OpenRotate, MenuType
<1> QED
  BY <1>1, QuietUserStep DEF OpenRotate, IInv

LEMMA RotateChosenStep ==
  ASSUME IInv, RotateChosen
  PROVE  IInv' /\ Consented
<1>1. CASE ~ Dangling /\ Change(rotating) /\ \E s \in ByClickOrKey : Show(s)
  <2>1. MenuType' /\ shown' \in {"nothing", "save", "menu", shown}
    BY <1>1, UserShows DEF ByClickOrKey
  <2>2. CASE rotating \in Viewed \cup idle
    <3>1. ViewersInv'
      BY <1>1, <2>2, ChangeStep DEF RotateChosen, IInv
    <3>2. edited \subseteq edited'
      BY <1>1 DEF Change
    <3> QED
      BY <2>1, <3>1, <3>2, UserStep DEF RotateChosen, IInv
  <2>3. CASE rotating = None
    BY <2>3 DEF IInv, QueriesInv, MenuType, RotateChosen
  <2> QED
    BY <1>1, <2>2, <2>3 DEF Dangling
<1>2. CASE Dangling /\ undefined' = TRUE /\ UNCHANGED <<edited, clipboard, shown, rotating>>
  <2>1. MenuType'
    BY <1>2 DEF MenuType, IInv, QueriesInv
  <2> QED
    BY <1>2, <2>1, QuietUserStep DEF RotateChosen, viewerVars, IInv
<1> QED
  BY <1>1, <1>2 DEF RotateChosen

LEMMA NewViewStep ==
  ASSUME IInv, NEW v \in Viewers, NEW w \in Viewers, NewView(v, w)
  PROVE  IInv' /\ Consented
<1> USE DEF IInv
<1>1. image[w] = None /\ image[v] # None
  BY DEF NewView, ViewersInv, ViewersHaveImages
<1>2. Viewed' = Viewed
  BY <1>1 DEF NewView, ViewersInv, Viewed, ViewedIn
<1>3. ViewersInv'
  BY <1>1, <1>2 DEF NewView, ViewersInv, ViewersHaveImages, ClipboardIsOpen
<1>4. shown' \in {"nothing", "save", "menu", shown} /\ MenuType'
  BY UserShows DEF NewView, ByClickOrKey
<1> QED
  BY <1>3, <1>4, UserStep DEF NewView

LEMMA CopyStep ==
  ASSUME IInv, NEW v \in Viewers, Copy(v)
  PROVE  IInv' /\ Consented
<1> USE DEF IInv
<1>1. ViewersInv'
  BY DEF Copy, ViewersInv, ViewersHaveImages, ClipboardIsOpen, Viewed, ViewedIn
<1>2. shown' \in {"nothing", "save", "menu", shown} /\ MenuType'
  BY UserShows DEF Copy, ByClickOrKey
<1> QED
  BY <1>1, <1>2, UserStep DEF Copy

LEMMA SaveStep ==
  ASSUME IInv, NEW f \in Files, Save(f)
  PROVE  IInv' /\ Consented
<1> USE DEF IInv
<1>1. ViewersInv'
  BY DEF Save, ViewersInv, ViewersHaveImages, ClipboardIsOpen, Viewed, ViewedIn
<1>2. shown' \in {"nothing", "save", "menu", shown} /\ MenuType'
  BY UserShows DEF Save, QueriesInv, MenuType
<1> QED
  BY <1>1, <1>2, UserStep DEF Save

(* What idles is evicted.                                                  *)
LEMMA ShrinkCacheStep ==
  ASSUME IInv, ShrinkCache
  PROVE  IInv' /\ Consented
<1>1. PICK img : img = image
  OBVIOUS
<1>2. img \in [Viewers -> Images \cup {None}] /\ Hold(img, edited, name)
  BY <1>1 DEF ShrinkCache, Hold, IInv, ViewersInv
<1>3. /\ image' = image /\ idle' \subseteq Images \ Viewed'
      /\ edited' \subseteq Viewed' \cup idle'
      /\ name' \in [Images -> Files \cup {NoName}]
  BY <1>1, <1>2, HoldStep DEF IInv, ViewersInv
<1>4. ViewersInv'
  BY <1>3 DEF ShrinkCache, IInv, ViewersInv, ViewersHaveImages, ClipboardIsOpen
<1>5. shown' \in {"nothing", "save", "menu", shown} /\ MenuType'
  BY UserShows DEF ShrinkCache
<1> QED
  BY <1>3, <1>4, <1>5, UserStep DEF ShrinkCache, IInv

(* A message that is handled without a question.                           *)
LEMMA MessageStep ==
  ASSUME IInv, ViewersInv', edited \cap Viewed \subseteq edited', quitting' \in {quitting, "told"},
         UNCHANGED <<current, stack, command, menuVars>>
  PROVE  IInv' /\ Consented
BY QueriesStutter DEF IInv, Consented, QueriesInv, MenuType, menuVars

(* A file is loaded into a new viewer.                                     *)
LEMMA LoadNewStep ==
  ASSUME IInv, NEW v \in Viewers, v \notin open, NEW f \in Files, NEW unsafe, NEW template,
         LoadFile(v, image, f, unsafe, template),
         UNCHANGED <<current, stack, command, menuVars, quitting>>
  PROVE  IInv' /\ Consented
<1> USE DEF IInv
<1>1. PICK img : img = image
  OBVIOUS
<1>2. /\ img \in [Viewers -> Images \cup {None}] /\ img[v] = None
      /\ \A w \in Viewers \ {v} : w \in open <=> img[w] # None
      /\ edited \cap Viewed \subseteq ViewedIn(img)
  BY <1>1 DEF ViewersInv, ViewersHaveImages, Viewed
<1>3. LoadFile(v, img, f, unsafe, template)
  BY ONLY <1>1, LoadFile(v, image, f, unsafe, template), Zenon
<1>4. ViewersInv' /\ edited \cap ViewedIn(img) \subseteq edited'
  BY <1>2, <1>3, LoadFileStep, Zenon
<1> QED
  BY <1>2, <1>4, MessageStep

LEMMA CloseStep ==
  ASSUME IInv, NEW v \in Viewers, Close(v)
  PROVE  IInv' /\ Consented
<1>1. PICK fr : fr = [Handler("close") EXCEPT !.viewer = v]
  OBVIOUS
<1>2. fr \in Unloads /\ fr.viewer = v
  BY <1>1 DEF Handler, Unloads
<1>3. stack = <<>>
  BY UserFreeIdle DEF Close, IInv
<1>4. PICK s \in Leaves : StartUnload(fr, s)
  BY <1>1 DEF Close, StartUnload
<1> QED
  BY <1>2, <1>3, <1>4, StartUnloadStep DEF Close, Leaves, ByClickOrKey

LEMMA StepStep ==
  ASSUME IInv, NEW v \in Viewers, NEW f \in Files, Step(v, f)
  PROVE  IInv' /\ Consented
<1>1. PICK fr : fr = [Handler("replace") EXCEPT !.viewer = v, !.file = f]
  OBVIOUS
<1>2. fr \in Unloads /\ fr.viewer = v
  BY <1>1 DEF Handler, Unloads
<1>3. stack = <<>>
  BY UserFreeIdle DEF Step, IInv
<1>4. PICK s \in Leaves : StartUnload(fr, s)
  BY <1>1 DEF Step, StartUnload
<1> QED
  BY <1>2, <1>3, <1>4, StartUnloadStep DEF Step, Leaves, ByClickOrKey

LEMMA ChooseQuitStep ==
  ASSUME IInv, NEW op \in {"quit", "closeall"}, ChooseQuit(op)
  PROVE  IInv' /\ Consented
<1>1. Handler(op) \in Quits
  BY DEF Handler, Quits
<1>2. stack = <<>>
  BY UserFreeIdle DEF ChooseQuit, IInv
<1> QED
  BY <1>1, <1>2, StartQuitStep DEF ChooseQuit

LEMMA PreQuitStep ==
  ASSUME IInv, PreQuit
  PROVE  IInv' /\ Consented
<1>1. Handler("prequit") \in Quits
  BY DEF Handler, Quits
<1>2. PICK after : after = shown
  OBVIOUS
<1>3. PICK fr : fr = Handler("prequit")
  OBVIOUS
<1>4. StartQuit(fr, after) /\ UNCHANGED current
  BY <1>2, <1>3 DEF PreQuit, StartQuit
<1> QED
  BY <1>1, <1>2, <1>3, <1>4, StartQuitStep

LEMMA DataLoadStep ==
  ASSUME IInv, NEW v \in Viewers, NEW f \in Files, NEW unsafe \in BOOLEAN,
         DataLoad(v, f, unsafe)
  PROVE  IInv' /\ Consented
<1>1. CASE v \in open
  <2>1. PICK fr : fr = [Handler("replace") EXCEPT !.viewer = v, !.file = f, !.unsafe = unsafe]
    OBVIOUS
  <2>2. fr \in Unloads /\ fr.viewer = v
    BY <2>1 DEF Handler, Unloads
  <2>3. PICK after : after = shown
    OBVIOUS
  <2>4. StartUnload(fr, after) /\ UNCHANGED current
    BY <1>1, <2>1, <2>3 DEF DataLoad, StartUnload
  <2>5. fr.viewer \in open
    BY <1>1, <2>2
  <2> QED
    BY <2>2, <2>3, <2>4, <2>5, StartUnloadStep
<1>2. CASE v \notin open
  BY <1>2, LoadNewStep DEF DataLoad
<1> QED
  BY <1>1, <1>2

(* Every step keeps the invariant, and loses no edit and quits over none   *)
(* without consent.                                                        *)
LEMMA NextStep ==
  ASSUME IInv, Next
  PROVE  IInv' /\ Consented
<1> USE DEF IInv
<1>1. ASSUME NEW v \in Viewers, Click(v) PROVE IInv' /\ Consented
  <2>1. shown' \in {"nothing", "save", "menu", shown} /\ MenuType'
    BY <1>1, UserShows DEF Click
  <2> QED
    BY <1>1, <2>1, QuietUserStep DEF Click, viewerVars
<1>2. CASE ChooseForGone
  BY <1>2, QuietUserStep DEF ChooseForGone, viewerVars, QueriesInv, MenuType
<1>3. CASE ShowSave
  <2>1. shown' \in {"nothing", "save", "menu", shown} /\ MenuType'
    BY <1>3, UserShows DEF ShowSave, QueriesInv, MenuType
  <2> QED
    BY <1>3, <2>1, QuietUserStep DEF ShowSave, viewerVars
<1>4. CASE CloseMenu
  <2>1. shown' \in {"nothing", "save", "menu", shown} /\ MenuType'
    BY <1>4, UserShows DEF CloseMenu
  <2> QED
    BY <1>4, <2>1, QuietUserStep DEF CloseMenu, viewerVars
<1>5. CASE Dismiss
  <2>1. QueriesInv'
    BY <1>5, ShowStep DEF Dismiss, QueriesInv, QuestionIsShown, Answers, Show
  <2>2. ViewersInv'
    BY <1>5, ViewersStutter DEF Dismiss
  <2> QED
    BY <1>5, <2>1, <2>2 DEF Dismiss, Consented, viewerVars
<1>6. CASE Quit
  <2>1. ViewersInv'
    BY <1>6, ViewersStutter DEF Quit
  <2> QED
    BY <1>6, <2>1, MessageStep DEF Quit, viewerVars
<1>7. CASE LoseClipboard
  <2>1. ViewersInv'
    BY <1>7 DEF LoseClipboard, ViewersInv, ViewersHaveImages, ClipboardIsOpen, Viewed, ViewedIn
  <2> QED
    BY <1>7, <2>1, MessageStep DEF LoseClipboard
<1>8. ASSUME NEW v \in Viewers, NEW f \in Files, NEW template \in BOOLEAN, DataOpen(v, f, template)
      PROVE  IInv' /\ Consented
  BY <1>8, LoadNewStep DEF DataOpen
<1>9. CASE User
  BY <1>1, <1>2, <1>3, <1>4, <1>5, <1>9, AnswerStep, ModifyStep, CopyStep, CloseStep,
     OpenRotateStep, RotateChosenStep, NewViewStep, StepStep, SaveStep, ShrinkCacheStep,
     ChooseQuitStep DEF User
<1>10. CASE Others
  BY <1>6, <1>7, <1>8, <1>10, DataLoadStep, PreQuitStep DEF Others
<1> QED
  BY <1>9, <1>10, ResumeStep DEF Next

-----------------------------------------------------------------------------
(* The theorems *)

LEMMA InitInv == Init => IInv
<1> SUFFICES ASSUME Init PROVE IInv
  OBVIOUS
<1>1. ViewersInv
  BY SessionAssumption DEF Init, ViewersInv, ViewersHaveImages, ClipboardIsOpen, Viewed, ViewedIn
<1>2. QueriesInv
  BY EmptySeq DEF Init, QueriesInv, MenuType, QuestionIsShown, Answers
<1> QED
  BY <1>1, <1>2 DEF Init, IInv

LEMMA StutterInv == IInv /\ UNCHANGED vars => IInv' /\ Consented
<1> SUFFICES ASSUME IInv, UNCHANGED vars PROVE IInv' /\ Consented
  OBVIOUS
<1>1. ViewersInv' /\ QueriesInv'
  BY ViewersStutter, QueriesStutter DEF IInv, vars, menuVars, MenuType, QueriesInv
<1> QED
  BY <1>1 DEF IInv, vars, viewerVars, Consented

THEOREM Invariance == Spec => []IInv
<1>1. IInv /\ [Next]_vars => IInv'
  BY NextStep, StutterInv
<1> QED
  BY InitInv, <1>1, PTL DEF Spec

(* viewer.c, dcs-quit.c: types.                                            *)
THEOREM TypeCorrect == Spec => []TypeOK
BY Invariance, IInvImplies, PTL

(* viewer.c:180, display.c: a handler finds an image in every viewer of the *)
(* list, however its calls and those of messages interleave.               *)
THEOREM ViewersAlwaysHaveImages == Spec => []ViewersHaveImages
BY Invariance, IInvImplies, PTL

(* clipboard.c: the pasted image is that of a viewer on the list.          *)
THEOREM ClipboardAlwaysOpen == Spec => []ClipboardIsOpen
BY Invariance, IInvImplies, PTL

(* dcs-quit.c:188: a handler never waits for an answer nobody can give.    *)
THEOREM QuestionsAreShown == Spec => []QuestionIsShown
BY Invariance, IInvImplies, PTL

(* viewer.c:1052: edits of what a viewer shows are lost only after an      *)
(* answer to discard.                                                      *)
THEOREM NothingLostUnasked == Spec => LostByConsent
<1>1. IInv /\ [Next]_vars =>
        [\A i \in (edited \ edited') \cap Viewed : image' = image \/ Discards]_vars
  BY NextStep DEF Consented
<1> QED
  BY Invariance, <1>1, PTL DEF Spec, LostByConsent

(* quit.c:12: the program never quits over edited images unasked.          *)
THEOREM NoQuitUnasked == Spec => QuitByConsent
<1>1. IInv /\ [Next]_vars =>
        [quitting = "no" /\ quitting' = "chosen" => edited = {} \/ Discards]_vars
  BY NextStep DEF Consented
<1> QED
  BY Invariance, <1>1, PTL DEF Spec, QuitByConsent
=============================================================================
