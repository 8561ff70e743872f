-------------------------- MODULE CoursePageProofs --------------------------
(***************************************************************************)
(* Proofs about QuizPanel and CoursePage, for any modules of the three     *)
(* kinds, any questions and any number of lectures and quiz files under    *)
(* way.  The timers of the quiz find their question by an id that all      *)
(* modules share, so a label is right only if the panel has not changed    *)
(* since the choice.  Calm says that it has not, for a patient learner: a  *)
(* file under way is alone, with the panel empty and no timer, and each    *)
(* timer's question is stored for the module that stands in the panel.     *)
(* Every step of the page is a step of the quiz or leaves it alone, so     *)
(* that what holds of the quiz holds on the page.  The page of a patient   *)
(* learner is of one module: a lecture under way is the only one and that  *)
(* of the toolbar, the lecture panel is then empty, and a quiz file under  *)
(* way is the toolbar's.                                                   *)
(***************************************************************************)
EXTENDS CoursePage, TLAPS

OneLoad == \A m, n \in Modules :
             loads[m] > 0 /\ loads[n] > 0 => m = n /\ loads[m] = 1

TimersOK == \A q \in timers : dom # None /\ <<dom, q>> \in stored

Calm == patient => /\ OneLoad /\ TimersOK
                   /\ Pending \/ opened = None => dom = None /\ timers = {}
                   /\ Pending => opened # None

QuizInv == QuizTypeOK /\ StoredIsEarned /\ LabelIsStored /\ Calm

USE BoundsAssumption, NoneAssumption, FetchesAssumption

-----------------------------------------------------------------------------
(* The quiz. *)

\* What a panel reads from the storage when its file arrives.
LEMMA OfStored ==
  ASSUME stored \subseteq Pair, NEW m
  PROVE  Of(m) \subseteq Questions /\ \A q \in Of(m) : <<m, q>> \in stored
<1>1. ASSUME NEW q \in Of(m) PROVE q \in Questions /\ <<m, q>> \in stored
  <2>1. PICK p \in stored : p[1] = m /\ p[2] = q
    BY <1>1 DEF Of
  <2>2. p \in Modules \X Questions
    BY DEF Pair
  <2>3. p = <<p[1], p[2]>>
    BY <2>2
  <2>4. QED
    BY <2>1, <2>2, <2>3
<1>2. QED
  BY <1>1

LEMMA InitQuizInv == QuizInit => QuizInv
<1> SUFFICES ASSUME QuizInit PROVE QuizInv
  OBVIOUS
<1>1. loads \in [Modules -> 0 .. MaxLoads] /\ \A m \in Modules : ~(loads[m] > 0)
  BY DEF QuizInit
<1>2. QuizTypeOK
  BY <1>1, Zenon DEF QuizInit, QuizTypeOK
<1>3. StoredIsEarned /\ LabelIsStored
  BY DEF QuizInit, StoredIsEarned, LabelIsStored
<1>4. Calm
  BY <1>1 DEF QuizInit, Calm, OneLoad, TimersOK, Pending
<1>5. QED
  BY <1>2, <1>3, <1>4 DEF QuizInv

\* Going on to a module: for a patient learner nothing is under way.
LEMMA LeaveStep == ASSUME QuizInv, Leave PROVE QuizInv'
<1> USE DEF QuizInv, Leave, Empty
<1>1. QuizTypeOK'
  BY DEF QuizTypeOK
<1>2. StoredIsEarned' /\ LabelIsStored'
  BY DEF StoredIsEarned, LabelIsStored
<1>3. Calm'
  BY DEF Calm, Settled, Pending, OneLoad, TimersOK
<1>4. QED
  BY <1>1, <1>2, <1>3

\* A request for a quiz file, which becomes the only one.
LEMMA RequestCalm ==
  ASSUME QuizTypeOK, NEW m \in Modules, Request(m), ~Pending
  PROVE  OneLoad'
<1>1. ASSUME NEW n \in Modules PROVE loads[n] = 0
  BY <1>1 DEF QuizTypeOK, Pending
<1>2. ASSUME NEW n \in Modules, loads'[n] > 0 PROVE n = m /\ loads'[n] = 1
  BY <1>1, <1>2 DEF Request, QuizTypeOK
<1>3. QED
  BY <1>2 DEF OneLoad

LEMMA OpenStep ==
  ASSUME QuizInv, NEW m \in Modules, LeaveForQuiz(m) \/ OpenTab(m)
  PROVE  QuizInv'
<1> USE DEF QuizInv
<1>1. /\ UNCHANGED <<patient, stored, timers, earned>>
      /\ opened' = m /\ Request(m) /\ loads[m] < MaxLoads
      /\ dom' = None /\ labels' = {} /\ answered' = {}
      /\ Settled \/ opened = None
  BY DEF LeaveForQuiz, OpenTab, Empty
<1>2. QuizTypeOK'
  <2>1. loads' \in [Modules -> 0 .. MaxLoads]
    BY <1>1 DEF QuizTypeOK, Request
  <2>2. QED
    BY <1>1, <2>1, Zenon DEF QuizTypeOK
<1>3. StoredIsEarned' /\ LabelIsStored'
  BY <1>1 DEF StoredIsEarned, LabelIsStored
<1>4. ASSUME patient PROVE timers = {} /\ ~Pending
  BY <1>1, <1>4 DEF Calm, Settled
<1>5. ASSUME patient PROVE OneLoad' /\ timers' = {} /\ opened' # None
  BY <1>1, <1>4, <1>5, RequestCalm
<1>6. Calm'
  BY <1>1, <1>5 DEF Calm, TimersOK
<1>7. QED
  BY <1>2, <1>3, <1>6

\* The keys of the module go, in the storage and in what was earned.
LEMMA ResetStep == ASSUME QuizInv, Reset PROVE QuizInv'
<1> USE DEF QuizInv
<1>1. /\ UNCHANGED <<patient, opened, timers>>
      /\ Settled /\ dom \in Modules /\ Request(dom) /\ loads[dom] < MaxLoads
      /\ dom' = None /\ labels' = {} /\ answered' = {}
      /\ stored' = {p \in stored : p[1] # dom} /\ earned' = {p \in earned : p[1] # dom}
  BY DEF Reset, Empty, QuizTypeOK
<1>2. QuizTypeOK'
  <2>1. loads' \in [Modules -> 0 .. MaxLoads]
    BY <1>1 DEF QuizTypeOK, Request
  <2>2. stored' \subseteq Pair /\ earned' \subseteq Pair
    BY <1>1 DEF QuizTypeOK
  <2>3. QED
    BY <1>1, <2>1, <2>2, Zenon DEF QuizTypeOK
<1>3. StoredIsEarned' /\ LabelIsStored'
  BY <1>1 DEF StoredIsEarned, LabelIsStored
<1>4. ASSUME patient PROVE timers = {} /\ opened # None /\ ~Pending
  BY <1>1, <1>4 DEF Calm, Settled, QuizTypeOK
<1>5. ASSUME patient PROVE OneLoad' /\ timers' = {} /\ opened' # None
  BY <1>1, <1>4, <1>5, RequestCalm
<1>6. Calm'
  BY <1>1, <1>5 DEF Calm, TimersOK
<1>7. QED
  BY <1>2, <1>3, <1>6

\* The file of m arrives or fails: for a calm learner no other is under way.
LEMMA LoadStep == ASSUME QuizInv, NEW m \in Modules, Loaded(m) \/ LoadFails(m) PROVE QuizInv'
<1> USE DEF QuizInv
<1>1. /\ UNCHANGED <<patient, stored, opened, timers, earned>>
      /\ loads[m] > 0 /\ loads' = [loads EXCEPT ![m] = @ - 1]
      /\ \/ dom' = m /\ labels' = Of(m) /\ answered' = Of(m)
         \/ dom' = None /\ labels' = {} /\ answered' = {}
  BY DEF Loaded, LoadFails, Empty
<1>2. Of(m) \subseteq Questions /\ \A q \in Of(m) : <<m, q>> \in stored
  BY OfStored DEF QuizTypeOK
<1>3. QuizTypeOK'
  <2>1. loads' \in [Modules -> 0 .. MaxLoads]
    BY <1>1 DEF QuizTypeOK
  <2>2. dom' \in Modules \cup {None} /\ labels' \subseteq Questions
        /\ answered' \subseteq Questions
    BY <1>1, <1>2
  <2>3. QED
    BY <1>1, <2>1, <2>2, Zenon DEF QuizTypeOK
<1>4. StoredIsEarned' /\ LabelIsStored'
  BY <1>1, <1>2 DEF StoredIsEarned, LabelIsStored
<1>5. ASSUME patient PROVE opened # None /\ timers = {} /\ \A n \in Modules : ~(loads'[n] > 0)
  <2>1. opened # None /\ timers = {} /\ loads[m] = 1
        /\ \A n \in Modules : loads[n] > 0 => n = m
    BY <1>1, <1>5 DEF Calm, Pending, OneLoad
  <2>2. QED
    BY <1>1, <2>1 DEF QuizTypeOK
<1>6. Calm'
  BY <1>1, <1>5 DEF Calm, OneLoad, TimersOK, Pending
<1>7. QED
  BY <1>3, <1>4, <1>6

\* An answer to a question of the quiz in the panel.
LEMMA AnswerStep ==
  ASSUME QuizInv, NEW q \in Questions,
         ChooseRight(q) \/ ChooseWrong(q) \/ GradeYes(q) \/ GradeNo(q)
  PROVE  QuizInv'
<1> USE DEF QuizInv
<1>1. /\ UNCHANGED <<patient, opened, loads, dom>> /\ dom \in Modules
      /\ answered' = answered \cup {q}
      /\ \/ UNCHANGED <<stored, earned, labels, timers>>
         \/ /\ stored' = stored \cup {<<dom, q>>} /\ earned' = earned \cup {<<dom, q>>}
            /\ \/ timers' = timers \cup {q} /\ UNCHANGED labels
               \/ labels' = labels \cup {q} /\ UNCHANGED timers
  BY DEF ChooseRight, ChooseWrong, GradeYes, GradeNo, Done, QuizTypeOK
<1>2. QuizTypeOK'
  <2>1. <<dom, q>> \in Pair
    BY <1>1 DEF Pair
  <2>2. QED
    BY <1>1, <2>1, Zenon DEF QuizTypeOK
<1>3. StoredIsEarned' /\ LabelIsStored'
  BY <1>1 DEF StoredIsEarned, LabelIsStored
<1>4. Calm'
  <2>1. TimersOK => TimersOK'
    BY <1>1 DEF TimersOK
  <2>2. OneLoad => OneLoad'
    BY <1>1 DEF OneLoad
  <2>3. Pending' = Pending
    BY <1>1 DEF Pending
  <2>4. dom # None
    BY <1>1
  <2>5. QED
    BY <1>1, <2>1, <2>2, <2>3, <2>4 DEF Calm
<1>5. QED
  BY <1>2, <1>3, <1>4

LEMMA TimerStep == ASSUME QuizInv, NEW q \in Questions, TimerFires(q) PROVE QuizInv'
<1> USE DEF QuizInv
<1>1. /\ UNCHANGED <<patient, stored, opened, loads, dom, answered, earned>>
      /\ q \in timers /\ timers' = timers \ {q}
      /\ labels' = labels \/ (dom # None /\ labels' = labels \cup {q})
  BY DEF TimerFires
<1>2. QuizTypeOK'
  BY <1>1, Zenon DEF QuizTypeOK
<1>3. StoredIsEarned'
  BY <1>1 DEF StoredIsEarned
<1>4. LabelIsStored'
  BY <1>1 DEF LabelIsStored, Calm, TimersOK
<1>5. Calm'
  BY <1>1 DEF Calm, OneLoad, TimersOK, Pending
<1>6. QED
  BY <1>2, <1>3, <1>4, <1>5

LEMMA RestartStep == ASSUME QuizInv, Restart PROVE QuizInv'
<1> USE DEF QuizInv
<1>1. /\ UNCHANGED <<patient, stored, earned>>
      /\ loads' = [m \in Modules |-> 0] /\ opened' = None /\ timers' = {}
      /\ dom' = None /\ labels' = {} /\ answered' = {}
  BY DEF Restart, Empty
<1>2. loads' \in [Modules -> 0 .. MaxLoads] /\ \A m \in Modules : ~(loads'[m] > 0)
  BY <1>1
<1>3. QuizTypeOK'
  BY <1>1, <1>2, Zenon DEF QuizTypeOK
<1>4. StoredIsEarned' /\ LabelIsStored'
  BY <1>1 DEF StoredIsEarned, LabelIsStored
<1>5. Calm'
  BY <1>1, <1>2 DEF Calm, OneLoad, TimersOK, Pending
<1>6. QED
  BY <1>3, <1>4, <1>5

LEMMA QuizNextInv == QuizInv /\ [QuizNext]_quiz => QuizInv'
<1>1. ASSUME QuizInv, UNCHANGED quiz PROVE QuizInv'
  BY <1>1 DEF quiz, QuizInv, QuizTypeOK, StoredIsEarned, LabelIsStored, Calm, OneLoad,
              TimersOK, Pending
<1>2. QED
  BY <1>1, LeaveStep, OpenStep, ResetStep, LoadStep, AnswerStep, TimerStep,
     RestartStep DEF QuizNext, Answers, Comes

-----------------------------------------------------------------------------
(* The page. *)

\* A ready module is one of a quiz; switchTab is called for such a module.
LEMMA SwitchTabQuiz ==
  ASSUME NEW t, NEW m \in Modules, SwitchTab(t, m)
  PROVE  [QuizNext]_quiz
BY DEF SwitchTab, QuizNext

\* Every step of the page takes the quiz through one of its own steps.
LEMMA PageStepsQuiz == [Next]_vars => [QuizNext]_quiz
<1>1. ASSUME NEW m \in Listed, Go(m) PROVE [QuizNext]_quiz
  BY <1>1, ReadyAssumption DEF Go, LoadModule, ShowPlaceholder, ShowQuizOnly,
     FetchLecture, QuizNext
<1>2. ASSUME NEW m \in WithLecture, Arrives(m) \/ FetchFails(m) PROVE [QuizNext]_quiz
  BY <1>2, SwitchTabQuiz, ReadyAssumption DEF Arrives, FetchFails
<1>3. ASSUME NEW t, Click(t) PROVE [QuizNext]_quiz
  BY <1>3, SwitchTabQuiz DEF Click
<1>4. ASSUME Anchor \/ Link \/ Mark \/ Reload \/ InQuiz PROVE [QuizNext]_quiz
  BY <1>4 DEF Anchor, Link, Mark, Reload, InQuiz, QuizNext
<1>5. ASSUME UNCHANGED vars PROVE [QuizNext]_quiz
  BY <1>5 DEF vars
<1>6. QED
  BY <1>1, <1>2, <1>3, <1>4, <1>5 DEF Next

OneFetch == patient => \A m \in WithLecture :
              fetches[m] > 0 => m = crumbs /\ fetches[m] = 1 /\ lectures = <<>>

LoadsOfToolbar == patient => \A m \in Modules : loads[m] > 0 => m = crumbs

IInv == QuizInv /\ TypeOK /\ InnerIsOfToolbar /\ LoadsOfToolbar /\ OneFetch /\ OneModule

LEMMA InitIInv == Init => IInv
<1> SUFFICES ASSUME Init PROVE IInv
  OBVIOUS
<1>1. fetches \in [WithLecture -> 0 .. MaxFetches]
  BY DEF Init, NoFetch
<1>2. inner \in [Lazy -> Modules \cup {None}] /\ lectures \in Seq(WithLecture \cup Planned)
  BY DEF Init, Blank
<1>3. QuizInv
  BY InitQuizInv DEF Init
<1>4. TypeOK
  BY <1>1, <1>2, <1>3, Zenon DEF Init, TypeOK, QuizInv
<1>5. InnerIsOfToolbar /\ LoadsOfToolbar
  BY DEF Init, QuizInit, InnerIsOfToolbar, LoadsOfToolbar, Blank, Lazy
<1>6. OneFetch /\ OneModule
  BY DEF Init, OneFetch, OneModule, NoFetch
<1>7. QED
  BY <1>3, <1>4, <1>5, <1>6 DEF IInv

\* Every way through loadModule begins with empty panels, and for a learner
\* who waits with no lecture and no quiz file under way.
LEMMA GoStep ==
  ASSUME IInv, QuizInv', NEW m \in Listed, Go(m)
  PROVE  TypeOK' /\ InnerIsOfToolbar' /\ LoadsOfToolbar' /\ OneFetch' /\ OneModule'
<1> USE DEF IInv
<1>1. Blank \in [Lazy -> Modules \cup {None}] /\ Blank["mentor"] = None
      /\ Blank["practice"] = None
  BY DEF Blank, Lazy
<1>2. /\ UNCHANGED <<patient, done>> /\ hash' = m /\ (patient => ~Waiting)
      /\ crumbs' = m /\ inner' = Blank /\ dom' = None /\ Settled
      /\ \/ opened' = None /\ UNCHANGED loads
         \/ m \in Modules /\ opened' = m /\ Request(m)
  BY ReadyAssumption DEF Go, LoadModule, ShowPlaceholder, ShowQuizOnly, FetchLecture,
     Leave, LeaveForQuiz, Empty
<1>3. InnerIsOfToolbar'
  BY <1>1, <1>2 DEF InnerIsOfToolbar
<1>4. LoadsOfToolbar'
  <2>1. ASSUME patient, NEW n \in Modules PROVE loads[n] = 0
    BY <1>2, <2>1 DEF Settled, Pending, QuizInv, QuizTypeOK
  <2>2. QED
    BY <1>2, <2>1 DEF LoadsOfToolbar, Request, QuizInv, QuizTypeOK
<1>5. CASE ShowPlaceholder(m) \/ ShowQuizOnly(m)
  <2>1. /\ UNCHANGED fetches /\ marked' = m
        /\ \/ m \in Planned /\ lectures' = <<m>> /\ tab' = "lecture"
           \/ lectures' = <<>> /\ tab' = "quiz"
    BY <1>5 DEF ShowPlaceholder, ShowQuizOnly
  <2>2. TypeOK'
    <3> DEFINE Written == WithLecture \cup Planned
    <3>1. lectures' \in Seq(Written)
      <4>1. m \in Planned => m \in Written
        OBVIOUS
      <4> HIDE DEF Written
      <4>2. m \in Written => <<m>> \in Seq(Written)
        OBVIOUS
      <4>3. <<>> \in Seq(Written)
        OBVIOUS
      <4>4. QED
        BY <2>1, <4>1, <4>2, <4>3, Zenon
    <3>2. marked' \in Listed \cup {None} /\ tab' \in Lazy \cup {"lecture", "quiz", "none"}
      BY <2>1
    <3>3. QED
      BY <1>1, <1>2, <2>1, <3>1, <3>2, Zenon DEF TypeOK, QuizInv
  <2>3. OneFetch' /\ OneModule'
    BY <1>2, <2>1 DEF OneFetch, OneModule, Waiting
  <2>4. QED
    BY <1>3, <1>4, <2>2, <2>3
<1>6. CASE FetchLecture(m)
  <2>1. /\ m \in WithLecture /\ fetches[m] < MaxFetches /\ UNCHANGED marked
        /\ fetches' = [fetches EXCEPT ![m] = @ + 1]
        /\ lectures' = <<>> /\ tab' = "none"
    BY <1>6 DEF FetchLecture
  <2>2. fetches' \in [WithLecture -> 0 .. MaxFetches]
    BY <2>1 DEF TypeOK
  <2>3. TypeOK'
    BY <1>1, <1>2, <2>1, <2>2 DEF TypeOK, QuizInv
  <2>4. ASSUME patient', NEW n \in WithLecture, fetches'[n] > 0
        PROVE  n = crumbs' /\ fetches'[n] = 1
    <3>1. ~(fetches[n] > 0) /\ fetches[n] \in Nat
      BY <1>2, <2>4 DEF Waiting, TypeOK
    <3>2. QED
      BY <1>2, <2>1, <2>4, <3>1 DEF TypeOK
  <2>5. QED
    BY <1>3, <1>4, <2>1, <2>3, <2>4 DEF OneFetch, OneModule
<1>7. QED
  BY <1>5, <1>6 DEF Go, LoadModule

\* A late lecture: for a learner who waits it is the only one.
LEMMA ArrivesStep ==
  ASSUME IInv, QuizInv', NEW m \in WithLecture, Arrives(m) \/ FetchFails(m)
  PROVE  TypeOK' /\ InnerIsOfToolbar' /\ LoadsOfToolbar' /\ OneFetch' /\ OneModule'
<1> USE DEF IInv
<1>1. /\ UNCHANGED <<hash, crumbs, done, inner, quiz>>
      /\ fetches' = [fetches EXCEPT ![m] = @ - 1] /\ fetches[m] > 0
      /\ \/ lectures' = Append(lectures, m) /\ marked' = m /\ tab' = "lecture"
         \/ UNCHANGED <<lectures, marked, tab>>
  BY DEF Arrives, FetchFails, SwitchTab, Lazy
<1>2. TypeOK'
  <2>1. m \in Listed
    BY ReadyAssumption DEF Listed
  <2>2. fetches' \in [WithLecture -> 0 .. MaxFetches]
    BY <1>1 DEF TypeOK
  <2>3. lectures' \in Seq(WithLecture \cup Planned)
    BY <1>1 DEF TypeOK
  <2>4. QED
    BY <1>1, <2>1, <2>2, <2>3, Zenon DEF TypeOK, QuizInv
<1>3. InnerIsOfToolbar' /\ LoadsOfToolbar'
  BY <1>1 DEF InnerIsOfToolbar, LoadsOfToolbar, quiz
<1>4. ASSUME patient
      PROVE  /\ \A n \in WithLecture : ~(fetches'[n] > 0)
             /\ lectures' = <<>> \/ (lectures' = <<crumbs>> /\ marked' = crumbs)
  <2>1. m = crumbs /\ fetches[m] = 1 /\ lectures = <<>>
    BY <1>1, <1>4 DEF OneFetch
  <2>2. \A n \in WithLecture : fetches[n] > 0 => n = m
    BY <1>4, <2>1 DEF OneFetch
  <2>3. QED
    BY <1>1, <2>1, <2>2 DEF TypeOK
<1>5. OneFetch' /\ OneModule'
  BY <1>1, <1>4 DEF OneFetch, OneModule, quiz
<1>6. QED
  BY <1>2, <1>3, <1>5

\* The tab buttons and the link of a quiz.
LEMMA TabStep ==
  ASSUME IInv, QuizInv',
         (\E t \in Lazy \cup {"lecture", "quiz"} : Click(t)) \/ Link
  PROVE  TypeOK' /\ InnerIsOfToolbar' /\ LoadsOfToolbar' /\ OneFetch' /\ OneModule'
<1> USE DEF IInv
<1>1. ASSUME NEW t \in Lazy \cup {"lecture", "quiz"}, Click(t)
      PROVE  TypeOK' /\ InnerIsOfToolbar' /\ LoadsOfToolbar' /\ OneFetch' /\ OneModule'
  <2>1. /\ UNCHANGED <<hash, crumbs, marked, lectures, fetches, done>>
        /\ tab' = t /\ crumbs \in Modules
        /\ inner' = inner \/ (t \in Lazy /\ inner' = [inner EXCEPT ![t] = crumbs])
        /\ \/ UNCHANGED quiz
           \/ opened' = crumbs /\ dom' = None /\ Request(crumbs) /\ UNCHANGED patient
    BY <1>1 DEF Click, SwitchTab, OpenTab, Empty
  <2>2. TypeOK'
    BY <2>1 DEF TypeOK, QuizInv
  <2>3. InnerIsOfToolbar'
    BY <2>1 DEF InnerIsOfToolbar, TypeOK, Lazy, quiz
  <2>4. LoadsOfToolbar'
    BY <2>1 DEF LoadsOfToolbar, Request, QuizInv, QuizTypeOK, quiz
  <2>5. OneFetch' /\ OneModule'
    BY <2>1 DEF OneFetch, OneModule, Waiting, quiz
  <2>6. QED
    BY <2>2, <2>3, <2>4, <2>5
<1>2. CASE Link
  <2>1. /\ UNCHANGED <<hash, crumbs, marked, lectures, fetches, done, quiz>>
        /\ tab' = "practice" /\ inner' = [inner EXCEPT !["practice"] = dom]
        /\ dom \in Modules
    BY <1>2 DEF Link, QuizInv, QuizTypeOK
  <2>2. TypeOK'
    BY <2>1 DEF TypeOK, QuizInv, Lazy
  <2>3. InnerIsOfToolbar'
    BY <2>1 DEF InnerIsOfToolbar, TypeOK, Lazy, quiz
  <2>4. LoadsOfToolbar' /\ OneFetch' /\ OneModule'
    BY <2>1 DEF LoadsOfToolbar, OneFetch, OneModule, Waiting, quiz
  <2>5. QED
    BY <2>2, <2>3, <2>4
<1>3. QED
  BY <1>1, <1>2

\* An anchor, the mark button and the reload.
LEMMA PageStep ==
  ASSUME IInv, QuizInv', Anchor \/ Mark \/ Reload
  PROVE  TypeOK' /\ InnerIsOfToolbar' /\ LoadsOfToolbar' /\ OneFetch' /\ OneModule'
<1> USE DEF IInv, QuizInv
<1>1. CASE Anchor
  BY <1>1 DEF Anchor, TypeOK, InnerIsOfToolbar, LoadsOfToolbar, OneFetch, OneModule,
              Waiting, quiz
<1>2. CASE Mark
  <2>1. /\ UNCHANGED <<hash, crumbs, lectures, inner, tab, fetches, quiz>>
        /\ crumbs \in Modules /\ marked' = crumbs /\ done' \subseteq Modules
    BY <1>2 DEF Mark, TypeOK
  <2>2. TypeOK'
    BY <2>1 DEF TypeOK, Listed
  <2>3. QED
    BY <2>1, <2>2 DEF InnerIsOfToolbar, LoadsOfToolbar, OneFetch, OneModule, Waiting,
                      quiz
<1>3. CASE Reload
  <2>1. /\ fetches' \in [WithLecture -> 0 .. MaxFetches]
        /\ \A n \in WithLecture : ~(fetches'[n] > 0)
        /\ \A n \in Modules : ~(loads'[n] > 0)
    BY <1>3 DEF Reload, NoFetch, Restart
  <2>2. inner' \in [Lazy -> Modules \cup {None}] /\ lectures' = <<>>
        /\ inner'["mentor"] = None /\ inner'["practice"] = None
        /\ opened' = None /\ dom' = None
    BY <1>3 DEF Reload, Blank, Lazy, Restart, Empty
  <2>3. TypeOK'
    BY <1>3, <2>1, <2>2 DEF Reload, TypeOK
  <2>4. QED
    BY <2>1, <2>2, <2>3 DEF InnerIsOfToolbar, LoadsOfToolbar, OneFetch, OneModule
<1>4. QED
  BY <1>1, <1>2, <1>3

\* What comes to the quiz: for a learner who waits, of the toolbar's module only.
LEMMA InQuizStep ==
  ASSUME IInv, QuizInv', InQuiz
  PROVE  TypeOK' /\ InnerIsOfToolbar' /\ LoadsOfToolbar' /\ OneFetch' /\ OneModule'
<1> USE DEF IInv
<1>1. UNCHANGED <<hash, crumbs, marked, lectures, inner, tab, fetches, done>>
  BY DEF InQuiz, page
<1>2. /\ UNCHANGED <<patient, opened>>
      /\ \/ dom' \in {dom, None}
         \/ \E m \in Modules : loads[m] > 0 /\ dom' = m
      /\ \/ UNCHANGED loads
         \/ \E m \in Modules : loads[m] > 0 /\ loads' = [loads EXCEPT ![m] = @ - 1]
         \/ dom \in Modules /\ Request(dom)
  BY DEF InQuiz, Reset, Answers, ChooseRight, ChooseWrong, GradeYes, GradeNo, Comes,
     Loaded, LoadFails, TimerFires, Empty, QuizInv, QuizTypeOK
<1>3. TypeOK'
  BY <1>1 DEF TypeOK, QuizInv
<1>4. InnerIsOfToolbar'
  BY <1>1, <1>2 DEF InnerIsOfToolbar, LoadsOfToolbar
<1>5. LoadsOfToolbar'
  <2>1. ASSUME NEW n \in Modules, loads'[n] > 0 PROVE loads[n] > 0 \/ n = dom
    BY <1>2, <2>1 DEF Request, QuizInv, QuizTypeOK
  <2>2. QED
    BY <1>1, <1>2, <2>1 DEF LoadsOfToolbar, InnerIsOfToolbar, QuizInv, QuizTypeOK
<1>6. OneFetch' /\ OneModule'
  BY <1>1, <1>2 DEF OneFetch, OneModule, Waiting
<1>7. QED
  BY <1>3, <1>4, <1>5, <1>6

LEMMA NextIInv == IInv /\ [Next]_vars => IInv'
<1> SUFFICES ASSUME IInv, [Next]_vars PROVE IInv'
  OBVIOUS
<1>1. QuizInv'
  BY PageStepsQuiz, QuizNextInv DEF IInv
<1>2. CASE UNCHANGED vars
  BY <1>1, <1>2 DEF vars, page, quiz, IInv, QuizInv, TypeOK, InnerIsOfToolbar,
                    LoadsOfToolbar, OneFetch, OneModule, Waiting
<1>3. QED
  BY <1>1, <1>2, GoStep, ArrivesStep, TabStep, PageStep, InQuizStep DEF Next, IInv

-----------------------------------------------------------------------------
\* Types, however many lectures and quiz files are under way.
THEOREM TypeCorrect == Spec => []TypeOK
<1>1. IInv => TypeOK
  BY DEF IInv
<1>2. QED
  BY <1>1, InitIInv, NextIInv, PTL DEF Spec

\* On the page the quiz takes the steps of QuizPanel and no others.
THEOREM PageIsQuiz == Spec => QuizSpec
<1>1. Init => QuizInit
  BY DEF Init
<1>2. QED
  BY <1>1, PageStepsQuiz, PTL DEF Spec, QuizSpec

\* Late files, timers and changes of module neither add to the stored progress
\* nor take from it, whoever the learner is.
THEOREM StoredIsEarnedCorrect == Spec => []StoredIsEarned
<1>1. IInv => StoredIsEarned
  BY DEF IInv, QuizInv
<1>2. QED
  BY <1>1, InitIInv, NextIInv, PTL DEF Spec

\* For a learner who waits for the files under way and for the 600 ms of a
\* label, no timer labels a question of another module or of a reset quiz.
THEOREM LabelIsStoredCorrect == Spec => []LabelIsStored
<1>1. IInv => LabelIsStored
  BY DEF IInv, QuizInv
<1>2. QED
  BY <1>1, InitIInv, NextIInv, PTL DEF Spec

\* Whatever loadModule calls end late, the quiz and mentor tabs are opened for
\* the toolbar's module; for a learner who waits, the quiz that stands in the
\* panel and the exercises its links open are that module's too.
THEOREM InnerIsOfToolbarCorrect == Spec => []InnerIsOfToolbar
<1>1. IInv => InnerIsOfToolbar
  BY DEF IInv
<1>2. QED
  BY <1>1, InitIInv, NextIInv, PTL DEF Spec

\* The page of a learner who waits is of one module.
THEOREM OneModuleCorrect == Spec => []OneModule
<1>1. IInv => OneModule
  BY DEF IInv
<1>2. QED
  BY <1>1, InitIInv, NextIInv, PTL DEF Spec

\* The mark button changes the mark of its own module only.
THEOREM OtherMarksStayCorrect == Spec => OtherMarksStay
<1> DEFINE Stay == \A m \in Modules : m \in done /\ m \notin done' => m = crumbs
<1>1. [Next]_vars => [Stay]_vars
  BY DEF Next, Go, Arrives, FetchFails, Click, Anchor, Link, Mark, Reload, InQuiz, page,
         vars
<1>2. QED
  BY <1>1, PTL DEF Spec, OtherMarksStay
=============================================================================
