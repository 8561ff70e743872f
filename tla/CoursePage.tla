----------------------------- MODULE CoursePage -----------------------------
(***************************************************************************)
(* The page of web/app.js: the address decides which module loadModule     *)
(* shows; the lecture is fetched, and the other tabs are made when they    *)
(* are first opened.  loadModule awaits the lecture, so that a module can  *)
(* be left before its lecture arrives: the late one still appends itself,  *)
(* opens its tab and marks its module.                                     *)
(* A definition marked Slip is a mistake the code does not make.           *)
(***************************************************************************)
EXTENDS QuizPanel, Sequences

CONSTANTS
  WithLecture,   \* the ready modules that have a lecture file
  QuizOnly,      \* the ready modules without one
  Planned,       \* the modules that are not written yet
  Section,       \* an anchor of a lecture's table of contents: "sec-0", ...
  MaxFetches     \* bound on the lectures under way, per module

Listed == Modules \cup Planned   \* the manifest; a ready module has a quiz

ASSUME ReadyAssumption == WithLecture \cup QuizOnly = Modules
ASSUME NamesAssumption == Section \notin Listed /\ None \notin Listed
ASSUME FetchesAssumption == MaxFetches \in Nat

VARIABLES
  hash,      \* location.hash
  crumbs,    \* the module of the toolbar and of its tab buttons
  marked,    \* the module marked in the sidebar
  lectures,  \* the lectures and placeholders in the lecture panel
  inner,     \* the module the practice or the mentor panel was made for
  tab,       \* the panel that is visible
  fetches,   \* the loadModule calls that wait for their lecture
  done       \* localStorage: the modules marked as passed

page == <<hash, crumbs, marked, lectures, inner, tab, fetches, done>>
vars == <<page, quiz>>

Lazy == {"practice", "mentor"}   \* beside the quiz
NoFetch == [m \in WithLecture |-> 0]
Blank == [t \in Lazy |-> None]
Waiting == \E m \in WithLecture : fetches[m] > 0

Init == /\ QuizInit
        /\ hash \in Listed
        /\ crumbs = None /\ marked = None /\ lectures = <<>>
        /\ inner = Blank /\ tab = "lecture"
        /\ fetches = NoFetch /\ done = {}

-----------------------------------------------------------------------------
\* switchTab shows a panel and makes it for the given module if data-loaded
\* does not say that it was made.
SwitchTab(t, m) ==
  /\ tab' = t
  /\ inner' = IF t \in Lazy /\ inner[t] = None THEN [inner EXCEPT ![t] = m] ELSE inner
  /\ IF t = "quiz" /\ opened = None THEN OpenTab(m) ELSE UNCHANGED quiz

(* The three ways through loadModule.  All begin by emptying the panels. *)

ShowPlaceholder(m) ==
  /\ m \in Planned
  /\ crumbs' = m /\ marked' = m
  /\ lectures' = <<m>> /\ inner' = Blank /\ tab' = "lecture"
  /\ Leave
  /\ UNCHANGED fetches

ShowQuizOnly(m) ==
  /\ m \in QuizOnly
  /\ crumbs' = m /\ marked' = m
  /\ lectures' = <<>> /\ inner' = Blank /\ tab' = "quiz"
  /\ LeaveForQuiz(m)
  /\ UNCHANGED fetches

\* Slip: the lecture panel is not emptied.
FetchBesideOld(m) ==
  /\ m \in WithLecture /\ fetches[m] < MaxFetches
  /\ crumbs' = m
  /\ inner' = Blank /\ tab' = "none"
  /\ fetches' = [fetches EXCEPT ![m] = @ + 1]
  /\ Leave
  /\ UNCHANGED <<marked, lectures>>

\* Up to the await.
FetchLecture(m) ==
  /\ m \in WithLecture /\ fetches[m] < MaxFetches
  /\ crumbs' = m
  /\ lectures' = <<>> /\ inner' = Blank /\ tab' = "none"
  /\ fetches' = [fetches EXCEPT ![m] = @ + 1]
  /\ Leave
  /\ UNCHANGED marked

LoadModule(m) == ShowPlaceholder(m) \/ ShowQuizOnly(m) \/ FetchLecture(m)

\* init(), or a link of the sidebar.
Go(m) == /\ patient => ~Waiting
         /\ hash # m \/ crumbs = None
         /\ hash' = m
         /\ LoadModule(m)
         /\ UNCHANGED done

\* Slip: the anchor is taken for a module.
AnchorAsModule == /\ lectures # <<>> /\ hash # Section
                  /\ hash' = Section /\ crumbs' = Section
                  /\ UNCHANGED <<marked, lectures, inner, tab, fetches, done, quiz>>

\* A link of the table of contents: loadModule finds no such module.
Anchor == /\ lectures # <<>> /\ hash # Section
          /\ hash' = Section
          /\ UNCHANGED <<crumbs, marked, lectures, inner, tab, fetches, done, quiz>>

\* Slip: the module opens in the tab the learner last used.
ArrivesInLastTab(m) == /\ fetches[m] > 0
                       /\ fetches' = [fetches EXCEPT ![m] = @ - 1]
                       /\ lectures' = Append(lectures, m)
                       /\ \E t \in Lazy : SwitchTab(t, m)
                       /\ marked' = m
                       /\ UNCHANGED <<hash, crumbs, done>>

\* The rest of loadModule; the lecture is appended, whatever is there.
Arrives(m) == /\ fetches[m] > 0
              /\ fetches' = [fetches EXCEPT ![m] = @ - 1]
              /\ lectures' = Append(lectures, m)
              /\ SwitchTab("lecture", m)
              /\ marked' = m
              /\ UNCHANGED <<hash, crumbs, done>>

\* fetch() rejects: nobody catches it, the page stays as it is.
FetchFails(m) == /\ fetches[m] > 0
                 /\ fetches' = [fetches EXCEPT ![m] = @ - 1]
                 /\ UNCHANGED <<hash, crumbs, marked, lectures, inner, tab, done, quiz>>

\* A tab button of the toolbar.
Click(t) == /\ patient => ~Waiting
            /\ crumbs \in Modules
            /\ t = "lecture" => crumbs \in WithLecture
            /\ SwitchTab(t, crumbs)
            /\ UNCHANGED <<hash, crumbs, marked, lectures, fetches, done>>

\* The link of an exercise question: switchToTab makes the practice panel again,
\* for the module of the quiz that stands in the panel, whatever the toolbar says.
Link == /\ tab = "quiz" /\ dom # None /\ Exercise # {}
        /\ tab' = "practice"
        /\ inner' = [inner EXCEPT !["practice"] = dom]
        /\ UNCHANGED <<hash, crumbs, marked, lectures, fetches, done, quiz>>

\* Slip: the progress that was read for the button is written back.
MarkFromStart == /\ crumbs \in Modules
                 /\ done' = {crumbs}
                 /\ marked' = crumbs
                 /\ UNCHANGED <<hash, crumbs, lectures, inner, tab, fetches, quiz>>

\* The button "mark as passed": the stored progress is read, changed, written.
Mark == /\ crumbs \in Modules
        /\ done' = IF crumbs \in done THEN done \ {crumbs} ELSE done \cup {crumbs}
        /\ marked' = crumbs
        /\ UNCHANGED <<hash, crumbs, lectures, inner, tab, fetches, quiz>>

\* The page is reloaded: the address and the storage stay.
Reload == /\ crumbs' = None /\ marked' = None /\ lectures' = <<>>
          /\ inner' = Blank /\ tab' = "lecture" /\ fetches' = NoFetch
          /\ Restart
          /\ UNCHANGED <<hash, done>>

\* What the learner does in the quiz, and what comes to it whether it is shown
\* or not.
InQuiz == /\ \/ tab = "quiz" /\ (Reset \/ \E q \in Questions : Answers(q))
             \/ \E m \in Modules : Comes(m)
             \/ \E q \in Questions : TimerFires(q)
          /\ UNCHANGED page

Next == \/ \E m \in Listed : Go(m)
        \/ \E m \in WithLecture : Arrives(m) \/ FetchFails(m)
        \/ \E t \in Lazy \cup {"lecture", "quiz"} : Click(t)
        \/ Anchor \/ Link \/ Mark \/ Reload \/ InQuiz

Spec == Init /\ [][Next]_vars
FairSpec == Spec /\ QuizFairness

-----------------------------------------------------------------------------
(* Types; the lectures in the panel are those that had been asked for. *)
TypeOK == /\ QuizTypeOK
          /\ hash \in Listed \cup {Section}
          /\ crumbs \in Listed \cup {None} /\ marked \in Listed \cup {None}
          /\ lectures \in Seq(WithLecture \cup Planned)
          /\ inner \in [Lazy -> Modules \cup {None}]
          /\ tab \in Lazy \cup {"lecture", "quiz", "none"}
          /\ fetches \in [WithLecture -> 0 .. MaxFetches]
          /\ done \subseteq Modules

(* The quiz and mentor tabs are opened for the module in the toolbar, also   *)
(* when lectures of other modules arrive late; for a learner who waits also  *)
(* the quiz that stands in the panel and the exercises are that module's.    *)
(* For another learner they need not be: the quiz of a module left before    *)
(* its file came fills the panel, and its link opens that module's exercises.*)
InnerIsOfToolbar ==
  /\ opened \in {None, crumbs} /\ inner["mentor"] \in {None, crumbs}
  /\ patient => dom \in {None, crumbs} /\ inner["practice"] \in {None, crumbs}

(* For a learner who waits for the lecture the whole page is of one module:  *)
(* toolbar, sidebar and the one lecture in the panel.                        *)
OneModule == patient /\ ~Waiting /\ lectures # <<>> =>
               lectures = <<crumbs>> /\ marked = crumbs

(* Marking one module as passed leaves the marks of the others alone.        *)
OtherMarksStay == [][\A m \in Modules :
                       m \in done /\ m \notin done' => m = crumbs]_vars
=============================================================================
