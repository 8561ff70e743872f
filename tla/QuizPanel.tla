----------------------------- MODULE QuizPanel -----------------------------
(***************************************************************************)
(* The quiz tab: renderQuizPanel and the question widgets of web/quiz.js,  *)
(* in a panel element that web/app.js empties when a module is loaded.     *)
(* The questions of every module have the same ids ("s0q0", ...), and the  *)
(* element of a question is found by that id alone: in particular by the   *)
(* timer that writes the label "done" 600 ms after a right choice.  What   *)
(* is stored carries the module's id.                                      *)
(* A definition marked Slip is a mistake the code does not make.           *)
(***************************************************************************)
EXTENDS Naturals

CONSTANTS
  Modules,           \* the modules that have a quiz
  Choice, SelfGrade, Exercise,   \* the questions (ids) of each type
  None,              \* no module
  MaxLoads           \* bound on the quiz files under way

Questions == Choice \cup SelfGrade \cup Exercise

ASSUME NoneAssumption == None \notin Modules
ASSUME BoundsAssumption == MaxLoads \in Nat

VARIABLES
  patient,    \* the learner waits for the quiz files under way and for the 600 ms
              \* of a label before leaving the module or resetting the quiz
  stored,     \* localStorage: the questions done, as <<module, question>>
  opened,     \* the module the quiz tab was opened for (data-loaded), or None
  loads,      \* the renderQuizPanel calls that wait for their file, by module
  dom,        \* the module whose quiz stands in the panel, or None
  labels,     \* its questions with the label "done"
  answered,   \* its questions that take no more answers
  timers,     \* the questions whose label timer runs
  earned      \* what the learner got right since the last reset of the module

quiz == <<patient, stored, opened, loads, dom, labels, answered, timers, earned>>

Pair == Modules \X Questions
Of(m) == {p[2] : p \in {x \in stored : x[1] = m}}

QuizInit == /\ patient \in BOOLEAN
            /\ stored = {} /\ opened = None
            /\ loads = [m \in Modules |-> 0]
            /\ dom = None /\ labels = {} /\ answered = {}
            /\ timers = {} /\ earned = {}

Pending == \E m \in Modules : loads[m] > 0
Settled == patient => timers = {} /\ ~Pending

Request(m) == loads' = [loads EXCEPT ![m] = @ + 1]
Empty == dom' = None /\ labels' = {} /\ answered' = {}

-----------------------------------------------------------------------------
\* loadModule empties the panel; the calls and timers of the old page go on.
Leave == /\ Settled
         /\ opened' = None
         /\ Empty
         /\ UNCHANGED <<patient, stored, loads, timers, earned>>

\* loadModule for a module without a lecture opens its quiz at once.
LeaveForQuiz(m) == /\ Settled
                   /\ loads[m] < MaxLoads
                   /\ opened' = m
                   /\ Request(m)
                   /\ Empty
                   /\ UNCHANGED <<patient, stored, timers, earned>>

\* switchTab, for the module m of the toolbar.
OpenTab(m) == /\ opened = None
              /\ loads[m] < MaxLoads
              /\ opened' = m
              /\ Request(m)
              /\ Empty
              /\ UNCHANGED <<patient, stored, timers, earned>>

\* The file has arrived: progress is read now, the panel is emptied and
\* filled, whatever module is in the toolbar by then.
Loaded(m) == /\ loads[m] > 0
             /\ loads' = [loads EXCEPT ![m] = @ - 1]
             /\ dom' = m
             /\ labels' = Of(m)
             /\ answered' = Of(m)
             /\ UNCHANGED <<patient, stored, opened, timers, earned>>

LoadFails(m) == /\ loads[m] > 0
                /\ loads' = [loads EXCEPT ![m] = @ - 1]
                /\ Empty
                /\ UNCHANGED <<patient, stored, opened, timers, earned>>

\* onDone: read, mark, write, without a pause in between.
Done(q) == stored' = stored \cup {<<dom, q>>}

ChooseRight(q) == /\ dom # None /\ q \in Choice \ answered
                  /\ answered' = answered \cup {q}
                  /\ timers' = timers \cup {q}
                  /\ Done(q)
                  /\ earned' = earned \cup {<<dom, q>>}
                  /\ UNCHANGED <<patient, opened, loads, dom, labels>>

\* Slip: onDone is called behind the if, for a wrong choice too.
ChooseWrongDone(q) == /\ dom # None /\ q \in Choice \ answered
                      /\ answered' = answered \cup {q}
                      /\ Done(q)
                      /\ UNCHANGED <<patient, opened, loads, dom, labels, timers, earned>>

ChooseWrong(q) == /\ dom # None /\ q \in Choice \ answered
                  /\ answered' = answered \cup {q}
                  /\ UNCHANGED <<patient, stored, opened, loads, dom, labels, timers, earned>>

\* "yes" of a self-graded question labels it at once.
GradeYes(q) == /\ dom # None /\ q \in SelfGrade \ answered
               /\ answered' = answered \cup {q}
               /\ labels' = labels \cup {q}
               /\ Done(q)
               /\ earned' = earned \cup {<<dom, q>>}
               /\ UNCHANGED <<patient, opened, loads, dom, timers>>

\* Slip: "no" labels the question like "yes".
GradeNoLabels(q) == /\ dom # None /\ q \in SelfGrade \ answered
                    /\ answered' = answered \cup {q}
                    /\ labels' = labels \cup {q}
                    /\ UNCHANGED <<patient, stored, opened, loads, dom, timers, earned>>

\* "no" leaves the question for the next time the panel is made.
GradeNo(q) == /\ dom # None /\ q \in SelfGrade \ answered
              /\ answered' = answered \cup {q}
              /\ UNCHANGED <<patient, stored, opened, loads, dom, labels, timers, earned>>

\* Slip: the element is looked for without the prefix of its id.
TimerMisses(q) == /\ q \in timers
                  /\ timers' = timers \ {q}
                  /\ UNCHANGED <<patient, stored, opened, loads, dom, labels, answered, earned>>

\* The timer labels the element with that id, if there is one.
TimerFires(q) == /\ q \in timers
                 /\ timers' = timers \ {q}
                 /\ labels' = IF dom = None THEN labels ELSE labels \cup {q}
                 /\ UNCHANGED <<patient, stored, opened, loads, dom, answered, earned>>

\* The reset button: the keys of the module go, the panel is made again.
Reset == /\ Settled
         /\ dom # None /\ loads[dom] < MaxLoads
         /\ stored' = {p \in stored : p[1] # dom}
         /\ earned' = {p \in earned : p[1] # dom}
         /\ Request(dom)
         /\ Empty
         /\ UNCHANGED <<patient, opened, timers>>

\* The page is reloaded.
Restart == /\ loads' = [m \in Modules |-> 0]
           /\ opened' = None /\ timers' = {}
           /\ Empty
           /\ UNCHANGED <<patient, stored, earned>>

Answers(q) == ChooseRight(q) \/ ChooseWrong(q) \/ GradeYes(q) \/ GradeNo(q)
Comes(m) == Loaded(m) \/ LoadFails(m)

QuizNext == \/ Leave \/ Reset \/ Restart
            \/ \E m \in Modules : LeaveForQuiz(m) \/ OpenTab(m) \/ Comes(m)
            \/ \E q \in Questions : Answers(q) \/ TimerFires(q)

QuizSpec == QuizInit /\ [][QuizNext]_quiz

\* The browser's timers and the files come by themselves.
QuizFairness == /\ \A q \in Questions : WF_quiz(TimerFires(q))
                /\ \A m \in Modules : WF_quiz(Comes(m))

-----------------------------------------------------------------------------
(* Types. *)
QuizTypeOK == /\ patient \in BOOLEAN
              /\ stored \subseteq Pair /\ earned \subseteq Pair
              /\ opened \in Modules \cup {None}
              /\ loads \in [Modules -> 0 .. MaxLoads]
              /\ dom \in Modules \cup {None}
              /\ labels \subseteq Questions /\ answered \subseteq Questions
              /\ timers \subseteq Questions

(* What is stored is what the learner got right since the last reset of that *)
(* module: late timers, late files and other modules neither add nor remove. *)
StoredIsEarned == stored = earned

(* A question shown as done is stored as done, for a patient learner.  For  *)
(* another it need not be: the timer of a left or reset quiz labels the      *)
(* question with the same id in whatever quiz stands in the panel, and a     *)
(* late quiz file puts another quiz there within the 600 ms.                 *)
LabelIsStored == patient => \A q \in labels : <<dom, q>> \in stored

(* A right answer is labelled, unless the panel it stood in went away.       *)
RightIsLabelled ==
  \A m \in Modules, q \in Choice \cup SelfGrade :
    (dom = m /\ <<m, q>> \in stored) ~> (dom # m \/ q \in labels)
=============================================================================
