------------------------------ MODULE Practice ------------------------------
(***************************************************************************)
(* The practice tab: renderPracticePanel, openExercise and displayResult   *)
(* of web/editor.js with the run endpoints of server.py behind them.  Each *)
(* panel is a closure with its own object prog, read from localStorage     *)
(* when the panel is made and written back whole.  ExerciseRun and LkmRun  *)
(* say how the server comes to an answer; here it is one step.             *)
(* A definition marked Slip is a mistake the code does not make.           *)
(***************************************************************************)
EXTENDS Naturals, TLAPS

CONSTANTS
  Native, Lkm,   \* the exercises run by gcc or g++, and by QEMU
  None,          \* no exercise
  Panels,        \* bound on the panels that exist at a time
  MaxRuns        \* bound on the runs under way

Exercises == Native \cup Lkm

ASSUME ExercisesAssumption == None \notin Exercises /\ Native \cap Lkm = {}
ASSUME MaxRunsAssumption == MaxRuns \in Nat

VARIABLES
  patient,    \* the learner waits for a result before leaving the tab
  done,       \* localStorage: the exercises marked as passed
  certified,  \* the exercises the server has answered passed for
  where,      \* a panel is free, visible, or detached (only its calls live)
  prog,       \* its variable prog
  opening,    \* the openExercise calls that still fetch, by exercise
  editor,     \* the exercise whose editor stands in its detail element
  runs        \* the runs under way, numbered; ans is "none" before the answer,
              \* here: the editor it was started in is on the page

vars == <<patient, done, certified, where, prog, opening, editor, runs>>

Answers == {"not_found", "compile_timeout", "compile", "timeout",
            "qemu_unavailable", "passed", "failed"}
Run == [n : 1 .. MaxRuns, panel : Panels, ex : Exercises, here : BOOLEAN,
        ans : Answers \cup {"none"}]

Init == /\ patient \in BOOLEAN
        /\ done = {} /\ certified = {} /\ runs = {}
        /\ where = [p \in Panels |-> "free"]
        /\ prog = [p \in Panels |-> {}]
        /\ opening = [p \in Panels |-> {}]
        /\ editor = [p \in Panels |-> None]

Pending(p) == \E r \in runs : r.panel = p
Detach(p) == {IF r.panel = p THEN [r EXCEPT !.here = FALSE] ELSE r : r \in runs}

-----------------------------------------------------------------------------
(* The panel. *)

\* A new panel clicks the exercise it was asked to open, or the first.
Render(p, e) ==
  /\ where[p] = "free" /\ ~Pending(p)
  /\ \A x \in Panels : where[x] # "visible"
  /\ where' = [where EXCEPT ![p] = "visible"]
  /\ prog' = [prog EXCEPT ![p] = done]
  /\ opening' = [opening EXCEPT ![p] = {e}]
  /\ editor' = [editor EXCEPT ![p] = None]
  /\ UNCHANGED <<patient, done, certified, runs>>

\* openExercise up to its first await empties the detail element.
Open(p, e) ==
  /\ where[p] = "visible"
  /\ opening' = [opening EXCEPT ![p] = @ \cup {e}]
  /\ editor' = [editor EXCEPT ![p] = None]
  /\ runs' = Detach(p)
  /\ UNCHANGED <<patient, done, certified, where, prog>>

\* The files have arrived; the call that ends last fills the element.
Opened(p, e) ==
  /\ e \in opening[p]
  /\ opening' = [opening EXCEPT ![p] = @ \ {e}]
  /\ editor' = [editor EXCEPT ![p] = e]
  /\ runs' = Detach(p)
  /\ UNCHANGED <<patient, done, certified, where, prog>>

\* A closed panel is gone as soon as no result can come to it.
Leave ==
  \E p \in Panels :
    /\ where[p] = "visible"
    /\ patient => ~Pending(p)
    /\ where' = [where EXCEPT ![p] = IF Pending(p) THEN "detached" ELSE "free"]
    /\ opening' = [opening EXCEPT ![p] = {}]
    /\ editor' = [editor EXCEPT ![p] = None]
    /\ runs' = Detach(p)
    /\ UNCHANGED <<patient, done, certified, prog>>

\* The page is reloaded: every panel and call goes, the storage stays.
Reload == /\ where' = [p \in Panels |-> "free"]
          /\ opening' = [p \in Panels |-> {}]
          /\ editor' = [p \in Panels |-> None]
          /\ runs' = {}
          /\ UNCHANGED <<patient, done, certified, prog>>

-----------------------------------------------------------------------------
(* A run. *)

\* An editor opened again has a new button, also while a run is under way.
Start(p) ==
  /\ where[p] = "visible" /\ editor[p] # None
  /\ \A r \in runs : r.panel = p => ~r.here
  /\ \E n \in 1 .. MaxRuns \ {r.n : r \in runs} :
       runs' = runs \cup {[n |-> n, panel |-> p, ex |-> editor[p],
                          here |-> TRUE, ans |-> "none"]}
  /\ UNCHANGED <<patient, done, certified, where, prog, opening, editor>>

\* The exercise the server can tell from the request: run_exercise has the ids
\* in the path, run_lkm looks for them in the body, and the body is {code}.
Named(e) == IF e \in Lkm THEN None ELSE e

\* run_lkm finds qemu_test.sh only if it knows the exercise.
LkmAnswers(id) == {"qemu_unavailable"} \cup
                  IF id \in Lkm THEN {"timeout", "passed", "failed"} ELSE {"not_found"}

\* Slip: an exception is answered with an error the page does not know.
GccAnswersInternal == {"not_found", "compile_timeout", "compile", "timeout",
                       "passed", "failed", "internal"}

\* run_exercise; a broken manifest entry is not_found too.
GccAnswers == {"not_found", "compile_timeout", "compile", "timeout", "passed", "failed"}

Serve(r) ==
  /\ r.ans = "none"
  /\ \E ans \in IF r.ex \in Lkm THEN LkmAnswers(Named(r.ex)) ELSE GccAnswers :
       /\ runs' = (runs \ {r}) \cup {[r EXCEPT !.ans = ans]}
       /\ certified' = IF ans = "passed" THEN certified \cup {r.ex} ELSE certified
  /\ UNCHANGED <<patient, done, where, prog, opening, editor>>

\* Slips: the exercise on the page is marked instead of the one that was run;
\* only the new mark is written.
MarksShown(r) == IF r.ans # "passed" \/ editor[r.panel] = None
                 THEN {} ELSE {editor[r.panel]}
SaveOnlyThis(old, marks) == IF marks = {} THEN done ELSE marks

\* displayResult marks the exercise of its own editor, and only if the answer
\* has passed and the exit code 0.
Marks(r) == IF r.ans = "passed" THEN {r.ex} ELSE {}

\* The whole prog of the panel is written, with what it knew when made.
Save(old, marks) == IF marks = {} THEN done ELSE old \cup marks

\* The panel is gone when the last of its runs has ended after it was left.
Ended(r) ==
  /\ runs' = runs \ {r}
  /\ where' = [where EXCEPT ![r.panel] =
                 IF @ = "detached" /\ \A x \in runs \ {r} : x.panel # r.panel
                 THEN "free" ELSE @]

Finish(r) ==
  /\ r.ans # "none"
  /\ prog' = [prog EXCEPT ![r.panel] = @ \cup Marks(r)]
  /\ done' = Save(prog[r.panel], Marks(r))
  /\ Ended(r)
  /\ UNCHANGED <<patient, certified, opening, editor>>

\* The connection breaks: the catch shows it, nothing is marked.
Breaks(r) ==
  /\ Ended(r)
  /\ UNCHANGED <<patient, done, certified, prog, opening, editor>>

Next == \/ \E p \in Panels : \/ Start(p)
                             \/ \E e \in Exercises : \/ Render(p, e) \/ Open(p, e)
                                                     \/ Opened(p, e)
        \/ \E r \in runs : Serve(r) \/ Finish(r) \/ Breaks(r)
        \/ Leave \/ Reload

Spec == Init /\ [][Next]_vars

-----------------------------------------------------------------------------
(* Types. *)
TypeOK == /\ patient \in BOOLEAN
          /\ done \subseteq Exercises /\ certified \subseteq Exercises
          /\ where \in [Panels -> {"free", "visible", "detached"}]
          /\ prog \in [Panels -> SUBSET Exercises]
          /\ opening \in [Panels -> SUBSET Exercises]
          /\ editor \in [Panels -> Exercises \cup {None}]
          /\ runs \subseteq Run

(* An exercise is marked as passed only if the server answered passed for    *)
(* it, whichever editor stands on the page when the answer comes.            *)
DoneIsCertified == /\ done \subseteq certified
                   /\ \A p \in Panels : prog[p] \subseteq certified

(* A mark stays, for a learner who waits for the result before leaving.      *)
DoneSticks == [][patient => done \subseteq done']_vars

(* MODULE_AUTHORING.md: an exercise of type lkm is run through QEMU, so the  *)
(* answer tells that QEMU is missing or how the run in it went.              *)
LkmRunsInQemu == \A r \in runs :
  r.ex \in Lkm => r.ans \in {"none", "qemu_unavailable", "timeout", "passed", "failed"}

-----------------------------------------------------------------------------
(***************************************************************************)
(* Proofs, for any exercises, panels and number of runs.  A run that was   *)
(* answered passed is certified, so every mark in a panel's prog is.  A    *)
(* learner who waits has a single panel, with every run in it, and its     *)
(* prog knows every mark that is stored; writing it back loses none.       *)
(***************************************************************************)
AnswersCertified == \A r \in runs : r.ans = "passed" => r.ex \in certified

Patience == patient =>
  /\ \A r \in runs : where[r.panel] = "visible"
  /\ \A p, x \in Panels : where[p] = "visible" /\ where[x] = "visible" => p = x
  /\ \A p \in Panels : where[p] = "visible" => done \subseteq prog[p]

IInv == TypeOK /\ DoneIsCertified /\ AnswersCertified /\ Patience

USE MaxRunsAssumption

LEMMA InitIInv == Init => IInv
BY DEF Init, IInv, TypeOK, DoneIsCertified, AnswersCertified, Patience

\* A result that may no longer be shown stays what it is otherwise.
LEMMA DetachKeeps ==
  ASSUME runs \subseteq Run, NEW p
  PROVE  /\ Detach(p) \subseteq Run
         /\ \A r \in Detach(p) : \E o \in runs :
              r.panel = o.panel /\ r.ex = o.ex /\ r.ans = o.ans
<1>1. ASSUME NEW r \in Detach(p)
      PROVE  r \in Run /\ \E o \in runs : r.panel = o.panel /\ r.ex = o.ex /\ r.ans = o.ans
  <2>1. PICK o \in runs : r = IF o.panel = p THEN [o EXCEPT !.here = FALSE] ELSE o
    BY <1>1 DEF Detach
  <2>2. o \in Run
    OBVIOUS
  <2>3. r \in Run /\ r.panel = o.panel /\ r.ex = o.ex /\ r.ans = o.ans
    BY <2>1, <2>2 DEF Run
  <2>4. QED
    BY <2>3
<1>2. QED
  BY <1>1

\* The steps of a panel: runs only lose their editor.
LEMMA PanelStep ==
  ASSUME IInv, Leave \/ \E p \in Panels, e \in Exercises :
                          Render(p, e) \/ Open(p, e) \/ Opened(p, e)
  PROVE  IInv'
<1> USE DEF IInv
<1>1. ASSUME NEW p \in Panels, NEW e \in Exercises, Render(p, e) PROVE IInv'
  <2>1. TypeOK'
    BY <1>1 DEF Render, TypeOK
  <2>2. DoneIsCertified' /\ AnswersCertified'
    BY <1>1 DEF Render, TypeOK, DoneIsCertified, AnswersCertified
  <2>3. Patience'
    BY <1>1 DEF Render, TypeOK, Run, Patience, Pending
  <2>4. QED
    BY <2>1, <2>2, <2>3
<1>2. ASSUME NEW p \in Panels, NEW e \in Exercises, Open(p, e) \/ Opened(p, e)
      PROVE  IInv'
  <2>1. /\ UNCHANGED <<patient, done, certified, where, prog>> /\ runs' = Detach(p)
        /\ opening' \in [Panels -> SUBSET Exercises]
        /\ editor' \in [Panels -> Exercises \cup {None}]
    BY <1>2 DEF Open, Opened, TypeOK
  <2>2. TypeOK'
    BY <2>1, DetachKeeps DEF TypeOK
  <2>3. AnswersCertified' /\ DoneIsCertified' /\ Patience'
    BY <2>1, DetachKeeps DEF TypeOK, DoneIsCertified, AnswersCertified, Patience
  <2>4. QED
    BY <2>2, <2>3
<1>3. CASE Leave
  <2>1. PICK p \in Panels :
          /\ where[p] = "visible" /\ (patient => ~Pending(p))
          /\ where' \in [Panels -> {"free", "visible", "detached"}]
          /\ where'[p] # "visible" /\ \A x \in Panels \ {p} : where'[x] = where[x]
          /\ opening' = [opening EXCEPT ![p] = {}]
          /\ editor' = [editor EXCEPT ![p] = None]
          /\ runs' = Detach(p) /\ UNCHANGED <<patient, done, certified, prog>>
    BY <1>3 DEF Leave, TypeOK
  <2>2. TypeOK'
    BY <2>1, DetachKeeps DEF TypeOK
  <2>3. AnswersCertified' /\ DoneIsCertified'
    BY <2>1, DetachKeeps DEF TypeOK, DoneIsCertified, AnswersCertified
  <2>4. ASSUME patient, NEW r \in Detach(p) PROVE where'[r.panel] = "visible"
    <3>1. PICK o \in runs : r.panel = o.panel
      BY <2>4, DetachKeeps DEF TypeOK
    <3>2. o.panel # p /\ o.panel \in Panels
      BY <2>1, <2>4 DEF Pending, TypeOK, Run
    <3>3. QED
      BY <2>1, <2>4, <3>1, <3>2 DEF Patience
  <2>5. Patience'
    BY <2>1, <2>4 DEF Patience
  <2>6. QED
    BY <2>2, <2>3, <2>5
<1>4. QED
  BY <1>1, <1>2, <1>3

LEMMA StartServeStep ==
  ASSUME IInv, (\E p \in Panels : Start(p)) \/ (\E r \in runs : Serve(r)) \/ Reload
  PROVE  IInv'
<1> USE DEF IInv
<1>1. ASSUME NEW p \in Panels, Start(p) PROVE IInv'
  <2>1. PICK n \in 1 .. MaxRuns :
          runs' = runs \cup {[n |-> n, panel |-> p, ex |-> editor[p],
                              here |-> TRUE, ans |-> "none"]}
    BY <1>1 DEF Start
  <2>2. /\ UNCHANGED <<patient, done, certified, where, prog, opening, editor>>
        /\ where[p] = "visible" /\ editor[p] \in Exercises
    BY <1>1 DEF Start, TypeOK
  <2> DEFINE new == [n |-> n, panel |-> p, ex |-> editor[p], here |-> TRUE, ans |-> "none"]
  <2>3. new \in Run /\ new.panel = p /\ new.ans = "none"
    BY <2>2 DEF Run
  <2> HIDE DEF new
  <2>4. runs' = runs \cup {new}
    BY <2>1 DEF new
  <2>5. QED
    BY <2>2, <2>3, <2>4 DEF TypeOK, DoneIsCertified, AnswersCertified, Patience
<1>2. ASSUME NEW r \in runs, Serve(r) PROVE IInv'
  <2>1. PICK ans \in Answers :
          /\ runs' = (runs \ {r}) \cup {[r EXCEPT !.ans = ans]}
          /\ certified' = IF ans = "passed" THEN certified \cup {r.ex} ELSE certified
    BY <1>2 DEF Serve, LkmAnswers, GccAnswers, Answers
  <2>2. UNCHANGED <<patient, done, where, prog, opening, editor>> /\ r \in Run
    BY <1>2 DEF Serve, TypeOK
  <2> DEFINE new == [r EXCEPT !.ans = ans]
  <2>3. new \in Run /\ new.panel = r.panel /\ new.ex = r.ex /\ new.ans = ans
    BY <2>2 DEF Run
  <2> HIDE DEF new
  <2>4. runs' = (runs \ {r}) \cup {new} /\ r.ex \in Exercises
    BY <2>1, <2>2 DEF new, Run
  <2>5. TypeOK'
    BY <2>1, <2>2, <2>3, <2>4 DEF TypeOK
  <2>6. DoneIsCertified' /\ AnswersCertified' /\ Patience'
    BY <2>1, <2>2, <2>3, <2>4 DEF DoneIsCertified, AnswersCertified, Patience
  <2>7. QED
    BY <2>5, <2>6
<1>3. CASE Reload
  BY <1>3 DEF Reload, TypeOK, DoneIsCertified, AnswersCertified, Patience
<1>4. QED
  BY <1>1, <1>2, <1>3

\* A run ends; for a learner who waits its panel is still the visible one.
LEMMA EndedKeeps ==
  ASSUME IInv, NEW r \in runs, Ended(r)
  PROVE  /\ runs' \subseteq runs /\ where' \in [Panels -> {"free", "visible", "detached"}]
         /\ \A p \in Panels : where[p] # "detached" => where'[p] = where[p]
         /\ \A p \in Panels : where'[p] = "visible" => where[p] = "visible"
<1>1. r.panel \in Panels /\ where \in [Panels -> {"free", "visible", "detached"}]
  BY DEF IInv, TypeOK, Run
<1>2. QED
  BY <1>1 DEF Ended

LEMMA EndStep ==
  ASSUME IInv, \E r \in runs : Finish(r) \/ Breaks(r)
  PROVE  IInv'
<1> USE DEF IInv
<1>1. ASSUME NEW r \in runs, Breaks(r) PROVE IInv'
  <2>1. Ended(r) /\ UNCHANGED <<patient, done, certified, prog, opening, editor>>
    BY <1>1 DEF Breaks
  <2>2. QED
    BY <2>1, EndedKeeps DEF TypeOK, Run, DoneIsCertified, AnswersCertified, Patience
<1>2. ASSUME NEW r \in runs, Finish(r) PROVE IInv'
  <2>1. /\ Ended(r) /\ UNCHANGED <<patient, certified, opening, editor>>
        /\ prog' = [prog EXCEPT ![r.panel] = @ \cup Marks(r)]
        /\ done' \in {done, prog[r.panel] \cup Marks(r)}
        /\ (Marks(r) # {} => done' = prog[r.panel] \cup Marks(r))
        /\ (Marks(r) = {} => done' = done)
    BY <1>2 DEF Finish, Save
  <2>2. r.panel \in Panels /\ Marks(r) \subseteq Exercises /\ Marks(r) \subseteq certified
    BY DEF Marks, TypeOK, Run, AnswersCertified
  <2>3. TypeOK'
    BY <2>1, <2>2, EndedKeeps DEF TypeOK
  <2>4. DoneIsCertified' /\ AnswersCertified'
    BY <2>1, <2>2, EndedKeeps DEF TypeOK, DoneIsCertified, AnswersCertified
  <2>5. ASSUME patient, NEW p \in Panels, where'[p] = "visible" PROVE done' \subseteq prog'[p]
    <3>1. where[p] = "visible" /\ where[r.panel] = "visible" /\ p = r.panel
      BY <2>1, <2>2, <2>5, EndedKeeps DEF Patience
    <3>2. prog'[p] = prog[p] \cup Marks(r) /\ done \subseteq prog[p]
      BY <2>1, <2>5, <3>1 DEF TypeOK, Patience
    <3>3. QED
      BY <2>1, <3>1, <3>2
  <2>6. ASSUME patient, NEW o \in runs' PROVE where'[o.panel] = "visible"
    <3>1. o \in runs /\ o.panel \in Panels /\ where[o.panel] = "visible"
      BY <2>1, <2>6, EndedKeeps DEF Patience, TypeOK, Run
    <3>2. QED
      BY <2>1, <3>1, EndedKeeps
  <2>7. Patience'
    BY <2>1, <2>5, <2>6, EndedKeeps DEF Patience
  <2>8. QED
    BY <2>3, <2>4, <2>7
<1>3. QED
  BY <1>1, <1>2

LEMMA NextIInv == IInv /\ [Next]_vars => IInv'
<1>1. ASSUME IInv, UNCHANGED vars PROVE IInv'
  BY <1>1 DEF vars, IInv, TypeOK, DoneIsCertified, AnswersCertified, Patience
<1>2. QED
  BY <1>1, PanelStep, StartServeStep, EndStep DEF Next

\* Types, for any exercises and panels.
THEOREM TypeCorrect == Spec => []TypeOK
<1>1. IInv => TypeOK
  BY DEF IInv
<1>2. QED
  BY <1>1, InitIInv, NextIInv, PTL DEF Spec

\* displayResult never marks what the server has not answered passed for,
\* however many panels and editors have come and gone.
THEOREM DoneIsCertifiedCorrect == Spec => []DoneIsCertified
<1>1. IInv => DoneIsCertified
  BY DEF IInv
<1>2. QED
  BY <1>1, InitIInv, NextIInv, PTL DEF Spec

\* A learner who waits for each result before leaving loses no mark.
THEOREM DoneSticksCorrect == Spec => DoneSticks
<1> DEFINE Sticks == patient => done \subseteq done'
<1>1. ASSUME IInv, [Next]_vars PROVE [Sticks]_vars
  <2>1. ASSUME patient, NEW r \in runs, Finish(r) PROVE done \subseteq done'
    <3>1. r.panel \in Panels /\ done \subseteq prog[r.panel]
      BY <1>1, <2>1 DEF IInv, TypeOK, Run, Patience
    <3>2. QED
      BY <2>1, <3>1 DEF Finish, Save
  <2>2. ASSUME ~\E r \in runs : Finish(r) PROVE done' = done
    BY <1>1, <2>2 DEF Next, vars, Render, Open, Opened, Leave, Reload, Start, Serve,
                      Breaks
  <2>3. QED
    BY <2>1, <2>2
<1>2. QED
  BY <1>1, InitIInv, NextIInv, PTL DEF Spec, DoneSticks
=============================================================================
