---------------------------- MODULE ExerciseRun ----------------------------
(***************************************************************************)
(* One run of an exercise: run_exercise of server.py, in the thread of the *)
(* request.  subprocess.run(capture_output=True) is used twice, for the    *)
(* compiler and for the program; each time it waits until the child has  *)
(* exited AND nobody holds its output any more, or until the limit, when   *)
(* it kills the child alone.  The processes the child started are not      *)
(* waited for, and not killed.                                             *)
(* A definition marked Slip is a mistake the code does not make.           *)
(***************************************************************************)
EXTENDS Naturals, TLAPS

CONSTANTS
  CompileLimit,   \* timeout=30, in ticks
  RunLimit        \* timeout=10, in ticks

ASSUME ExerciseLimits == CompileLimit \in Nat /\ RunLimit \in Nat

VARIABLES
  stage,     \* "idle", "compile", "run", "leave" (out of the with), "sent", "broken"
  result,    \* the result being returned, "none" before there is one
  tmp,       \* the temporary directory exists
  job,       \* the compiler or the program: "none", "running", "exited"
  status,    \* its exit status, once it has exited
  heirs,     \* processes it started: "none", "piped" (hold its output), "apart"
  wall,      \* ticks since the child was started
  compiled,  \* the program was built
  finished   \* the program's own status: "none" until it exits by itself

proc == <<job, status, heirs, wall>>
exercise == <<stage, result, tmp, job, status, heirs, wall, compiled, finished>>

Results == {"none", "not_found", "compile_timeout", "compile", "timeout",
            "passed", "failed"}

ExerciseInit == /\ stage = "idle" /\ result = "none" /\ tmp = FALSE
                /\ job = "none" /\ status = "zero" /\ heirs = "none" /\ wall = 0
                /\ compiled = FALSE /\ finished = "none"

Limit == IF stage = "compile" THEN CompileLimit ELSE RunLimit
Waiting == stage \in {"compile", "run"}

-----------------------------------------------------------------------------
\* The child has exited and its output is at its end.
Collected == Waiting /\ job = "exited" /\ heirs # "piped"

\* The exercise has no test.cpp and no test.c.
NotFound == /\ stage = "idle"
            /\ stage' = "leave" /\ result' = "not_found"
            /\ UNCHANGED <<tmp, proc, compiled, finished>>

Compile == /\ stage = "idle"
           /\ stage' = "compile" /\ tmp' = TRUE
           /\ job' = "running" /\ heirs' = "none" /\ wall' = 0
           /\ UNCHANGED <<result, status, compiled, finished>>

\* The compiler is not installed, its output or the program's is no UTF-8, or
\* the code cannot be written: an exception leaves run_exercise and do_POST.
Raises == /\ \/ stage = "idle" /\ tmp' = TRUE
             \/ Collected /\ UNCHANGED tmp
          /\ stage' = "leave"
          /\ UNCHANGED <<result, proc, compiled, finished>>

-----------------------------------------------------------------------------
(* The child and the processes it starts. *)

Forks == /\ Waiting /\ job = "running" /\ heirs = "none"
         /\ heirs' \in {"piped", "apart"}
         /\ UNCHANGED <<stage, result, tmp, job, status, wall, compiled, finished>>

\* It returns from main, is aborted by a sanitizer, or is killed by
\* RLIMIT_CPU; the compiler may also stop with errors.
Exits == /\ Waiting /\ job = "running"
         /\ job' = "exited"
         /\ status' \in {"zero", "nonzero"}
         /\ finished' = IF stage = "run" THEN status' ELSE finished
         /\ UNCHANGED <<stage, result, tmp, heirs, wall, compiled>>

HeirsEnd == /\ heirs # "none"
            /\ heirs' = "none"
            /\ UNCHANGED <<stage, result, tmp, job, status, wall, compiled, finished>>

-----------------------------------------------------------------------------
(* subprocess.run returns. *)

\* Slip: the directory is made by mkdtemp and an early return forgets it.
CompileFailsKeepingDir ==
  /\ stage = "compile" /\ Collected /\ status = "nonzero"
  /\ stage' = "sent" /\ result' = "compile"
  /\ UNCHANGED <<tmp, proc, compiled, finished>>

CompileFails == /\ stage = "compile" /\ Collected /\ status = "nonzero"
                /\ stage' = "leave" /\ result' = "compile"
                /\ UNCHANGED <<tmp, proc, compiled, finished>>

Run == /\ stage = "compile" /\ Collected /\ status = "zero"
       /\ stage' = "run" /\ compiled' = TRUE
       /\ job' = "running" /\ heirs' = "none" /\ wall' = 0
       /\ UNCHANGED <<result, tmp, status, finished>>

\* Slips: a failure is reported by the name of its signal; passed is true
\* unless there was an error to report.
FinishedBySignal == /\ stage = "run" /\ Collected
                    /\ stage' = "leave"
                    /\ result' = IF status = "zero" THEN "passed" ELSE "SIGABRT"
                    /\ UNCHANGED <<tmp, proc, compiled, finished>>
FinishedLoosely == /\ stage = "run" /\ Collected
                   /\ stage' = "leave" /\ result' = "passed"
                   /\ UNCHANGED <<tmp, proc, compiled, finished>>

Finished == /\ stage = "run" /\ Collected
            /\ stage' = "leave"
            /\ result' = IF status = "zero" THEN "passed" ELSE "failed"
            /\ UNCHANGED <<tmp, proc, compiled, finished>>

\* Slip: the limit of the run is forgotten.
TimeoutCompileOnly == /\ stage = "compile" /\ wall = Limit /\ ~Collected
                      /\ result' = "compile_timeout"
                      /\ stage' = "leave" /\ job' = "none"
                      /\ UNCHANGED <<tmp, status, heirs, wall, compiled, finished>>

Timeout == /\ Waiting /\ wall = Limit /\ ~Collected
           /\ result' = IF stage = "compile" THEN "compile_timeout" ELSE "timeout"
           /\ stage' = "leave" /\ job' = "none"
           /\ UNCHANGED <<tmp, status, heirs, wall, compiled, finished>>

\* TemporaryDirectory is left on every path; then _json answers, or the
\* exception ends the thread and the connection.
Leave == /\ stage = "leave"
         /\ tmp' = FALSE
         /\ stage' = IF result = "none" THEN "broken" ELSE "sent"
         /\ UNCHANGED <<result, proc, compiled, finished>>

WallTick == /\ Waiting /\ wall < Limit /\ ~Collected
            /\ wall' = wall + 1
            /\ UNCHANGED <<stage, result, tmp, job, status, heirs, compiled, finished>>

\* Another request; what the last one left running stays.
Again == /\ stage \in {"sent", "broken"}
         /\ stage' = "idle" /\ result' = "none" /\ job' = "none"
         /\ compiled' = FALSE /\ finished' = "none" /\ wall' = 0
         /\ heirs' = "none" /\ status' = "zero"
         /\ UNCHANGED tmp

Thread == NotFound \/ Compile \/ Raises \/ CompileFails \/ Run \/ Finished
          \/ Timeout \/ Leave

ExerciseNext == Thread \/ Forks \/ Exits \/ HeirsEnd \/ WallTick \/ Again

ExerciseSpec == ExerciseInit /\ [][ExerciseNext]_exercise

\* The thread and time go on; no fairness for the code that is being tested.
ExerciseFairness == WF_exercise(Thread) /\ WF_exercise(WallTick)

-----------------------------------------------------------------------------
(* Types. *)
ExerciseTypeOK == /\ stage \in {"idle", "compile", "run", "leave", "sent", "broken"}
                /\ result \in Results /\ tmp \in BOOLEAN
                /\ job \in {"none", "running", "exited"}
                /\ status \in {"zero", "nonzero"} /\ heirs \in {"none", "piped", "apart"}
                /\ wall \in 0 .. CompileLimit + RunLimit
                /\ compiled \in BOOLEAN /\ finished \in {"none", "zero", "nonzero"}

(* passed is only for a program that was built and ended with 0 by itself;   *)
(* no timeout, kill or failed build is taken for it.                         *)
PassedMeansZero == result = "passed" => compiled /\ finished = "zero"

(* Once the request is over nothing of it is left: the temporary directory   *)
(* is gone and the compiler or program no longer runs.                       *)
NothingLeft == stage \in {"sent", "broken"} => ~tmp /\ job # "running"

(* A request ends, even if the program never does or its children keep the   *)
(* output open.                                                              *)
RequestEnds == (stage = "compile") ~> (stage \in {"sent", "broken"})

(* MODULE_AUTHORING.md: the test succeeded if the program ended with code 0. *)
ZeroMeansPassed == stage = "sent" /\ finished = "zero" => result = "passed"

-----------------------------------------------------------------------------
(***************************************************************************)
(* Proofs, for any two limits.  A result is given once, at the step that   *)
(* leaves the with block: before it there is none, and behind it neither   *)
(* the program's own status nor that of the build changes any more.        *)
(***************************************************************************)
NoReplyYet == stage \in {"idle", "compile", "run"} => result = "none"

\* What subprocess.run has collected is the program's own exit status.
StatusOfProgram == stage = "run" => compiled /\ (job = "exited" => finished = status)

NothingRuns == /\ stage = "idle" => job = "none"
               /\ stage \in {"leave", "sent", "broken"} => job # "running"

ExerciseInv == ExerciseTypeOK /\ PassedMeansZero /\ NothingLeft
               /\ NoReplyYet /\ StatusOfProgram /\ NothingRuns

USE ExerciseLimits

LEMMA InitExerciseInv == ExerciseInit => ExerciseInv
<1>1. 0 \in 0 .. CompileLimit + RunLimit
  OBVIOUS
<1>2. ExerciseInit => ExerciseTypeOK
  BY <1>1, Zenon DEF ExerciseInit, ExerciseTypeOK, Results
<1>3. QED
  BY <1>2 DEF ExerciseInit, ExerciseInv, PassedMeansZero, NothingLeft, NoReplyYet,
              StatusOfProgram, NothingRuns

\* The steps before the child is started, and those of the child.
LEMMA JobStep ==
  ASSUME ExerciseInv, NotFound \/ Compile \/ Forks \/ Exits \/ HeirsEnd \/ WallTick \/ Run
  PROVE  ExerciseInv'
<1> USE DEF ExerciseInv, ExerciseTypeOK, Results, PassedMeansZero, NothingLeft,
            NoReplyYet, StatusOfProgram, NothingRuns, proc
<1>1. CASE NotFound
  BY <1>1 DEF NotFound
<1>2. CASE Compile
  BY <1>2 DEF Compile
<1>3. CASE Forks
  BY <1>3 DEF Forks, Waiting
<1>4. CASE Exits
  BY <1>4 DEF Exits, Waiting
<1>5. CASE HeirsEnd
  BY <1>5 DEF HeirsEnd
<1>6. CASE WallTick
  BY <1>6 DEF WallTick, Waiting, Limit
<1>7. CASE Run
  BY <1>7 DEF Run, Collected
<1>8. QED
  BY <1>1, <1>2, <1>3, <1>4, <1>5, <1>6, <1>7

\* The steps that end the call of subprocess.run and the request.
LEMMA EndStep ==
  ASSUME ExerciseInv, Raises \/ CompileFails \/ Finished \/ Timeout \/ Leave \/ Again
  PROVE  ExerciseInv'
<1> USE DEF ExerciseInv, ExerciseTypeOK, Results, PassedMeansZero, NothingLeft,
            NoReplyYet, StatusOfProgram, NothingRuns, proc
<1>1. CASE Raises
  BY <1>1 DEF Raises, Collected, Waiting
<1>2. CASE CompileFails
  BY <1>2 DEF CompileFails, Collected
<1>3. CASE Finished
  BY <1>3 DEF Finished, Collected
<1>4. CASE Timeout
  BY <1>4 DEF Timeout, Waiting
<1>5. CASE Leave
  BY <1>5 DEF Leave
<1>6. CASE Again
  <2>1. wall' \in 0 .. CompileLimit + RunLimit
    BY <1>6 DEF Again
  <2>2. tmp' \in BOOLEAN /\ compiled' = FALSE
    BY <1>6 DEF Again
  <2>3. QED
    BY <1>6, <2>1, <2>2, Zenon DEF Again
<1>7. QED
  BY <1>1, <1>2, <1>3, <1>4, <1>5, <1>6

LEMMA NextExerciseInv == ExerciseInv /\ [ExerciseNext]_exercise => ExerciseInv'
<1>1. ASSUME ExerciseInv, UNCHANGED exercise PROVE ExerciseInv'
  BY <1>1 DEF exercise, ExerciseInv, ExerciseTypeOK, PassedMeansZero, NothingLeft,
              NoReplyYet, StatusOfProgram, NothingRuns
<1>2. QED
  BY <1>1, JobStep, EndStep DEF ExerciseNext, Thread

\* Types of one request after the other, with any limits.
THEOREM ExerciseTypeCorrect == ExerciseSpec => []ExerciseTypeOK
<1>1. ExerciseInv => ExerciseTypeOK
  BY DEF ExerciseInv
<1>2. QED
  BY <1>1, InitExerciseInv, NextExerciseInv, PTL DEF ExerciseSpec

\* run_exercise never takes a kill, a timeout or a failed build for a pass.
THEOREM PassedMeansZeroCorrect == ExerciseSpec => []PassedMeansZero
<1>1. ExerciseInv => PassedMeansZero
  BY DEF ExerciseInv
<1>2. QED
  BY <1>1, InitExerciseInv, NextExerciseInv, PTL DEF ExerciseSpec

\* On every path out of run_exercise, exceptions included, the directory and
\* the child are gone.
THEOREM NothingLeftCorrect == ExerciseSpec => []NothingLeft
<1>1. ExerciseInv => NothingLeft
  BY DEF ExerciseInv
<1>2. QED
  BY <1>1, InitExerciseInv, NextExerciseInv, PTL DEF ExerciseSpec
=============================================================================
