------------------------------ MODULE Requests ------------------------------
(***************************************************************************)
(* Two requests at a time: ThreadingServer gives each a thread, one of     *)
(* them in run_exercise and one in run_lkm.  They share no directory, no   *)
(* process and no limit, so each goes on in its own steps; what is asked   *)
(* of one may not depend on how far the other is, nor on whether it ends.  *)
(***************************************************************************)
EXTENDS ExerciseRun, LkmRun

RequestsInit == ExerciseInit /\ Init

RequestsNext == \/ ExerciseNext /\ UNCHANGED vars
                \/ Next /\ UNCHANGED exercise

\* The scheduler runs every thread and process that can go on, whatever the
\* other request does.
RequestsSpec == /\ RequestsInit /\ [][RequestsNext]_<<exercise, vars>>
                /\ ExerciseFairness /\ Fairness
=============================================================================
