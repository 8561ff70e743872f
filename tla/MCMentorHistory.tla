-------------------------- MODULE MCMentorHistory --------------------------
(***************************************************************************)
(* MentorHistory for TLC: the symmetry of modules and panels, for the runs *)
(* that check invariants only.                                             *)
(***************************************************************************)
EXTENDS MentorHistory, TLC

Symmetry == Permutations(Modules) \cup Permutations(Panels)
=============================================================================
