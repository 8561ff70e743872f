------------------------------ MODULE ChatLog ------------------------------
(***************************************************************************)
(* What a learner expects of the chat history kept per module: it is a log *)
(* that only grows at its end, forgets its oldest messages when it is full *)
(* and becomes empty when the learner clears it.  Modules do not disturb   *)
(* each other.                                                             *)
(***************************************************************************)
EXTENDS Naturals, Sequences

CONSTANTS
  Modules,   \* the modules of the course
  Messages,  \* what a log consists of
  Keep       \* the most messages kept per module

VARIABLE log

Init == log = [m \in Modules |-> <<>>]

\* new is old with some messages behind it, and with some dropped in front
\* only if the log is full.
Extends(new, old) ==
  \E k \in 0 .. Len(old) :
    /\ k > 0 => Len(new) = Keep
    /\ Len(old) - k <= Len(new)
    /\ \A i \in 1 .. Len(old) - k : new[i] = old[k + i]

Extend(m) == /\ log' \in [Modules -> Seq(Messages)]
             /\ Len(log'[m]) <= Keep
             /\ Extends(log'[m], log[m])
             /\ \A other \in Modules \ {m} : log'[other] = log[other]

Clear(m) == log' = [log EXCEPT ![m] = <<>>]

Next == \E m \in Modules : Extend(m) \/ Clear(m)

Spec == Init /\ [][Next]_log
=============================================================================
