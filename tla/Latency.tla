------------------------------- MODULE Latency -------------------------------
(***************************************************************************)
(* The kretprobe of k7/02: every probed call holds one of maxactive        *)
(* instances with its start; the return handler counts it, keeps the last  *)
(* duration and the longest one.  The handlers of two CPUs may overlap,    *)
(* and the longest is read, compared and set without a loop.               *)
(***************************************************************************)
EXTENDS Naturals, FiniteSets

CONSTANTS Procs,        \* probed calls in flight
          Durations,    \* in ns
          MaxActive,    \* krp.maxactive
          MaxCalls      \* bound: calls counted

VARIABLES filled, pc, loc,      \* loc: ns of the return handler
          count, last, max,     \* the three atomics
          longest,              \* the longest call that was compared
          overlap               \* two handlers were at the comparison at once

vars == <<filled, pc, loc, count, last, max, longest, overlap>>

Goto(p, label) == pc' = [pc EXCEPT ![p] = label]
At(labels) == {p \in Procs : pc[p] \in labels}

Init == /\ filled \in BOOLEAN
        /\ pc = [p \in Procs |-> "user"]
        /\ loc = [p \in Procs |-> 0]
        /\ count = 0 /\ last = 0 /\ max = 0 /\ longest = 0
        /\ overlap = FALSE

\* Without a free instance the call is not measured (nmissed).
Ent(p) == /\ pc[p] = "user" /\ Cardinality(Procs \ At({"user"})) < MaxActive
          /\ Goto(p, "call")
          /\ UNCHANGED <<filled, loc, count, last, max, longest, overlap>>

\* The stub returns at once.
Ret(p) ==
    \/ /\ ~filled /\ pc[p] = "call"
       /\ Goto(p, "user")
       /\ UNCHANGED <<filled, loc, count, last, max, longest, overlap>>
    \/ /\ filled /\ pc[p] = "call" /\ count < MaxCalls
       /\ \E ns \in Durations : loc' = [loc EXCEPT ![p] = ns]
       /\ count' = count + 1
       /\ Goto(p, "last")
       /\ UNCHANGED <<filled, last, max, longest, overlap>>
    \/ /\ pc[p] = "last"
       /\ last' = loc[p]
       /\ Goto(p, "compare")
       /\ overlap' = (overlap \/ At({"compare", "set"}) # {})
       /\ UNCHANGED <<filled, loc, count, max, longest>>
    \/ /\ pc[p] = "compare"
       /\ longest' = IF loc[p] > longest THEN loc[p] ELSE longest
       /\ Goto(p, IF loc[p] > max THEN "set" ELSE "done")
       /\ UNCHANGED <<filled, loc, count, last, max, overlap>>
    \/ /\ pc[p] = "set"
       /\ max' = loc[p]
       /\ Goto(p, "done")
       /\ UNCHANGED <<filled, loc, count, last, longest, overlap>>
    \/ /\ pc[p] = "done"
       /\ Goto(p, "user")
       /\ loc' = [loc EXCEPT ![p] = 0]
       /\ UNCHANGED <<filled, count, last, max, longest, overlap>>

Next == \E p \in Procs : Ent(p) \/ Ret(p)
Spec == Init /\ [][Next]_vars

-----------------------------------------------------------------------------
TypeOK == /\ filled \in BOOLEAN
          /\ pc \in [Procs -> {"user", "call", "last", "compare", "set", "done"}]
          /\ loc \in [Procs -> Durations \cup {0}]
          /\ count \in 0..MaxCalls /\ overlap \in BOOLEAN
          /\ {last, max, longest} \subseteq Durations \cup {0}

\* max_ns is the duration of a real call and never too high; it is the
\* longest one as long as no two return handlers were at the comparison at
\* the same time.  If they were, the shorter call may have overwritten it.
MaxReal == /\ max <= longest
           /\ ~overlap /\ At({"set"}) = {} => max = longest

-----------------------------------------------------------------------------
\* Why max_ns is real: a handler that will set it has compared a call that is not
\* longer than the longest, and without overlap it is that one.
Alone == ~overlap =>
    /\ \A p, q \in At({"compare", "set"}) : p = q
    /\ \A p \in At({"set"}) : loc[p] = longest
IInv == TypeOK /\ MaxReal /\ Alone /\ \A p \in At({"set"}) : loc[p] <= longest
=============================================================================
