----------------------------- MODULE TimerSource -----------------------------
(***************************************************************************)
(* /dev/cpptimer (k3/03): the timer callback, which must not sleep, counts *)
(* a tick, schedules the work and arms itself again; the worker copies the *)
(* count; read() prints what was processed, then the ticks.                *)
(* Only the module with its gaps filled in registers the device.           *)
(***************************************************************************)
EXTENDS Naturals

CONSTANTS Procs, MaxTicks       \* bound: ticks in a behaviour

VARIABLES pc,
          loc, seen,    \* p of a reader, and the ticks it has read
          work, ticks, processed,
          softirq       \* the callback has counted and not yet scheduled

vars == <<pc, loc, seen, work, ticks, processed, softirq>>

Item == INSTANCE WorkItem

Goto(p, label) == pc' = [pc EXCEPT ![p] = label]

Init == /\ pc = [p \in Procs |-> "user"]
        /\ loc = [p \in Procs |-> 0] /\ seen = [p \in Procs |-> 0]
        /\ work = "idle" /\ ticks = 0 /\ processed = 0
        /\ softirq = FALSE

Tick == /\ ~softirq /\ ticks < MaxTicks
        /\ ticks' = ticks + 1
        /\ softirq' = TRUE
        /\ UNCHANGED <<pc, loc, seen, work, processed>>
ScheduleWork == /\ softirq
                /\ Item!Schedule
                /\ softirq' = FALSE
                /\ UNCHANGED <<pc, loc, seen, ticks, processed>>
TimerFn == Tick \/ ScheduleWork

WorkFn == \/ Item!Start /\ UNCHANGED <<pc, loc, seen, ticks, processed, softirq>>
          \/ /\ Item!End
             /\ processed' = ticks
             /\ UNCHANGED <<pc, loc, seen, ticks, softirq>>

\* processed first, under the mutex; the ticks in the call that prints.
TimerRead(p) ==
    /\ \/ /\ pc[p] = "user"
          /\ loc' = [loc EXCEPT ![p] = processed]
          /\ Goto(p, "ticks") /\ UNCHANGED seen
       \/ /\ pc[p] = "ticks"
          /\ seen' = [seen EXCEPT ![p] = ticks]
          /\ Goto(p, "print") /\ UNCHANGED loc
       \/ /\ pc[p] = "print"
          /\ loc' = [loc EXCEPT ![p] = 0] /\ seen' = [seen EXCEPT ![p] = 0]
          /\ Goto(p, "user")
    /\ UNCHANGED <<work, ticks, processed, softirq>>

Kernel == ScheduleWork \/ WorkFn
Next == TimerFn \/ WorkFn \/ \E p \in Procs : TimerRead(p)
Spec == Init /\ [][Next]_vars /\ WF_vars(Kernel)

-----------------------------------------------------------------------------
TypeOK == /\ softirq \in BOOLEAN
          /\ pc \in [Procs -> {"user", "ticks", "print"}]
          /\ loc \in [Procs -> 0..MaxTicks] /\ seen \in [Procs -> 0..MaxTicks]
          /\ work \in Item!States
          /\ ticks \in 0..MaxTicks /\ processed \in 0..MaxTicks

\* No reader ever prints more processed ticks than ticks.
NeverAhead == \A p \in Procs : pc[p] = "print" => loc[p] <= seen[p]

\* A wait that has to end: a tick that found the work pending is covered by
\* a later run.
Lags(n) == ticks >= n /\ processed < n

-----------------------------------------------------------------------------
\* Why a reader is never ahead: what was processed are ticks, and those only grow.
IInv == /\ TypeOK /\ NeverAhead
        /\ processed <= ticks /\ \A p \in Procs : pc[p] = "ticks" => loc[p] <= ticks
=============================================================================
