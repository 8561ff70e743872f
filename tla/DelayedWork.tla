----------------------------- MODULE DelayedWork -----------------------------
(***************************************************************************)
(* /dev/cppdw (k3/02): as k3/01, but the work starts 100 ms after write(), *)
(* flush_delayed_work cuts the delay short, the runs are counted, and      *)
(* every access to the buffers is under the mutex, so that one that only   *)
(* reads and writes them there is a single step.                           *)
(* Only the module with its gaps filled in registers the device.           *)
(***************************************************************************)
EXTENDS Naturals, Sequences, FiniteSets

CONSTANTS Procs, MaxWrites      \* bound: texts written

VARIABLES pc, loc, work, input, result, waits, sent,    \* as in WorkQueue
          delayed,      \* the timer of dwork is armed
          runs

buffers == <<input, result, runs>>
vars == <<pc, loc, work, delayed, buffers, waits, sent>>

Item == INSTANCE WorkItem

Goto(p, label) == pc' = [pc EXCEPT ![p] = label]

Init == /\ pc = [p \in Procs |-> "user"]
        /\ loc = [p \in Procs |-> 0] /\ waits = [p \in Procs |-> 0]
        /\ work = "idle" /\ delayed = FALSE
        /\ input = <<0, 0>> /\ result = <<0, 0>>
        /\ runs = 0 /\ sent = 0

DwWrite(p) ==
    \/ /\ pc[p] = "user" /\ input[1] < MaxWrites
       /\ \/ /\ input' = <<input[1] + 1, input[1] + 1>>
             /\ loc' = [loc EXCEPT ![p] = input'[1]]
             /\ Goto(p, "schedule")
          \/ /\ input' = <<input[1] + 1, input[2]>>     \* -EFAULT
             /\ UNCHANGED <<pc, loc>>
       /\ UNCHANGED <<work, delayed, result, runs, waits, sent>>
    \* a dwork whose timer is armed or that is queued is left as it is
    \/ /\ pc[p] = "schedule"
       /\ delayed' = (delayed \/ work \in {"idle", "running"})
       /\ sent' = IF loc[p] > sent THEN loc[p] ELSE sent
       /\ loc' = [loc EXCEPT ![p] = 0]
       /\ Goto(p, "user")
       /\ UNCHANGED <<work, buffers, waits>>

\* The 100 ms are over.
Expire == /\ delayed
          /\ delayed' = FALSE
          /\ Item!Schedule
          /\ UNCHANGED <<pc, loc, buffers, waits, sent>>

DworkFn ==
    \/ Item!Start /\ UNCHANGED <<pc, loc, delayed, buffers, waits, sent>>
    \/ /\ Item!Running /\ Item!End
       /\ result' = input
       /\ runs' = runs + 1
       /\ waits' = [p \in Procs |-> IF waits[p] = 0 THEN 0 ELSE waits[p] - 1]
       /\ UNCHANGED <<pc, loc, delayed, input, sent>>

DwRead(p) ==
    \/ /\ pc[p] = "user"
       /\ IF delayed THEN Item!Schedule ELSE UNCHANGED work
       /\ delayed' = FALSE
       /\ waits' = [waits EXCEPT ![p] = Item!Flushes']
       /\ loc' = [loc EXCEPT ![p] = sent]
       /\ Goto(p, "flush")
       /\ UNCHANGED <<buffers, sent>>
    \/ /\ pc[p] = "flush" /\ waits[p] = 0
       /\ Goto(p, "print")
       /\ UNCHANGED <<loc, work, delayed, buffers, waits, sent>>
    \/ /\ pc[p] = "print"
       /\ loc' = [loc EXCEPT ![p] = 0]
       /\ Goto(p, "user")
       /\ UNCHANGED <<work, delayed, buffers, waits, sent>>

Step(p) == (DwWrite(p) \/ DwRead(p)) /\ pc[p] # "user"
Kernel == Expire \/ DworkFn
Next == Kernel \/ \E p \in Procs : DwWrite(p) \/ DwRead(p)
Spec == Init /\ [][Next]_vars /\ WF_vars(Kernel) /\ \A p \in Procs : WF_vars(Step(p))

-----------------------------------------------------------------------------
TypeOK == /\ delayed \in BOOLEAN
          /\ pc \in [Procs -> {"user", "schedule", "flush", "print"}]
          /\ loc \in [Procs -> 0..MaxWrites]
          /\ {sent, runs} \subseteq 0..MaxWrites
          /\ work \in Item!States
          /\ input \in (0..MaxWrites) \X (0..MaxWrites)
          /\ result \in (0..MaxWrites) \X (0..MaxWrites)
          /\ waits \in [Procs -> 0..2]

\* What read() prints covers every text scheduled before it, and texts that
\* came while the work was pending shared a run: never more runs than texts.
FlushedRead == /\ \A p \in Procs : pc[p] = "print" => result[2] >= loc[p]
               /\ runs <= input[1]

\* Waits that have to end: the flush of a reader, and that of text n, once it
\* is scheduled, for the run that processes it.
Waits(p) == pc[p] = "flush"
Lags(n) == sent >= n /\ result[2] < n

-----------------------------------------------------------------------------
\* Why a flushed read is not stale, as in WorkQueue; and a run belongs to a text:
\* none is planned, waits or goes on that no write() asked for.
Planned == (IF delayed THEN 1 ELSE 0) + (CASE work = "idle" -> 0
                                           [] work = "requeued" -> 2
                                           [] OTHER -> 1)
Asking == {p \in Procs : pc[p] = "schedule"}
Ordered == /\ sent <= input[2] /\ input[2] <= input[1] /\ result[2] <= input[2]
           /\ ~delayed /\ work = "idle" => result[2] >= sent
           /\ runs + Planned + Cardinality(Asking) <= input[1]
Holds(p) == /\ pc[p] = "schedule" => loc[p] <= input[2]
            /\ pc[p] = "flush" => loc[p] <= sent /\ (waits[p] = 0 => result[2] >= loc[p])
            /\ pc[p] = "print" => loc[p] <= result[2]
            /\ pc[p] # "flush" => waits[p] = 0
IInv == TypeOK /\ Ordered /\ (\A p \in Procs : Holds(p)) /\ FlushedRead
=============================================================================
