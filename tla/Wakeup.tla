------------------------------- MODULE Wakeup -------------------------------
(***************************************************************************)
(* /dev/cppwake (k3/04): read() sleeps until the worker has a result for   *)
(* it, poll() waits for the same mark.  data_ready is set and reset under  *)
(* the mutex and looked at without it; write() resets it.                  *)
(* Only the module with its gaps filled in registers the device.           *)
(***************************************************************************)
EXTENDS Naturals, Sequences

CONSTANTS Procs, MaxWrites      \* bound: texts written

VARIABLES pc, work,
          input, result,    \* in_buf and res_buf, by halves as in WorkQueue
          ready,            \* data_ready
          waking,           \* the worker is between its mutex and wake_up
          delivered         \* the text read() copied last

vars == <<pc, work, input, result, ready, waking, delivered>>

Item == INSTANCE WorkItem

Goto(p, label) == pc' = [pc EXCEPT ![p] = label]

Init == /\ pc = [p \in Procs |-> "user"]
        /\ work = "idle"
        /\ input = <<0, 0>> /\ result = <<0, 0>>
        /\ ready = FALSE /\ waking = FALSE
        /\ delivered = 0

WakeWrite(p) ==
    \/ /\ pc[p] = "user" /\ input[1] < MaxWrites
       /\ \/ /\ input' = <<input[1] + 1, input[1] + 1>>
             /\ ready' = FALSE
             /\ Goto(p, "schedule")
          \/ /\ input' = <<input[1] + 1, input[2]>>     \* -EFAULT
             /\ UNCHANGED <<pc, ready>>
       /\ UNCHANGED <<work, result, waking, delivered>>
    \/ /\ pc[p] = "schedule"
       /\ Item!Schedule
       /\ Goto(p, "user")
       /\ UNCHANGED <<input, result, ready, waking, delivered>>

WorkFn ==
    \/ Item!Start /\ UNCHANGED <<pc, input, result, ready, waking, delivered>>
    \/ /\ Item!Running /\ ~waking
       /\ result' = input
       /\ ready' = TRUE
       /\ waking' = TRUE
       /\ UNCHANGED <<pc, work, input, delivered>>
    \/ /\ waking
       /\ waking' = FALSE
       /\ Item!End
       /\ pc' = [p \in Procs |-> CASE pc[p] = "asleep" -> "check"
                                   [] pc[p] = "polling" -> "poll"
                                   [] OTHER -> pc[p]]
       /\ UNCHANGED <<input, result, ready, delivered>>

Enter(p) == /\ pc[p] = "user"
            /\ Goto(p, "check")
            /\ UNCHANGED <<work, input, result, ready, waking, delivered>>
WakeRead(p) ==
    \/ /\ pc[p] = "check"
       /\ Goto(p, IF ready THEN "take" ELSE "asleep")
       /\ UNCHANGED <<work, input, result, ready, waking, delivered>>
    \/ /\ pc[p] = "take"
       /\ delivered' = result[2]
       /\ ready' = FALSE
       /\ Goto(p, "user")
       /\ UNCHANGED <<work, input, result, waking>>

\* poll_wait and the look at data_ready.
WakePoll(p) == /\ \/ pc[p] = "user" /\ Goto(p, "poll")
                  \/ pc[p] = "poll" /\ Goto(p, IF ready THEN "user" ELSE "polling")
               /\ UNCHANGED <<work, input, result, ready, waking, delivered>>

\* A signal ends the sleep with -ERESTARTSYS, a timeout that of poll().
Interrupt(p) == /\ pc[p] \in {"asleep", "polling"}
                /\ Goto(p, "user")
                /\ UNCHANGED <<work, input, result, ready, waking, delivered>>

Step(p) == (WakeWrite(p) \/ WakeRead(p) \/ WakePoll(p)) /\ pc[p] # "user"
Next == WorkFn \/ \E p \in Procs : \/ WakeWrite(p) \/ Enter(p) \/ WakeRead(p)
                                   \/ WakePoll(p) \/ Interrupt(p)
Spec == Init /\ [][Next]_vars /\ WF_vars(WorkFn) /\ \A p \in Procs : WF_vars(Step(p))

-----------------------------------------------------------------------------
TypeOK == /\ {ready, waking} \subseteq BOOLEAN
          /\ pc \in [Procs -> {"user", "schedule", "check", "asleep", "take", "poll", "polling"}]
          /\ work \in Item!States
          /\ input \in (0..MaxWrites) \X (0..MaxWrites)
          /\ result \in (0..MaxWrites) \X (0..MaxWrites)
          /\ delivered \in 0..MaxWrites

\* No text gets lost between the resets of data_ready: when the worker rests
\* and no write is under way, the last text is ready or was read.
Delivered == work = "idle" /\ (\A p \in Procs : pc[p] # "schedule")
             => ready \/ delivered = input[2]

\* A wait that has to end: asleep in read() or poll() with a result ready.
Waits(p) == pc[p] \in {"asleep", "polling"} /\ ready

-----------------------------------------------------------------------------
\* Why Delivered holds: a text that has not reached the result, and a result
\* that is neither ready nor read, is still to be queued by its writer or to
\* be copied by the work function.
Pending == \/ work \in {"queued", "requeued"}
           \/ work = "running" /\ ~waking
           \/ \E p \in Procs : pc[p] = "schedule"
Underway == /\ result[2] = input[2] \/ Pending
            /\ ready \/ delivered = result[2] \/ Pending
            /\ waking => Item!Running

IInv == TypeOK /\ Underway
=============================================================================
