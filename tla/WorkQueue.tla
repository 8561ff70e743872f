------------------------------ MODULE WorkQueue ------------------------------
(***************************************************************************)
(* /dev/cppwq (k3/01): write() stores its text and schedules the work, the *)
(* worker turns it into the result, read() flushes the work and copies the *)
(* result without the mutex.  A text is the number of its write; a buffer  *)
(* has two halves, since a copy that faults and a read that meets the      *)
(* worker can stop in the middle.  Only the module with its gaps filled in *)
(* registers the device.                                                   *)
(***************************************************************************)
EXTENDS Naturals, Sequences

CONSTANTS Procs,
          Worker,       \* the kworker, as the holder of the mutex
          MaxWrites,    \* bound: texts written
          Nil

VARIABLES pc,
          loc,          \* the text of a writer; the newest scheduled one of a reader
          lock,
          work,
          input, result,    \* in_buf, res_buf
          waits,        \* ends of work_fn a reader waits for
          copy,         \* what a reader has copied
          sent          \* the newest text whose work was scheduled

buffers == <<input, result, copy>>
vars == <<pc, loc, lock, work, buffers, waits, sent>>

Item == INSTANCE WorkItem

Goto(p, label) == pc' = [pc EXCEPT ![p] = label]
Empty == <<0, 0>>

Init == /\ pc = [p \in Procs |-> "user"]
        /\ loc = [p \in Procs |-> 0] /\ waits = [p \in Procs |-> 0]
        /\ lock = Nil /\ work = "idle"
        /\ input = Empty /\ result = Empty
        /\ copy = [p \in Procs |-> Empty]
        /\ sent = 0

\* Nobody but write() and work_fn touch in_buf, both under the mutex.
WqWrite(p) ==
    \/ /\ pc[p] = "user" /\ lock = Nil /\ input[1] < MaxWrites
       /\ \/ /\ input' = <<input[1] + 1, input[1] + 1>>
             /\ loc' = [loc EXCEPT ![p] = input'[1]]
             /\ Goto(p, "schedule")
          \/ /\ input' = <<input[1] + 1, input[2]>>     \* -EFAULT
             /\ UNCHANGED <<pc, loc>>
       /\ UNCHANGED <<lock, work, result, waits, copy, sent>>
    \/ /\ pc[p] = "schedule"
       /\ Item!Schedule
       /\ sent' = IF loc[p] > sent THEN loc[p] ELSE sent
       /\ loc' = [loc EXCEPT ![p] = 0]
       /\ Goto(p, "user")
       /\ UNCHANGED <<lock, buffers, waits>>

WorkFn ==
    \/ Item!Start /\ UNCHANGED <<pc, loc, lock, buffers, waits, sent>>
    \/ /\ Item!Running /\ lock = Nil
       /\ lock' = Worker
       /\ result' = <<input[1], result[2]>>
       /\ UNCHANGED <<pc, loc, work, input, waits, copy, sent>>
    \/ /\ lock = Worker
       /\ result' = <<result[1], input[2]>>
       /\ lock' = Nil
       /\ Item!End
       /\ waits' = [p \in Procs |-> IF waits[p] = 0 THEN 0 ELSE waits[p] - 1]
       /\ UNCHANGED <<pc, loc, input, copy, sent>>

WqRead(p) ==
    \/ /\ pc[p] = "user"
       /\ loc' = [loc EXCEPT ![p] = sent]
       /\ waits' = [waits EXCEPT ![p] = Item!Flushes]
       /\ Goto(p, "flush")
       /\ UNCHANGED <<lock, work, buffers, sent>>
    \/ /\ pc[p] = "flush" /\ waits[p] = 0
       /\ copy' = [copy EXCEPT ![p] = <<result[1], @[2]>>]
       /\ Goto(p, "copy")
       /\ UNCHANGED <<loc, lock, work, input, result, waits, sent>>
    \/ /\ pc[p] = "copy"
       /\ copy' = [copy EXCEPT ![p] = <<@[1], result[2]>>]
       /\ Goto(p, "return")
       /\ UNCHANGED <<loc, lock, work, input, result, waits, sent>>
    \/ /\ pc[p] = "return"
       /\ loc' = [loc EXCEPT ![p] = 0] /\ copy' = [copy EXCEPT ![p] = Empty]
       /\ Goto(p, "user")
       /\ UNCHANGED <<lock, work, input, result, waits, sent>>

Step(p) == (WqWrite(p) \/ WqRead(p)) /\ pc[p] # "user"
Next == WorkFn \/ \E p \in Procs : WqWrite(p) \/ WqRead(p)
Spec == Init /\ [][Next]_vars /\ WF_vars(WorkFn) /\ \A p \in Procs : WF_vars(Step(p))

-----------------------------------------------------------------------------
TypeOK == /\ pc \in [Procs -> {"user", "schedule", "flush", "copy", "return"}]
          /\ loc \in [Procs -> 0..MaxWrites] /\ sent \in 0..MaxWrites
          /\ lock \in {Nil, Worker} /\ work \in Item!States
          /\ copy \in [Procs -> (0..MaxWrites) \X (0..MaxWrites)]
          /\ {input, result} \subseteq (0..MaxWrites) \X (0..MaxWrites)
          /\ waits \in [Procs -> 0..2]

\* After flush_work no half of what read() returns is older than a text
\* whose write() had returned before the call, though the two halves may
\* come from different runs of the worker.
FlushedRead == \A p \in Procs :
    /\ pc[p] \in {"copy", "return"} => copy[p][1] >= loc[p]
    /\ pc[p] = "return" => copy[p][2] >= loc[p]

\* A wait that has to end, however often others schedule again: flush_work.
Waits(p) == pc[p] = "flush"

-----------------------------------------------------------------------------
\* Why a flushed read is not stale: every run that ends has seen all texts that
\* were scheduled, and the work is only idle when none came after that.
Seen(n) == result[1] >= n /\ result[2] >= n
Ordered == /\ sent <= input[2] /\ input[2] <= input[1]
           /\ result[1] <= input[1] /\ result[2] <= input[2]
           /\ lock = Worker => Item!Running /\ result[1] = input[1]
           /\ work = "idle" => Seen(sent)
Holds(p) == /\ pc[p] = "schedule" => loc[p] <= input[2]
            /\ pc[p] = "flush" => loc[p] <= sent /\ (waits[p] = 0 => Seen(loc[p]))
            /\ pc[p] \in {"copy", "return"} => Seen(loc[p])
            /\ pc[p] # "flush" => waits[p] = 0
IInv == TypeOK /\ Ordered /\ (\A p \in Procs : Holds(p)) /\ FlushedRead
=============================================================================
