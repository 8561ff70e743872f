------------------------------ MODULE BlockQueue ------------------------------
(***************************************************************************)
(* /dev/cppq (k2/03): a ring of messages under a mutex, and a wait queue   *)
(* on which read() sleeps while the ring is empty.  The condition of the   *)
(* sleep is read without the mutex; every wake_up makes all sleepers look  *)
(* again.  Messages are numbered in the order in which write() is called.  *)
(***************************************************************************)
EXTENDS Naturals, Sequences

CONSTANTS Procs,    \* readers and writers
          QCAP,     \* slots of the ring
          MaxMsgs,  \* bound: messages written in a behaviour
          Nil

VARIABLES filled,               \* the gaps of q_write and q_read are filled in
          pc, loc,              \* where a caller is; the message in its tmp
          lock,                 \* the holder of qlock
          slot, head, tail, count,  \* q, q_head, q_tail, q_count
          accepted, taken       \* the messages put and taken, in order

ring == <<slot, head, tail, count>>
vars == <<filled, pc, loc, lock, ring, accepted, taken>>

Goto(p, label) == pc' = [pc EXCEPT ![p] = label]
Messages == 1..MaxMsgs
InHand == {loc[p] : p \in Procs} \ {Nil}
Used == InHand \cup {accepted[i] : i \in 1..Len(accepted)}

Init == /\ filled \in BOOLEAN
        /\ pc = [p \in Procs |-> "user"]
        /\ loc = [p \in Procs |-> Nil]
        /\ lock = Nil
        /\ slot = [i \in 0..QCAP - 1 |-> Nil]
        /\ head = 0 /\ tail = 0 /\ count = 0
        /\ accepted = <<>> /\ taken = <<>>

Acquire(p, from, to) == /\ pc[p] = from /\ lock = Nil
                        /\ lock' = p
                        /\ Goto(p, to)
                        /\ UNCHANGED <<filled, loc, ring, accepted, taken>>

\* write(): the copy is outside the mutex; a full ring drops the message.
Write(p) == /\ pc[p] = "user"
            /\ \E m \in Messages \ Used : loc' = [loc EXCEPT ![p] = m]
            /\ Goto(p, "write")
            /\ UNCHANGED <<filled, lock, ring, accepted, taken>>

\* Slip: the wake_up after the mutex is forgotten.
PutNoWake(p) == /\ pc[p] = "put"
                /\ IF count < QCAP
                   THEN /\ slot' = [slot EXCEPT ![tail] = loc[p]]
                        /\ tail' = (tail + 1) % QCAP
                        /\ count' = count + 1
                        /\ accepted' = Append(accepted, loc[p])
                   ELSE UNCHANGED <<slot, tail, count, accepted>>
                /\ lock' = Nil
                /\ loc' = [loc EXCEPT ![p] = Nil]
                /\ Goto(p, "user")
                /\ UNCHANGED <<filled, head, taken>>

Put(p) == /\ pc[p] = "put"
          /\ IF count < QCAP
             THEN /\ slot' = [slot EXCEPT ![tail] = loc[p]]
                  /\ tail' = (tail + 1) % QCAP
                  /\ count' = count + 1
                  /\ accepted' = Append(accepted, loc[p])
             ELSE UNCHANGED <<slot, tail, count, accepted>>
          /\ lock' = Nil
          /\ loc' = [loc EXCEPT ![p] = Nil]
          /\ Goto(p, "wake")
          /\ UNCHANGED <<filled, head, taken>>

Wake(p) == /\ pc[p] = "wake"
           /\ pc' = [q \in Procs |-> IF q = p THEN "user"
                                     ELSE IF pc[q] = "asleep" THEN "check" ELSE pc[q]]
           /\ UNCHANGED <<filled, loc, lock, ring, accepted, taken>>

\* The stub forgets the message, and its read() returns an empty line.
Forget(p) == /\ ~filled /\ pc[p] = "write"
             /\ loc' = [loc EXCEPT ![p] = Nil]
             /\ Goto(p, "user")
             /\ UNCHANGED <<filled, lock, ring, accepted, taken>>

\* read(): wait_event_interruptible looks at q_count, then sleeps or goes on.
Read(p) == /\ filled /\ pc[p] = "user"
           /\ Goto(p, "check")
           /\ UNCHANGED <<filled, loc, lock, ring, accepted, taken>>
Check(p) == /\ pc[p] = "check"
            /\ Goto(p, IF count > 0 THEN "read" ELSE "asleep")
            /\ UNCHANGED <<filled, loc, lock, ring, accepted, taken>>
Signal(p) == /\ pc[p] = "asleep"
             /\ Goto(p, "user")          \* -ERESTARTSYS
             /\ UNCHANGED <<filled, loc, lock, ring, accepted, taken>>

\* Another reader may have been faster: read() then returns 0.
Take(p) == /\ pc[p] = "take"
           /\ IF count = 0
              THEN UNCHANGED <<head, count, taken>>
              ELSE /\ taken' = Append(taken, slot[head])
                   /\ head' = (head + 1) % QCAP
                   /\ count' = count - 1
           /\ lock' = Nil
           /\ Goto(p, "user")
           /\ UNCHANGED <<filled, loc, slot, tail, accepted>>

Step(p) == \/ filled /\ Acquire(p, "write", "put")
           \/ Acquire(p, "read", "take")
           \/ Put(p) \/ Wake(p) \/ Forget(p) \/ Check(p) \/ Take(p)
Next == \E p \in Procs : Step(p) \/ Write(p) \/ Read(p) \/ Signal(p)
Spec == Init /\ [][Next]_vars /\ \A p \in Procs : WF_vars(Step(p))

-----------------------------------------------------------------------------
TypeOK == /\ filled \in BOOLEAN
          /\ pc \in [Procs -> {"user", "write", "put", "wake", "check", "asleep", "read", "take"}]
          /\ loc \in [Procs -> Messages \cup {Nil}]
          /\ lock \in Procs \cup {Nil}
          /\ slot \in [0..QCAP - 1 -> Messages \cup {Nil}]
          /\ head \in 0..QCAP - 1 /\ tail \in 0..QCAP - 1 /\ count \in 0..QCAP
          /\ accepted \in Seq(Messages) /\ taken \in Seq(Messages)

\* What was taken, followed by what the ring holds, is what was accepted, in
\* that order: nothing lost, repeated or overtaken, also where the ring wraps.
Fifo == accepted = taken \o [i \in 1..count |-> slot[(head + i - 1) % QCAP]]

\* A wait that has to end: asleep while there is a message.
Waits(p) == pc[p] = "asleep" /\ count > 0

-----------------------------------------------------------------------------
\* Why Fifo holds: only the holder of the mutex touches the ring, and tail is
\* where the messages end.
Locked == \A p \in Procs : /\ pc[p] \in {"put", "take"} <=> lock = p
                           /\ pc[p] \in {"write", "put"} => loc[p] # Nil

Filled == /\ tail = (head + count) % QCAP
          /\ \A i \in 0..count - 1 : slot[(head + i) % QCAP] # Nil

IInv == TypeOK /\ Locked /\ Filled /\ Fifo
=============================================================================
