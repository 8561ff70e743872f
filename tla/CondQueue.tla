------------------------------ MODULE CondQueue ------------------------------
(***************************************************************************)
(* The bounded queue on a mutex and two condition variables (f3/03).       *)
(* pthread_cond_wait releases the mutex and sleeps in one step, may wake   *)
(* up for no reason, and takes the mutex again before it returns.          *)
(* Messages are numbered modulo M in the order in which they go in.        *)
(***************************************************************************)
EXTENDS Naturals, FiniteSets

CONSTANTS Procs,    \* threads: each may put and get
          CAP,
          M,        \* M > CAP
          Nil

VARIABLES filled, pc,
          lock,                     \* who holds mu
          slot, head, tail, count,
          sent, taken               \* numbers of the next message to go in and to come out

ring == <<slot, head, tail, count, sent, taken>>
vars == <<filled, pc, lock, ring>>
Goto(p, label) == pc' = [pc EXCEPT ![p] = label]

\* bqueue_init; every stub fails at once.
Init == /\ filled \in BOOLEAN
        /\ pc = [p \in Procs |-> "user"]
        /\ lock = Nil
        /\ slot = [i \in 0..CAP - 1 |-> 0]
        /\ head = 0 /\ tail = 0 /\ count = 0 /\ sent = 0 /\ taken = 0

Call(p) == /\ filled /\ pc[p] = "user"
           /\ \E label \in {"put", "get"} : Goto(p, label)
           /\ UNCHANGED <<filled, lock, ring>>

Acquire(p, from, to) == /\ pc[p] = from /\ lock = Nil
                        /\ lock' = p
                        /\ Goto(p, to)
                        /\ UNCHANGED ring

Wait(p, label) == Goto(p, label) /\ lock' = Nil /\ UNCHANGED ring

\* One sleeper on the condition, if there is one, goes for the mutex.
Signal(p, sleeping, awake) ==
    IF \E q \in Procs : pc[q] = sleeping
    THEN \E q \in Procs : /\ pc[q] = sleeping
                          /\ pc' = [pc EXCEPT ![q] = awake, ![p] = "user"]
    ELSE Goto(p, "user")

\* Slip: tail is not brought back to the start of the array.
BqueuePutNoModulo(p) ==
    \/ Acquire(p, "put", "full?")
    \/ pc[p] = "full?" /\ count = CAP /\ Wait(p, "not_full")
    \/ /\ pc[p] = "full?" /\ count < CAP
       /\ slot' = [slot EXCEPT ![tail] = sent]
       /\ tail' = tail + 1
       /\ count' = count + 1
       /\ sent' = (sent + 1) % M
       /\ Signal(p, "not_empty", "get")
       /\ lock' = Nil
       /\ UNCHANGED <<head, taken>>

BqueuePut(p) ==
    \/ Acquire(p, "put", "full?")
    \/ pc[p] = "full?" /\ count = CAP /\ Wait(p, "not_full")
    \/ /\ pc[p] = "full?" /\ count < CAP
       /\ slot' = [slot EXCEPT ![tail] = sent]
       /\ tail' = (tail + 1) % CAP
       /\ count' = count + 1
       /\ sent' = (sent + 1) % M
       /\ Signal(p, "not_empty", "get")
       /\ lock' = Nil
       /\ UNCHANGED <<head, taken>>

BqueueGet(p) ==
    \/ Acquire(p, "get", "empty?")
    \/ pc[p] = "empty?" /\ count = 0 /\ Wait(p, "not_empty")
    \/ /\ pc[p] = "empty?" /\ count > 0
       /\ head' = (head + 1) % CAP
       /\ count' = count - 1
       /\ taken' = (taken + 1) % M
       /\ Signal(p, "not_full", "put")
       /\ lock' = Nil
       /\ UNCHANGED <<slot, tail, sent>>

\* A spurious wakeup: back to the mutex and the loop's condition.
Spurious(p) == /\ \/ pc[p] = "not_full" /\ Goto(p, "put")
                  \/ pc[p] = "not_empty" /\ Goto(p, "get")
               /\ UNCHANGED <<filled, lock, ring>>

Step(p) == (BqueuePut(p) \/ BqueueGet(p)) /\ UNCHANGED filled
Next == \E p \in Procs : Step(p) \/ Call(p) \/ Spurious(p)
Spec == Init /\ [][Next]_vars /\ \A p \in Procs : WF_vars(Step(p))

-----------------------------------------------------------------------------
TypeOK == /\ filled \in BOOLEAN
          /\ pc \in [Procs -> {"user", "put", "full?", "not_full", "get", "empty?", "not_empty"}]
          /\ lock \in Procs \cup {Nil}
          /\ slot \in [0..CAP - 1 -> 0..M - 1]
          /\ head \in 0..CAP - 1 /\ tail \in 0..CAP - 1 /\ count \in 0..CAP
          /\ sent \in 0..M - 1 /\ taken \in 0..M - 1

\* The ring holds exactly the messages that went in and have not come out, in
\* order, and only the holder of the mutex looks at it.
InOrder == /\ \A i \in 0..count - 1 : slot[(head + i) % CAP] = (taken + i) % M
           /\ sent = (taken + count) % M
           /\ \A p \in Procs : pc[p] \in {"full?", "empty?"} => lock = p

At(labels) == {p \in Procs : pc[p] \in labels}

\* A signal wakes one sleeper only, and still none is forgotten: while a thread
\* sleeps for a message, every message in the ring has a thread awake that is
\* on its way to it; the same of free slots.
SleepersServed ==
    /\ At({"not_empty"}) # {} => count <= Cardinality(At({"get", "empty?"}))
    /\ At({"not_full"}) # {} => CAP - count <= Cardinality(At({"put", "full?"}))

-----------------------------------------------------------------------------
(***************************************************************************)
(* Why InOrder and SleepersServed hold: tail is where the messages end,    *)
(* and a signal that finds a sleeper moves him to those who are on their   *)
(* way, one for each message or free slot that was added.                  *)
(***************************************************************************)
Locked == \A p \in Procs : pc[p] \in {"full?", "empty?"} <=> lock = p
Placed == tail = (head + count) % CAP

IInv == TypeOK /\ Locked /\ Placed /\ InOrder /\ SleepersServed
=============================================================================
