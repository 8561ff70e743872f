------------------------------ MODULE LockWord ------------------------------
(***************************************************************************)
(* The two locks on one atomic word: the spinlock of c1/02, which only     *)
(* looks while the word is 1 (test and test-and-set), and the mutex of     *)
(* c3/04, which sleeps in futex(2): 0 is free, 1 taken, 2 taken with       *)
(* somebody to wake.  FUTEX_WAIT compares the word and sleeps in one step, *)
(* and may return for no reason; FUTEX_WAKE wakes one sleeper.             *)
(***************************************************************************)
EXTENDS Naturals

CONSTANTS Procs

VARIABLES filled, exercise, pc,
          word
vars == <<filled, exercise, pc, word>>
Goto(p, label) == pc' = [pc EXCEPT ![p] = label]

Init == /\ filled \in BOOLEAN
        /\ exercise \in {"c1_02", "c3_04"}
        /\ pc = [p \in Procs |-> "user"]
        /\ word = 0

\* The stubs of lock return at once, without the lock.
Call(p) == /\ pc[p] = "user"
           /\ Goto(p, IF filled THEN "lock" ELSE "critical")
           /\ UNCHANGED word

\* c1/02: load until it is 0, then exchange(true).
Lock(p) ==
    \/ pc[p] = "lock" /\ word = 0 /\ Goto(p, "exchange") /\ UNCHANGED word
    \/ /\ pc[p] = "exchange"
       /\ Goto(p, IF word = 0 THEN "critical" ELSE "lock")
       /\ word' = 1
Unlock(p) == /\ pc[p] = "critical"
             /\ word' = IF filled THEN 0 ELSE word
             /\ Goto(p, "user")

\* c3/04: the wrapper's two operations on the word.
FutexWait(p, val) == /\ Goto(p, IF word = val THEN "asleep" ELSE "exchange")
                     /\ UNCHANGED word
FutexWake(p) == IF \E q \in Procs : pc[q] = "asleep"
                THEN \E q \in Procs : /\ pc[q] = "asleep"
                                      /\ pc' = [pc EXCEPT ![q] = "exchange", ![p] = "user"]
                ELSE Goto(p, "user")

FutexLock(p) ==
    \/ pc[p] = "lock" /\ word = 0 /\ word' = 1 /\ Goto(p, "critical")
    \/ /\ pc[p] = "lock" /\ word # 0 /\ UNCHANGED word
       /\ Goto(p, IF word = 2 THEN "wait" ELSE "exchange")
    \/ /\ pc[p] = "exchange"
       /\ word' = 2
       /\ Goto(p, IF word = 0 THEN "critical" ELSE "wait")
    \/ pc[p] = "wait" /\ FutexWait(p, 2)
FutexUnlock(p) ==
    \/ /\ pc[p] = "critical" /\ filled
       /\ word' = word - 1
       /\ Goto(p, IF word = 1 THEN "user" ELSE "store")
    \/ pc[p] = "critical" /\ ~filled /\ Goto(p, "user") /\ UNCHANGED word
    \/ pc[p] = "store" /\ word' = 0 /\ Goto(p, "wake")
    \/ pc[p] = "wake" /\ FutexWake(p) /\ UNCHANGED word

Spurious(p) == /\ pc[p] = "asleep"
               /\ Goto(p, "exchange")
               /\ UNCHANGED <<filled, exercise, word>>

Step(p) == /\ \/ exercise = "c1_02" /\ (Lock(p) \/ Unlock(p))
              \/ exercise = "c3_04" /\ (FutexLock(p) \/ FutexUnlock(p))
           /\ UNCHANGED <<filled, exercise>>
Next == \E p \in Procs : Step(p) \/ Spurious(p) \/ (Call(p) /\ UNCHANGED <<filled, exercise>>)
Spec == Init /\ [][Next]_vars /\ \A p \in Procs : WF_vars(Step(p))

-----------------------------------------------------------------------------
TypeOK == /\ filled \in BOOLEAN
          /\ exercise \in {"c1_02", "c3_04"}
          /\ pc \in [Procs -> {"user", "lock", "exchange", "wait", "asleep",
                               "critical", "store", "wake"}]
          /\ word \in 0..2

\* One thread at a time is between lock() and unlock().
Exclusive == filled => \A p, q \in Procs :
    pc[p] \in {"critical", "store"} /\ pc[q] \in {"critical", "store"} => p = q

\* Nobody sleeps on a free mutex: a sleeper is there only while the word says
\* so to the holder, or while a thread is on its way to wake or replace it.
NoneForgotten == exercise = "c3_04" /\ (\E p \in Procs : pc[p] = "asleep") =>
    \/ word = 2
    \/ \E q \in Procs : pc[q] \in {"exchange", "store", "wake"}

\* A wait that has to end: asleep while the mutex is free.
Waits(p) == pc[p] = "asleep" /\ word = 0
-----------------------------------------------------------------------------
(***************************************************************************)
(* Why Exclusive holds: the word is away from 0 while a thread is inside,  *)
(* a thread gets in only on a 0 it has seen, and only the holder puts the  *)
(* 0 back.                                                                 *)
(***************************************************************************)
Taken == filled => \A p \in Procs : pc[p] \in {"critical", "store"} => word # 0
Unfilled == ~filled => \A p \in Procs : pc[p] \in {"user", "critical"}
IInv == TypeOK /\ Unfilled /\ Taken /\ Exclusive /\ NoneForgotten
=============================================================================
