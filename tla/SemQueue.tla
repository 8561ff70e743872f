------------------------------ MODULE SemQueue ------------------------------
(***************************************************************************)
(* The queue of one producer and one consumer on two counting semaphores   *)
(* (c3/06): empty counts the free slots, full the used ones.               *)
(***************************************************************************)
EXTENDS Naturals

CONSTANTS Producer, Consumer,
          CAP,
          M         \* messages are numbered modulo M, M > CAP + 1

VARIABLES filled, pc,
          empty, full,      \* the semaphores
          slot, head, tail,
          sent, taken       \* numbers of the next message to go in and to come out

ring == <<slot, head, tail, sent, taken>>
vars == <<filled, pc, empty, full, ring>>
Ends == {Producer, Consumer}
Goto(p, label) == pc' = [pc EXCEPT ![p] = label]

\* sq_init; the stub's -1 leaves nothing to call.
Init == /\ filled \in BOOLEAN
        /\ pc = [p \in Ends |-> "user"]
        /\ empty = CAP /\ full = 0
        /\ slot = [i \in 0..CAP - 1 |-> 0]
        /\ head = 0 /\ tail = 0 /\ sent = 0 /\ taken = 0

SqPut == LET p == Producer IN
    \/ /\ filled /\ pc[p] = "user"
       /\ Goto(p, "wait")
       /\ UNCHANGED <<empty, full, ring>>
    \/ /\ pc[p] = "wait" /\ empty > 0
       /\ empty' = empty - 1
       /\ Goto(p, "copy")
       /\ UNCHANGED <<full, ring>>
    \/ /\ pc[p] = "copy"
       /\ slot' = [slot EXCEPT ![tail] = sent]
       /\ tail' = (tail + 1) % CAP
       /\ sent' = (sent + 1) % M
       /\ Goto(p, "post")
       /\ UNCHANGED <<empty, full, head, taken>>
    \/ /\ pc[p] = "post"
       /\ full' = full + 1
       /\ Goto(p, "user")
       /\ UNCHANGED <<empty, ring>>

SqGet == LET p == Consumer IN
    \/ /\ filled /\ pc[p] = "user"
       /\ Goto(p, "wait")
       /\ UNCHANGED <<empty, full, ring>>
    \/ /\ pc[p] = "wait" /\ full > 0
       /\ full' = full - 1
       /\ Goto(p, "copy")
       /\ UNCHANGED <<empty, ring>>
    \/ /\ pc[p] = "copy"                    \* v = slot[head], see InOrder
       /\ head' = (head + 1) % CAP
       /\ taken' = (taken + 1) % M
       /\ Goto(p, "post")
       /\ UNCHANGED <<empty, full, slot, tail, sent>>
    \/ /\ pc[p] = "post"
       /\ empty' = empty + 1
       /\ Goto(p, "user")
       /\ UNCHANGED <<full, ring>>

Step(p) == /\ pc[p] # "user"
           /\ IF p = Producer THEN SqPut ELSE SqGet
           /\ UNCHANGED filled
Next == (SqPut \/ SqGet) /\ UNCHANGED filled
Spec == Init /\ [][Next]_vars /\ \A p \in Ends : WF_vars(Step(p))

-----------------------------------------------------------------------------
TypeOK == /\ filled \in BOOLEAN
          /\ pc \in [Ends -> {"user", "wait", "copy", "post"}]
          /\ empty \in 0..CAP /\ full \in 0..CAP
          /\ slot \in [0..CAP - 1 -> 0..M - 1]
          /\ head \in 0..CAP - 1 /\ tail \in 0..CAP - 1
          /\ sent \in 0..M - 1 /\ taken \in 0..M - 1

\* The consumer gets every message once and in order, and while both copy they
\* are at different slots; the two semaphores account for every slot.
InOrder == /\ pc[Consumer] = "copy" => slot[head] = taken
           /\ pc[Consumer] = "copy" /\ pc[Producer] = "copy" => head # tail
           /\ empty + full <= CAP

\* A wait that has to end: in sem_wait with the semaphore above zero.
Waits(p) == pc[p] = "wait" /\ (IF p = Producer THEN empty ELSE full) > 0

-----------------------------------------------------------------------------
(***************************************************************************)
(* Why InOrder holds: every slot is counted once, by a semaphore or as in  *)
(* the hand of one end, and those that are not free hold the messages that *)
(* went in and have not come out.                                          *)
(***************************************************************************)
Holds(p, labels) == IF pc[p] \in labels THEN 1 ELSE 0
Stored == CAP - empty - Holds(Producer, {"copy"}) - Holds(Consumer, {"post"})

Counted == empty + full + Holds(Producer, {"copy", "post"})
                        + Holds(Consumer, {"copy", "post"}) = CAP
Placed == /\ tail = (head + Stored) % CAP
          /\ sent = (taken + Stored) % M
          /\ \A i \in 0..Stored - 1 : slot[(head + i) % CAP] = (taken + i) % M

IInv == TypeOK /\ Counted /\ Placed
=============================================================================
