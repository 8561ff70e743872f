------------------------------ MODULE SpscRing ------------------------------
(***************************************************************************)
(* The lock-free ring of one producer and one consumer, between threads    *)
(* (c1/01) and between processes (c3/03).  Both indices run freely: only   *)
(* their difference and their low bits count, and size_t wraps around.     *)
(* Memory is sequentially consistent here; what acquire and release add on *)
(* weaker memory is left out.                                              *)
(***************************************************************************)
EXTENDS Naturals

CONSTANTS Producer, Consumer,
          CAP,      \* slots, a power of two
          Width,    \* bound: size_t counts modulo Width, a multiple of CAP
          M         \* messages are numbered modulo M, M > CAP + 1

VARIABLES filled,       \* the gaps are filled in
          exercise,     \* whose code runs
          pc, loc,      \* where a caller is; the other side's index it has read
          slot, head, tail,
          sent, taken,  \* numbers of the next message to go in and to come out
          got           \* the message the consumer has copied

vars == <<filled, exercise, pc, loc, slot, head, tail, sent, taken, got>>

Ends == {Producer, Consumer}
Goto(p, label) == pc' = [pc EXCEPT ![p] = label]
Next1(i) == (i + 1) % Width

Init == /\ filled \in BOOLEAN
        /\ exercise \in {"c1_01", "c3_03"}
        /\ pc = [p \in Ends |-> "user"]
        /\ loc = [p \in Ends |-> 0]
        /\ slot = [i \in 0..CAP - 1 |-> 0]
        /\ head = 0 /\ tail = 0 /\ sent = 0 /\ taken = 0 /\ got = 0

\* Slip: tail is published before the slot is written.
PutPublishFirst == LET p == Producer IN
    \/ /\ filled /\ pc[p] = "user"
       /\ loc' = [loc EXCEPT ![p] = head]
       /\ Goto(p, "check")
       /\ UNCHANGED <<slot, tail, sent>>
    \/ /\ pc[p] = "check"
       /\ Goto(p, IF (tail + Width - loc[p]) % Width = CAP THEN "user" ELSE "publish")
       /\ UNCHANGED <<loc, slot, tail, sent>>
    \/ /\ pc[p] = "publish"
       /\ tail' = Next1(tail)
       /\ Goto(p, "copy")
       /\ UNCHANGED <<loc, slot, sent>>
    \/ /\ pc[p] = "copy"
       /\ slot' = [slot EXCEPT ![(tail + Width - 1) % CAP] = sent]
       /\ sent' = (sent + 1) % M
       /\ Goto(p, "user")
       /\ UNCHANGED <<loc, tail>>

\* The producer reads head, gives up on a full ring, writes the slot and only
\* then publishes tail.  The stub gives up at once.
Put == LET p == Producer IN
    \/ /\ filled /\ pc[p] = "user"
       /\ loc' = [loc EXCEPT ![p] = head]
       /\ Goto(p, "check")
       /\ UNCHANGED <<slot, tail, sent>>
    \/ /\ pc[p] = "check"
       /\ Goto(p, IF (tail + Width - loc[p]) % Width = CAP THEN "user" ELSE "copy")
       /\ UNCHANGED <<loc, slot, tail, sent>>
    \/ /\ pc[p] = "copy"
       /\ slot' = [slot EXCEPT ![tail % CAP] = sent]
       /\ Goto(p, "publish")
       /\ UNCHANGED <<loc, tail, sent>>
    \/ /\ pc[p] = "publish"
       /\ tail' = Next1(tail)
       /\ sent' = (sent + 1) % M
       /\ Goto(p, "user")
       /\ UNCHANGED <<loc, slot>>

\* The consumer reads tail, gives up on an empty ring, reads the slot and
\* only then gives it back.
Take == LET p == Consumer IN
    \/ /\ filled /\ pc[p] = "user"
       /\ loc' = [loc EXCEPT ![p] = tail]
       /\ Goto(p, "check")
       /\ UNCHANGED <<head, taken, got>>
    \/ /\ pc[p] = "check"
       /\ Goto(p, IF head = loc[p] THEN "user" ELSE "copy")
       /\ UNCHANGED <<loc, head, taken, got>>
    \/ /\ pc[p] = "copy"
       /\ got' = slot[head % CAP]
       /\ Goto(p, "publish")
       /\ UNCHANGED <<loc, head, taken>>
    \/ /\ pc[p] = "publish"
       /\ head' = Next1(head)
       /\ taken' = (taken + 1) % M
       /\ Goto(p, "user")
       /\ UNCHANGED <<loc, got>>

Push == exercise = "c1_01" /\ Put /\ UNCHANGED <<filled, exercise, head, taken, got>>
Pop == exercise = "c1_01" /\ Take /\ UNCHANGED <<filled, exercise, slot, tail, sent>>
SpscPush == exercise = "c3_03" /\ Put /\ UNCHANGED <<filled, exercise, head, taken, got>>
SpscPop == exercise = "c3_03" /\ Take /\ UNCHANGED <<filled, exercise, slot, tail, sent>>

Next == Push \/ Pop \/ SpscPush \/ SpscPop
Spec == Init /\ [][Next]_vars

-----------------------------------------------------------------------------
TypeOK == /\ filled \in BOOLEAN
          /\ exercise \in {"c1_01", "c3_03"}
          /\ pc \in [Ends -> {"user", "check", "copy", "publish"}]
          /\ loc \in [Ends -> 0..Width - 1]
          /\ slot \in [0..CAP - 1 -> 0..M - 1]
          /\ head \in 0..Width - 1 /\ tail \in 0..Width - 1
          /\ sent \in 0..M - 1 /\ taken \in 0..M - 1 /\ got \in 0..M - 1

\* The consumer gets every message once and in order, also across the wrap of
\* the indices, and never reads a slot the producer is writing.
InOrder == /\ pc[Consumer] = "publish" => got = taken
           /\ pc[Consumer] = "copy" => slot[head % CAP] = taken
           /\ pc[Consumer] = "copy" /\ pc[Producer] = "copy" => head % CAP # tail % CAP
           /\ (tail + Width - head) % Width <= CAP

-----------------------------------------------------------------------------
(***************************************************************************)
(* Why InOrder holds: what one end remembers of the other's index may be   *)
(* old, but an old head only makes the ring look fuller, and an old tail   *)
(* emptier, than it is.                                                    *)
(***************************************************************************)
Between(from, to) == (to + Width - from) % Width
Stored == Between(head, tail)

Placed == /\ Stored <= CAP
          /\ sent = (taken + Stored) % M
          /\ \A i \in 0..Stored - 1 : slot[(head + i) % CAP] = (taken + i) % M

Producing == /\ pc[Producer] = "check" => Between(loc[Producer], tail) \in Stored..CAP
             /\ pc[Producer] \in {"copy", "publish"} => Stored < CAP
             /\ pc[Producer] = "publish" => slot[tail % CAP] = sent
Consuming == /\ pc[Consumer] = "check" => Between(head, loc[Consumer]) <= Stored
             /\ pc[Consumer] \in {"copy", "publish"} => Stored > 0
             /\ pc[Consumer] = "publish" => got = taken

IInv == TypeOK /\ Placed /\ Producing /\ Consuming
=============================================================================
