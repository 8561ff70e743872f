------------------------------- MODULE Seqlock -------------------------------
(***************************************************************************)
(* A pair (x, y) behind a sequence counter (c1/03): odd while the writer   *)
(* is at work; a reader repeats until the counter was even and the same    *)
(* before and after.  Readers never hold the writer up.  The interleaving  *)
(* is sequentially consistent: what the fences have to ensure.             *)
(* There are two readers: problem.md's for(;;), and the starter's sketch,  *)
(* a do-while whose `continue` goes to the test of s1 against an old s2.   *)
(***************************************************************************)
EXTENDS Naturals

CONSTANTS Procs, Writers,   \* threads, and those that may write
          Values,           \* what is written; 0 is one of them
          MaxSeq            \* bound: the counter does not go beyond it

VARIABLES filled,   \* the gaps are filled in
          loop,     \* the readers' loop: "for" of problem.md, "do" of the starter
          pc, loc,  \* where a thread is; v of a writer, s1 of a reader
          seq, pair, copy   \* seq_, x_ and y_; a, b and s2 of each reader

vars == <<filled, loop, pc, loc, seq, pair, copy>>

Goto(p, label) == pc' = [pc EXCEPT ![p] = label]
Zero == [x |-> 0, y |-> 0]

Nothing == [x |-> 0, y |-> 0, s2 |-> 0]

Init == /\ filled \in BOOLEAN
        /\ loop \in {"for", "do"}
        /\ pc = [p \in Procs |-> "user"]
        /\ loc = [p \in Procs |-> 0]
        /\ seq = 0 /\ pair = Zero
        /\ copy = [p \in Procs |-> Nothing]

\* write(v): odd, x, y, even.  The stub writes nothing.
Odd(p) == /\ filled /\ p \in Writers /\ pc[p] = "user" /\ seq + 2 <= MaxSeq
          /\ \E v \in Values : loc' = [loc EXCEPT ![p] = v]
          /\ seq' = seq + 1
          /\ Goto(p, "x")
          /\ UNCHANGED <<filled, loop, pair, copy>>
StoreX(p) == /\ pc[p] = "x"
             /\ pair' = [pair EXCEPT !.x = loc[p]]
             /\ Goto(p, "y")
             /\ UNCHANGED <<filled, loop, loc, seq, copy>>
StoreY(p) == /\ pc[p] = "y"
             /\ pair' = [pair EXCEPT !.y = loc[p]]
             /\ Goto(p, "even")
             /\ UNCHANGED <<filled, loop, loc, seq, copy>>
Even(p) == /\ pc[p] = "even"
           /\ seq' = seq + 1
           /\ loc' = [loc EXCEPT ![p] = 0]
           /\ Goto(p, "user")
           /\ UNCHANGED <<filled, loop, pair, copy>>

\* read(a, b).  The stub returns 0 and 0 without a look.  The s2 that a do-while
\* tests has to live outside the loop, and nothing says what it is at first.
Read(p) == /\ filled /\ pc[p] = "user"
           /\ \E s \in IF loop = "do" THEN 0..MaxSeq ELSE {0} :
                 copy' = [copy EXCEPT ![p].s2 = s]
           /\ Goto(p, "begin")
           /\ UNCHANGED <<filled, loop, loc, seq, pair>>

\* s1 = seq_.  On an odd counter for(;;) begins again; the do-while goes to its
\* test, s1 against what s2 was, and may return what it copied before.
BeginEven(p) == /\ pc[p] = "begin" /\ seq % 2 = 0
                /\ loc' = [loc EXCEPT ![p] = seq]
                /\ Goto(p, "a")
BeginOdd(p) == /\ pc[p] = "begin" /\ seq % 2 = 1 /\ loop = "do"
               /\ loc' = [loc EXCEPT ![p] = seq]
               /\ Goto(p, IF copy[p].s2 = seq THEN "return" ELSE "begin")
\* Slip: an odd counter is not looked at.
BeginAny(p) == /\ pc[p] = "begin"
               /\ loc' = [loc EXCEPT ![p] = seq]
               /\ Goto(p, "a")
               /\ UNCHANGED <<filled, loop, seq, pair, copy>>
Begin(p) == (BeginEven(p) \/ BeginOdd(p)) /\ UNCHANGED <<filled, loop, seq, pair, copy>>
LoadX(p) == /\ pc[p] = "a"
            /\ copy' = [copy EXCEPT ![p].x = pair.x]
            /\ Goto(p, "b")
            /\ UNCHANGED <<filled, loop, loc, seq, pair>>
LoadY(p) == /\ pc[p] = "b"
            /\ copy' = [copy EXCEPT ![p].y = pair.y]
            /\ Goto(p, "again")
            /\ UNCHANGED <<filled, loop, loc, seq, pair>>
\* s2 = seq_, and the test.  The s2 of for(;;) ends with the turn of the loop.
Again(p) == /\ pc[p] = "again"
            /\ copy' = [copy EXCEPT ![p].s2 = IF loop = "do" THEN seq ELSE 0]
            /\ Goto(p, IF seq = loc[p] THEN "return" ELSE "begin")
            /\ UNCHANGED <<filled, loop, loc, seq, pair>>
Return(p) == /\ pc[p] = "return"
             /\ loc' = [loc EXCEPT ![p] = 0]
             /\ copy' = [copy EXCEPT ![p] = Nothing]
             /\ Goto(p, "user")
             /\ UNCHANGED <<filled, loop, seq, pair>>

Writing(p) == StoreX(p) \/ StoreY(p) \/ Even(p)
Reading(p) == Begin(p) \/ LoadX(p) \/ LoadY(p) \/ Again(p) \/ Return(p)
Step(p) == Writing(p) \/ Reading(p)
Next == \E p \in Procs : Odd(p) \/ Read(p) \/ Step(p)
Spec == Init /\ [][Next]_vars /\ \A p \in Procs : WF_vars(Step(p))

-----------------------------------------------------------------------------
TypeOK == /\ filled \in BOOLEAN
          /\ pc \in [Procs -> {"user", "x", "y", "even", "begin", "a", "b", "again", "return"}]
          /\ loc \in [Procs -> Values \cup 0..MaxSeq]
          /\ seq \in 0..MaxSeq
          /\ pair \in [x: Values, y: Values]
          /\ loop \in {"for", "do"}
          /\ copy \in [Procs -> [x: Values, y: Values, s2: 0..MaxSeq]]

\* No reader returns x of one write and y of another: the test of the course
\* says so of its readers.  The starter's do-while breaks it.
NeverTorn == \A p \in Procs : pc[p] = "return" => copy[p].x = copy[p].y

\* The for(;;) of problem.md keeps it.
Untorn == loop = "for" => NeverTorn

\* The counter is even exactly while nobody writes, so that a reader never
\* waits for a writer that has left.
OddWhileWriting == seq % 2 = 1 <=> \E p \in Procs : pc[p] \in {"x", "y", "even"}
-----------------------------------------------------------------------------
(***************************************************************************)
(* Why OddWhileWriting and Untorn hold, when a writer has the counter to   *)
(* itself.  A reader with the counter it began with has seen no write in   *)
(* between; a counter that has changed has grown, and does not come back.  *)
(***************************************************************************)
WriteLabels == {"x", "y", "even"}
Alone == \A p, q \in Procs : pc[p] \in WriteLabels /\ pc[q] \in WriteLabels => p = q

Written ==
    /\ \A p \in Procs : pc[p] \in WriteLabels => p \in Writers /\ loc[p] \in Values
    /\ \A p \in Procs : pc[p] \in {"y", "even"} => pair.x = loc[p]
    /\ \A p \in Procs : pc[p] = "even" => pair.y = loc[p]
    /\ seq % 2 = 0 => pair.x = pair.y
    /\ seq % 2 = 1 => seq + 1 <= MaxSeq

\* What a reader has copied, while the counter is the one it began with.
Seen == \A p \in Procs :
    /\ pc[p] \in {"a", "b", "again"} => loc[p] \in 0..seq /\ loc[p] % 2 = 0
    /\ pc[p] \in {"b", "again"} /\ seq = loc[p] => copy[p].x = pair.x
    /\ pc[p] = "again" /\ seq = loc[p] => copy[p].y = pair.y

IInv == TypeOK /\ Alone /\ OddWhileWriting /\ Written /\ Seen /\ Untorn
=============================================================================
