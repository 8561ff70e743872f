------------------------------- MODULE SeqPair -------------------------------
(***************************************************************************)
(* /dev/cppseq (k2/06): the kernel's seqlock_t is the counter of Seqlock   *)
(* and a spinlock, which lets several writers in, one after the other.     *)
(***************************************************************************)
EXTENDS Naturals

CONSTANTS Procs, Values, MaxSeq, Nil

VARIABLES filled, pc, loc, seq, pair, copy,     \* as in Seqlock
          lock                                  \* who holds the spinlock

vars == <<filled, pc, loc, seq, pair, copy, lock>>

\* read_seqbegin waits for an even counter, as the for(;;) does.
L == INSTANCE Seqlock WITH Writers <- Procs, loop <- "for"

Init == L!Init /\ lock = Nil

\* write_seqlock, val_a, val_b, write_sequnlock.
SeqWrite(p) ==
    \/ lock = Nil /\ L!Odd(p) /\ lock' = p
    \/ (L!StoreX(p) \/ L!StoreY(p)) /\ UNCHANGED lock
    \/ L!Even(p) /\ lock' = Nil

\* read_seqbegin, both values, read_seqretry; then the line for the user.
SeqRead(p) == (L!Read(p) \/ L!Reading(p)) /\ UNCHANGED lock

Step(p) == (SeqWrite(p) /\ pc[p] # "user") \/ (L!Reading(p) /\ UNCHANGED lock)
Next == \E p \in Procs : SeqWrite(p) \/ SeqRead(p)
Spec == Init /\ [][Next]_vars /\ \A p \in Procs : WF_vars(Step(p))

-----------------------------------------------------------------------------
\* Also with several writers no reader mixes two writes.
Untorn == L!Untorn

\* The holder of the spinlock is the one that writes, and the counter shows it.
OneWriter == /\ L!OddWhileWriting
             /\ \A p \in Procs : pc[p] \in {"x", "y", "even"} <=> lock = p
-----------------------------------------------------------------------------
\* Why: the spinlock lets one writer in at a time, and that is what the
\* counter needs.
IInv == L!IInv /\ OneWriter /\ lock \in Procs \cup {Nil}
=============================================================================
