------------------------------ MODULE MaxTrack ------------------------------
(***************************************************************************)
(* /dev/cppmax (k2/01): a counter, and the highest value it ever had, kept *)
(* without a lock by a compare-and-swap loop.  atomic_t wraps around.      *)
(***************************************************************************)
EXTENDS Integers

CONSTANTS Procs,
          W,        \* bound: atomic_t holds -W .. W-1 (2^31 in the kernel)
          Deltas    \* write() adds one of them, or its negative

VARIABLES filled,         \* the gaps are filled in
          pc,             \* where each caller is
          loc, old,       \* v and old of bump_high; what max_read prints
          counter, high,
          peak            \* the highest value of counter so far, 0 at first

vars == <<filled, pc, loc, old, counter, high, peak>>

Atomic == -W .. W - 1
Wrap(x) == ((x + W) % (2 * W)) - W
Goto(p, label) == pc' = [pc EXCEPT ![p] = label]
Finish(p) == /\ Goto(p, "user")
             /\ loc' = [loc EXCEPT ![p] = 0]
             /\ old' = [old EXCEPT ![p] = 0]

Init == /\ filled \in BOOLEAN
        /\ pc = [p \in Procs |-> "user"]
        /\ loc = [p \in Procs |-> 0] /\ old = [p \in Procs |-> 0]
        /\ counter = 0 /\ high = 0 /\ peak = 0

\* atomic_add_return; the stub adds nothing.
MaxWrite(p) ==
    /\ filled /\ pc[p] = "user"
    /\ \E n \in Deltas \cup {-d : d \in Deltas} : counter' = Wrap(counter + n)
    /\ loc' = [loc EXCEPT ![p] = counter']
    /\ peak' = IF counter' > peak THEN counter' ELSE peak
    /\ Goto(p, "load")
    /\ UNCHANGED <<filled, old, high>>

\* atomic_read, then atomic_cmpxchg until high is at least v.
BumpHigh(p) ==
    \/ /\ pc[p] = "load"
       /\ old' = [old EXCEPT ![p] = high]
       /\ Goto(p, "while")
       /\ UNCHANGED <<filled, loc, counter, high, peak>>
    \/ /\ pc[p] = "while" /\ loc[p] <= old[p]
       /\ Finish(p)
       /\ UNCHANGED <<filled, counter, high, peak>>
    \/ /\ pc[p] = "while" /\ loc[p] > old[p] /\ high = old[p]
       /\ high' = loc[p]
       /\ Finish(p)
       /\ UNCHANGED <<filled, counter, peak>>
    \/ /\ pc[p] = "while" /\ loc[p] > old[p] /\ high # old[p]
       /\ old' = [old EXCEPT ![p] = high]
       /\ UNCHANGED <<filled, pc, loc, counter, high, peak>>

\* Two reads, in either order: C leaves the order of arguments open.
MaxRead(p) ==
    /\ filled
    /\ \/ pc[p] = "user" /\ loc' = [loc EXCEPT ![p] = counter]
          /\ Goto(p, "high") /\ UNCHANGED old
       \/ pc[p] = "user" /\ old' = [old EXCEPT ![p] = high]
          /\ Goto(p, "counter") /\ UNCHANGED loc
       \/ pc[p] = "high" /\ old' = [old EXCEPT ![p] = high]
          /\ Goto(p, "print") /\ UNCHANGED loc
       \/ pc[p] = "counter" /\ loc' = [loc EXCEPT ![p] = counter]
          /\ Goto(p, "print") /\ UNCHANGED old
       \/ pc[p] = "print" /\ Finish(p)
    /\ UNCHANGED <<filled, counter, high, peak>>

Step(p) == BumpHigh(p)
Next == \E p \in Procs : MaxWrite(p) \/ MaxRead(p) \/ Step(p)
Spec == Init /\ [][Next]_vars

-----------------------------------------------------------------------------
TypeOK == /\ filled \in BOOLEAN
          /\ pc \in [Procs -> {"user", "load", "while", "high", "counter", "print"}]
          /\ loc \in [Procs -> Atomic] /\ old \in [Procs -> Atomic]
          /\ counter \in Atomic /\ high \in Atomic /\ peak \in Atomic

\* The maximum is never lost: high is the peak, or whoever reached the peak
\* is still on the way to record it; so high is right whenever no write is
\* under way, whatever writers overtook each other.
MaxKept == /\ high <= peak
           /\ high = peak \/ \E p \in Procs : pc[p] \in {"load", "while"} /\ loc[p] = peak

\* What a reader prints as the maximum was reached, and never has to be
\* taken back.
PrintedMax == \A p \in Procs :
    /\ pc[p] \in {"counter", "print", "while"} => old[p] <= high
    /\ pc[p] \in {"high", "print"} => loc[p] <= peak

-----------------------------------------------------------------------------
\* Why MaxKept holds: nobody has a value in hand above the peak.
InHand == /\ counter <= peak
          /\ \A p \in Procs : pc[p] \in {"load", "while"} => loc[p] <= peak

IInv == TypeOK /\ InHand /\ MaxKept /\ PrintedMax
=============================================================================
