---------------------------- MODULE TimeoutManager ----------------------------
(***************************************************************************)
(* The timers of c4/01: a heap by deadline from which a cancelled timer is *)
(* removed only when it comes to the top, so that cancel() is one insert   *)
(* into a set.  An id is added again only when it is neither pending nor   *)
(* marked, as the starter's comment asks.                                  *)
(***************************************************************************)
EXTENDS Naturals, FiniteSets

CONSTANTS Ids, Deadlines,   \* Deadlines also bounds the clock
          Max               \* the longest out_ids a caller passes

VARIABLES filled, now,
          heap,         \* nodes <<deadline, id>>
          cancelled,    \* ids whose node is to be skipped
          live          \* nodes added, and neither cancelled nor returned since

vars == <<filled, now, heap, cancelled, live>>
Due(nodes) == {n \in nodes : n[1] <= now}
Marked(nodes) == {n \in nodes : n[2] \in cancelled}
NoLater(S, T) == \A s \in S, t \in T : s[1] <= t[1]
IdsOf(nodes) == {n[2] : n \in nodes}

Init == /\ filled \in BOOLEAN
        /\ now = 0
        /\ heap = {} /\ cancelled = {} /\ live = {}

Add == \E n \in Deadlines \X Ids :
    /\ filled /\ n[2] \notin cancelled \cup IdsOf(heap)
    /\ heap' = heap \cup {n}
    /\ live' = live \cup {n}
    /\ UNCHANGED <<now, cancelled>>

\* The id need not be pending: its timer may have expired just before.
Cancel == \E id \in Ids :
    /\ filled
    /\ cancelled' = cancelled \cup {id}
    /\ live' = {n \in live : n[2] # id}
    /\ UNCHANGED <<now, heap>>

\* next_deadline: the marked nodes on top of the heap go, with their marks.
\* Nodes with the same deadline come to the top in any order.
NextDeadline == \E popped \in SUBSET Marked(heap) :
    /\ filled /\ NoLater(popped, heap \ popped)
    /\ heap # popped => \E n \in (heap \ popped) \ Marked(heap) : NoLater({n}, heap \ popped)
    /\ heap' = heap \ popped
    /\ cancelled' = cancelled \ IdsOf(popped)
    /\ UNCHANGED <<now, live>>

\* expire: pop what is due until max ids are out; a marked node takes its mark
\* along and does not count.
Expire == \E max \in 0..Max, popped \in SUBSET Due(heap) :
    LET fired == popped \ Marked(popped) IN
    /\ filled /\ NoLater(popped, heap \ popped)
    /\ \/ Cardinality(fired) < max /\ popped = Due(heap)
       \/ /\ Cardinality(fired) = max
          /\ popped = {} \/ \E last \in fired : NoLater(popped, {last})
    /\ heap' = heap \ popped
    /\ cancelled' = cancelled \ IdsOf(Marked(popped))
    /\ live' = live \ fired
    /\ UNCHANGED now

Tick == /\ \E d \in Deadlines : d > now
        /\ now' = now + 1
        /\ UNCHANGED <<heap, cancelled, live>>

Next == (Add \/ Cancel \/ NextDeadline \/ Expire \/ Tick) /\ UNCHANGED filled
Spec == Init /\ [][Next]_vars

-----------------------------------------------------------------------------
TypeOK == /\ filled \in BOOLEAN
          /\ now \in Nat
          /\ heap \subseteq Deadlines \X Ids
          /\ cancelled \subseteq Ids
          /\ live \subseteq Deadlines \X Ids

\* The lazily cleaned heap stands for the timers the caller believes in: a
\* pending timer is in the heap unmarked, and every unmarked node is pending.
\* So expire() returns no cancelled timer, loses none, and returns none twice.
LiveKept == live = heap \ Marked(heap)

-----------------------------------------------------------------------------
\* Why LiveKept holds: an id is in the heap once, so the mark that goes with a
\* node was that node's.
Unique == \A m, n \in heap : m[2] = n[2] => m = n

IInv == TypeOK /\ Unique /\ LiveKept
=============================================================================
