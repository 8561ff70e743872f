----------------------------- MODULE TreiberStack -----------------------------
(***************************************************************************)
(* The lock-free stack of c1/05.  A popped node is not freed: retire parks *)
(* it on a second list, through a field of its own, and only the           *)
(* destructor frees.  An address is never used twice before that.          *)
(***************************************************************************)
CONSTANTS Procs, Nodes, Nil

VARIABLES filled, pc,
          loc,          \* the node a thread pushes, looks at (old) or retires
          ahead,        \* old->next, as pop has read it for its CAS
          heap,         \* the nodes that exist
          next, rnext,  \* the two link fields of every node
          head, retired

fields == <<next, rnext>>
vars == <<filled, pc, loc, ahead, heap, fields, head, retired>>

Goto(p, label) == pc' = [pc EXCEPT ![p] = label]
InHand(p, n) == loc' = [loc EXCEPT ![p] = n]
Addresses == Nodes \cup {Nil}

Init == /\ filled \in BOOLEAN
        /\ pc = [p \in Procs |-> "user"]
        /\ loc = [p \in Procs |-> Nil] /\ ahead = [p \in Procs |-> Nil]
        /\ heap = {}
        /\ next = [n \in Nodes |-> Nil] /\ rnext = [n \in Nodes |-> Nil]
        /\ head = Nil /\ retired = Nil

\* new Node, the first load of head, then compare_exchange_weak until head is
\* what n->next says; a failure puts the head found into n->next.
Push(p) ==
    \/ /\ filled /\ pc[p] = "user"
       /\ \E n \in Nodes \ heap : /\ heap' = heap \cup {n}
                                  /\ InHand(p, n)
                                  /\ next' = [next EXCEPT ![n] = head]
                                  /\ rnext' = [rnext EXCEPT ![n] = Nil]
       /\ Goto(p, "push")
       /\ UNCHANGED <<head, retired, ahead>>
    \/ /\ pc[p] = "push"
       /\ IF head = next[loc[p]]
          THEN head' = loc[p] /\ InHand(p, Nil) /\ Goto(p, "user") /\ UNCHANGED next
          ELSE next' = [next EXCEPT ![loc[p]] = head] /\ UNCHANGED <<head, loc, pc>>
       /\ UNCHANGED <<heap, rnext, retired, ahead>>

\* Parking: the same loop on retired and rnext.
Retire(p) ==
    \/ /\ pc[p] = "retire"
       /\ rnext' = [rnext EXCEPT ![loc[p]] = retired]
       /\ Goto(p, "park")
       /\ UNCHANGED <<loc, heap, next, retired>>
    \/ /\ pc[p] = "park"
       /\ IF retired = rnext[loc[p]]
          THEN retired' = loc[p] /\ InHand(p, Nil) /\ Goto(p, "user") /\ UNCHANGED rnext
          ELSE rnext' = [rnext EXCEPT ![loc[p]] = retired] /\ UNCHANGED <<retired, loc, pc>>
       /\ UNCHANGED <<heap, next>>

\* old = head; while old is not null, read old->next and try to swing head.
Look(p) == InHand(p, head) /\ Goto(p, IF head = Nil THEN "user" ELSE "peek")
Pop(p) ==
    \/ /\ filled /\ pc[p] = "user"
       /\ Look(p)
       /\ UNCHANGED <<ahead, heap, fields, head, retired>>
    \/ /\ pc[p] = "peek"
       /\ ahead' = [ahead EXCEPT ![p] = next[loc[p]]]
       /\ Goto(p, "pop")
       /\ UNCHANGED <<loc, heap, fields, head, retired>>
    \/ /\ pc[p] = "pop"
       /\ ahead' = [ahead EXCEPT ![p] = Nil]
       /\ IF head = loc[p] THEN head' = ahead[p] /\ Goto(p, "retire") /\ UNCHANGED loc
                           ELSE Look(p) /\ UNCHANGED head
       /\ UNCHANGED <<heap, fields, retired>>
    \/ Retire(p) /\ UNCHANGED <<ahead, head>>

\* The nodes reached from first through f.
On(f, first) ==
    {n \in Nodes : \A S \in SUBSET Nodes :
        first \in S \cup {Nil} /\ (\A m \in S : f[m] \in S \cup {Nil}) => n \in S}

\* The destructor runs when no thread uses the stack any more.
Destroy == /\ \A p \in Procs : pc[p] = "user"
           /\ pc' = [p \in Procs |-> "gone"]
           /\ heap' = heap \ (On(next, head) \cup On(rnext, retired))
           /\ head' = Nil /\ retired' = Nil
           /\ UNCHANGED <<loc, ahead, fields>>

Next == (Destroy \/ \E p \in Procs : Push(p) \/ Pop(p)) /\ UNCHANGED filled
Spec == Init /\ [][Next]_vars

-----------------------------------------------------------------------------
TypeOK == /\ filled \in BOOLEAN
          /\ pc \in [Procs -> {"user", "push", "peek", "pop", "retire", "park", "gone"}]
          /\ loc \in [Procs -> Addresses] /\ ahead \in [Procs -> Addresses]
          /\ heap \subseteq Nodes
          /\ next \in [Nodes -> Addresses] /\ rnext \in [Nodes -> Addresses]
          /\ head \in Addresses /\ retired \in Addresses

\* The list from first through f comes to an end.
Ends(f, first) == \A S \in SUBSET On(f, first) : S # {} => \E n \in S : f[n] \notin S

\* Every node that exists is in exactly one place: on the stack, on the parking
\* list or in the hands of one thread.  So nothing a thread still looks at is
\* freed, no node is popped twice and none is lost (no ABA), the destructor's two
\* loops come to an end, and it leaves nothing.
MemorySafe ==
    LET owners == {p \in Procs : pc[p] \in {"push", "retire", "park"}}
        held == {loc[p] : p \in owners}
    IN /\ heap = On(next, head) \cup On(rnext, retired) \cup held
       /\ On(next, head) \cap On(rnext, retired) = {}
       /\ held \cap (On(next, head) \cup On(rnext, retired)) = {}
       /\ \A p, q \in owners : loc[p] = loc[q] => p = q
       /\ \A p \in Procs : pc[p] = "peek" => loc[p] \in heap
       /\ Ends(next, head) /\ Ends(rnext, retired)

-----------------------------------------------------------------------------
\* Why MemorySafe holds: what a popping thread looks at is never pushed again,
\* so as long as it is the head, its next is the one that was read.
Used == On(next, head) \cup On(rnext, retired)
            \cup {loc[p] : p \in {q \in Procs : pc[q] \in {"retire", "park"}}}
Looked == \A p \in Procs :
    /\ pc[p] \in {"push", "retire", "park"} => loc[p] \in Nodes
    /\ pc[p] \in {"peek", "pop"} => loc[p] \in Used
    /\ pc[p] = "pop" => ahead[p] = next[loc[p]]

IInv == TypeOK /\ Looked /\ MemorySafe
=============================================================================
