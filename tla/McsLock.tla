------------------------------- MODULE McsLock -------------------------------
(***************************************************************************)
(* The queue lock of c1/06: a thread swaps itself into tail, tells its     *)
(* predecessor, and spins on a flag of its own until the predecessor       *)
(* clears it.  A thread has one node, used again for every lock().         *)
(***************************************************************************)
EXTENDS Naturals, Sequences

CONSTANTS Procs, Nil

VARIABLES filled, pc,
          loc,          \* pred in lock(), succ in unlock()
          next, locked, \* the two fields of every thread's node
          tail,
          order         \* the threads in the order of their exchange on tail

vars == <<filled, pc, loc, next, locked, tail, order>>
Goto(p, label) == pc' = [pc EXCEPT ![p] = label]

Init == /\ filled \in BOOLEAN
        /\ pc = [p \in Procs |-> "user"]
        /\ loc = [p \in Procs |-> Nil]
        /\ next = [p \in Procs |-> Nil]
        /\ locked = [p \in Procs |-> FALSE]
        /\ tail = Nil /\ order = <<>>

\* The stub of lock() returns at once, without the lock.
Call(p) == /\ pc[p] = "user"
           /\ Goto(p, IF filled THEN "reset" ELSE "critical")
           /\ UNCHANGED <<filled, loc, next, locked, tail, order>>

\* Slip: the node keeps the successor of its last time in the queue.  The
\* sketch in the starter leaves the reset out; problem.md has it.
LockNoReset(p) ==
    \/ /\ pc[p] = "reset"
       /\ Goto(p, "swap")
       /\ UNCHANGED <<loc, next, locked, tail, order>>
    \/ /\ pc[p] = "swap"
       /\ loc' = [loc EXCEPT ![p] = tail]
       /\ tail' = p
       /\ order' = Append(order, p)
       /\ Goto(p, IF tail = Nil THEN "critical" ELSE "mark")
       /\ UNCHANGED <<next, locked>>
    \/ /\ pc[p] = "mark"
       /\ locked' = [locked EXCEPT ![p] = TRUE]
       /\ Goto(p, "link")
       /\ UNCHANGED <<loc, next, tail, order>>
    \/ /\ pc[p] = "link"
       /\ next' = [next EXCEPT ![loc[p]] = p]
       /\ Goto(p, "spin")
       /\ UNCHANGED <<loc, locked, tail, order>>
    \/ /\ pc[p] = "spin" /\ ~locked[p]
       /\ Goto(p, "critical")
       /\ UNCHANGED <<loc, next, locked, tail, order>>

\* The reset of next at its head is problem.md's.
Lock(p) ==
    \/ /\ pc[p] = "reset"
       /\ next' = [next EXCEPT ![p] = Nil]
       /\ Goto(p, "swap")
       /\ UNCHANGED <<loc, locked, tail, order>>
    \/ /\ pc[p] = "swap"
       /\ loc' = [loc EXCEPT ![p] = tail]
       /\ tail' = p
       /\ order' = Append(order, p)
       /\ Goto(p, IF tail = Nil THEN "critical" ELSE "mark")
       /\ UNCHANGED <<next, locked>>
    \/ /\ pc[p] = "mark"
       /\ locked' = [locked EXCEPT ![p] = TRUE]
       /\ Goto(p, "link")
       /\ UNCHANGED <<loc, next, tail, order>>
    \/ /\ pc[p] = "link"
       /\ next' = [next EXCEPT ![loc[p]] = p]
       /\ Goto(p, "spin")
       /\ UNCHANGED <<loc, locked, tail, order>>
    \/ /\ pc[p] = "spin" /\ ~locked[p]
       /\ Goto(p, "critical")
       /\ UNCHANGED <<loc, next, locked, tail, order>>

\* succ = self->next; without one, CAS(tail, self, null), and if somebody was
\* faster, wait until he has written self->next.
Unlock(p) ==
    \/ /\ pc[p] = "critical" /\ filled
       /\ loc' = [loc EXCEPT ![p] = next[p]]
       /\ Goto(p, IF next[p] = Nil THEN "last" ELSE "pass")
       /\ UNCHANGED <<next, locked, tail, order>>
    \/ /\ pc[p] = "critical" /\ ~filled
       /\ Goto(p, "user")
       /\ UNCHANGED <<loc, next, locked, tail, order>>
    \/ /\ pc[p] = "last" /\ tail = p
       /\ tail' = Nil
       /\ order' = Tail(order)
       /\ Goto(p, "user")
       /\ UNCHANGED <<loc, next, locked>>
    \/ /\ pc[p] = "last" /\ tail # p
       /\ Goto(p, "await")
       /\ UNCHANGED <<loc, next, locked, tail, order>>
    \/ /\ pc[p] = "await" /\ next[p] # Nil
       /\ loc' = [loc EXCEPT ![p] = next[p]]
       /\ Goto(p, "pass")
       /\ UNCHANGED <<next, locked, tail, order>>
    \/ /\ pc[p] = "pass"
       /\ locked' = [locked EXCEPT ![loc[p]] = FALSE]
       /\ order' = Tail(order)
       /\ Goto(p, "user")
       /\ UNCHANGED <<loc, next, tail>>

Step(p) == (Lock(p) \/ Unlock(p)) /\ UNCHANGED filled
Next == \E p \in Procs : Step(p) \/ Call(p)
Spec == Init /\ [][Next]_vars /\ \A p \in Procs : WF_vars(Step(p))

-----------------------------------------------------------------------------
TypeOK == /\ filled \in BOOLEAN
          /\ pc \in [Procs -> {"user", "reset", "swap", "mark", "link", "spin",
                               "critical", "last", "await", "pass"}]
          /\ loc \in [Procs -> Procs \cup {Nil}]
          /\ next \in [Procs -> Procs \cup {Nil}]
          /\ locked \in [Procs -> BOOLEAN]
          /\ tail \in Procs \cup {Nil}
          /\ order \in Seq(Procs)

\* The lock is held by one thread at a time, and by the one that has waited
\* longest: it goes round in the order of the exchanges on tail.
InOrder == filled => \A p \in Procs :
    pc[p] \in {"critical", "last", "await", "pass"} => order # <<>> /\ order[1] = p

\* A wait that has to end, with threads that always go on: for the lock.
Waits(p) == pc[p] \in {"reset", "swap", "mark", "link", "spin"}

-----------------------------------------------------------------------------
(***************************************************************************)
(* Why InOrder holds, for any number of threads: what the nodes look like  *)
(* along the queue.  order lists the threads between their exchange and    *)
(* their leaving; the first holds the lock or is about to find its flag    *)
(* cleared, every other one has a predecessor that does not know of it     *)
(* until it has linked itself, and spins on a flag that is set.            *)
(***************************************************************************)
Holds == {"critical", "last", "await", "pass"}
Behind == {"mark", "link", "spin"}

First == order # <<>> =>
    /\ pc[order[1]] \in Holds \cup {"spin"}
    /\ pc[order[1]] = "spin" => ~locked[order[1]]

Others == \A i \in 2..Len(order) :
    /\ pc[order[i]] \in Behind
    /\ pc[order[i]] \in {"mark", "link"} =>
         loc[order[i]] = order[i - 1] /\ next[order[i - 1]] = Nil
    /\ pc[order[i]] \in {"link", "spin"} => locked[order[i]]
    /\ pc[order[i]] = "spin" => next[order[i - 1]] = order[i]

Last == /\ order = <<>> => tail = Nil
        /\ order # <<>> => tail = order[Len(order)] /\ next[order[Len(order)]] = Nil

Once == \A i, j \in 1..Len(order) : order[i] = order[j] => i = j

Listed == \A p \in Procs :
    /\ pc[p] \in Holds \cup Behind => \E i \in 1..Len(order) : order[i] = p
    /\ pc[p] = "swap" => next[p] = Nil
    /\ pc[p] \in {"await", "pass"} => Len(order) > 1
    /\ pc[p] = "pass" => loc[p] = order[2] /\ pc[order[2]] = "spin"

Queue == filled => First /\ Others /\ Last /\ Once /\ Listed

Unfilled == ~filled => \A p \in Procs : pc[p] \in {"user", "critical"}

IInv == TypeOK /\ Queue /\ Unfilled
=============================================================================
