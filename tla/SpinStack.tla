------------------------------ MODULE SpinStack ------------------------------
(***************************************************************************)
(* /dev/cppstack (k2/02): a list of kmalloc'ed nodes under a spinlock.     *)
(* Allocation, kfree and the copy to the user stay outside the lock; the   *)
(* walk of stack_read and the two list operations stay inside it.  A node  *)
(* is its address; addresses return to Nodes when they are freed.          *)
(***************************************************************************)
EXTENDS Naturals, Sequences, FiniteSets

CONSTANTS Procs,    \* callers of read() and write()
          Nodes,    \* addresses kmalloc can return
          Nil       \* no process, no address

VARIABLES filled,   \* the gaps of do_push and do_pop are filled in
          pc,       \* where each caller is
          loc,      \* the node a caller has in hand or looks at
          lock,     \* who holds the spinlock
          heap,     \* the addresses in use
          stack,    \* the list, from its head
          seen      \* what a caller of stack_read has printed so far

vars == <<filled, pc, loc, lock, heap, stack, seen>>

Elements(s) == {s[i] : i \in 1..Len(s)}

Goto(p, label) == pc' = [pc EXCEPT ![p] = label]

Init == /\ filled \in BOOLEAN
        /\ pc = [p \in Procs |-> "user"]
        /\ loc = [p \in Procs |-> Nil]
        /\ seen = [p \in Procs |-> <<>>]
        /\ lock = Nil
        /\ heap = {}
        /\ stack = <<>>

\* kmalloc fails (-ENOMEM, the call ends) or returns an unused address.
Alloc(p, label) == \E n \in Nodes \ heap :
    /\ heap' = heap \cup {n}
    /\ loc' = [loc EXCEPT ![p] = n]
    /\ Goto(p, label)

Acquire(p, from, to) == /\ pc[p] = from
                        /\ lock = Nil
                        /\ lock' = p
                        /\ Goto(p, to)
                        /\ UNCHANGED <<filled, loc, heap, stack, seen>>

Free(p) == /\ heap' = heap \ {loc[p]}
           /\ loc' = [loc EXCEPT ![p] = Nil]
           /\ Goto(p, "user")

\* write "push <N>": the node is made outside the lock.
Push(p) == /\ pc[p] = "user"
           /\ Alloc(p, "push")
           /\ UNCHANGED <<filled, lock, stack, seen>>

DoPush(p) == \/ filled /\ Acquire(p, "push", "link")
             \/ /\ ~filled /\ pc[p] = "push"        \* the stub forgets the node
                /\ loc' = [loc EXCEPT ![p] = Nil]
                /\ Goto(p, "user")
                /\ UNCHANGED <<filled, lock, heap, stack, seen>>
             \/ /\ pc[p] = "link"
                /\ stack' = <<loc[p]>> \o stack
                /\ lock' = Nil
                /\ loc' = [loc EXCEPT ![p] = Nil]
                /\ Goto(p, "user")
                /\ UNCHANGED <<filled, heap, seen>>

\* write "pop": the node leaves the list under the lock, the heap after it.
\* The stub pops nothing, and kfree(NULL) does nothing.
DoPop(p) == \/ filled /\ Acquire(p, "user", "unlink")
            \/ /\ pc[p] = "unlink"
               /\ lock' = Nil
               /\ \/ stack = <<>> /\ Goto(p, "user") /\ UNCHANGED <<stack, loc>>
                  \/ /\ stack # <<>>
                     /\ loc' = [loc EXCEPT ![p] = Head(stack)]
                     /\ stack' = Tail(stack)
                     /\ Goto(p, "kfree")
               /\ UNCHANGED <<filled, heap, seen>>
            \/ pc[p] = "kfree" /\ Free(p) /\ UNCHANGED <<filled, lock, stack, seen>>

\* stack_read: a buffer, the walk under the lock, the copy and kfree after it.
Read(p) ==
    \/ pc[p] = "user" /\ Alloc(p, "read") /\ UNCHANGED <<filled, lock, stack, seen>>
    \/ Acquire(p, "read", "walk")
    \/ /\ pc[p] = "walk" /\ Len(seen[p]) < Len(stack)
       /\ seen' = [seen EXCEPT ![p] = Append(@, stack[Len(@) + 1])]
       /\ UNCHANGED <<filled, pc, loc, lock, heap, stack>>
    \/ /\ pc[p] = "walk" /\ Len(seen[p]) >= Len(stack)
       /\ lock' = Nil
       /\ seen' = [seen EXCEPT ![p] = <<>>]
       /\ Goto(p, "kfree")
       /\ UNCHANGED <<filled, loc, heap, stack>>

\* rmmod: the open file pins the module, so no caller is inside.
Exit == /\ \A p \in Procs : pc[p] = "user"
        /\ pc' = [p \in Procs |-> "gone"]
        /\ heap' = heap \ Elements(stack)
        /\ stack' = <<>>
        /\ UNCHANGED <<filled, loc, lock, seen>>

Call(p) == Push(p) \/ DoPush(p) \/ DoPop(p) \/ Read(p)
Next == Exit \/ \E p \in Procs : Call(p)
Spec == Init /\ [][Next]_vars

-----------------------------------------------------------------------------
TypeOK == /\ filled \in BOOLEAN
          /\ pc \in [Procs -> {"user", "push", "link", "unlink", "kfree", "read", "walk", "gone"}]
          /\ loc \in [Procs -> Nodes \cup {Nil}]
          /\ lock \in Procs \cup {Nil}
          /\ heap \subseteq Nodes
          /\ stack \in Seq(Nodes)
          /\ seen \in [Procs -> Seq(Nodes)]

\* No node is freed while it is listed, printed or in another caller's hand,
\* none is listed twice, and every address in use has exactly one owner; the
\* unloaded module leaves nothing behind.  The stub, which forgets its node,
\* can only promise the first part.
MemorySafe ==
    LET inHand == {loc[p] : p \in Procs} \ {Nil}
    IN /\ Elements(stack) \cup inHand \subseteq heap
       /\ Elements(stack) \cap inHand = {}
       /\ \A i, j \in 1..Len(stack) : stack[i] = stack[j] => i = j
       /\ \A p, q \in Procs : loc[p] = loc[q] /\ loc[p] # Nil => p = q
       /\ filled => heap = Elements(stack) \cup inHand

\* What stack_read has printed is the stack, top first, as it is while the
\* reader holds the lock: no push or pop shows half.
ReadsSnapshot == \A p \in Procs :
    pc[p] = "walk" => seen[p] = SubSeq(stack, 1, Len(seen[p]))

-----------------------------------------------------------------------------
(***************************************************************************)
(* Why MemorySafe holds: a node is in the hand of one caller or in the     *)
(* list, and only the holder of the lock walks or changes the list.        *)
(***************************************************************************)
Locked == \A p \in Procs :
    /\ pc[p] \in {"link", "unlink", "walk"} <=> lock = p
    /\ loc[p] = Nil <=> pc[p] \in {"user", "unlink", "gone"}
    /\ pc[p] # "walk" => seen[p] = <<>>

Listed ==
    /\ \A i \in 1..Len(stack) : stack[i] \in heap /\ \A p \in Procs : loc[p] # stack[i]
    /\ \A i, j \in 1..Len(stack) : stack[i] = stack[j] => i = j

InHand ==
    /\ \A p \in Procs : loc[p] # Nil => loc[p] \in heap
    /\ \A p, q \in Procs : loc[p] = loc[q] /\ loc[p] # Nil => p = q

Owned == filled => \A n \in heap : \/ \E i \in 1..Len(stack) : stack[i] = n
                                   \/ \E p \in Procs : loc[p] = n

Printed == \A p \in Procs : /\ Len(seen[p]) <= Len(stack)
                            /\ seen[p] = SubSeq(stack, 1, Len(seen[p]))

IInv == TypeOK /\ Locked /\ Listed /\ InHand /\ Owned /\ Printed
=============================================================================
