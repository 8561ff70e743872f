----------------------------- MODULE ListDevice -----------------------------
(***************************************************************************)
(* The devices that keep every message in a list under a mutex: k4/01      *)
(* (objects of an own slab cache, printed in one go) and k5/02 (a          *)
(* seq_file, which holds the mutex from start to stop and goes on in the   *)
(* next read() at the position where it stopped).                          *)
(***************************************************************************)
EXTENDS Naturals, Sequences, FiniteSets

CONSTANTS Procs, Nodes, Nil

VARIABLES exercise, filled, pc,
          loc,      \* the object a writer has in hand
          lock, heap,
          list,     \* entries or k5_list, from its head
          got       \* what a reader has printed of the file it has open

vars == <<exercise, filled, pc, loc, lock, heap, list, got>>

Exercises == {"k4/01", "k5/02"}
Elements(s) == {s[i] : i \in 1..Len(s)}
Goto(p, label) == pc' = [pc EXCEPT ![p] = label]

Init == /\ exercise \in Exercises /\ filled \in BOOLEAN
        /\ pc = [p \in Procs |-> "user"]
        /\ loc = [p \in Procs |-> Nil]
        /\ lock = Nil /\ heap = {}
        /\ list = <<>> /\ got = [p \in Procs |-> <<>>]

\* -ENOMEM and -EFAULT leave nothing behind; the stubs allocate nothing.
Alloc(p) == /\ filled /\ pc[p] = "user"
            /\ \E n \in Nodes \ heap : /\ heap' = heap \cup {n}
                                       /\ loc' = [loc EXCEPT ![p] = n]
            /\ Goto(p, "add")
            /\ UNCHANGED <<exercise, filled, lock, list, got>>
ListAddTail(p) == /\ pc[p] = "add" /\ lock = Nil
                  /\ list' = Append(list, loc[p])
                  /\ loc' = [loc EXCEPT ![p] = Nil]
                  /\ Goto(p, "user")
                  /\ UNCHANGED <<exercise, filled, lock, heap, got>>

SlabWrite(p) == exercise = "k4/01" /\ (Alloc(p) \/ ListAddTail(p))
K5ProcWrite(p) == exercise = "k5/02" /\ (Alloc(p) \/ ListAddTail(p))

Start(p) == /\ pc[p] = "user" /\ lock = Nil
            /\ lock' = p
            /\ Goto(p, "show")
            /\ UNCHANGED <<exercise, filled, loc, heap, list, got>>
Show(p) == /\ pc[p] = "show" /\ Len(got[p]) < Len(list)
           /\ got' = [got EXCEPT ![p] = Append(@, list[Len(@) + 1])]
           /\ UNCHANGED <<exercise, filled, pc, loc, lock, heap, list>>
Stop(p) == /\ pc[p] = "show"
           /\ lock' = Nil
           /\ Goto(p, "user")
           /\ UNCHANGED <<exercise, filled, loc, heap, list, got>>

\* The whole list every time; the stub prints none.
SlabRead(p) == /\ exercise = "k4/01" /\ filled
               /\ \/ Start(p) /\ got[p] = <<>>
                  \/ Show(p)
                  \/ Stop(p) /\ got[p] = list
                  \/ /\ pc[p] = "user" /\ got[p] # <<>>
                     /\ got' = [got EXCEPT ![p] = <<>>]
                     /\ UNCHANGED <<exercise, filled, pc, loc, lock, heap, list>>
\* The buffer of the caller may be full before the end of the list; the stub
\* walks too but prints nothing.
K5SeqStart(p) == exercise = "k5/02" /\ Start(p)
K5SeqNext(p) == exercise = "k5/02" /\ Show(p)
K5SeqStop(p) == exercise = "k5/02" /\ Stop(p)
Close(p) == /\ exercise = "k5/02" /\ pc[p] = "user" /\ got[p] # <<>>
            /\ got' = [got EXCEPT ![p] = <<>>]
            /\ UNCHANGED <<exercise, filled, pc, loc, lock, heap, list>>

\* The device goes first: nobody is inside when the objects are freed.
Exit == /\ \A p \in Procs : pc[p] = "user" /\ got[p] = <<>>
        /\ pc' = [p \in Procs |-> "gone"]
        /\ heap' = heap \ Elements(list)
        /\ list' = <<>>
        /\ UNCHANGED <<exercise, filled, loc, lock, got>>

Writes(p) == SlabWrite(p) \/ K5ProcWrite(p)
Reads(p) == SlabRead(p) \/ K5SeqStart(p) \/ K5SeqNext(p) \/ K5SeqStop(p) \/ Close(p)
Next == Exit \/ \E p \in Procs : Writes(p) \/ Reads(p)
Spec == Init /\ [][Next]_vars

-----------------------------------------------------------------------------
TypeOK == /\ exercise \in Exercises /\ filled \in BOOLEAN
          /\ pc \in [Procs -> {"user", "add", "show", "gone"}]
          /\ loc \in [Procs -> Nodes \cup {Nil}]
          /\ lock \in Procs \cup {Nil} /\ heap \subseteq Nodes
          /\ list \in Seq(Nodes) /\ got \in [Procs -> Seq(Nodes)]

\* Every object in use is listed or in the hand of one writer, once.
MemorySafe ==
    LET inHand == {loc[p] : p \in Procs} \ {Nil}
    IN  /\ heap = Elements(list) \cup inHand
        /\ Elements(list) \cap inHand = {}
        /\ \A i, j \in 1..Len(list) : list[i] = list[j] => i = j
        /\ \A p, q \in Procs : loc[p] = loc[q] /\ loc[p] # Nil => p = q

\* A reader that comes back for more finds its place again: it prints each
\* message once and in order, however many were added meanwhile.
InOrder == \A p \in Procs : got[p] = SubSeq(list, 1, Len(got[p]))

-----------------------------------------------------------------------------
(***************************************************************************)
(* Why MemorySafe and InOrder hold: an object is in the hand of one writer *)
(* or in the list, and until the module goes the list grows at its end     *)
(* only.                                                                   *)
(***************************************************************************)
Locked == \A p \in Procs : /\ pc[p] = "show" <=> lock = p
                           /\ loc[p] # Nil <=> pc[p] = "add"

Listed ==
    /\ \A i \in 1..Len(list) : list[i] \in heap /\ \A p \in Procs : loc[p] # list[i]
    /\ \A i, j \in 1..Len(list) : list[i] = list[j] => i = j

InHand ==
    /\ \A p \in Procs : loc[p] # Nil => loc[p] \in heap
    /\ \A p, q \in Procs : loc[p] = loc[q] /\ loc[p] # Nil => p = q

Owned == \A n \in heap : \/ \E i \in 1..Len(list) : list[i] = n
                         \/ \E p \in Procs : loc[p] = n

Printed == \A p \in Procs : Len(got[p]) <= Len(list)

IInv == TypeOK /\ Locked /\ Listed /\ InHand /\ Owned /\ Printed /\ InOrder
=============================================================================
