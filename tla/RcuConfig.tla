------------------------------ MODULE RcuConfig ------------------------------
(***************************************************************************)
(* /dev/cppcfg (k2/04): one configuration behind an RCU pointer.  A reader *)
(* copies name and value of the version it found; a writer publishes a new *)
(* version, waits for the readers that were inside, and frees the old one. *)
(* A version is (v, v): name and value carry the same number.  kmalloc     *)
(* hands out freed addresses again, with what was last written there.      *)
(***************************************************************************)
EXTENDS Naturals, FiniteSets

CONSTANTS Procs,    \* readers and writers
          Nodes,    \* addresses kmalloc can return
          Values,   \* what can be configured
          Boot,     \* the configuration of cfg_init, one of Values
          Nil

VARIABLES filled,   \* the gaps of cfg_read and cfg_write are filled in
          pc, loc,  \* where a caller is; p of a reader, neu or old of a writer
          lock,     \* the holder of writer_mutex
          heap,     \* addresses in use
          current,  \* current_cfg
          name, value,  \* the fields at every address
          waits,    \* the readers a writer waits for in synchronize_rcu
          copy      \* name and value in the locals of a reader

vars == <<filled, pc, loc, lock, heap, current, name, value, waits, copy>>

Goto(p, label) == pc' = [pc EXCEPT ![p] = label]
Set(p, n) == loc' = [loc EXCEPT ![p] = n]
Unset == [name |-> Nil, value |-> Nil]

Init == /\ filled \in BOOLEAN
        /\ pc = [p \in Procs |-> "user"]
        /\ loc = [p \in Procs |-> Nil]
        /\ lock = Nil
        /\ \E n \in Nodes : heap = {n} /\ current = n
        /\ name = [n \in Nodes |-> Boot] /\ value = [n \in Nodes |-> Boot]
        /\ waits = [p \in Procs |-> {}]
        /\ copy = [p \in Procs |-> Unset]

\* cfg_read: rcu_read_lock and rcu_dereference, two copies, rcu_read_unlock.
ReadLock(p) == /\ filled /\ pc[p] = "user"
               /\ Set(p, current)
               /\ Goto(p, "name")
               /\ UNCHANGED <<filled, lock, heap, current, name, value, waits, copy>>
CopyName(p) == /\ pc[p] = "name"
               /\ copy' = [copy EXCEPT ![p].name = name[loc[p]]]
               /\ Goto(p, "value")
               /\ UNCHANGED <<filled, loc, lock, heap, current, name, value, waits>>
CopyValue(p) == /\ pc[p] = "value"
                /\ copy' = [copy EXCEPT ![p].value = value[loc[p]]]
                /\ Set(p, Nil)
                /\ waits' = [w \in Procs |-> waits[w] \ {p}]
                /\ Goto(p, "return")
                /\ UNCHANGED <<filled, lock, heap, current, name, value>>
Return(p) == /\ pc[p] = "return"
             /\ copy' = [copy EXCEPT ![p] = Unset]
             /\ Goto(p, "user")
             /\ UNCHANGED <<filled, loc, lock, heap, current, name, value, waits>>

\* cfg_write: a new node, not yet published; -ENOMEM when there is none.
Kmalloc(p) == /\ pc[p] = "user"
              /\ \E n \in Nodes \ heap, v \in Values :
                    /\ heap' = heap \cup {n}
                    /\ name' = [name EXCEPT ![n] = v]
                    /\ value' = [value EXCEPT ![n] = v]
                    /\ Set(p, n)
              /\ Goto(p, "publish")
              /\ UNCHANGED <<filled, lock, current, waits, copy>>
LockWriters(p) == /\ filled /\ pc[p] = "publish" /\ lock = Nil
                  /\ lock' = p
                  /\ Goto(p, "assign")
                  /\ UNCHANGED <<filled, loc, heap, current, name, value, waits, copy>>
Publish(p) == /\ pc[p] = "assign"
              /\ current' = loc[p]
              /\ Set(p, current)
              /\ lock' = Nil
              /\ Goto(p, "synchronize")
              /\ UNCHANGED <<filled, heap, name, value, waits, copy>>
Readers == {q \in Procs : pc[q] \in {"name", "value"}}
Synchronize(p) == /\ pc[p] = "synchronize"
                  /\ waits' = [waits EXCEPT ![p] = Readers]
                  /\ Goto(p, "kfree")
                  /\ UNCHANGED <<filled, loc, lock, heap, current, name, value, copy>>
Kfree(p) == /\ pc[p] = "kfree" /\ waits[p] = {}
            /\ heap' = heap \ {loc[p]}
            /\ Set(p, Nil)
            /\ Goto(p, "user")
            /\ UNCHANGED <<filled, lock, current, name, value, waits, copy>>
\* The stub returns without publishing and leaves the node behind.
Forget(p) == /\ ~filled /\ pc[p] = "publish"
             /\ Set(p, Nil)
             /\ Goto(p, "user")
             /\ UNCHANGED <<filled, lock, heap, current, name, value, waits, copy>>

\* cfg_exit: no caller is inside, the file pins the module.
Exit == /\ \A p \in Procs : pc[p] = "user"
        /\ pc' = [p \in Procs |-> "gone"]
        /\ heap' = heap \ {current}
        /\ current' = Nil
        /\ UNCHANGED <<filled, loc, lock, name, value, waits, copy>>

Step(p) == \/ CopyName(p) \/ CopyValue(p) \/ Return(p) \/ LockWriters(p)
           \/ Publish(p) \/ Synchronize(p) \/ Kfree(p) \/ Forget(p)
Next == Exit \/ \E p \in Procs : Step(p) \/ ReadLock(p) \/ Kmalloc(p)
Spec == Init /\ [][Next]_vars /\ \A p \in Procs : WF_vars(Step(p))

-----------------------------------------------------------------------------
TypeOK == /\ filled \in BOOLEAN
          /\ pc \in [Procs -> {"user", "name", "value", "return", "publish", "assign",
                               "synchronize", "kfree", "gone"}]
          /\ loc \in [Procs -> Nodes \cup {Nil}]
          /\ lock \in Procs \cup {Nil}
          /\ heap \subseteq Nodes
          /\ current \in Nodes \cup {Nil}
          /\ name \in [Nodes -> Values] /\ value \in [Nodes -> Values]
          /\ waits \in [Procs -> SUBSET Procs]
          /\ copy \in [Procs -> [name: Values \cup {Nil}, value: Values \cup {Nil}]]

InHand == {loc[p] : p \in {q \in Procs : pc[q] \in {"publish", "assign", "synchronize", "kfree"}}}

\* The published version and every version a reader looks at is allocated; a
\* writer's node is its own; once filled in, nothing leaks, and the unloaded
\* module holds nothing.
MemorySafe == /\ current # Nil => current \in heap
              /\ \A p \in Readers : loc[p] \in heap
              /\ \A p \in Procs : pc[p] \in {"publish", "assign"} => loc[p] # current
              /\ filled => heap = ({current} \ {Nil}) \cup InHand

\* A reader never mixes the name of one version with the value of another.
Untorn == \A p \in Procs : pc[p] = "return" => copy[p].name = copy[p].value

\* A wait that has to end, whatever new readers come: a writer that has
\* published waits out the grace period and frees the old version.
Waits(p) == pc[p] \in {"synchronize", "kfree"}

-----------------------------------------------------------------------------
\* Why MemorySafe and Untorn hold: a writer's node is its own, the version a
\* reader looks at is the current one or that of a writer that still has to
\* wait for this reader, and no version changes while it is in use.
Owners == {p \in Procs : pc[p] \in {"publish", "assign", "synchronize", "kfree"}}
OneOwner == \A p \in Owners : /\ loc[p] \in heap /\ loc[p] # current
                              /\ \A q \in Owners \ {p} : loc[q] # loc[p]
Loaded == IF current = Nil THEN \A p \in Procs : pc[p] = "gone" ELSE current \in heap
Grace == \A r \in Readers :
    \/ loc[r] = current
    \/ \E w \in Procs : /\ pc[w] \in {"synchronize", "kfree"} /\ loc[w] = loc[r]
                        /\ pc[w] = "kfree" => r \in waits[w]
Whole == /\ \A n \in Nodes : name[n] = value[n]
         /\ \A p \in Procs : pc[p] = "value" => copy[p].name = name[loc[p]]
Kept == filled => heap = ({current} \ {Nil}) \cup InHand

IInv == TypeOK /\ OneOwner /\ Loaded /\ Grace /\ Whole /\ Kept /\ Untorn
=============================================================================
