---------------------------- MODULE BufferDevice ----------------------------
(***************************************************************************)
(* The devices that keep what was written last: k1/01 and k4/03 fill one   *)
(* fixed buffer, k1/02 too but copies out through a local one, k4/02 makes *)
(* a new buffer for every write and swaps it in.  A byte is the number of  *)
(* the write it came from; 0 was never written.  A copy from the user may  *)
(* fault after some bytes.  k1/01, k1/02: with their gaps filled in, else  *)
(* there is no device; likewise the stubs of k4 keep nothing.              *)
(***************************************************************************)
EXTENDS Naturals, Sequences, FiniteSets

CONSTANTS Procs, Nodes, Nil,
          CAP,      \* bytes of a fixed buffer
          Texts     \* numbers of the writes, from 1

VARIABLES exercise, pc,
          loc,      \* the text of a writer; with k4/02 its new buffer
          lock,     \* the holder of the mutex
          heap,     \* buffers in use
          cur,      \* the device's buffer
          content,  \* the bytes of every buffer
          len,      \* data_len or buf_len
          got,      \* what this read() has copied so far
          pos,      \* the file position of a reader
          faulted   \* the last copy into the fixed buffer stopped half-way

device == <<cur, content, len, faulted>>
reader == <<got, pos>>
vars == <<exercise, pc, loc, lock, heap, device, reader>>

Exercises == {"k1/01", "k1/02", "k4/02", "k4/03"}
Zeroed == [i \in 1..CAP |-> 0]
Goto(p, label) == pc' = [pc EXCEPT ![p] = label]

Init == /\ exercise \in Exercises
        /\ pc = [p \in Procs |-> "user"]
        /\ loc = [p \in Procs |-> Nil]
        /\ lock = Nil
        /\ IF exercise = "k4/02" THEN cur = Nil /\ heap = {}
           ELSE LET n == CHOOSE n \in Nodes : TRUE IN cur = n /\ heap = {n}
        /\ content = [n \in Nodes |-> Zeroed]
        /\ len = 0 /\ faulted = FALSE
        /\ got = [p \in Procs |-> <<>>] /\ pos = [p \in Procs |-> 0]

Acquire(p, from, to) == /\ pc[p] = from /\ lock = Nil
                        /\ lock' = p
                        /\ Goto(p, to)
                        /\ UNCHANGED <<exercise, heap, device, reader>>

-----------------------------------------------------------------------------
\* Into the fixed buffer, under the mutex: the first byte, then the rest or
\* a fault.  A longer text is cut at CAP.
InPlace(p) ==
    \/ Acquire(p, "user", "first") /\ \E v \in Texts : loc' = [loc EXCEPT ![p] = v]
    \/ /\ pc[p] = "first"
       /\ content' = [content EXCEPT ![cur][1] = loc[p]]
       /\ faulted' = TRUE
       /\ Goto(p, "rest")
       /\ UNCHANGED <<exercise, loc, lock, heap, cur, len, reader>>
    \/ /\ pc[p] = "rest"
       /\ \E n \in 1..CAP :
             /\ content' = [content EXCEPT ![cur] =
                               [i \in 1..CAP |-> IF i <= n THEN loc[p] ELSE @[i]]]
             /\ \/ len' = n /\ faulted' = FALSE
                \/ n < CAP /\ UNCHANGED <<len, faulted>>        \* -EFAULT
       /\ lock' = Nil
       /\ loc' = [loc EXCEPT ![p] = Nil]
       /\ Goto(p, "user")
       /\ UNCHANGED <<exercise, heap, cur, reader>>

MyWrite(p) == exercise = "k1/01" /\ InPlace(p)
UpperWrite(p) == exercise = "k1/02" /\ InPlace(p)
\* It returns count although it keeps no more than the page.
PageWrite(p) == exercise = "k4/03" /\ InPlace(p)

\* A whole buffer first, or nothing (-ENOMEM, -EFAULT); the swap after it.
KvWrite(p) ==
    /\ exercise = "k4/02"
    /\ \/ /\ pc[p] = "user"
          /\ \E n \in Nodes \ heap, v \in Texts, k \in 1..CAP :
                /\ heap' = heap \cup {n}
                /\ content' = [content EXCEPT ![n] = [i \in 1..k |-> v]]
                /\ loc' = [loc EXCEPT ![p] = n]
          /\ Goto(p, "lock")
          /\ UNCHANGED <<exercise, lock, cur, len, faulted, reader>>
       \/ Acquire(p, "lock", "swap") /\ UNCHANGED loc
       \/ /\ pc[p] = "swap"
          /\ heap' = heap \ {cur}       \* kvfree(NULL) does nothing
          /\ content' = [n \in Nodes |-> IF n = cur THEN Zeroed ELSE content[n]]
          /\ cur' = loc[p] /\ len' = Len(content[loc[p]])
          /\ lock' = Nil
          /\ loc' = [loc EXCEPT ![p] = Nil]
          /\ Goto(p, "user")
          /\ UNCHANGED <<exercise, faulted, reader>>

-----------------------------------------------------------------------------
\* Under the mutex, from *ppos, as many bytes as the caller asked for.
CopyOut(p) ==
    \/ Acquire(p, "user", "read") /\ UNCHANGED loc
    \/ /\ pc[p] = "read" /\ pos[p] + Len(got[p]) < len
       /\ got' = [got EXCEPT ![p] = Append(@, content[cur][pos[p] + Len(@) + 1])]
       /\ UNCHANGED <<exercise, pc, loc, lock, heap, device, pos>>
    \/ /\ pc[p] = "read" /\ (got[p] # <<>> \/ pos[p] >= len)
       /\ lock' = Nil
       /\ Goto(p, "return")
       /\ UNCHANGED <<exercise, loc, heap, device, reader>>
    \/ /\ pc[p] = "return"
       /\ \/ pos' = [pos EXCEPT ![p] = @ + Len(got[p])]
          \/ pos' = [pos EXCEPT ![p] = 0]       \* the file is closed
          \/ UNCHANGED pos                      \* -EFAULT
       /\ got' = [got EXCEPT ![p] = <<>>]
       /\ Goto(p, "user")
       /\ UNCHANGED <<exercise, loc, lock, heap, device>>

MyRead(p) == exercise = "k1/01" /\ CopyOut(p)
UpperRead(p) == exercise = "k1/02" /\ CopyOut(p)
KvRead(p) == exercise = "k4/02" /\ CopyOut(p)
PageRead(p) == exercise = "k4/03" /\ CopyOut(p)

Writes(p) == MyWrite(p) \/ UpperWrite(p) \/ KvWrite(p) \/ PageWrite(p)
Reads(p) == MyRead(p) \/ UpperRead(p) \/ KvRead(p) \/ PageRead(p)
Exit == /\ \A p \in Procs : pc[p] = "user"
        /\ pc' = [p \in Procs |-> "gone"]
        /\ heap' = heap \ {cur}
        /\ UNCHANGED <<exercise, loc, lock, device, reader>>
Next == Exit \/ \E p \in Procs : Writes(p) \/ Reads(p)
Spec == Init /\ [][Next]_vars

-----------------------------------------------------------------------------
TypeOK == /\ exercise \in Exercises
          /\ pc \in [Procs -> {"user", "first", "rest", "lock", "swap", "read", "return", "gone"}]
          /\ loc \in [Procs -> Texts \cup Nodes \cup {Nil}]
          /\ lock \in Procs \cup {Nil}
          /\ heap \subseteq Nodes /\ cur \in Nodes \cup {Nil}
          /\ content \in [Nodes -> Seq(Texts \cup {0})]
          /\ len \in 0..CAP /\ faulted \in BOOLEAN
          /\ got \in [Procs -> Seq(Texts \cup {0})] /\ pos \in [Procs -> 0..CAP]

\* The buffer a reader copies from is allocated, a writer's new one is not
\* the device's, and nothing else is in use.
MemorySafe ==
    LET fresh == {loc[p] : p \in {q \in Procs : pc[q] \in {"lock", "swap"}}}
        inUse == IF \A p \in Procs : pc[p] = "gone" THEN {} ELSE {cur} \ {Nil}
    IN  /\ heap = inUse \cup fresh
        /\ cur \notin fresh
        /\ \A p, q \in Procs : loc[p] = loc[q] /\ loc[p] \in fresh => p = q

\* One read() shows bytes of one write(), none that was never written, except
\* after a copy that stopped half-way over the text that was there before.
\* Several read()s of one file may show several texts.
OneText == \A p \in Procs : \A i \in 1..Len(got[p]) :
    /\ got[p][i] # 0
    /\ pc[p] = "read" /\ ~faulted => got[p][i] = got[p][1]

-----------------------------------------------------------------------------
\* Why MemorySafe and OneText hold: whoever reads or changes the device's buffer
\* has the mutex, a new buffer is all of one text before it is swapped in, and
\* a reader's copy follows the buffer.
Locked == \A p \in Procs : pc[p] \in {"first", "rest", "swap", "read"} <=> lock = p
Loaded == (\A p \in Procs : pc[p] = "gone") \/ (\A p \in Procs : pc[p] # "gone")
InPlaceOnly == cur \in Nodes /\ Len(content[cur]) = CAP /\ \A p \in Procs :
                 /\ pc[p] \notin {"lock", "swap"}
                 /\ pc[p] \in {"first", "rest"} => loc[p] \in Texts
                 /\ pc[p] = "rest" => faulted
OneBy(s) == Len(s) <= CAP /\ \A i \in 1..Len(s) : s[i] # 0 /\ s[i] = s[1]
SwapOnly == \A p \in Procs :
    /\ pc[p] \notin {"first", "rest"}
    /\ IF pc[p] \in {"lock", "swap"} THEN loc[p] \in Nodes /\ OneBy(content[loc[p]])
                                     ELSE loc[p] = Nil
Shown == /\ len > 0 => cur # Nil /\ len <= Len(content[cur])
         /\ \A i \in 1..len : content[cur][i] # 0 /\ (~faulted => content[cur][i] = content[cur][1])
Copied == \A p \in Procs :
    /\ pc[p] \notin {"read", "return"} => got[p] = <<>>
    /\ pos[p] + Len(got[p]) <= CAP
    /\ pc[p] = "read" => /\ got[p] # <<>> => pos[p] + Len(got[p]) <= len
                         /\ \A i \in 1..Len(got[p]) : got[p][i] = content[cur][pos[p] + i]

IInv == /\ TypeOK /\ Locked /\ Loaded /\ Shown /\ Copied /\ MemorySafe /\ OneText
        /\ IF exercise = "k4/02" THEN SwapOnly ELSE InPlaceOnly
=============================================================================
