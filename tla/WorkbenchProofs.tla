--------------------------- MODULE WorkbenchProofs ---------------------------
(***************************************************************************)
(* What is proved about the exercise programs, for any number of callers,  *)
(* nodes and values: for every program its invariant, IInv in its module,  *)
(* step by step, over the places the bench lends it (a proof names them as *)
(* the program does); then what the programs promise together, the         *)
(* properties of Workbench.                                                *)
(***************************************************************************)
EXTENDS Workbench, Integers, Sequences, FiniteSetTheorems, WellFoundedInduction, TLAPS

-----------------------------------------------------------------------------
(* Sequences and rings of slots, for the queues of the exercises. *)

\* What the list operations of the programs do to a sequence.
LEMMA Appended ==
  ASSUME NEW S, NEW s \in Seq(S), NEW x \in S
  PROVE  /\ Append(s, x) \in Seq(S) /\ Len(Append(s, x)) = Len(s) + 1
         /\ Append(s, x)[Len(s) + 1] = x
         /\ \A i \in 1..Len(s) : Append(s, x)[i] = s[i]
OBVIOUS

LEMMA Pushed ==
  ASSUME NEW S, NEW s \in Seq(S), NEW x \in S
  PROVE  /\ <<x>> \o s \in Seq(S) /\ Len(<<x>> \o s) = Len(s) + 1
         /\ (<<x>> \o s)[1] = x
         /\ \A i \in 1..Len(s) : (<<x>> \o s)[i + 1] = s[i]
OBVIOUS

LEMMA Popped ==
  ASSUME NEW S, NEW s \in Seq(S), s # <<>>
  PROVE  /\ Tail(s) \in Seq(S) /\ Len(Tail(s)) = Len(s) - 1
         /\ \A i \in 1..(Len(s) - 1) : Tail(s)[i] = s[i + 1]
         /\ Head(s) = s[1] /\ s[1] \in S
OBVIOUS

LEMMA Prefix ==
  ASSUME NEW S, NEW s \in Seq(S), NEW n \in 0..Len(s)
  PROVE  /\ SubSeq(s, 1, n) \in Seq(S) /\ Len(SubSeq(s, 1, n)) = n
         /\ \A i \in 1..n : SubSeq(s, 1, n)[i] = s[i]
OBVIOUS

LEMMA SameSeq ==
  ASSUME NEW S, NEW s \in Seq(S), NEW t \in Seq(S), Len(s) = Len(t),
         \A i \in 1..Len(s) : s[i] = t[i]
  PROVE  s = t
OBVIOUS

\* Who has read the first n of a list and reads one more has read n + 1.
LEMMA PrefixNext ==
  ASSUME NEW S, NEW s \in Seq(S), NEW n \in 0..(Len(s) - 1)
  PROVE  Append(SubSeq(s, 1, n), s[n + 1]) = SubSeq(s, 1, n + 1)
<1>1. n \in 0..Len(s) /\ n + 1 \in 0..Len(s) /\ s[n + 1] \in S  OBVIOUS
<1> USE <1>1
<1>2. /\ SubSeq(s, 1, n) \in Seq(S) /\ Len(SubSeq(s, 1, n)) = n
      /\ \A i \in 1..n : SubSeq(s, 1, n)[i] = s[i]
  BY Prefix
<1>3. /\ SubSeq(s, 1, n + 1) \in Seq(S) /\ Len(SubSeq(s, 1, n + 1)) = n + 1
      /\ \A i \in 1..(n + 1) : SubSeq(s, 1, n + 1)[i] = s[i]
  BY Prefix
<1>4. /\ Append(SubSeq(s, 1, n), s[n + 1]) \in Seq(S)
      /\ Len(Append(SubSeq(s, 1, n), s[n + 1])) = n + 1
      /\ Append(SubSeq(s, 1, n), s[n + 1])[n + 1] = s[n + 1]
      /\ \A i \in 1..n : Append(SubSeq(s, 1, n), s[n + 1])[i] = s[i]
  BY <1>2, Appended
<1>5. \A i \in 1..(n + 1) : i \in 1..n \/ i = n + 1  OBVIOUS
<1>6. QED BY <1>3, <1>4, <1>5, SameSeq

\* The beginning of a list does not change when the list grows at its end.
LEMMA PrefixAppend ==
  ASSUME NEW S, NEW s \in Seq(S), NEW x \in S, NEW n \in 0..Len(s)
  PROVE  SubSeq(Append(s, x), 1, n) = SubSeq(s, 1, n)
<1>1. /\ Append(s, x) \in Seq(S) /\ n \in 0..Len(Append(s, x))
      /\ \A i \in 1..n : Append(s, x)[i] = s[i]
  BY Appended
<1>2. /\ SubSeq(Append(s, x), 1, n) \in Seq(S) /\ Len(SubSeq(Append(s, x), 1, n)) = n
      /\ \A i \in 1..n : SubSeq(Append(s, x), 1, n)[i] = Append(s, x)[i]
  BY <1>1, Prefix
<1>3. /\ SubSeq(s, 1, n) \in Seq(S) /\ Len(SubSeq(s, 1, n)) = n
      /\ \A i \in 1..n : SubSeq(s, 1, n)[i] = s[i]
  BY Prefix
<1>4. QED BY <1>1, <1>2, <1>3, SameSeq

LEMMA ConcatPush ==
  ASSUME NEW S, NEW a \in Seq(S), NEW b \in Seq(S), NEW x \in S
  PROVE  Append(a, x) \o b = a \o (<<x>> \o b)
OBVIOUS

\* Indices modulo K.
LEMMA ModSmall == ASSUME NEW K \in Nat \ {0}, NEW a \in 0..(K - 1) PROVE a % K = a
OBVIOUS

LEMMA ModOnce ==
  ASSUME NEW K \in Nat \ {0}, NEW a \in K..(2 * K - 1)
  PROVE  a % K = a - K
OBVIOUS

LEMMA ModRange ==
  ASSUME NEW K \in Nat \ {0}, NEW a \in Int
  PROVE  a % K \in 0..(K - 1) /\ a % K \in Nat
OBVIOUS

LEMMA ModUnique ==
  ASSUME NEW K \in Nat \ {0}, NEW q \in Int, NEW r \in 0..(K - 1)
  PROVE  (K * q + r) % K = r
OBVIOUS

LEMMA Quotient ==
  ASSUME NEW K \in Nat \ {0}, NEW a \in Nat
  PROVE  \E q \in Nat : a = K * q + (a % K)
<1> DEFINE q == a \div K
<1>1. q \in Nat  OBVIOUS
<1>2. a = K * q + (a % K)  OBVIOUS
<1>3. QED BY <1>1, <1>2

LEMMA ModMultiple ==
  ASSUME NEW K \in Nat \ {0}, NEW k \in Nat, NEW a \in Nat
  PROVE  (a + K * k) % K = a % K
<1>1. PICK q \in Nat : a = K * q + (a % K)  BY Quotient
<1>2. a + K * k = K * (q + k) + (a % K) /\ a % K \in 0..(K - 1) /\ q + k \in Int  BY <1>1
<1>3. (K * (q + k) + (a % K)) % K = a % K  BY <1>2, ModUnique
<1>4. QED BY <1>2, <1>3

LEMMA ModAdd ==
  ASSUME NEW K \in Nat \ {0}, NEW a \in Nat, NEW b \in Nat
  PROVE  ((a % K) + b) % K = (a + b) % K
<1>1. PICK q \in Nat : a = K * q + (a % K)  BY Quotient
<1>2. a % K \in Nat /\ (a % K) + b \in Nat  BY ModRange
<1>3. \A m, r \in Int : a = m + r => a + b = (r + b) + m  OBVIOUS
<1>4. K * q \in Int /\ a % K \in Int  BY <1>2
<1>5. a + b = ((a % K) + b) + K * q  BY <1>1, <1>3, <1>4
<1>6. (((a % K) + b) + K * q) % K = ((a % K) + b) % K  BY <1>2, ModMultiple
<1>7. QED BY <1>5, <1>6

LEMMA ModApart ==
  ASSUME NEW K \in Nat \ {0}, NEW h \in 0..(K - 1), NEW i \in Nat, NEW j \in Nat,
         i < j, j < i + K, i < K, j <= K
  PROVE  (h + i) % K # (h + j) % K
<1>1. h + i \in 0..(K - 1) \/ h + i \in K..(2 * K - 1)  OBVIOUS
<1>2. CASE h + j < K  BY <1>2, ModSmall
<1>3. CASE h + j >= K /\ h + j < 2 * K
  <2>1. (h + j) % K = h + j - K  BY <1>3, ModOnce
  <2>2. (h + i) % K = h + i \/ (h + i) % K = h + i - K
    <3>1. h + i \in 0..(K - 1) => (h + i) % K = h + i  BY ModSmall
    <3>2. h + i \in K..(2 * K - 1) => (h + i) % K = h + i - K  BY ModOnce
    <3>3. QED BY <1>1, <3>1, <3>2
  <2>3. QED BY <2>1, <2>2
<1>4. CASE h + j >= 2 * K  BY <1>4
<1>5. QED BY <1>2, <1>3, <1>4

\* A ring: n messages from head on, numbered from t on.
RingHolds(slot, head, n, t, K, B) ==
    \A i \in 0..(n - 1) : slot[(head + i) % K] = (t + i) % B

LEMMA RingPut ==
  ASSUME NEW K \in Nat \ {0}, NEW B \in Nat \ {0}, NEW n \in 0..(K - 1),
         NEW head \in 0..(K - 1), NEW t \in Nat, NEW S,
         NEW slot \in [0..(K - 1) -> S], RingHolds(slot, head, n, t, K, B)
  PROVE  RingHolds([slot EXCEPT ![(head + n) % K] = (t + n) % B], head, n + 1, t, K, B)
<1> DEFINE new == [slot EXCEPT ![(head + n) % K] = (t + n) % B]
<1>1. \A i \in 0..n : (head + i) % K \in 0..(K - 1)
  <2>1. \A i \in 0..n : head + i \in Int  OBVIOUS
  <2>2. QED BY <2>1, ModRange
<1>2. new[(head + n) % K] = (t + n) % B  BY <1>1
<1>3. ASSUME NEW i \in 0..(n - 1) PROVE new[(head + i) % K] = (t + i) % B
  <2>1. (head + i) % K # (head + n) % K
    <3>1. i \in Nat /\ n \in Nat /\ i < n /\ n < i + K /\ i < K /\ n <= K  OBVIOUS
    <3>2. QED BY <3>1, ModApart
  <2>2. slot[(head + i) % K] = (t + i) % B  BY DEF RingHolds
  <2>3. QED BY <1>1, <2>1, <2>2
<1>4. \A i \in 0..((n + 1) - 1) : i = n \/ i \in 0..(n - 1)  OBVIOUS
<1>5. QED BY <1>2, <1>3, <1>4 DEF RingHolds

LEMMA RingTake ==
  ASSUME NEW K \in Nat \ {0}, NEW B \in Nat \ {0}, NEW n \in 1..K,
         NEW head \in 0..(K - 1), NEW t \in Nat, NEW slot,
         RingHolds(slot, head, n, t, K, B)
  PROVE  /\ RingHolds(slot, (head + 1) % K, n - 1, (t + 1) % B, K, B)
         /\ slot[head] = t % B
<1>1. ASSUME NEW i \in 0..((n - 1) - 1)
      PROVE slot[(((head + 1) % K) + i) % K] = (((t + 1) % B) + i) % B
  <2>1. i + 1 \in 0..(n - 1) /\ i \in Nat  OBVIOUS
  <2> USE <2>1
  <2>2. (((head + 1) % K) + i) % K = (head + (i + 1)) % K  BY ModAdd
  <2>3. (((t + 1) % B) + i) % B = (t + (i + 1)) % B  BY ModAdd
  <2>4. QED BY <2>2, <2>3 DEF RingHolds
<1>2. slot[head] = t % B
  <2>1. 0 \in 0..(n - 1) /\ head + 0 = head /\ t + 0 = t /\ head % K = head  BY ModSmall
  <2>2. slot[(head + 0) % K] = (t + 0) % B  BY <2>1 DEF RingHolds
  <2>3. QED BY <2>1, <2>2
<1>3. QED BY <1>1, <1>2 DEF RingHolds

\* Every set of numbers has a least one: induction, for what is defined by recursion.
LEMMA Least == ASSUME NEW T, T \subseteq Nat, T # {} PROVE \E x \in T : \A y \in T : x <= y
<1> DEFINE R == OpToRel(<, Nat)
<1>1. IsWellFoundedOn(R, Nat)  BY NatLessThanWellFounded
<1>2. \A x, y \in Nat : y < x => <<y, x>> \in R  BY DEF OpToRel
<1> HIDE DEF R
<1>3. PICK x \in T : \A y \in T : ~ (<<y, x>> \in R)  BY <1>1, WFMin
<1>4. \A y \in T : x <= y
  <2>1. SUFFICES ASSUME NEW y \in T PROVE ~(y < x)
    OBVIOUS
  <2>2. x \in Nat /\ y \in Nat  OBVIOUS
  <2>3. <<y, x>> \notin R  BY <1>3
  <2>4. QED BY <1>2, <2>2, <2>3
<1>5. QED BY <1>4

-----------------------------------------------------------------------------
(* SpinStack: every node is with one owner. *)

LEMMA SpinInitInv == ASSUME Nil \notin Procs, Nil \notin Nodes, Spin!Init PROVE Spin!IInv
<1>1. SubSeq(<<>>, 1, 0) = <<>>  OBVIOUS
<1>2. QED BY <1>1 DEF Spin!Init, Spin!IInv, Spin!TypeOK, Spin!Locked, Spin!Listed, Spin!InHand,
   Spin!Owned, Spin!Printed

LEMMA SpinAllocStep ==
  ASSUME Nil \notin Procs, Nil \notin Nodes, Spin!IInv, NEW p \in Procs, pc[p] = "user",
         NEW label \in {"push", "read"}, Spin!Alloc(p, label),
         UNCHANGED <<filled, lock, m1, m2>>
  PROVE  Spin!IInv'
<1> DEFINE stack == m1
<1> USE DEF Spin!IInv, Spin!TypeOK
<1>1. PICK n \in Nodes \ heap : /\ heap' = heap \cup {n} /\ loc' = [loc EXCEPT ![p] = n]
                                /\ pc' = [pc EXCEPT ![p] = label]
  BY Zenon DEF Spin!Alloc, Spin!Goto
<1> USE <1>1
<1>2. /\ loc'[p] = n /\ pc'[p] = label
      /\ \A q \in Procs \ {p} : loc'[q] = loc[q] /\ pc'[q] = pc[q]
  OBVIOUS
<1>3. Spin!TypeOK' /\ Spin!Printed'  BY DEF Spin!Printed
<1> USE <1>2
<1>4. Spin!Locked'  BY DEF Spin!Locked
<1>5. Spin!Listed'  BY DEF Spin!Listed
<1>6. Spin!InHand'  BY DEF Spin!InHand
<1>7. Spin!Owned'
  <2>1. loc[p] = Nil /\ Nil \notin heap  BY DEF Spin!Locked
  <2>2. ASSUME filled, NEW x \in heap'
        PROVE (\E i \in 1..Len(stack) : stack[i] = x) \/ \E q \in Procs : loc'[q] = x
    BY <2>1, <2>2 DEF Spin!Owned
  <2>3. QED BY Zenon, <2>2 DEF Spin!Owned
<1>8. QED BY <1>3, <1>4, <1>5, <1>6, <1>7

LEMMA SpinAcquireStep ==
  ASSUME Nil \notin Procs, Nil \notin Nodes, Spin!IInv, NEW p \in Procs,
         \/ Spin!Acquire(p, "push", "link") \/ Spin!Acquire(p, "user", "unlink")
         \/ Spin!Acquire(p, "read", "walk")
  PROVE  Spin!IInv'
<1> DEFINE stack == m1  seen == m2
<1> USE DEF Spin!IInv, Spin!TypeOK
<1>1. /\ lock = Nil /\ lock' = p /\ UNCHANGED <<filled, loc, heap, stack, seen>>
      /\ \/ pc[p] = "push" /\ pc' = [pc EXCEPT ![p] = "link"]
         \/ pc[p] = "user" /\ pc' = [pc EXCEPT ![p] = "unlink"]
         \/ pc[p] = "read" /\ pc' = [pc EXCEPT ![p] = "walk"]
  BY DEF Spin!Acquire, Spin!Goto
<1> USE <1>1
<1>2. Spin!TypeOK' /\ Spin!Listed' /\ Spin!InHand' /\ Spin!Owned' /\ Spin!Printed'
  BY Zenon DEF Spin!Listed, Spin!InHand, Spin!Owned, Spin!Printed
<1>3. \A q \in Procs \ {p} : pc'[q] = pc[q] /\ lock # q /\ lock' # q  OBVIOUS
<1>4. Spin!Locked'  BY <1>3 DEF Spin!Locked
<1>5. QED BY <1>2, <1>4

LEMMA FreeStep ==
  ASSUME Nil \notin Procs, Nil \notin Nodes, Spin!IInv, NEW p \in Procs, pc[p] = "kfree", Spin!Free(p),
         UNCHANGED <<filled, lock, m1, m2>>
  PROVE  Spin!IInv'
<1> USE DEF Spin!IInv, Spin!TypeOK
<1>1. /\ heap' = heap \ {loc[p]} /\ loc' = [loc EXCEPT ![p] = Nil]
      /\ pc' = [pc EXCEPT ![p] = "user"]
  BY DEF Spin!Free, Spin!Goto
<1> USE <1>1
<1>2. /\ loc'[p] = Nil /\ pc'[p] = "user" /\ loc[p] \in Nodes /\ loc[p] # Nil
      /\ \A q \in Procs \ {p} : loc'[q] = loc[q] /\ pc'[q] = pc[q]
  BY Zenon DEF Spin!Locked
<1>3. Spin!TypeOK' /\ Spin!Printed'  BY DEF Spin!Printed
<1> USE <1>2
<1>4. Spin!Locked'  BY DEF Spin!Locked
<1>5. Spin!Listed'  BY DEF Spin!Listed
<1>6. Spin!InHand'  BY DEF Spin!InHand
<1>7. Spin!Owned'  BY Zenon DEF Spin!Owned
<1>8. QED BY <1>3, <1>4, <1>5, <1>6, <1>7

LEMMA SpinPushStep ==
  ASSUME Nil \notin Procs, Nil \notin Nodes, Spin!IInv, NEW p \in Procs, Spin!DoPush(p)
  PROVE  Spin!IInv'
<1> DEFINE stack == m1  seen == m2
<1> USE DEF Spin!IInv, Spin!TypeOK
<1>1. CASE filled /\ Spin!Acquire(p, "push", "link")  BY <1>1, SpinAcquireStep
<1>2. CASE pc[p] = "push" /\ ~filled
  <2>1. /\ loc' = [loc EXCEPT ![p] = Nil] /\ pc' = [pc EXCEPT ![p] = "user"]
        /\ UNCHANGED <<filled, lock, heap, stack, seen>>
    BY <1>2 DEF Spin!DoPush, Spin!Goto
  <2>2. /\ loc'[p] = Nil /\ pc'[p] = "user"
        /\ \A q \in Procs \ {p} : loc'[q] = loc[q] /\ pc'[q] = pc[q]
    BY <2>1
  <2>3. Spin!TypeOK' /\ Spin!Printed' /\ Spin!Owned'  BY <1>2, <2>1 DEF Spin!Printed, Spin!Owned
  <2>4. Spin!Locked'  BY <1>2, <2>1, <2>2 DEF Spin!Locked
  <2>5. Spin!Listed' /\ Spin!InHand'  BY <2>1, <2>2 DEF Spin!Listed, Spin!InHand
  <2>6. QED BY <2>3, <2>4, <2>5
<1>3. CASE pc[p] = "link"
  <2>1. /\ stack' = <<loc[p]>> \o stack /\ lock' = Nil /\ loc' = [loc EXCEPT ![p] = Nil]
        /\ pc' = [pc EXCEPT ![p] = "user"] /\ UNCHANGED <<filled, heap, seen>>
    BY <1>3 DEF Spin!DoPush, Spin!Goto, Spin!Acquire
  <2>2. lock = p /\ loc[p] \in Nodes /\ loc[p] # Nil /\ loc[p] \in heap
    BY Zenon, <1>3 DEF Spin!Locked, Spin!InHand
  <2>3. /\ stack' \in Seq(Nodes) /\ Len(stack') = Len(stack) + 1 /\ stack'[1] = loc[p]
        /\ \A i \in 1..Len(stack) : stack'[i + 1] = stack[i]
    BY <2>1, <2>2, Pushed
  <2>4. /\ loc'[p] = Nil /\ pc'[p] = "user"
        /\ \A q \in Procs \ {p} : loc'[q] = loc[q] /\ pc'[q] = pc[q]
    BY <2>1
  <2>5. \A i \in 1..Len(stack') :
          i # 1 => i - 1 \in 1..Len(stack) /\ stack'[i] = stack[i - 1]
    <3> SUFFICES ASSUME NEW i \in 1..Len(stack'), i # 1
        PROVE i - 1 \in 1..Len(stack) /\ stack'[i] = stack[i - 1]
      OBVIOUS
    <3>1. i - 1 \in 1..Len(stack) /\ (i - 1) + 1 = i  BY <2>3
    <3>2. QED BY <2>3, <3>1
  <2>6. Spin!TypeOK'  BY <2>1, <2>3
  <2>7. Spin!Locked'
    <3>1. \A q \in Procs \ {p} : lock # q /\ lock' # q  BY <2>1, <2>2
    <3>2. lock' # p /\ seen[p] = <<>>  BY <1>3, <2>1 DEF Spin!Locked
    <3>3. QED BY <2>1, <2>4, <3>1, <3>2 DEF Spin!Locked
  <2>8. Spin!Listed'
    <3>1. \A i \in 1..Len(stack) : stack[i] # loc[p] /\ stack[i] # Nil  BY DEF Spin!Listed
    <3>2. \A i \in 1..Len(stack') : stack'[i] \in heap' /\ \A q \in Procs : loc'[q] # stack'[i]
      BY <2>1, <2>2, <2>3, <2>4, <2>5, <3>1 DEF Spin!Listed, Spin!InHand
    <3>3. ASSUME NEW i \in 1..Len(stack'), NEW j \in 1..Len(stack'), stack'[i] = stack'[j]
          PROVE i = j
      <4>1. i = 1 <=> j = 1
        <5>1. \A k \in 1..Len(stack') : k # 1 => stack'[k] # stack'[1]
          <6> SUFFICES ASSUME NEW k \in 1..Len(stack'), k # 1 PROVE stack'[k] # stack'[1]
            OBVIOUS
          <6>1. k - 1 \in 1..Len(stack) /\ stack'[k] = stack[k - 1]  BY <2>5
          <6>2. QED BY <2>3, <3>1, <6>1
        <5>2. QED BY <3>3, <5>1
      <4>2. i # 1 /\ j # 1 => i - 1 = j - 1  BY <2>5, <3>3 DEF Spin!Listed
      <4>3. QED BY <2>3, <4>1, <4>2
    <3>4. QED BY Zenon, <3>2, <3>3 DEF Spin!Listed
  <2>9. Spin!InHand'  BY <2>1, <2>2, <2>4 DEF Spin!InHand
  <2>10. Spin!Owned'
    <3> SUFFICES ASSUME filled, NEW n \in heap
        PROVE (\E i \in 1..Len(stack') : stack'[i] = n) \/ \E q \in Procs : loc'[q] = n
      BY <2>1 DEF Spin!Owned
    <3>1. CASE n = loc[p]
      <4>1. 1 \in 1..Len(stack')  BY <2>3
      <4>2. QED BY Zenon, <2>3, <3>1, <4>1
    <3>2. CASE \E i \in 1..Len(stack) : stack[i] = n
      <4>1. PICK i \in 1..Len(stack) : stack[i] = n  BY <3>2
      <4>2. i + 1 \in 1..Len(stack') /\ stack'[i + 1] = n  BY <2>3, <4>1
      <4>3. QED BY <4>2
    <3>3. CASE \E q \in Procs \ {p} : loc[q] = n  BY Zenon, <2>4, <3>3
    <3>4. QED BY Zenon, <3>1, <3>2, <3>3 DEF Spin!Owned
  <2>11. Spin!Printed'
    <3>1. \A q \in Procs : seen'[q] = <<>> /\ Len(seen'[q]) = 0
      BY <2>1, <2>2, <1>3 DEF Spin!Locked
    <3>2. SubSeq(stack', 1, 0) = <<>> /\ Len(stack') \in Nat  BY <2>3
    <3>3. ASSUME NEW q \in Procs
          PROVE Len(seen'[q]) <= Len(stack') /\ seen'[q] = SubSeq(stack', 1, Len(seen'[q]))
      <4>1. seen'[q] = <<>> /\ Len(seen'[q]) = 0  BY <3>1
      <4>2. QED BY <3>2, <4>1
    <3>4. QED BY <3>3 DEF Spin!Printed
  <2>12. QED BY <2>6, <2>7, <2>8, <2>9, <2>10, <2>11
<1>4. QED BY <1>1, <1>2, <1>3 DEF Spin!DoPush

LEMMA SpinPopStep ==
  ASSUME Nil \notin Procs, Nil \notin Nodes, Spin!IInv, NEW p \in Procs, Spin!DoPop(p)
  PROVE  Spin!IInv'
<1> DEFINE stack == m1  seen == m2
<1> USE DEF Spin!IInv, Spin!TypeOK
<1>1. CASE Spin!Acquire(p, "user", "unlink")  BY <1>1, SpinAcquireStep
<1>2. CASE pc[p] = "unlink" /\ stack = <<>>
  BY <1>2 DEF Spin!DoPop, Spin!Acquire, Spin!Goto, Spin!Locked, Spin!Listed,
     Spin!InHand, Spin!Owned, Spin!Printed
<1>3. CASE pc[p] = "unlink" /\ stack # <<>>
  <2>1. /\ lock' = Nil /\ loc' = [loc EXCEPT ![p] = stack[1]] /\ stack' = Tail(stack)
        /\ pc' = [pc EXCEPT ![p] = "kfree"] /\ UNCHANGED <<filled, heap, seen>>
    BY <1>3, Popped DEF Spin!DoPop, Spin!Acquire, Spin!Goto
  <2>2. /\ stack' \in Seq(Nodes) /\ Len(stack') = Len(stack) - 1 /\ stack[1] \in Nodes
        /\ \A i \in 1..(Len(stack) - 1) : stack'[i] = stack[i + 1]
    BY <1>3, <2>1, Popped
  <2>3. 1 \in 1..Len(stack)  BY <1>3
  <2>4. /\ loc'[p] = stack[1] /\ pc'[p] = "kfree" /\ lock = p
        /\ \A q \in Procs \ {p} : loc'[q] = loc[q] /\ pc'[q] = pc[q]
    BY <1>3, <2>1, <2>2 DEF Spin!Locked
  <2>5. \A i \in 1..Len(stack') : i + 1 \in 1..Len(stack) /\ i + 1 # 1 /\ stack'[i] = stack[i + 1]
    BY <2>2
  <2>6. Spin!TypeOK'  BY <2>1, <2>2
  <2>7. Spin!Locked'  BY <1>3, <2>1, <2>2, <2>4 DEF Spin!Locked
  <2>8. Spin!Listed'
    <3>1. \A i \in 1..Len(stack') : stack'[i] # stack[1]  BY <2>3, <2>5 DEF Spin!Listed
    <3>2. \A i \in 1..Len(stack') : stack'[i] \in heap' /\ \A q \in Procs : loc'[q] # stack'[i]
      BY <2>1, <2>4, <2>5, <3>1 DEF Spin!Listed
    <3>3. ASSUME NEW i \in 1..Len(stack'), NEW j \in 1..Len(stack'), stack'[i] = stack'[j]
          PROVE i = j
      <4>1. i + 1 = j + 1  BY <2>5, <3>3 DEF Spin!Listed
      <4>2. QED BY <4>1
    <3>4. QED BY Zenon, <3>2, <3>3 DEF Spin!Listed
  <2>9. Spin!InHand'  BY <2>1, <2>3, <2>4 DEF Spin!InHand, Spin!Listed
  <2>10. Spin!Owned'
    <3> SUFFICES ASSUME filled, NEW n \in heap
        PROVE (\E i \in 1..Len(stack') : stack'[i] = n) \/ \E q \in Procs : loc'[q] = n
      BY Zenon, <2>1 DEF Spin!Owned
    <3>1. CASE n = stack[1]  BY <2>4, <3>1
    <3>2. CASE \E i \in 1..Len(stack) : stack[i] = n /\ i # 1
      <4>1. PICK i \in 1..Len(stack) : stack[i] = n /\ i # 1  BY <3>2
      <4>2. i - 1 \in 1..Len(stack') /\ i - 1 \in 1..(Len(stack) - 1) /\ (i - 1) + 1 = i
        BY <2>2, <4>1
      <4>3. stack'[i - 1] = n  BY <2>2, <4>1, <4>2
      <4>4. QED BY Zenon, <4>2, <4>3
    <3>3. loc[p] = Nil  BY <1>3 DEF Spin!Locked
    <3>4. CASE \E q \in Procs : loc[q] = n  BY Zenon, <2>4, <3>3, <3>4
    <3>5. QED BY Zenon, <3>1, <3>2, <3>4 DEF Spin!Owned
  <2>11. Spin!Printed'
    <3>1. \A q \in Procs : seen'[q] = <<>> /\ SubSeq(stack', 1, 0) = <<>>
      BY <2>1, <2>2, <2>4, <1>3 DEF Spin!Locked
    <3>2. SubSeq(stack', 1, 0) = <<>> /\ Len(stack') \in Nat  BY <2>2
    <3>3. ASSUME NEW q \in Procs
          PROVE Len(seen'[q]) <= Len(stack') /\ seen'[q] = SubSeq(stack', 1, Len(seen'[q]))
      <4>1. seen'[q] = <<>> /\ Len(seen'[q]) = 0  BY <3>1
      <4>2. QED BY <3>2, <4>1
    <3>4. QED BY <3>3 DEF Spin!Printed
  <2>12. QED BY <2>6, <2>7, <2>8, <2>9, <2>10, <2>11
<1>4. CASE pc[p] = "kfree" /\ Spin!Free(p) /\ UNCHANGED <<filled, lock, stack, seen>>
  BY <1>4, FreeStep
<1>5. QED BY <1>1, <1>2, <1>3, <1>4 DEF Spin!DoPop

LEMMA SpinReadStep ==
  ASSUME Nil \notin Procs, Nil \notin Nodes, Spin!IInv, NEW p \in Procs, Spin!Read(p)
  PROVE  Spin!IInv'
<1> DEFINE stack == m1  seen == m2
<1> USE DEF Spin!IInv, Spin!TypeOK
<1>1. CASE pc[p] = "user"  BY <1>1, SpinAllocStep DEF Spin!Read, Spin!Acquire
<1>2. CASE Spin!Acquire(p, "read", "walk")  BY <1>2, SpinAcquireStep
<1>3. CASE pc[p] = "walk" /\ Len(seen[p]) < Len(stack)
  <2> USE <1>3
  <2>1. /\ seen' = [seen EXCEPT ![p] = Append(seen[p], stack[Len(seen[p]) + 1])]
        /\ UNCHANGED <<filled, pc, loc, lock, heap, stack>>
    BY DEF Spin!Read, Spin!Acquire
  <2> DEFINE n == Len(seen[p])
  <2>2. n \in 0..(Len(stack) - 1) /\ seen[p] = SubSeq(stack, 1, n) /\ stack[n + 1] \in Nodes
    BY DEF Spin!Printed
  <2> USE <2>1, <2>2
  <2>3. seen'[p] = SubSeq(stack, 1, n + 1)  BY PrefixNext
  <2>4. Len(seen'[p]) = n + 1 /\ seen'[p] \in Seq(Nodes)  BY <2>3, Prefix
  <2>5. \A q \in Procs \ {p} : seen'[q] = seen[q]  OBVIOUS
  <2>6. Spin!Printed'  BY <2>3, <2>4, <2>5 DEF Spin!Printed
  <2>7. Spin!TypeOK'  BY <2>4
  <2>8. QED BY Zenon, <2>5, <2>6, <2>7 DEF Spin!Locked, Spin!Listed, Spin!InHand, Spin!Owned
<1>4. CASE pc[p] = "walk" /\ Len(seen[p]) >= Len(stack)
  <2>1. /\ lock' = Nil /\ seen' = [seen EXCEPT ![p] = <<>>] /\ pc' = [pc EXCEPT ![p] = "kfree"]
        /\ UNCHANGED <<filled, loc, heap, stack>>
    BY <1>4 DEF Spin!Read, Spin!Acquire, Spin!Goto
  <2> USE <2>1
  <2>2. /\ seen'[p] = <<>> /\ pc'[p] = "kfree"
        /\ \A q \in Procs \ {p} : seen'[q] = seen[q] /\ pc'[q] = pc[q]
    OBVIOUS
  <2>3. Spin!Printed'  BY <2>2 DEF Spin!Printed
  <2>4. Spin!TypeOK' /\ Spin!Locked'  BY <1>4, <2>2 DEF Spin!Locked
  <2>5. QED BY Zenon, <2>3, <2>4 DEF Spin!Listed, Spin!InHand, Spin!Owned
<1>5. QED BY <1>1, <1>2, <1>3, <1>4 DEF Spin!Read

LEMMA SpinExitStep ==
  ASSUME Nil \notin Procs, Nil \notin Nodes, Spin!IInv, Spin!Exit
  PROVE  Spin!IInv'
<1> DEFINE stack == m1  seen == m2
<1> USE DEF Spin!IInv, Spin!TypeOK
<1>1. /\ \A p \in Procs : pc[p] = "user" /\ loc[p] = Nil /\ seen[p] = <<>>
      /\ pc' = [p \in Procs |-> "gone"] /\ stack' = <<>>
      /\ heap' = heap \ {stack[i] : i \in 1..Len(stack)}
      /\ UNCHANGED <<filled, loc, lock, seen>>
  BY DEF Spin!Exit, Spin!Elements, Spin!Locked
<1> USE <1>1
<1>2. stack' \in Seq(Nodes) /\ Len(stack') = 0 /\ SubSeq(<<>>, 1, 0) = <<>>  OBVIOUS
<1>3. Spin!TypeOK' /\ Spin!Locked' /\ Spin!Listed' /\ Spin!InHand' /\ Spin!Printed'
  BY <1>2 DEF Spin!Locked, Spin!Listed, Spin!InHand, Spin!Printed
<1>4. Spin!Owned'  BY DEF Spin!Owned
<1>5. QED BY <1>3, <1>4

LEMMA SpinNextIInv == ASSUME Nil \notin Procs, Nil \notin Nodes, Spin!IInv, [Spin!Next]_Spin!vars PROVE Spin!IInv'
<1>1. ASSUME NEW p \in Procs, Spin!Push(p) PROVE Spin!IInv'
  BY <1>1, SpinAllocStep DEF Spin!Push
<1>2. CASE UNCHANGED Spin!vars
  BY <1>2 DEF Spin!vars, Spin!IInv, Spin!TypeOK, Spin!Locked, Spin!Listed, Spin!InHand,
     Spin!Owned, Spin!Printed
<1>3. QED BY <1>1, <1>2, SpinPushStep, SpinPopStep, SpinReadStep, SpinExitStep DEF Spin!Next,
   Spin!Call

LEMMA SpinSafe == ASSUME Nil \notin Nodes, Spin!IInv PROVE Spin!MemorySafe /\ Spin!ReadsSnapshot
<1> DEFINE stack == m1
<1> USE DEF Spin!IInv, Spin!TypeOK
<1> DEFINE inHand == {loc[p] : p \in Procs} \ {Nil}
<1>1. Spin!Elements(stack) \cup inHand \subseteq heap
  BY DEF Spin!Elements, Spin!Listed, Spin!InHand
<1>2. Spin!Elements(stack) \cap inHand = {}  BY DEF Spin!Elements, Spin!Listed
<1>3. filled => heap \subseteq Spin!Elements(stack) \cup inHand
  BY Zenon DEF Spin!Elements, Spin!Owned
<1>4. QED BY <1>1, <1>2, <1>3 DEF Spin!MemorySafe, Spin!ReadsSnapshot, Spin!Listed, Spin!InHand,
   Spin!Printed

-----------------------------------------------------------------------------
(* MaxTrack: the maximum. *)

LEMMA TrackInitInv == ASSUME W \in Nat \ {0}, Track!Init PROVE Track!IInv
BY DEF Track!Init, Track!IInv, Track!TypeOK, Track!Atomic, Track!InHand, Track!MaxKept,
   Track!PrintedMax

\* The sum wraps around into the range of atomic_t.
LEMMA Wraps == ASSUME W \in Nat \ {0}, NEW x \in Int PROVE Track!Wrap(x) \in Track!Atomic
<1>1. x + W \in Int /\ 2 * W \in Nat \ {0}  OBVIOUS
<1>2. (x + W) % (2 * W) \in 0..(2 * W - 1)  BY <1>1, ModRange
<1>3. QED BY <1>2 DEF Track!Wrap, Track!Atomic

LEMMA TrackWriteStep ==
  ASSUME W \in Nat \ {0}, Deltas \subseteq Int, Track!IInv, NEW p \in Procs, Track!MaxWrite(p)
  PROVE  Track!IInv'
<1> DEFINE old == m1  counter == m2  high == m3  peak == m4
<1> USE DEF Track!IInv, Track!TypeOK
<1>1. /\ pc[p] = "user" /\ loc' = [loc EXCEPT ![p] = counter']
      /\ peak' = (IF counter' > peak THEN counter' ELSE peak)
      /\ pc' = [pc EXCEPT ![p] = "load"] /\ UNCHANGED <<filled, old, high>>
  BY DEF Track!MaxWrite, Track!Goto
<1>2. counter' \in Track!Atomic
  <2>1. PICK n \in Deltas \cup {-d : d \in Deltas} : counter' = Track!Wrap(counter + n)
    BY DEF Track!MaxWrite
  <2>2. counter + n \in Int  BY DEF Track!Atomic
  <2>3. QED BY <2>1, <2>2, Wraps
<1> USE <1>1, <1>2
<1>3. /\ loc'[p] = counter' /\ pc'[p] = "load"
      /\ \A q \in Procs \ {p} : loc'[q] = loc[q] /\ pc'[q] = pc[q]
  OBVIOUS
<1>4. peak' \in Track!Atomic /\ peak <= peak' /\ counter' <= peak'  BY DEF Track!Atomic
<1> USE <1>3, <1>4
<1>5. Track!TypeOK'  OBVIOUS
<1>6. Track!InHand' /\ Track!PrintedMax'  BY DEF Track!InHand, Track!PrintedMax, Track!Atomic
<1>7. Track!MaxKept'
  <2>1. high <= peak'  BY DEF Track!MaxKept, Track!Atomic
  <2>2. CASE counter' > peak  BY <2>1, <2>2 DEF Track!MaxKept
  <2>3. CASE ~(counter' > peak)  BY <2>1, <2>3 DEF Track!MaxKept
  <2>4. QED BY <2>2, <2>3
<1>8. QED BY <1>5, <1>6, <1>7

LEMMA BumpStep ==
  ASSUME W \in Nat \ {0}, Track!IInv, NEW p \in Procs, Track!BumpHigh(p)
  PROVE  Track!IInv'
<1> DEFINE old == m1  counter == m2  high == m3  peak == m4
<1> USE DEF Track!IInv, Track!TypeOK
<1>1. CASE pc[p] = "load"
  BY <1>1 DEF Track!BumpHigh, Track!Goto, Track!InHand, Track!MaxKept,
     Track!PrintedMax, Track!Atomic
<1>2. CASE pc[p] = "while" /\ loc[p] <= old[p]
  <2> USE <1>2
  <2>1. /\ pc' = [pc EXCEPT ![p] = "user"] /\ loc' = [loc EXCEPT ![p] = 0]
        /\ old' = [old EXCEPT ![p] = 0] /\ UNCHANGED <<filled, counter, high, peak>>
    BY DEF Track!BumpHigh, Track!Finish, Track!Goto, Track!Atomic
  <2> USE <2>1
  <2>2. pc'[p] = "user" /\ \A q \in Procs \ {p} : /\ pc'[q] = pc[q] /\ loc'[q] = loc[q]
                                                 /\ old'[q] = old[q]
    OBVIOUS
  <2>3. Track!TypeOK' /\ Track!InHand' /\ Track!PrintedMax'
    BY <2>2 DEF Track!InHand, Track!PrintedMax, Track!Atomic
  <2>4. loc[p] <= high /\ high <= peak  BY DEF Track!PrintedMax, Track!MaxKept, Track!Atomic
  <2>5. Track!MaxKept'  BY <2>2, <2>4 DEF Track!MaxKept, Track!Atomic
  <2>6. QED BY <2>3, <2>5
<1>3. CASE pc[p] = "while" /\ loc[p] > old[p] /\ high = old[p]
  <2>1. /\ pc' = [pc EXCEPT ![p] = "user"] /\ loc' = [loc EXCEPT ![p] = 0]
        /\ old' = [old EXCEPT ![p] = 0] /\ high' = loc[p]
        /\ UNCHANGED <<filled, counter, peak>>
    BY <1>3 DEF Track!BumpHigh, Track!Finish, Track!Goto, Track!Atomic
  <2> USE <2>1
  <2>2. pc'[p] = "user" /\ \A q \in Procs \ {p} : /\ pc'[q] = pc[q] /\ loc'[q] = loc[q]
                                                 /\ old'[q] = old[q]
    OBVIOUS
  <2>3. high < high' /\ high' <= peak  BY <1>3 DEF Track!InHand, Track!Atomic
  <2>4. Track!TypeOK' /\ Track!InHand' /\ Track!PrintedMax'
    BY <2>2, <2>3 DEF Track!InHand, Track!PrintedMax, Track!Atomic
  <2>5. Track!MaxKept'  BY <2>2, <2>3 DEF Track!MaxKept, Track!Atomic
  <2>6. QED BY <2>4, <2>5
<1>4. CASE pc[p] = "while" /\ loc[p] > old[p] /\ high # old[p]
  BY <1>4 DEF Track!BumpHigh, Track!InHand, Track!MaxKept, Track!PrintedMax, Track!Atomic
<1>5. QED BY <1>1, <1>2, <1>3, <1>4 DEF Track!BumpHigh

LEMMA TrackReadStep ==
  ASSUME W \in Nat \ {0}, Track!IInv, NEW p \in Procs, Track!MaxRead(p)
  PROVE  Track!IInv'
<1> DEFINE old == m1  counter == m2  high == m3  peak == m4
<1> USE DEF Track!IInv, Track!TypeOK
<1>1. /\ pc[p] \in {"user", "high", "counter", "print"} /\ UNCHANGED <<filled, counter, high, peak>>
      /\ \A q \in Procs \ {p} : pc'[q] = pc[q] /\ loc'[q] = loc[q] /\ old'[q] = old[q]
      /\ pc'[p] \in {"user", "high", "counter", "print"}
  BY DEF Track!MaxRead, Track!Goto, Track!Finish
<1>2. Track!TypeOK'  BY DEF Track!MaxRead, Track!Goto, Track!Finish, Track!Atomic
<1> USE <1>1
<1>3. Track!MaxKept'  BY DEF Track!MaxKept
<1>4. Track!InHand'  BY DEF Track!InHand
<1>5. Track!PrintedMax'
  <2>1. /\ pc'[p] \in {"counter", "print", "while"} => old'[p] <= high
        /\ pc'[p] \in {"high", "print"} => loc'[p] <= peak
    BY DEF Track!MaxRead, Track!Goto, Track!Finish, Track!Atomic, Track!InHand,
       Track!PrintedMax
  <2>2. QED BY <2>1 DEF Track!PrintedMax
<1>6. QED BY <1>2, <1>3, <1>4, <1>5

LEMMA TrackNextIInv ==
  ASSUME W \in Nat \ {0}, Deltas \subseteq Int, Track!IInv, [Track!Next]_Track!vars
  PROVE  Track!IInv'
<1>1. CASE UNCHANGED Track!vars
  BY <1>1 DEF Track!vars, Track!IInv, Track!TypeOK, Track!InHand, Track!MaxKept,
     Track!PrintedMax
<1>2. QED BY <1>1, TrackWriteStep, BumpStep, TrackReadStep DEF Track!Next, Track!Step

-----------------------------------------------------------------------------
(* BlockQueue: the queue of k2/03. *)

\* The messages in a ring, from its head, and the slots they are in.
Place(h, i) == (h + i) % QCAP
BlockRing(s, h, c) == [i \in 1..c |-> s[(h + i - 1) % QCAP]]
Stores(s, h, c, S) == \A i \in 0..c - 1 : s[Place(h, i)] \in S

Differs(s, t, k, m) == t[k] = m /\ \A i \in 0..QCAP - 1 : i # k => t[i] = s[i]

LEMMA BlockPlaces ==
  ASSUME QCAP \in Nat \ {0}, NEW h \in 0..QCAP - 1, NEW i \in Nat
  PROVE  /\ Place(h, i) \in 0..QCAP - 1 /\ Place(h, i) \in Nat /\ Place(h, 0) = h
         /\ Place(Place(h, 1), i) = Place(h, i + 1)
         /\ Place(Place(h, i), 1) = Place(h, i + 1)
         /\ (Place(h, i) + 1) % QCAP = Place(h, i + 1)
<1>1. h + i \in Nat /\ h + 1 \in Nat /\ h \in Nat /\ (h + 1) + i = h + (i + 1)
      /\ (h + i) + 1 = h + (i + 1) /\ h + 0 = h
  OBVIOUS
<1> USE <1>1
<1>2. (h + i) % QCAP \in 0..QCAP - 1 /\ h % QCAP = h
  <2>1. (h + i) % QCAP \in 0..QCAP - 1  BY ModRange
  <2>2. h % QCAP = h  BY ModSmall
  <2>3. QED BY <2>1, <2>2
<1>3. (((h + 1) % QCAP) + i) % QCAP = ((h + 1) + i) % QCAP  BY Zenon, ModAdd
<1>4. (((h + i) % QCAP) + 1) % QCAP = ((h + i) + 1) % QCAP  BY Zenon, ModAdd
<1>5. QED BY <1>2, <1>3, <1>4 DEF Place

LEMMA PlacesDiffer ==
  ASSUME QCAP \in Nat \ {0}, NEW h \in 0..QCAP - 1, NEW c \in 0..QCAP - 1,
         NEW i \in 0..c - 1
  PROVE  Place(h, i) # Place(h, c)
<1>1. i \in Nat /\ c \in Nat /\ i < c /\ c < i + QCAP /\ i < QCAP /\ c <= QCAP  OBVIOUS
<1>2. QED BY <1>1, ModApart DEF Place

LEMMA Ringed ==
  ASSUME NEW S, NEW s, NEW h \in Int, NEW c \in Nat, Stores(s, h, c, S)
  PROVE  /\ BlockRing(s, h, c) \in Seq(S) /\ Len(BlockRing(s, h, c)) = c
         /\ \A i \in 1..c : BlockRing(s, h, c)[i] = s[Place(h, i - 1)]
<1>1. \A i \in 1..c : /\ i - 1 \in 0..c - 1 /\ h + i - 1 = h + (i - 1)
                      /\ Place(h, i - 1) = (h + i - 1) % QCAP
  BY DEF Place
<1>2. \A i \in 1..c : s[(h + i - 1) % QCAP] \in S  BY <1>1 DEF Stores
<1>3. QED BY <1>1, <1>2 DEF BlockRing

LEMMA RingGrows ==
  ASSUME QCAP \in Nat \ {0}, m2 \in 0..QCAP - 1, m4 \in 0..QCAP - 1,
         Stores(m1, m2, m4, Block!Messages), NEW m \in Block!Messages,
         Differs(m1, m1', Place(m2, m4), m), m4' = m4 + 1
  PROVE  /\ Stores(m1', m2, m4', Block!Messages)
         /\ BlockRing(m1', m2, m4') = Append(BlockRing(m1, m2, m4), m)
         /\ BlockRing(m1, m2, m4) \in Seq(Block!Messages)
<1> DEFINE slot == m1  head == m2  count == m4
<1>1. /\ head \in Int /\ count \in Nat /\ count' \in Nat /\ count' - 1 = count
      /\ \A i \in 0..count' - 1 : i \in Nat /\ (i = count \/ i \in 0..count - 1)
      /\ \A i \in 1..count' : i = count' \/ i \in 1..count
      /\ \A i \in 1..count : i - 1 \in 0..count - 1 /\ i \in 1..count'
  OBVIOUS
<1> USE <1>1
<1>2. slot'[Place(head, count)] = m /\ \A i \in 0..count - 1 : slot'[Place(head, i)] = slot[Place(head, i)]
  <2>1. Place(head, count) \in 0..QCAP - 1  BY BlockPlaces
  <2>2. \A i \in 0..count - 1 : Place(head, i) \in 0..QCAP - 1 /\ Place(head, i) # Place(head, count)
    <3>1. \A i \in 0..count - 1 : i \in Nat  OBVIOUS
    <3>2. \A i \in 0..count - 1 : Place(head, i) \in 0..QCAP - 1  BY Zenon, <3>1, BlockPlaces
    <3>3. QED BY <3>2, PlacesDiffer
  <2>3. QED BY <2>1, <2>2 DEF Differs
<1> USE <1>2
<1>3. Stores(slot', head, count', Block!Messages)  BY DEF Stores
<1>4. /\ BlockRing(slot, head, count) \in Seq(Block!Messages) /\ Len(BlockRing(slot, head, count)) = count
      /\ \A i \in 1..count : BlockRing(slot, head, count)[i] = slot[Place(head, i - 1)]
  BY Ringed
<1>5. /\ BlockRing(slot', head, count') \in Seq(Block!Messages) /\ Len(BlockRing(slot', head, count')) = count'
      /\ \A i \in 1..count' : BlockRing(slot', head, count')[i] = slot'[Place(head, i - 1)]
  <2>1. head \in Int  OBVIOUS
  <2>2. QED BY <1>3, <2>1, Ringed
<1> DEFINE r == Append(BlockRing(slot, head, count), m)
<1> USE <1>4, <1>5
<1>6. r \in Seq(Block!Messages) /\ Len(r) = count' /\ r[count'] = m /\ \A i \in 1..count : r[i] = BlockRing(slot, head, count)[i]
  BY Appended
<1> USE <1>6
<1>7. ASSUME NEW i \in 1..count' PROVE BlockRing(slot', head, count')[i] = r[i]
  <2>1. CASE i = count'  BY <2>1
  <2>2. CASE i \in 1..count  BY Zenon, <2>2
  <2>3. QED BY Zenon, <2>1, <2>2
<1>8. BlockRing(slot', head, count') = r  BY Zenon, <1>7, SameSeq
<1>9. QED BY <1>3, <1>8

LEMMA RingShrinks ==
  ASSUME QCAP \in Nat \ {0}, m2 \in 0..QCAP - 1, m4 \in 1..QCAP,
         Stores(m1, m2, m4, Block!Messages), m2' = Place(m2, 1), m4' = m4 - 1
  PROVE  /\ m1[m2] \in Block!Messages /\ m2' \in 0..QCAP - 1
         /\ Stores(m1, m2', m4', Block!Messages)
         /\ BlockRing(m1, m2, m4) = <<m1[m2]>> \o BlockRing(m1, m2', m4')
         /\ BlockRing(m1, m2', m4') \in Seq(Block!Messages)
         /\ Place(m2', m4') = Place(m2, m4)
<1> DEFINE slot == m1  head == m2  count == m4
<1>1. /\ head \in Int /\ count \in Nat /\ count' \in Nat /\ count' + 1 = count /\ 0 \in 0..count - 1 /\ 1 \in 1..count
      /\ 1 - 1 = 0 /\ 1 \in Nat
      /\ \A i \in 0..count' - 1 : i \in Nat /\ i + 1 \in 0..count - 1
      /\ \A i \in 1..count : i # 1 => /\ i - 1 \in 1..count' /\ (i - 1) + 1 = i /\ (i - 1) - 1 \in Nat
                                  /\ ((i - 1) - 1) + 1 = i - 1
  OBVIOUS
<1>2. Place(head, 0) = head /\ head' \in 0..QCAP - 1 /\ \A i \in Nat : Place(head', i) = Place(head, i + 1)
  BY <1>1, BlockPlaces
<1>3. slot[head] \in Block!Messages /\ Stores(slot, head', count', Block!Messages)
  BY <1>1, <1>2 DEF Stores
<1>4. Place(head', count') = Place(head, count)  BY <1>1, <1>2
<1>5. /\ BlockRing(slot, head, count) \in Seq(Block!Messages) /\ Len(BlockRing(slot, head, count)) = count
      /\ \A i \in 1..count : BlockRing(slot, head, count)[i] = slot[Place(head, i - 1)]
  BY <1>1, Ringed
<1>6. /\ BlockRing(slot, head', count') \in Seq(Block!Messages) /\ Len(BlockRing(slot, head', count')) = count'
      /\ \A i \in 1..count' : BlockRing(slot, head', count')[i] = slot[Place(head', i - 1)]
  <2>1. head' \in Int  BY <1>2
  <2>2. QED BY <1>1, <1>3, <2>1, Ringed
<1> DEFINE r == <<slot[head]>> \o BlockRing(slot, head', count')
<1>7. /\ r \in Seq(Block!Messages) /\ Len(r) = count' + 1 /\ r[1] = slot[head]
      /\ \A i \in 1..count' : r[i + 1] = BlockRing(slot, head', count')[i]
  BY <1>3, <1>6, Pushed
<1>8. ASSUME NEW i \in 1..count PROVE BlockRing(slot, head, count)[i] = r[i]
  <2>1. CASE i = 1
    <3>1. BlockRing(slot, head, count)[i] = slot[Place(head, i - 1)] /\ i - 1 = 0  BY <1>5, <2>1
    <3>2. QED BY Zenon, <1>2, <1>7, <2>1, <3>1
  <2>2. CASE i # 1
    <3>1. /\ i - 1 \in 1..count' /\ (i - 1) + 1 = i /\ (i - 1) - 1 \in Nat
          /\ ((i - 1) - 1) + 1 = i - 1
      BY <1>1, <2>2
    <3>2. r[i] = slot[Place(head', (i - 1) - 1)]  BY <1>6, <1>7, <3>1
    <3>3. Place(head', (i - 1) - 1) = Place(head, i - 1)  BY <1>2, <3>1
    <3>4. QED BY Zenon, <1>5, <3>2, <3>3
  <2>3. QED BY Zenon, <2>1, <2>2
<1>9. BlockRing(slot, head, count) = r  BY <1>1, <1>5, <1>7, <1>8, SameSeq
<1>10. QED BY <1>2, <1>3, <1>4, <1>6, <1>9

LEMMA BlockEnds ==
  /\ Block!Fifo <=> m5 = m6 \o BlockRing(m1, m2, m4)
  /\ Block!Filled <=> /\ m3 = Place(m2, m4)
                      /\ \A i \in 0..m4 - 1 : m1[Place(m2, i)] # Nil
BY DEF Block!Fifo, Block!Filled, BlockRing, Place

LEMMA FilledStores ==
  ASSUME QCAP \in Nat \ {0}, Block!TypeOK, Block!Filled
  PROVE  Stores(m1, m2, m4, Block!Messages)
<1> DEFINE slot == m1  head == m2  count == m4
<1>1. \A i \in 0..count - 1 : i \in Nat /\ slot[Place(head, i)] # Nil
  BY BlockEnds DEF Block!TypeOK
<1>2. \A i \in 0..count - 1 : Place(head, i) \in 0..QCAP - 1
  BY Zenon, <1>1, BlockPlaces DEF Block!TypeOK
<1>3. QED BY <1>1, <1>2 DEF Block!TypeOK, Stores

LEMMA BlockInitInv ==
  ASSUME QCAP \in Nat \ {0}, Nil \notin Crowd, Nil \notin Block!Messages, Block!Init PROVE Block!IInv
<1> DEFINE slot == m1  head == m2  count == m4  accepted == m5  taken == m6
<1>1. 0 % QCAP = 0 /\ 0 \in 0..QCAP - 1  BY ModSmall
<1>2. Block!TypeOK /\ Block!Locked /\ Block!Filled
  BY <1>1 DEF Block!Init, Block!TypeOK, Block!Locked, Block!Filled
<1>3. Block!Fifo
  <2>1. count = 0 /\ head \in Int /\ taken = <<>> /\ accepted = <<>>  BY DEF Block!Init
  <2> USE <2>1
  <2>2. Stores(slot, head, count, {})  BY DEF Stores
  <2>3. BlockRing(slot, head, count) \in Seq({}) /\ Len(BlockRing(slot, head, count)) = 0
    BY <2>2, Ringed
  <2>4. \A r \in Seq({}) : Len(r) = 0 => <<>> \o r = <<>>  OBVIOUS
  <2>5. QED BY <2>3, <2>4, BlockEnds
<1>4. QED BY <1>2, <1>3 DEF Block!IInv

LEMMA BlockPutStep ==
  ASSUME QCAP \in Nat \ {0}, Nil \notin Crowd, Nil \notin Block!Messages, Block!IInv,
         NEW p \in Crowd, Block!Put(p)
  PROVE  Block!IInv'
<1> DEFINE slot == m1  head == m2  tail == m3  count == m4  accepted == m5  taken == m6
<1>1. /\ pc[p] = "put" /\ lock' = Nil /\ loc' = [loc EXCEPT ![p] = Nil]
      /\ pc' = [pc EXCEPT ![p] = "wake"] /\ UNCHANGED <<filled, head, taken>>
  BY DEF Block!Put, Block!Goto
<1>2. Block!Locked'
  <2>1. lock = p /\ \A q \in Crowd \ {p} : pc'[q] = pc[q] /\ loc'[q] = loc[q] /\ lock # q
    BY <1>1 DEF Block!Locked, Block!IInv, Block!TypeOK
  <2>2. QED BY <1>1, <2>1 DEF Block!Locked, Block!IInv, Block!TypeOK
<1>3. CASE ~(count < QCAP)
  <2>1. UNCHANGED <<slot, tail, count, accepted>>  BY <1>3 DEF Block!Put
  <2>2. QED BY <1>1, <1>2, <2>1 DEF Block!Filled, Block!Fifo, Block!IInv, Block!TypeOK
<1>4. CASE count < QCAP
  <2>1. /\ slot' = [slot EXCEPT ![tail] = loc[p]] /\ tail' = (tail + 1) % QCAP
        /\ count' = count + 1 /\ accepted' = Append(accepted, loc[p])
    BY <1>4 DEF Block!Put
  <2>2. /\ loc[p] \in Block!Messages /\ count \in 0..QCAP - 1 /\ count \in Nat
        /\ count' \in Nat /\ taken \in Seq(Block!Messages) /\ head \in 0..QCAP - 1
        /\ tail \in 0..QCAP - 1
        /\ slot \in [0..QCAP - 1 -> Block!Messages \cup {Nil}]
    BY <1>1, <1>4, <2>1 DEF Block!Locked, Block!IInv, Block!TypeOK
  <2>3. /\ tail = Place(head, count) /\ Stores(slot, head, count, Block!Messages)
        /\ accepted = taken \o BlockRing(slot, head, count)
    BY FilledStores, BlockEnds DEF Block!IInv
  <2>4. /\ Stores(slot', head, count', Block!Messages)
        /\ BlockRing(slot', head, count') = Append(BlockRing(slot, head, count), loc[p])
        /\ BlockRing(slot, head, count) \in Seq(Block!Messages)
    <3>1. /\ slot' \in [0..QCAP - 1 -> Block!Messages \cup {Nil}]
          /\ Differs(slot, slot', Place(head, count), loc[p])
      BY Zenon, <2>1, <2>2, <2>3 DEF Differs
    <3>2. QED BY Zenon, <2>1, <2>2, <2>3, <3>1, RingGrows
  <2>5. tail' = Place(head, count') /\ tail' \in 0..QCAP - 1  BY <2>1, <2>2, <2>3, BlockPlaces
  <2>6. Block!TypeOK'  BY <1>1, <2>1, <2>2, <2>5 DEF Block!IInv, Block!TypeOK
  <2>7. Block!Filled'
    <3>1. \A i \in 0..count' - 1 : slot'[(head + i) % QCAP] # Nil  BY <2>4 DEF Stores, Place
    <3>2. QED BY <1>1, <2>5, <3>1 DEF Block!Filled, Place
  <2>8. Block!Fifo'
    <3>1. Append(taken \o BlockRing(slot, head, count), loc[p])
             = taken \o Append(BlockRing(slot, head, count), loc[p])
      <4>1. taken \in Seq(Block!Messages) /\ loc[p] \in Block!Messages
            /\ BlockRing(slot, head, count) \in Seq(Block!Messages)
        BY <2>2, <2>4
      <4>2. QED BY <4>1
    <3>2. accepted' = taken \o BlockRing(slot', head, count')  BY Zenon, <2>1, <2>3, <2>4, <3>1
    <3>3. QED BY <1>1, <3>2 DEF Block!Fifo, BlockRing
  <2>9. QED BY <1>2, <2>6, <2>7, <2>8 DEF Block!IInv
<1>5. QED BY <1>3, <1>4

LEMMA BlockTakeStep ==
  ASSUME QCAP \in Nat \ {0}, Nil \notin Crowd, Nil \notin Block!Messages, Block!IInv,
         NEW p \in Crowd, Block!Take(p)
  PROVE  Block!IInv'
<1> DEFINE slot == m1  head == m2  tail == m3  count == m4  accepted == m5  taken == m6
<1>1. /\ pc[p] = "take" /\ lock' = Nil /\ pc' = [pc EXCEPT ![p] = "user"]
      /\ UNCHANGED <<filled, loc, slot, tail, accepted>>
  BY DEF Block!Take, Block!Goto
<1>2. Block!Locked'
  <2>1. lock = p /\ \A q \in Crowd \ {p} : pc'[q] = pc[q] /\ lock # q
    BY <1>1 DEF Block!Locked, Block!IInv, Block!TypeOK
  <2>2. QED BY <1>1, <2>1 DEF Block!Locked, Block!IInv, Block!TypeOK
<1>3. CASE count = 0
  <2>1. UNCHANGED <<head, count, taken>>  BY <1>3 DEF Block!Take
  <2>2. QED BY <1>1, <1>2, <2>1 DEF Block!Filled, Block!Fifo, Block!IInv, Block!TypeOK
<1>4. CASE count # 0
  <2>1. /\ taken' = Append(taken, slot[head]) /\ head' = Place(head, 1)
        /\ count' = count - 1
    BY <1>4 DEF Block!Take, Place
  <2>2. /\ Stores(slot, head, count, Block!Messages) /\ count \in 1..QCAP
        /\ head \in 0..QCAP - 1 /\ count' \in Nat /\ taken \in Seq(Block!Messages)
        /\ tail = Place(head, count) /\ accepted = taken \o BlockRing(slot, head, count)
    BY <1>4, <2>1, FilledStores, BlockEnds DEF Block!IInv, Block!TypeOK
  <2>3. /\ slot[head] \in Block!Messages /\ head' \in 0..QCAP - 1
        /\ Stores(slot, head', count', Block!Messages)
        /\ BlockRing(slot, head, count) = <<slot[head]>> \o BlockRing(slot, head', count')
        /\ BlockRing(slot, head', count') \in Seq(Block!Messages)
        /\ Place(head', count') = Place(head, count)
    <3>1. head' \in 0..QCAP - 1  BY <2>1, <2>2, BlockPlaces
    <3>2. QED BY Zenon, <2>1, <2>2, <3>1, RingShrinks
  <2>4. Block!TypeOK'
    <3>1. taken' \in Seq(Block!Messages)  BY <2>1, <2>2, <2>3
    <3>2. count' \in 0..QCAP  BY <2>1, <2>2
    <3>3. QED BY <1>1, <2>3, <3>1, <3>2 DEF Block!IInv, Block!TypeOK
  <2>5. Block!Filled'
    <3>1. \A i \in 0..count' - 1 : slot[(head' + i) % QCAP] # Nil  BY <2>3 DEF Stores, Place
    <3>2. tail' = (head' + count') % QCAP  BY <1>1, <2>2, <2>3 DEF Place
    <3>3. QED BY <1>1, <3>1, <3>2 DEF Block!Filled
  <2>6. Block!Fifo'
    <3>1. Append(taken, slot[head]) \o BlockRing(slot, head', count')
             = taken \o (<<slot[head]>> \o BlockRing(slot, head', count'))
      BY <2>2, <2>3, ConcatPush
    <3>2. accepted' = taken' \o BlockRing(slot, head', count')
      BY Zenon, <1>1, <2>1, <2>2, <2>3, <3>1
    <3>3. QED BY <1>1, <3>2 DEF Block!Fifo, BlockRing
  <2>7. QED BY <1>2, <2>4, <2>5, <2>6 DEF Block!IInv
<1>5. QED BY <1>3, <1>4

\* The steps that leave the ring alone.
LEMMA BlockCallerStep ==
  ASSUME QCAP \in Nat \ {0}, Nil \notin Crowd, Nil \notin Block!Messages, Block!IInv, NEW p \in Crowd,
         \/ Block!Acquire(p, "write", "put") \/ Block!Acquire(p, "read", "take")
         \/ Block!Wake(p) \/ Block!Forget(p) \/ Block!Check(p) \/ Block!Write(p) \/ Block!Read(p) \/ Block!Signal(p)
  PROVE  Block!IInv'
<1> DEFINE slot == m1  head == m2  tail == m3  count == m4  accepted == m5  taken == m6
<1> USE DEF Block!IInv, Block!TypeOK
<1>1. UNCHANGED <<slot, head, tail, count, accepted, taken>>
  BY DEF Block!Acquire, Block!Wake, Block!Forget, Block!Check, Block!Write, Block!Read,
     Block!Signal, Block!ring
<1> USE <1>1
<1>2. Block!Filled' /\ Block!Fifo'  BY DEF Block!Filled, Block!Fifo
<1> USE <1>2
<1>3. CASE Block!Acquire(p, "write", "put") \/ Block!Acquire(p, "read", "take")
  <2>1. /\ lock = Nil /\ lock' = p /\ UNCHANGED <<filled, loc>>
        /\ \/ pc[p] = "write" /\ pc' = [pc EXCEPT ![p] = "put"]
           \/ pc[p] = "read" /\ pc' = [pc EXCEPT ![p] = "take"]
    BY <1>3 DEF Block!Acquire, Block!Goto
  <2> USE <2>1
  <2>2. \A q \in Crowd \ {p} : pc'[q] = pc[q] /\ lock # q /\ lock' # q  OBVIOUS
  <2>3. Block!Locked'  BY <2>2 DEF Block!Locked
  <2>4. QED BY Zenon, <2>3
<1>4. CASE Block!Wake(p)  BY <1>4 DEF Block!Wake, Block!Locked
<1>5. CASE Block!Write(p)
  <2>1. PICK m \in Block!Messages : loc' = [loc EXCEPT ![p] = m]  BY Zenon, <1>5 DEF Block!Write
  <2>2. QED BY <1>5, <2>1 DEF Block!Write, Block!Goto, Block!Locked
<1>6. CASE Block!Forget(p) \/ Block!Check(p) \/ Block!Read(p) \/ Block!Signal(p)
  BY <1>6 DEF Block!Forget, Block!Check, Block!Read, Block!Signal,
     Block!Goto, Block!Locked
<1>7. QED BY Zenon, <1>3, <1>4, <1>5, <1>6

LEMMA BlockNextIInv ==
  ASSUME QCAP \in Nat \ {0}, Nil \notin Crowd, Nil \notin Block!Messages, Block!IInv, [Block!Next]_Block!vars
  PROVE  Block!IInv'
<1>1. CASE UNCHANGED Block!vars
  BY <1>1 DEF Block!vars, Block!ring, Block!IInv, Block!TypeOK, Block!Locked,
     Block!Filled, Block!Fifo
<1>2. QED BY <1>1, BlockPutStep, BlockTakeStep, BlockCallerStep DEF Block!Next, Block!Step

-----------------------------------------------------------------------------
(* RcuConfig: the versions of the configuration. *)

LEMMA RcuSafe == ASSUME Nil \notin Nodes, Rcu!IInv PROVE Rcu!MemorySafe /\ Rcu!Untorn
<1> DEFINE current == m1
<1>1. current # Nil => current \in heap  BY DEF Rcu!IInv, Rcu!Loaded
<1>2. ASSUME NEW r \in Rcu!Readers PROVE loc[r] \in heap
  <2>1. current \in heap  BY DEF Rcu!IInv, Rcu!Loaded, Rcu!Readers
  <2>2. \A w \in Procs : pc[w] \in {"synchronize", "kfree"} => loc[w] \in heap
    BY DEF Rcu!IInv, Rcu!OneOwner, Rcu!Owners
  <2>3. QED BY <2>1, <2>2 DEF Rcu!IInv, Rcu!Grace
<1>3. \A p \in Procs : pc[p] \in {"publish", "assign"} => loc[p] # current
  BY DEF Rcu!IInv, Rcu!OneOwner, Rcu!Owners
<1>4. QED BY <1>1, <1>2, <1>3 DEF Rcu!IInv, Rcu!MemorySafe, Rcu!Kept

LEMMA RcuInitInv == ASSUME Boot \in Values, Nil \notin Nodes, Rcu!Init PROVE Rcu!IInv
<1> DEFINE current == m1
<1> USE DEF Rcu!Init
<1>1. Rcu!TypeOK  BY DEF Rcu!TypeOK, Rcu!Unset
<1>2. Rcu!Readers = {} /\ Rcu!Owners = {} /\ Rcu!InHand = {}
  BY DEF Rcu!Readers, Rcu!Owners, Rcu!InHand
<1>3. current # Nil /\ heap = {current}  OBVIOUS
<1>4. Rcu!OneOwner /\ Rcu!Loaded /\ Rcu!Grace /\ Rcu!Kept
  BY <1>2, <1>3 DEF Rcu!OneOwner, Rcu!Loaded, Rcu!Grace, Rcu!Kept
<1>5. Rcu!Whole /\ Rcu!Untorn  BY DEF Rcu!Whole, Rcu!Untorn
<1>6. QED BY <1>1, <1>4, <1>5 DEF Rcu!IInv

\* A reader's steps: what the writers own does not change.
LEMMA ReaderStep ==
  ASSUME Nil \notin Nodes, Rcu!IInv, NEW p \in Procs,
         Rcu!ReadLock(p) \/ Rcu!CopyName(p) \/ Rcu!CopyValue(p) \/ Rcu!Return(p)
  PROVE  Rcu!IInv'
<1> DEFINE current == m1  name == m2  value == m3  waits == m4  copy == m5
<1> USE DEF Rcu!Goto, Rcu!Set
<1>1. /\ Rcu!TypeOK /\ Rcu!OneOwner /\ Rcu!Loaded /\ Rcu!Grace /\ Rcu!Whole /\ Rcu!Kept /\ Rcu!Untorn
      /\ UNCHANGED <<filled, heap, current, name, value, lock>>
  BY DEF Rcu!IInv, Rcu!ReadLock, Rcu!CopyName, Rcu!CopyValue, Rcu!Return
<1> USE <1>1
<1>2. /\ p \notin Rcu!Owners /\ pc[p] \in {"user", "name", "value", "return"}
      /\ pc'[p] \in {"user", "name", "value", "return"}
      /\ \A q \in Procs \ {p} : pc'[q] = pc[q] /\ loc'[q] = loc[q]
  BY DEF Rcu!ReadLock, Rcu!CopyName, Rcu!CopyValue, Rcu!Return, Rcu!Owners, Rcu!TypeOK
<1>3. Rcu!Owners' = Rcu!Owners /\ \A q \in Rcu!Owners : loc'[q] = loc[q]  BY <1>2 DEF Rcu!Owners
<1>4. Rcu!OneOwner' /\ Rcu!Kept'
  <2>1. Rcu!InHand' = Rcu!InHand  BY <1>3 DEF Rcu!InHand, Rcu!Owners
  <2>2. QED BY <1>3, <2>1 DEF Rcu!OneOwner, Rcu!Kept
<1>5. current # Nil /\ Rcu!Loaded'  BY <1>2 DEF Rcu!Loaded
<1>6. Rcu!TypeOK'
  <2>1. loc[p] \in Nodes \/ pc[p] \notin {"name", "value"}
    BY <1>5, RcuSafe DEF Rcu!MemorySafe, Rcu!Readers, Rcu!TypeOK
  <2>2. pc' \in [Procs -> {"user", "name", "value", "return", "publish", "assign",
                           "synchronize", "kfree", "gone"}]
    BY Zenon DEF Rcu!ReadLock, Rcu!CopyName, Rcu!CopyValue, Rcu!Return, Rcu!TypeOK
  <2>3. loc' \in [Procs -> Nodes \cup {Nil}]
    BY DEF Rcu!ReadLock, Rcu!CopyName, Rcu!CopyValue, Rcu!Return, Rcu!TypeOK
  <2>4. waits' \in [Procs -> SUBSET Procs]
    BY DEF Rcu!ReadLock, Rcu!CopyName, Rcu!CopyValue, Rcu!Return, Rcu!TypeOK
  <2>5. copy' \in [Procs -> [name: Values \cup {Nil}, value: Values \cup {Nil}]]
    <3>1. name \in [Nodes -> Values] /\ value \in [Nodes -> Values]
          /\ copy \in [Procs -> [name: Values \cup {Nil}, value: Values \cup {Nil}]]
      BY DEF Rcu!TypeOK
    <3> USE <3>1
    <3>2. CASE Rcu!ReadLock(p)  BY <3>2 DEF Rcu!ReadLock
    <3>3. CASE Rcu!CopyName(p)  BY <2>1, <3>3 DEF Rcu!CopyName
    <3>4. CASE Rcu!CopyValue(p)  BY <2>1, <3>4 DEF Rcu!CopyValue
    <3>5. CASE Rcu!Return(p)  BY <3>5 DEF Rcu!Return, Rcu!Unset
    <3>6. QED BY <3>2, <3>3, <3>4, <3>5
  <2>6. QED BY <2>2, <2>3, <2>4, <2>5 DEF Rcu!TypeOK
<1>7. Rcu!Grace'
  <2>1. SUFFICES ASSUME NEW r \in Rcu!Readers'
                 PROVE  \/ loc'[r] = current
                        \/ \E w \in Procs : /\ pc'[w] \in {"synchronize", "kfree"}
                                            /\ loc'[w] = loc'[r]
                                            /\ pc'[w] = "kfree" => r \in waits'[w]
    BY DEF Rcu!Grace
  <2>2. CASE Rcu!ReadLock(p) /\ r = p  BY <2>2 DEF Rcu!ReadLock, Rcu!TypeOK
  <2>3. CASE ~(Rcu!ReadLock(p) /\ r = p)
    <3>1. r \in Rcu!Readers /\ loc'[r] = loc[r] /\ ~(Rcu!CopyValue(p) /\ r = p)
      BY <1>2, <2>3 DEF Rcu!Readers, Rcu!ReadLock, Rcu!CopyName, Rcu!CopyValue,
         Rcu!Return, Rcu!TypeOK
    <3>2. \A w \in Procs : r \in waits[w] => r \in waits'[w]
      BY <3>1 DEF Rcu!ReadLock, Rcu!CopyName, Rcu!CopyValue, Rcu!Return, Rcu!TypeOK
    <3>3. \A w \in Procs : pc[w] \in {"synchronize", "kfree"} => pc'[w] = pc[w] /\ loc'[w] = loc[w]
      BY <1>2
    <3>4. QED BY <3>1, <3>2, <3>3 DEF Rcu!Grace
  <2>4. QED BY <2>2, <2>3
<1>8. Rcu!Whole' /\ Rcu!Untorn'
  <2>1. \A q \in Procs \ {p} : copy'[q] = copy[q]
    BY DEF Rcu!ReadLock, Rcu!CopyName, Rcu!CopyValue, Rcu!Return, Rcu!TypeOK
  <2>2. /\ pc'[p] = "value" => copy'[p].name = name[loc'[p]]
        /\ pc'[p] = "return" => copy'[p].name = copy'[p].value
    <3>1. CASE Rcu!ReadLock(p)  BY <3>1 DEF Rcu!ReadLock, Rcu!TypeOK
    <3>2. CASE Rcu!CopyName(p)  BY <3>2 DEF Rcu!CopyName, Rcu!TypeOK
    <3>3. CASE Rcu!CopyValue(p)
      <4> USE <3>3
      <4>1. loc[p] \in Nodes /\ pc[p] = "value" /\ copy[p].name = name[loc[p]]
        BY RcuSafe DEF Rcu!CopyValue, Rcu!MemorySafe, Rcu!Readers,
           Rcu!TypeOK, Rcu!Whole
      <4>2. name[loc[p]] = value[loc[p]]  BY <4>1 DEF Rcu!Whole
      <4>3. copy'[p].name = copy[p].name /\ copy'[p].value = value[loc[p]]
        BY DEF Rcu!CopyValue, Rcu!TypeOK
      <4>4. pc'[p] = "return"  BY DEF Rcu!CopyValue, Rcu!TypeOK
      <4>5. QED BY <4>1, <4>2, <4>3, <4>4
    <3>4. CASE Rcu!Return(p)  BY <3>4 DEF Rcu!Return, Rcu!TypeOK
    <3>5. QED BY <3>1, <3>2, <3>3, <3>4
  <2>3. QED BY <1>2, <2>1, <2>2 DEF Rcu!Whole, Rcu!Untorn
<1>9. QED BY <1>4, <1>5, <1>6, <1>7, <1>8 DEF Rcu!IInv, Rcu!Untorn

\* A writer's steps: the readers do not move.
LEMMA WriterStep ==
  ASSUME Nil \notin Nodes, Nil \notin Procs, Rcu!IInv, NEW p \in Procs,
         \/ Rcu!Kmalloc(p) \/ Rcu!LockWriters(p) \/ Rcu!Publish(p) \/ Rcu!Synchronize(p) \/ Rcu!Kfree(p)
         \/ Rcu!Forget(p)
  PROVE  Rcu!IInv'
<1> DEFINE current == m1  name == m2  value == m3  waits == m4  copy == m5
<1> USE DEF Rcu!Goto, Rcu!Set
<1>1. /\ Rcu!TypeOK /\ Rcu!OneOwner /\ Rcu!Loaded /\ Rcu!Grace /\ Rcu!Whole /\ Rcu!Kept /\ Rcu!Untorn
      /\ UNCHANGED <<filled, copy>>
  BY DEF Rcu!IInv, Rcu!Kmalloc, Rcu!LockWriters, Rcu!Publish, Rcu!Synchronize,
     Rcu!Kfree, Rcu!Forget
<1> USE <1>1
<1>2. /\ pc[p] \notin {"name", "value", "return", "gone"}
      /\ pc'[p] \in {"user", "publish", "assign", "synchronize", "kfree"}
      /\ \A q \in Procs \ {p} : pc'[q] = pc[q] /\ loc'[q] = loc[q]
  BY DEF Rcu!Kmalloc, Rcu!LockWriters, Rcu!Publish, Rcu!Synchronize, Rcu!Kfree,
     Rcu!Forget, Rcu!TypeOK
<1>3. Rcu!Readers' = Rcu!Readers /\ p \notin Rcu!Readers /\ \A r \in Rcu!Readers : loc'[r] = loc[r]
  BY <1>2 DEF Rcu!Readers
<1>4. current # Nil /\ current \in heap  BY <1>2 DEF Rcu!Loaded
<1>5. Rcu!TypeOK'
  <2>1. pc' \in [Procs -> {"user", "name", "value", "return", "publish", "assign",
                           "synchronize", "kfree", "gone"}]
    BY DEF Rcu!Kmalloc, Rcu!LockWriters, Rcu!Publish, Rcu!Synchronize, Rcu!Kfree,
       Rcu!Forget, Rcu!TypeOK
  <2>2. /\ loc' \in [Procs -> Nodes \cup {Nil}]
        /\ heap' \subseteq Nodes /\ current' \in Nodes \cup {Nil}
    BY DEF Rcu!Kmalloc, Rcu!LockWriters, Rcu!Publish, Rcu!Synchronize, Rcu!Kfree,
       Rcu!Forget, Rcu!TypeOK
  <2>3. name' \in [Nodes -> Values] /\ value' \in [Nodes -> Values]
    <3>1. name \in [Nodes -> Values] /\ value \in [Nodes -> Values]  BY DEF Rcu!TypeOK
    <3>2. QED BY <3>1 DEF Rcu!Kmalloc, Rcu!LockWriters, Rcu!Publish, Rcu!Synchronize, Rcu!Kfree,
       Rcu!Forget
  <2>4. waits' \in [Procs -> SUBSET Procs] /\ lock' \in Procs \cup {Nil}
    BY DEF Rcu!Kmalloc, Rcu!LockWriters, Rcu!Publish, Rcu!Synchronize, Rcu!Kfree,
       Rcu!Forget, Rcu!TypeOK, Rcu!Readers
  <2>5. QED BY <2>1, <2>2, <2>3, <2>4 DEF Rcu!TypeOK
<1>6. Rcu!Untorn'  BY <1>2 DEF Rcu!Untorn
<1>7. \A r \in Rcu!Readers : loc[r] \in heap  BY RcuSafe DEF Rcu!MemorySafe
<1>8. Rcu!Whole'
  <2>1. \A n \in heap : name'[n] = name[n]
    BY DEF Rcu!Kmalloc, Rcu!LockWriters, Rcu!Publish, Rcu!Synchronize, Rcu!Kfree,
       Rcu!Forget, Rcu!TypeOK
  <2>2. \A n \in Nodes : name'[n] = value'[n]
    BY DEF Rcu!Kmalloc, Rcu!LockWriters, Rcu!Publish, Rcu!Synchronize, Rcu!Kfree,
       Rcu!Forget, Rcu!TypeOK, Rcu!Whole
  <2>3. ASSUME NEW q \in Procs, pc'[q] = "value" PROVE copy'[q].name = name'[loc'[q]]
    <3>1. q # p /\ q \in Rcu!Readers /\ loc'[q] = loc[q] /\ pc[q] = "value"
      BY <1>2, <2>3 DEF Rcu!Readers
    <3>2. QED BY <1>7, <2>1, <3>1 DEF Rcu!Whole
  <2>4. QED BY <2>2, <2>3 DEF Rcu!Whole
<1>9. \A q \in Procs : q \in Rcu!Owners <=> pc[q] \in {"publish", "assign", "synchronize", "kfree"}
  BY DEF Rcu!Owners
<1>10. \A q \in Procs : q \in Rcu!Owners' <=> pc'[q] \in {"publish", "assign", "synchronize", "kfree"}
  BY DEF Rcu!Owners
<1>11. \A x : x \in Rcu!InHand <=> \E q \in Rcu!Owners : x = loc[q]  BY DEF Rcu!InHand, Rcu!Owners
<1>12. \A x : x \in Rcu!InHand' <=> \E q \in Rcu!Owners' : x = loc'[q]
  BY DEF Rcu!InHand, Rcu!Owners
<1>13. CASE Rcu!Kmalloc(p)
  <2> USE <1>13
  <2>1. PICK n \in Nodes \ heap : heap' = heap \cup {n} /\ loc'[p] = n
    BY DEF Rcu!Kmalloc, Rcu!TypeOK
  <2>2. current' = current /\ waits' = waits /\ Rcu!Owners' = Rcu!Owners \cup {p} /\ p \notin Rcu!Owners
    <3>1. pc[p] = "user" /\ pc'[p] = "publish"  BY DEF Rcu!Kmalloc, Rcu!TypeOK
    <3>2. QED BY <1>2, <3>1 DEF Rcu!Kmalloc, Rcu!Owners
  <2> USE <2>1, <2>2
  <2>3. Rcu!OneOwner'  BY <1>2, <1>4 DEF Rcu!OneOwner, Rcu!Owners
  <2>4. Rcu!Grace'  BY <1>2, <1>3 DEF Rcu!Grace, Rcu!Kmalloc
  <2>5. Rcu!Kept'
    <3>1. SUFFICES ASSUME filled PROVE heap' = {current} \cup Rcu!InHand'
      BY <1>4 DEF Rcu!Kept
    <3>2. heap = {current} \cup Rcu!InHand  BY <1>4, <3>1 DEF Rcu!Kept
    <3>3. Rcu!InHand' = Rcu!InHand \cup {n}
      <4>1. \A q \in Rcu!Owners : loc'[q] = loc[q]  BY <1>2 DEF Rcu!Owners
      <4>2. \A x : x \in Rcu!InHand' <=> x = n \/ \E q \in Rcu!Owners : x = loc[q]  BY <1>12, <4>1
      <4>3. QED BY <1>11, <4>2
    <3>4. QED BY <3>2, <3>3
  <2>6. Rcu!Loaded'  BY <1>4 DEF Rcu!Loaded
  <2>7. QED BY <1>5, <1>6, <1>8, <2>3, <2>4, <2>5, <2>6 DEF Rcu!IInv
<1>14. CASE Rcu!LockWriters(p) \/ Rcu!Synchronize(p)
  <2>1. /\ UNCHANGED <<heap, current, loc>> /\ Rcu!Owners' = Rcu!Owners
        /\ \/ pc[p] = "publish" /\ pc'[p] = "assign" /\ waits' = waits
           \/ pc[p] = "synchronize" /\ pc'[p] = "kfree" /\ waits' = [waits EXCEPT ![p] = Rcu!Readers]
    <3>1. /\ UNCHANGED <<heap, current, loc>>
          /\ \/ pc[p] = "publish" /\ pc'[p] = "assign" /\ waits' = waits
             \/ pc[p] = "synchronize" /\ pc'[p] = "kfree" /\ waits' = [waits EXCEPT ![p] = Rcu!Readers]
      BY <1>14 DEF Rcu!LockWriters, Rcu!Synchronize, Rcu!TypeOK
    <3>2. QED BY <1>2, <3>1 DEF Rcu!Owners
  <2> USE <2>1
  <2>2. Rcu!OneOwner' /\ Rcu!Loaded'  BY <1>4 DEF Rcu!OneOwner, Rcu!Loaded
  <2>3. Rcu!Kept'
    <3>1. Rcu!InHand' = Rcu!InHand  BY <1>11, <1>12
    <3>2. QED BY <3>1 DEF Rcu!Kept
  <2>4. Rcu!Grace'
    <3>1. SUFFICES ASSUME NEW r \in Rcu!Readers
                   PROVE  \/ loc[r] = current
                          \/ \E w \in Procs : /\ pc'[w] \in {"synchronize", "kfree"}
                                              /\ loc[w] = loc[r]
                                              /\ pc'[w] = "kfree" => r \in waits'[w]
      BY <1>3 DEF Rcu!Grace
    <3>2. ASSUME NEW w \in Procs, pc[w] \in {"synchronize", "kfree"},
                 pc[w] = "kfree" => r \in waits[w]
          PROVE  pc'[w] \in {"synchronize", "kfree"} /\ (pc'[w] = "kfree" => r \in waits'[w])
      BY <1>2, <3>2 DEF Rcu!TypeOK
    <3>3. QED BY <3>2 DEF Rcu!Grace
  <2>5. QED BY <1>5, <1>6, <1>8, <2>2, <2>3, <2>4 DEF Rcu!IInv
<1>15. CASE Rcu!Publish(p)
  <2>1. /\ current' = loc[p] /\ loc'[p] = current /\ UNCHANGED <<heap, waits>>
        /\ pc[p] = "assign" /\ pc'[p] = "synchronize"
    BY <1>15 DEF Rcu!Publish, Rcu!TypeOK
  <2> USE <2>1
  <2>2. Rcu!Owners' = Rcu!Owners /\ p \in Rcu!Owners  BY <1>2 DEF Rcu!Owners
  <2>3. loc[p] \in heap /\ loc[p] # Nil /\ loc[p] # current
        /\ \A q \in Rcu!Owners \ {p} : loc[q] # loc[p] /\ loc[q] # current
    BY <2>2 DEF Rcu!OneOwner, Rcu!TypeOK
  <2>4. Rcu!OneOwner'
    <3>1. SUFFICES ASSUME NEW q \in Rcu!Owners
                   PROVE  /\ loc'[q] \in heap /\ loc'[q] # loc[p]
                          /\ \A x \in Rcu!Owners \ {q} : loc'[x] # loc'[q]
      BY <2>2 DEF Rcu!OneOwner
    <3>2. q \in Procs /\ Rcu!Owners \subseteq Procs  BY DEF Rcu!Owners
    <3>3. \A x, y \in Rcu!Owners : x # y => loc[x] # loc[y]  BY DEF Rcu!OneOwner
    <3>4. loc[q] \in heap  BY DEF Rcu!OneOwner
    <3>5. QED BY <1>2, <1>4, <2>3, <3>2, <3>3, <3>4
  <2>5. Rcu!Loaded'  BY <2>3 DEF Rcu!Loaded
  <2>6. Rcu!Grace'
    <3>1. SUFFICES ASSUME NEW r \in Rcu!Readers
                   PROVE  \/ loc[r] = current'
                          \/ \E w \in Procs : /\ pc'[w] \in {"synchronize", "kfree"}
                                              /\ loc'[w] = loc[r]
                                              /\ pc'[w] = "kfree" => r \in waits'[w]
      BY <1>3 DEF Rcu!Grace
    <3>2. CASE loc[r] = current  BY <3>2
    <3>3. CASE loc[r] # current
      <4>1. PICK w \in Procs : /\ pc[w] \in {"synchronize", "kfree"} /\ loc[w] = loc[r]
                               /\ pc[w] = "kfree" => r \in waits[w]
        BY <3>3 DEF Rcu!Grace
      <4>2. w # p  BY <4>1
      <4>3. QED BY <1>2, <4>1, <4>2
    <3>4. QED BY <3>2, <3>3
  <2>7. Rcu!Kept'
    <3>1. SUFFICES ASSUME filled PROVE heap = {loc[p]} \cup Rcu!InHand'
      BY <2>3 DEF Rcu!Kept
    <3>2. heap = {current} \cup Rcu!InHand  BY <1>4, <3>1 DEF Rcu!Kept
    <3>3. Rcu!Owners \subseteq Procs  BY DEF Rcu!Owners
    <3>4. {loc[p]} \cup Rcu!InHand' = {current} \cup Rcu!InHand  BY <1>2, <1>11, <1>12, <2>2, <3>3
    <3>5. QED BY <3>2, <3>4
  <2>8. QED BY <1>5, <1>6, <1>8, <2>4, <2>5, <2>6, <2>7 DEF Rcu!IInv
<1>16. CASE Rcu!Kfree(p)
  <2>1. /\ heap' = heap \ {loc[p]} /\ UNCHANGED <<current, waits>> /\ waits[p] = {}
        /\ pc[p] = "kfree" /\ pc'[p] = "user"
    BY <1>16 DEF Rcu!Kfree, Rcu!TypeOK
  <2> USE <2>1
  <2>2. Rcu!Owners' = Rcu!Owners \ {p} /\ p \in Rcu!Owners /\ Rcu!Owners \subseteq Procs
    BY <1>2 DEF Rcu!Owners
  <2>3. loc[p] # current /\ \A q \in Rcu!Owners \ {p} : loc[q] # loc[p]  BY <2>2 DEF Rcu!OneOwner
  <2> USE <2>3
  <2>4. Rcu!OneOwner'  BY <1>2, <2>2 DEF Rcu!OneOwner
  <2>5. Rcu!Loaded'  BY <1>4 DEF Rcu!Loaded
  <2>6. Rcu!Grace'
    <3>1. SUFFICES ASSUME NEW r \in Rcu!Readers, loc[r] # current
                   PROVE  \E w \in Procs : /\ pc'[w] \in {"synchronize", "kfree"}
                                           /\ loc'[w] = loc[r]
                                           /\ pc'[w] = "kfree" => r \in waits'[w]
      BY <1>3 DEF Rcu!Grace
    <3>2. PICK w \in Procs : /\ pc[w] \in {"synchronize", "kfree"} /\ loc[w] = loc[r]
                             /\ pc[w] = "kfree" => r \in waits[w]
      BY <3>1 DEF Rcu!Grace
    <3>3. w # p  BY <3>2
    <3>4. QED BY <1>2, <3>2, <3>3
  <2>7. Rcu!Kept'
    <3>1. SUFFICES ASSUME filled PROVE heap' = {current} \cup Rcu!InHand'
      BY <1>4 DEF Rcu!Kept
    <3>2. heap = {current} \cup Rcu!InHand  BY <1>4, <3>1 DEF Rcu!Kept
    <3>3. Rcu!InHand' = Rcu!InHand \ {loc[p]}  BY <1>2, <1>11, <1>12, <2>2
    <3>4. QED BY <3>2, <3>3
  <2>8. QED BY <1>5, <1>6, <1>8, <2>4, <2>5, <2>6, <2>7 DEF Rcu!IInv
<1>17. CASE Rcu!Forget(p)
  <2>1. /\ UNCHANGED <<heap, current, waits>> /\ ~filled
        /\ pc[p] = "publish" /\ pc'[p] = "user"
    BY <1>17 DEF Rcu!Forget, Rcu!TypeOK
  <2> USE <2>1
  <2>2. Rcu!Owners' = Rcu!Owners \ {p} /\ Rcu!Owners \subseteq Procs  BY <1>2 DEF Rcu!Owners
  <2>3. Rcu!OneOwner' /\ Rcu!Loaded'  BY <1>2, <1>4, <2>2 DEF Rcu!OneOwner, Rcu!Loaded
  <2>4. Rcu!Kept'  BY DEF Rcu!Kept
  <2>5. Rcu!Grace'  BY <1>2, <1>3 DEF Rcu!Grace
  <2>6. QED BY <1>5, <1>6, <1>8, <2>3, <2>4, <2>5 DEF Rcu!IInv
<1>18. QED BY <1>13, <1>14, <1>15, <1>16, <1>17

LEMMA RcuNextIInv ==
  ASSUME Nil \notin Nodes, Nil \notin Procs, Rcu!IInv, [Rcu!Next]_Rcu!vars PROVE Rcu!IInv'
<1> DEFINE current == m1  name == m2  value == m3  waits == m4  copy == m5
<1>1. CASE UNCHANGED Rcu!vars
  BY <1>1 DEF Rcu!vars, Rcu!IInv, Rcu!TypeOK, Rcu!OneOwner, Rcu!Owners, Rcu!Loaded,
     Rcu!Grace, Rcu!Readers, Rcu!Whole, Rcu!Kept, Rcu!InHand,
              Rcu!Untorn
<1>2. CASE Rcu!Exit
  <2>1. /\ \A q \in Procs : pc[q] = "user" /\ pc'[q] = "gone"
        /\ pc' = [q \in Procs |-> "gone"] /\ current' = Nil /\ heap' = heap \ {current}
        /\ UNCHANGED <<filled, loc, lock, name, value, waits, copy>>
    BY <1>2 DEF Rcu!Exit
  <2> USE <2>1
  <2>2. Rcu!Owners' = {} /\ Rcu!Readers' = {} /\ Rcu!InHand' = {} /\ Rcu!InHand = {}
    BY DEF Rcu!Owners, Rcu!Readers, Rcu!InHand
  <2>3. Rcu!TypeOK'  BY DEF Rcu!IInv, Rcu!TypeOK
  <2>4. Rcu!OneOwner' /\ Rcu!Loaded' /\ Rcu!Grace' /\ Rcu!Kept'
    BY <2>2 DEF Rcu!IInv, Rcu!OneOwner, Rcu!Loaded, Rcu!Grace, Rcu!Kept
  <2>5. Rcu!Whole' /\ Rcu!Untorn'  BY DEF Rcu!IInv, Rcu!Whole, Rcu!Untorn
  <2>6. QED BY <2>3, <2>4, <2>5 DEF Rcu!IInv
<1>3. ASSUME NEW p \in Procs, Rcu!Step(p) \/ Rcu!ReadLock(p) \/ Rcu!Kmalloc(p) PROVE Rcu!IInv'
  BY <1>3, ReaderStep, WriterStep DEF Rcu!Step
<1>4. QED BY <1>1, <1>2, <1>3 DEF Rcu!Next

-----------------------------------------------------------------------------
(* PerCpu: the counters of the CPUs. *)

Rows == [Cpu!Cpus -> Int]
Grown(u, g, k) == u = [n \in 0..k |-> IF n = 0 THEN 0 ELSE u[n - 1] + g[n]]

\* The sums of a function of the CPUs, as far as they go, are what the recursion says.
LEMMA UptoSums ==
  ASSUME NCpu \in Nat, NEW g \in Rows
  PROVE  /\ Cpu!Upto(g) \in [0..NCpu -> Int] /\ Cpu!Upto(g)[0] = 0
         /\ \A n \in Cpu!Cpus : Cpu!Upto(g)[n] = Cpu!Upto(g)[n - 1] + g[n]
<1> DEFINE T == {k \in Nat : k <= NCpu /\ ~\E u \in [0..k -> Int] : Grown(u, g, k)}
<1>1. T = {}
  <2>1. SUFFICES ASSUME T # {} PROVE FALSE
    OBVIOUS
  <2>2. PICK k \in T : \A j \in T : k <= j  BY Zenon, <2>1, Least
  <2>3. k \in Nat /\ k <= NCpu /\ ~\E u \in [0..k -> Int] : Grown(u, g, k)  OBVIOUS
  <2> USE <2>3
  <2>4. CASE k = 0
    <3> DEFINE u == [n \in 0..0 |-> 0]
    <3>1. u \in [0..k -> Int] /\ \A n \in 0..0 : n = 0  BY <2>4
    <3>2. Grown(u, g, k)  BY <2>4, <3>1 DEF Grown
    <3>3. QED BY Zenon, <3>1, <3>2
  <2>5. CASE k > 0
    <3> HIDE DEF T
    <3>0. k - 1 \in Nat /\ k - 1 <= NCpu /\ ~(k <= k - 1) /\ k \in Cpu!Cpus  BY <2>5 DEF Cpu!Cpus
    <3>1. k - 1 \notin T  BY <2>2, <3>0
    <3>2. PICK u \in [0..(k - 1) -> Int] : Grown(u, g, k - 1)  BY <3>0, <3>1 DEF T
    <3> DEFINE v == [n \in 0..k |-> IF n = k THEN u[k - 1] + g[k] ELSE u[n]]
    <3>3. u[k - 1] + g[k] \in Int  BY <2>5, <3>0 DEF Rows
    <3>4. v \in [0..k -> Int]  BY <3>3
    <3>5. ASSUME NEW n \in 0..k PROVE v[n] = IF n = 0 THEN 0 ELSE v[n - 1] + g[n]
      <4>1. CASE n = k  BY <2>5, <4>1
      <4>2. CASE n # k
        <5>1. n \in 0..(k - 1) /\ (n # 0 => n - 1 \in 0..k /\ n - 1 # k)  BY <4>2
        <5>2. u[n] = IF n = 0 THEN 0 ELSE u[n - 1] + g[n]  BY Zenon, <3>2, <5>1 DEF Grown
        <5>3. QED BY <4>2, <5>1, <5>2
      <4>3. QED BY <4>1, <4>2
    <3>6. Grown(v, g, k)
      <4> HIDE DEF v
      <4>1. v = [n \in 0..k |-> v[n]]  BY <3>4
      <4>2. QED BY <3>5, <4>1 DEF Grown
    <3>7. QED BY <3>4, <3>6
  <2>6. QED BY <2>4, <2>5
<1>2. PICK u \in [0..NCpu -> Int] : Grown(u, g, NCpu)  BY <1>1
<1>3. Cpu!Upto(g) = CHOOSE s : s = [n \in 0..NCpu |-> IF n = 0 THEN 0 ELSE s[n - 1] + g[n]]
  BY DEF Cpu!Upto
<1>4. Grown(Cpu!Upto(g), g, NCpu)  BY Zenon, <1>2, <1>3 DEF Grown
<1>5. \A n \in 0..NCpu : Cpu!Upto(g)[n] = IF n = 0 THEN 0 ELSE Cpu!Upto(g)[n - 1] + g[n]
  BY <1>4 DEF Grown
<1> USE <1>5
<1>6. Cpu!Upto(g) \in [0..NCpu -> Int]
  <2> DEFINE B == {k \in Nat : k <= NCpu /\ Cpu!Upto(g)[k] \notin Int}
  <2>1. SUFFICES ASSUME B # {} PROVE FALSE
    <3>1. \A k \in 0..NCpu : k \in Nat /\ k <= NCpu  OBVIOUS
    <3>2. ASSUME B = {} PROVE \A k \in 0..NCpu : Cpu!Upto(g)[k] \in Int
      BY <3>1, <3>2
    <3>3. Cpu!Upto(g) = [k \in 0..NCpu |-> Cpu!Upto(g)[k]]  BY Zenon, <1>4 DEF Grown
    <3> HIDE DEF B
    <3>4. QED BY <3>2, <3>3
  <2>2. PICK k \in B : \A j \in B : k <= j  BY Zenon, <2>1, Least
  <2>3. k \in Nat /\ k <= NCpu /\ Cpu!Upto(g)[k] \notin Int /\ k \in 0..NCpu  OBVIOUS
  <2> USE <2>3
  <2>4. k # 0  OBVIOUS
  <2>5. k - 1 \in Nat /\ k - 1 \notin B /\ k - 1 <= NCpu /\ k \in Cpu!Cpus
    BY <2>2, <2>4 DEF Cpu!Cpus
  <2>6. Cpu!Upto(g)[k - 1] \in Int /\ g[k] \in Int  BY <2>5 DEF Rows
  <2>7. QED BY <2>4, <2>6
<1>7. QED BY <1>6 DEF Cpu!Cpus

\* A copy that changes moves the sums from it on.
LEMMA UptoMoves ==
  ASSUME NCpu \in Nat, NEW g \in Rows, NEW h \in Rows, NEW c \in Cpu!Cpus, NEW n \in Int,
         h[c] = g[c] + n, \A d \in Cpu!Cpus \ {c} : h[d] = g[d]
  PROVE  \A k \in 0..NCpu : Cpu!Upto(h)[k] = Cpu!Upto(g)[k] + (IF c <= k THEN n ELSE 0)
<1> DEFINE B == {k \in Nat : k <= NCpu /\ Cpu!Upto(h)[k] # Cpu!Upto(g)[k] + (IF c <= k THEN n ELSE 0)}
<1>1. SUFFICES ASSUME B # {} PROVE FALSE
  OBVIOUS
<1>2. PICK k \in B : \A j \in B : k <= j  BY Zenon, <1>1, Least
<1>3. /\ k \in Nat /\ k <= NCpu /\ c \in Nat /\ c > 0
      /\ Cpu!Upto(h)[k] # Cpu!Upto(g)[k] + (IF c <= k THEN n ELSE 0)
  BY DEF Cpu!Cpus
<1> USE <1>3
<1>4. k # 0  BY UptoSums
<1>5. /\ k \in Cpu!Cpus /\ k - 1 \in Nat /\ k - 1 \in 0..NCpu /\ k \in 0..NCpu
      /\ k - 1 \notin B
  BY <1>2, <1>4 DEF Cpu!Cpus
<1> USE <1>5
<1>6. Cpu!Upto(h)[k - 1] = Cpu!Upto(g)[k - 1] + (IF c <= k - 1 THEN n ELSE 0)  OBVIOUS
<1>7. /\ Cpu!Upto(h)[k] = Cpu!Upto(h)[k - 1] + h[k] /\ Cpu!Upto(g)[k] = Cpu!Upto(g)[k - 1] + g[k]
      /\ Cpu!Upto(h)[k] \in Int /\ Cpu!Upto(g)[k] \in Int /\ Cpu!Upto(h)[k - 1] \in Int
      /\ Cpu!Upto(g)[k - 1] \in Int /\ g[k] \in Int /\ h[k] \in Int
  BY Zenon, UptoSums DEF Rows
<1>8. CASE k = c  BY <1>6, <1>7, <1>8
<1>9. CASE k # c
  <2>1. h[k] = g[k] /\ (c <= k <=> c <= k - 1)  BY <1>9
  <2>2. QED BY <1>6, <1>7, <2>1
<1>10. QED BY <1>8, <1>9

CpuSizes == NCpu \in Nat /\ MaxAdds \in Nat

LEMMA CpuFacts ==
  ASSUME CpuSizes, Cpu!IInv
  PROVE  /\ m3 \in 0..(NCpu + 1) /\ m4 \in [Cpu!Fields -> Int] /\ m5 \in [Cpu!Fields -> Int]
         /\ m6 \in [Cpu!Fields -> Int] /\ \A f \in Cpu!Fields : Cpu!Copies(f) \in Rows
BY DEF CpuSizes, Cpu!IInv, Cpu!TypeOK, Cpu!Copies, Rows

LEMMA CpuAddStep ==
  ASSUME CpuSizes, Cpu!IInv, NEW f \in Cpu!Fields, NEW n \in Int, Cpu!Add(f, n) PROVE Cpu!IInv'
<1> DEFINE exercise == m1  cell == m2  at == m3  total == m4  low == m5  high == m6
<1> USE CpuFacts
<1>1. PICK c \in Cpu!Cpus :
        /\ cell[c][f] + n \in (-MaxAdds)..MaxAdds
        /\ cell' = [cell EXCEPT ![c][f] = @ + n]
        /\ IF at = 0 THEN UNCHANGED <<low, high>>
           ELSE IF n < 0 THEN low' = [low EXCEPT ![f] = @ + n] /\ UNCHANGED high
                ELSE high' = [high EXCEPT ![f] = @ + n] /\ UNCHANGED low
        /\ UNCHANGED <<exercise, filled, at, total>>
  BY Zenon DEF Cpu!Add
<1>2. /\ cell' \in [Cpu!Cpus -> [Cpu!Fields -> (-MaxAdds)..MaxAdds]]
      /\ cell'[c][f] = cell[c][f] + n
      /\ \A d \in Cpu!Cpus, e \in Cpu!Fields : d # c \/ e # f => cell'[d][e] = cell[d][e]
  BY <1>1 DEF Cpu!IInv, Cpu!TypeOK
<1>3. /\ low' \in [Cpu!Fields -> Int] /\ high' \in [Cpu!Fields -> Int]
      /\ \A e \in Cpu!Fields \ {f} : low'[e] = low[e] /\ high'[e] = high[e]
      /\ at # 0 => low'[f] = low[f] + (IF n < 0 THEN n ELSE 0)
                   /\ high'[f] = high[f] + (IF n < 0 THEN 0 ELSE n)
  BY <1>1
<1>4. Cpu!TypeOK'  BY <1>1, <1>2, <1>3 DEF Cpu!IInv, Cpu!TypeOK
<1>5. \A e \in Cpu!Fields : Cpu!Copies(e)' \in Rows /\ Cpu!Copies(e) \in Rows
  BY <1>2 DEF Cpu!Copies, Rows, CpuSizes
<1>6. ASSUME NEW e \in Cpu!Fields, at # 0
      PROVE  low'[e] <= total'[e] + Cpu!Sum(e, at)' /\ total'[e] + Cpu!Sum(e, at)' <= high'[e]
  <2>1. low[e] <= total[e] + Cpu!Sum(e, at) /\ total[e] + Cpu!Sum(e, at) <= high[e]
    BY <1>6 DEF Cpu!IInv, Cpu!ReadInWindow
  <2>2. CASE e # f
    <3>1. Cpu!Copies(e)' = Cpu!Copies(e)  BY <1>2, <2>2 DEF Cpu!Copies
    <3>2. QED BY <1>1, <1>3, <2>1, <2>2, <3>1 DEF Cpu!Sum
  <2>3. CASE e = f
    <3> DEFINE g == Cpu!Copies(e)
               h == Cpu!Copies(e)'
    <3>1. h[c] = g[c] + n /\ (\A d \in Cpu!Cpus \ {c} : h[d] = g[d]) /\ g \in Rows /\ h \in Rows
      BY Zenon, <1>2, <1>5, <2>3 DEF Cpu!Copies
    <3> HIDE DEF g, h
    <3>2. NCpu \in Nat /\ NCpu \in 0..NCpu /\ at - 1 \in 0..NCpu /\ c \in Nat /\ c <= NCpu /\ at \in Nat
      BY <1>6 DEF CpuSizes, Cpu!Cpus
    <3>3. /\ Cpu!Upto(h)[NCpu] = Cpu!Upto(g)[NCpu] + n
          /\ Cpu!Upto(h)[at - 1] = Cpu!Upto(g)[at - 1] + (IF c <= at - 1 THEN n ELSE 0)
      BY <3>1, <3>2, UptoMoves
    <3>4. Cpu!Upto(g)[NCpu] \in Int /\ Cpu!Upto(g)[at - 1] \in Int /\ total[e] \in Int /\ low[e] \in Int
          /\ high[e] \in Int
      BY Zenon, <3>1, <3>2, UptoSums
    <3>5. Cpu!Sum(e, at) = Cpu!Upto(g)[NCpu] - Cpu!Upto(g)[at - 1]
          /\ Cpu!Sum(e, at)' = Cpu!Upto(h)[NCpu] - Cpu!Upto(h)[at - 1] /\ total'[e] = total[e]
      BY <1>1 DEF Cpu!Sum, g, h
    <3> USE <3>4, <3>5
    <3>6. Cpu!Sum(e, at)' = Cpu!Sum(e, at) + (IF c <= at - 1 THEN 0 ELSE n) /\ Cpu!Sum(e, at) \in Int
      BY <3>3
    <3>7. total[e] + Cpu!Sum(e, at) \in Int /\ total'[e] + Cpu!Sum(e, at)' \in Int  BY <3>6
    <3>8. /\ low'[e] = low[e] + (IF n < 0 THEN n ELSE 0)
          /\ high'[e] = high[e] + (IF n < 0 THEN 0 ELSE n)
      <4>1. at # 0  BY <1>6
      <4>2. /\ low'[f] = low[f] + (IF n < 0 THEN n ELSE 0)
            /\ high'[f] = high[f] + (IF n < 0 THEN 0 ELSE n)
        BY <1>3, <4>1
      <4>3. low'[e] = low'[f] /\ low[e] = low[f] /\ high'[e] = high'[f] /\ high[e] = high[f]
        BY <2>3
      <4>4. QED BY <4>2, <4>3
    <3>9. total'[e] + Cpu!Sum(e, at)' = (total[e] + Cpu!Sum(e, at)) + (IF c <= at - 1 THEN 0 ELSE n)
      BY <3>6
    <3>10. CASE c <= at - 1  BY <2>1, <3>7, <3>8, <3>9, <3>10
    <3>11. CASE ~(c <= at - 1)  BY <2>1, <3>7, <3>8, <3>9, <3>11
    <3>12. QED BY <3>10, <3>11
  <2>4. QED BY <2>2, <2>3
<1>7. Cpu!ReadInWindow'  BY <1>1, <1>6 DEF Cpu!ReadInWindow
<1>8. QED BY <1>4, <1>7 DEF Cpu!IInv

LEMMA ScanStep ==
  ASSUME CpuSizes, Cpu!IInv, Cpu!Scan PROVE Cpu!IInv'
<1> DEFINE exercise == m1  cell == m2  at == m3  total == m4  low == m5  high == m6
<1> USE CpuFacts
<1>1. UNCHANGED <<exercise, filled, cell>> /\ \A f \in Cpu!Fields : Cpu!Copies(f)' = Cpu!Copies(f)
  BY DEF Cpu!Scan, Cpu!Open, Cpu!Walk, Cpu!PrintSum, Cpu!Copies
<1>2. CASE Cpu!Open
  <2>1. /\ at' = 1 /\ total' = Cpu!None /\ low' = [f \in Cpu!Fields |-> Cpu!Sum(f, 1)] /\ high' = low'
    BY <1>2 DEF Cpu!Open
  <2> USE <2>1
  <2>2. ASSUME NEW f \in Cpu!Fields
        PROVE  /\ Cpu!Sum(f, 1) \in Int /\ total'[f] = 0 /\ Cpu!Sum(f, 1)' = Cpu!Sum(f, 1)
    <3>1. Cpu!Upto(Cpu!Copies(f))[NCpu] \in Int /\ 1 - 1 = 0 /\ Cpu!Upto(Cpu!Copies(f))[0] \in Int
      BY UptoSums DEF CpuSizes
    <3>2. QED BY <1>1, <3>1 DEF Cpu!Sum, Cpu!None
  <2>3. low' \in [Cpu!Fields -> Int] /\ total' \in [Cpu!Fields -> Int] /\ 1 \in 0..(NCpu + 1)
    BY <2>2 DEF Cpu!None, CpuSizes
  <2>4. Cpu!TypeOK'  BY <1>1, <2>3 DEF Cpu!IInv, Cpu!TypeOK
  <2>5. Cpu!ReadInWindow'  BY <2>2 DEF Cpu!ReadInWindow, Cpu!Sum
  <2>6. QED BY <2>4, <2>5 DEF Cpu!IInv
<1>3. CASE Cpu!Walk
  <2>1. /\ at \in Cpu!Cpus /\ total' = [f \in Cpu!Fields |-> total[f] + cell[at][f]] /\ at' = at + 1
        /\ UNCHANGED <<low, high>>
    BY <1>3 DEF Cpu!Walk
  <2> USE <2>1
  <2>2. \A f \in Cpu!Fields : cell[at][f] \in Int  BY DEF Cpu!IInv, Cpu!TypeOK, CpuSizes
  <2>3. total' \in [Cpu!Fields -> Int] /\ at + 1 \in 0..(NCpu + 1)  BY <2>2 DEF Cpu!Cpus, CpuSizes
  <2>4. Cpu!TypeOK'  BY <1>1, <2>3 DEF Cpu!IInv, Cpu!TypeOK
  <2>5. ASSUME NEW f \in Cpu!Fields
        PROVE  total'[f] + Cpu!Sum(f, at)' = total[f] + Cpu!Sum(f, at)
    <3>1. /\ Cpu!Upto(Cpu!Copies(f))[at] = Cpu!Upto(Cpu!Copies(f))[at - 1] + cell[at][f]
          /\ Cpu!Upto(Cpu!Copies(f))[at - 1] \in Int /\ Cpu!Upto(Cpu!Copies(f))[NCpu] \in Int
          /\ Cpu!Upto(Cpu!Copies(f)) \in [0..NCpu -> Int]
      <4>1. at - 1 \in 0..NCpu /\ NCpu \in 0..NCpu /\ NCpu \in Nat /\ Cpu!Copies(f)[at] = cell[at][f]
        BY DEF Cpu!Cpus, CpuSizes, Cpu!Copies
      <4>2. QED BY Zenon, <4>1, UptoSums
    <3>2. (at + 1) - 1 = at /\ total[f] \in Int /\ total'[f] = total[f] + cell[at][f]  OBVIOUS
    <3>3. Cpu!Sum(f, at)' = Cpu!Upto(Cpu!Copies(f))[NCpu] - Cpu!Upto(Cpu!Copies(f))[at]
      BY <1>1, <3>2 DEF Cpu!Sum
    <3>4. QED BY <2>2, <3>1, <3>2, <3>3 DEF Cpu!Sum
  <2>6. Cpu!ReadInWindow'
    <3>1. \A f \in Cpu!Fields : low[f] <= total[f] + Cpu!Sum(f, at) /\ total[f] + Cpu!Sum(f, at) <= high[f]
      BY DEF Cpu!IInv, Cpu!ReadInWindow, Cpu!Cpus
    <3>2. QED BY <2>5, <3>1 DEF Cpu!ReadInWindow
  <2>7. QED BY <2>4, <2>6 DEF Cpu!IInv
<1>4. CASE Cpu!PrintSum
  <2>1. /\ at' = 0 /\ total' = Cpu!None /\ low' = Cpu!None /\ high' = Cpu!None
    BY <1>4 DEF Cpu!PrintSum
  <2>2. Cpu!None \in [Cpu!Fields -> Int]  BY DEF Cpu!None
  <2>3. QED BY <1>1, <2>1, <2>2 DEF Cpu!IInv, Cpu!TypeOK, Cpu!ReadInWindow, CpuSizes
<1>5. QED BY <1>2, <1>3, <1>4 DEF Cpu!Scan

LEMMA CpuInitInv == ASSUME CpuSizes, Cpu!Init PROVE Cpu!IInv
<1>1. Cpu!None \in [Cpu!Fields -> Int] /\ Cpu!None \in [Cpu!Fields -> (-MaxAdds)..MaxAdds]
  BY DEF Cpu!None, CpuSizes
<1>2. QED BY <1>1 DEF Cpu!Init, Cpu!IInv, Cpu!TypeOK, Cpu!ReadInWindow, CpuSizes

LEMMA CpuNextIInv == ASSUME CpuSizes, Cpu!IInv, [Cpu!Next]_Cpu!vars PROVE Cpu!IInv'
<1>1. CASE UNCHANGED Cpu!vars
  BY <1>1 DEF Cpu!vars, Cpu!IInv, Cpu!TypeOK, Cpu!ReadInWindow, Cpu!Sum, Cpu!Copies
<1>2. CASE Cpu!Writes
  BY <1>2, CpuAddStep DEF Cpu!Writes, Cpu!PcWrite, Cpu!PcWriteAlloc, Cpu!CountHook,
     Cpu!PreCount, Cpu!PreArg, Cpu!Fields
<1>3. CASE Cpu!Reads
  BY <1>3, ScanStep DEF Cpu!Reads, Cpu!PcRead, Cpu!PcReadAlloc, Cpu!K6Show,
     Cpu!ShowHits, Cpu!ShowArg
<1>4. QED BY <1>1, <1>2, <1>3 DEF Cpu!Next

-----------------------------------------------------------------------------
(* Seqlock: one writer, readers that repeat. *)

LEMMA SqlInitInv == ASSUME 0 \in Values, MaxSeq \in Nat, Sql!Init PROVE Sql!IInv
BY DEF Sql!Init, Sql!Zero, Sql!Nothing, Sql!NeverTorn, Sql!IInv, Sql!TypeOK, Sql!Alone,
   Sql!OddWhileWriting, Sql!Written, Sql!Seen, Sql!Untorn, Sql!WriteLabels

LEMMA Parity == ASSUME NEW n \in Nat
                PROVE (n + 1) % 2 = IF n % 2 = 0 THEN 1 ELSE 0
OBVIOUS

\* The writer's first step, while no other writer is inside.
LEMMA OddStep ==
  ASSUME 0 \in Values, MaxSeq \in Nat, Sql!IInv, NEW p \in Procs, Sql!Odd(p),
         \A q \in Procs : pc[q] \notin Sql!WriteLabels
  PROVE  Sql!IInv'
<1> DEFINE seq == m1  pair == m2  copy == m3  loop == m4
<1> USE DEF Sql!IInv, Sql!TypeOK, Sql!WriteLabels, Sql!NeverTorn
<1>1. /\ p \in {Producer} /\ pc[p] = "user" /\ seq + 2 <= MaxSeq
      /\ seq' = seq + 1 /\ pc' = [pc EXCEPT ![p] = "x"]
      /\ UNCHANGED <<filled, loop, pair, copy>>
  BY DEF Sql!Odd, Sql!Goto
<1>2. PICK v \in Values : loc' = [loc EXCEPT ![p] = v]  BY Zenon DEF Sql!Odd
<1> USE <1>1
<1>3. seq % 2 = 0 /\ seq' % 2 = 1  BY Parity DEF Sql!OddWhileWriting
<1>4. Sql!TypeOK'  BY <1>2
<1>5. /\ pc'[p] = "x" /\ loc'[p] = v
      /\ \A q \in Procs \ {p} : pc'[q] = pc[q] /\ loc'[q] = loc[q]
  BY <1>2
<1> USE <1>5
<1>6. Sql!Alone' /\ Sql!OddWhileWriting'  BY <1>3 DEF Sql!Alone, Sql!OddWhileWriting
<1>7. Sql!Written'  BY <1>3 DEF Sql!Written
<1>8. Sql!Seen' /\ Sql!Untorn'
  <2>1. \A q \in Procs : pc'[q] \in {"a", "b", "again"} => loc'[q] \in 0..seq /\ loc'[q] % 2 = 0
    BY DEF Sql!Seen
  <2>2. \A q \in Procs : pc'[q] = "return" => pc[q] = "return"  OBVIOUS
  <2>3. \A q \in Procs : pc'[q] \in {"a", "b", "again"} => loc'[q] # seq'  BY <2>1
  <2>4. QED BY <2>1, <2>2, <2>3 DEF Sql!Seen, Sql!Untorn
<1>9. QED BY <1>4, <1>6, <1>7, <1>8

LEMMA StepIInv ==
  ASSUME 0 \in Values, MaxSeq \in Nat, Sql!IInv, NEW p \in Procs, Sql!Read(p) \/ Sql!Step(p)
  PROVE  Sql!IInv'
<1> DEFINE seq == m1  pair == m2  copy == m3  loop == m4
<1> USE DEF Sql!IInv, Sql!TypeOK, Sql!WriteLabels, Sql!NeverTorn, Sql!Goto
<1>1. CASE Sql!Read(p)
  BY <1>1 DEF Sql!Read, Sql!Alone, Sql!OddWhileWriting, Sql!Written, Sql!Seen, Sql!Untorn
<1>2. CASE Sql!StoreX(p)
  <2>1. /\ pc[p] = "x" /\ pair' = [pair EXCEPT !.x = loc[p]]
        /\ pc' = [pc EXCEPT ![p] = "y"] /\ UNCHANGED <<filled, loop, loc, seq, copy>>
    BY <1>2 DEF Sql!StoreX
  <2> USE <2>1
  <2>2. seq % 2 = 1 /\ loc[p] \in Values  BY DEF Sql!OddWhileWriting, Sql!Written
  <2> USE <2>2
  <2>3. Sql!TypeOK' /\ Sql!Alone' /\ Sql!OddWhileWriting' /\ Sql!Untorn'
    BY DEF Sql!Alone, Sql!OddWhileWriting, Sql!Untorn
  <2>4. Sql!Written'  BY DEF Sql!Alone, Sql!Written
  <2>5. Sql!Seen'  BY DEF Sql!Seen
  <2>6. QED BY <2>3, <2>4, <2>5
<1>3. CASE Sql!StoreY(p)
  <2>1. /\ pc[p] = "y" /\ pair' = [pair EXCEPT !.y = loc[p]]
        /\ pc' = [pc EXCEPT ![p] = "even"] /\ UNCHANGED <<filled, loop, loc, seq, copy>>
    BY <1>3 DEF Sql!StoreY
  <2> USE <2>1
  <2>2. seq % 2 = 1 /\ loc[p] \in Values  BY DEF Sql!OddWhileWriting, Sql!Written
  <2> USE <2>2
  <2>3. Sql!TypeOK' /\ Sql!Alone' /\ Sql!OddWhileWriting' /\ Sql!Untorn'
    BY DEF Sql!Alone, Sql!OddWhileWriting, Sql!Untorn
  <2>4. Sql!Written'  BY DEF Sql!Alone, Sql!Written
  <2>5. Sql!Seen'  BY DEF Sql!Seen
  <2>6. QED BY <2>3, <2>4, <2>5
<1>4. CASE Sql!Even(p)
  <2>1. /\ pc[p] = "even" /\ seq' = seq + 1 /\ loc' = [loc EXCEPT ![p] = 0]
        /\ pc' = [pc EXCEPT ![p] = "user"] /\ UNCHANGED <<filled, loop, pair, copy>>
    BY <1>4 DEF Sql!Even
  <2> USE <2>1
  <2>2. seq % 2 = 1 /\ seq + 1 <= MaxSeq /\ seq' % 2 = 0
    BY Parity DEF Sql!OddWhileWriting, Sql!Written
  <2>3. \A q \in Procs : pc'[q] \notin Sql!WriteLabels  BY DEF Sql!Alone
  <2>4. /\ pc'[p] = "user" /\ loc'[p] = 0
        /\ \A q \in Procs \ {p} : pc'[q] = pc[q] /\ loc'[q] = loc[q]
    OBVIOUS
  <2> USE <2>2
  <2>5. Sql!TypeOK'  OBVIOUS
  <2>6. Sql!Alone' /\ Sql!OddWhileWriting'  BY <2>3 DEF Sql!Alone, Sql!OddWhileWriting
  <2>7. Sql!Written'  BY <2>3 DEF Sql!Written
  <2>8. \A q \in Procs : pc'[q] \in {"a", "b", "again"} => loc'[q] \in 0..seq /\ loc'[q] % 2 = 0
    BY <2>4 DEF Sql!Seen
  <2>9. \A q \in Procs : pc'[q] \in {"a", "b", "again"} => loc'[q] # seq'  BY <2>8
  <2>10. Sql!Seen' /\ Sql!Untorn'  BY <2>4, <2>8, <2>9 DEF Sql!Seen, Sql!Untorn
  <2>11. QED BY <2>5, <2>6, <2>7, <2>10
<1>5. CASE Sql!Begin(p)
  BY <1>5 DEF Sql!Begin, Sql!BeginEven, Sql!BeginOdd, Sql!Alone, Sql!OddWhileWriting,
     Sql!Written, Sql!Seen, Sql!Untorn
<1>6. CASE Sql!LoadX(p)
  BY <1>6 DEF Sql!LoadX, Sql!Alone, Sql!OddWhileWriting, Sql!Written, Sql!Seen, Sql!Untorn
<1>7. CASE Sql!LoadY(p)
  BY <1>7 DEF Sql!LoadY, Sql!Alone, Sql!OddWhileWriting, Sql!Written, Sql!Seen, Sql!Untorn
<1>8. CASE Sql!Again(p)
  BY <1>8 DEF Sql!Again, Sql!Alone, Sql!OddWhileWriting, Sql!Written, Sql!Seen, Sql!Untorn
<1>9. CASE Sql!Return(p)
  BY <1>9 DEF Sql!Return, Sql!Nothing, Sql!Alone, Sql!OddWhileWriting, Sql!Written,
     Sql!Seen, Sql!Untorn
<1>10. QED BY <1>1, <1>2, <1>3, <1>4, <1>5, <1>6, <1>7, <1>8, <1>9 DEF Sql!Step, Sql!Writing,
   Sql!Reading

LEMMA StutterIInv == ASSUME Sql!IInv, UNCHANGED Sql!vars PROVE Sql!IInv'
BY DEF Sql!vars, Sql!NeverTorn, Sql!IInv, Sql!TypeOK, Sql!Alone, Sql!OddWhileWriting,
   Sql!Written, Sql!Seen, Sql!Untorn, Sql!WriteLabels

\* One writer is never inside when it comes.
LEMMA SqlNextIInv ==
  ASSUME 0 \in Values, MaxSeq \in Nat, Sql!IInv, [Sql!Next]_Sql!vars,
         \A v, w \in {Producer} : v = w
  PROVE  Sql!IInv'
<1>1. ASSUME NEW p \in Procs, Sql!Odd(p) PROVE Sql!IInv'
  <2>1. \A q \in Procs : pc[q] \notin Sql!WriteLabels
    BY <1>1 DEF Sql!Odd, Sql!IInv, Sql!Written, Sql!WriteLabels
  <2>2. QED BY <1>1, <2>1, OddStep
<1>2. QED BY <1>1, StepIInv, StutterIInv DEF Sql!Next

-----------------------------------------------------------------------------
(* SeqPair: the counter of Seqlock behind a spinlock. *)

LEMMA CounterInitInv == ASSUME 0 \in Values, MaxSeq \in Nat, Pair!L!Init PROVE Pair!L!IInv
BY DEF Pair!L!Init, Pair!L!Zero, Pair!L!Nothing, Pair!L!NeverTorn, Pair!L!IInv,
   Pair!L!TypeOK, Pair!L!Alone, Pair!L!OddWhileWriting, Pair!L!Written, Pair!L!Seen,
   Pair!L!Untorn, Pair!L!WriteLabels

LEMMA CounterParity == ASSUME NEW n \in Nat
                PROVE (n + 1) % 2 = IF n % 2 = 0 THEN 1 ELSE 0
OBVIOUS

\* The writer's first step, while no other writer is inside.
LEMMA CounterOddStep ==
  ASSUME 0 \in Values, MaxSeq \in Nat, Pair!L!IInv, NEW p \in Procs, Pair!L!Odd(p),
         \A q \in Procs : pc[q] \notin Pair!L!WriteLabels
  PROVE  Pair!L!IInv'
<1> DEFINE seq == m1  pair == m2  copy == m3
<1> USE DEF Pair!L!IInv, Pair!L!TypeOK, Pair!L!WriteLabels, Pair!L!NeverTorn
<1>1. /\ p \in Procs /\ pc[p] = "user" /\ seq + 2 <= MaxSeq
      /\ seq' = seq + 1 /\ pc' = [pc EXCEPT ![p] = "x"]
      /\ UNCHANGED <<filled, pair, copy>>
  BY DEF Pair!L!Odd, Pair!L!Goto
<1>2. PICK v \in Values : loc' = [loc EXCEPT ![p] = v]  BY Zenon DEF Pair!L!Odd
<1> USE <1>1
<1>3. seq % 2 = 0 /\ seq' % 2 = 1  BY CounterParity DEF Pair!L!OddWhileWriting
<1>4. Pair!L!TypeOK'  BY <1>2
<1>5. /\ pc'[p] = "x" /\ loc'[p] = v
      /\ \A q \in Procs \ {p} : pc'[q] = pc[q] /\ loc'[q] = loc[q]
  BY <1>2
<1> USE <1>5
<1>6. Pair!L!Alone' /\ Pair!L!OddWhileWriting'  BY <1>3 DEF Pair!L!Alone, Pair!L!OddWhileWriting
<1>7. Pair!L!Written'  BY <1>3 DEF Pair!L!Written
<1>8. Pair!L!Seen' /\ Pair!L!Untorn'
  <2>1. \A q \in Procs : pc'[q] \in {"a", "b", "again"} => loc'[q] \in 0..seq /\ loc'[q] % 2 = 0
    BY DEF Pair!L!Seen
  <2>2. \A q \in Procs : pc'[q] = "return" => pc[q] = "return"  OBVIOUS
  <2>3. \A q \in Procs : pc'[q] \in {"a", "b", "again"} => loc'[q] # seq'  BY <2>1
  <2>4. QED BY <2>1, <2>2, <2>3 DEF Pair!L!Seen, Pair!L!Untorn
<1>9. QED BY <1>4, <1>6, <1>7, <1>8

LEMMA CounterStepIInv ==
  ASSUME 0 \in Values, MaxSeq \in Nat, Pair!L!IInv, NEW p \in Procs, Pair!L!Read(p) \/ Pair!L!Step(p)
  PROVE  Pair!L!IInv'
<1> DEFINE seq == m1  pair == m2  copy == m3
<1> USE DEF Pair!L!IInv, Pair!L!TypeOK, Pair!L!WriteLabels, Pair!L!NeverTorn, Pair!L!Goto
<1>1. CASE Pair!L!Read(p)
  BY <1>1 DEF Pair!L!Read, Pair!L!Alone, Pair!L!OddWhileWriting, Pair!L!Written,
     Pair!L!Seen, Pair!L!Untorn
<1>2. CASE Pair!L!StoreX(p)
  <2>1. /\ pc[p] = "x" /\ pair' = [pair EXCEPT !.x = loc[p]]
        /\ pc' = [pc EXCEPT ![p] = "y"] /\ UNCHANGED <<filled, loc, seq, copy>>
    BY <1>2 DEF Pair!L!StoreX
  <2> USE <2>1
  <2>2. seq % 2 = 1 /\ loc[p] \in Values  BY DEF Pair!L!OddWhileWriting, Pair!L!Written
  <2> USE <2>2
  <2>3. Pair!L!TypeOK' /\ Pair!L!Alone' /\ Pair!L!OddWhileWriting' /\ Pair!L!Untorn'
    BY DEF Pair!L!Alone, Pair!L!OddWhileWriting, Pair!L!Untorn
  <2>4. Pair!L!Written'  BY DEF Pair!L!Alone, Pair!L!Written
  <2>5. Pair!L!Seen'  BY DEF Pair!L!Seen
  <2>6. QED BY <2>3, <2>4, <2>5
<1>3. CASE Pair!L!StoreY(p)
  <2>1. /\ pc[p] = "y" /\ pair' = [pair EXCEPT !.y = loc[p]]
        /\ pc' = [pc EXCEPT ![p] = "even"] /\ UNCHANGED <<filled, loc, seq, copy>>
    BY <1>3 DEF Pair!L!StoreY
  <2> USE <2>1
  <2>2. seq % 2 = 1 /\ loc[p] \in Values  BY DEF Pair!L!OddWhileWriting, Pair!L!Written
  <2> USE <2>2
  <2>3. Pair!L!TypeOK' /\ Pair!L!Alone' /\ Pair!L!OddWhileWriting' /\ Pair!L!Untorn'
    BY DEF Pair!L!Alone, Pair!L!OddWhileWriting, Pair!L!Untorn
  <2>4. Pair!L!Written'  BY DEF Pair!L!Alone, Pair!L!Written
  <2>5. Pair!L!Seen'  BY DEF Pair!L!Seen
  <2>6. QED BY <2>3, <2>4, <2>5
<1>4. CASE Pair!L!Even(p)
  <2>1. /\ pc[p] = "even" /\ seq' = seq + 1 /\ loc' = [loc EXCEPT ![p] = 0]
        /\ pc' = [pc EXCEPT ![p] = "user"] /\ UNCHANGED <<filled, pair, copy>>
    BY <1>4 DEF Pair!L!Even
  <2> USE <2>1
  <2>2. seq % 2 = 1 /\ seq + 1 <= MaxSeq /\ seq' % 2 = 0
    BY CounterParity DEF Pair!L!OddWhileWriting, Pair!L!Written
  <2>3. \A q \in Procs : pc'[q] \notin Pair!L!WriteLabels  BY DEF Pair!L!Alone
  <2>4. /\ pc'[p] = "user" /\ loc'[p] = 0
        /\ \A q \in Procs \ {p} : pc'[q] = pc[q] /\ loc'[q] = loc[q]
    OBVIOUS
  <2> USE <2>2
  <2>5. Pair!L!TypeOK'  OBVIOUS
  <2>6. Pair!L!Alone' /\ Pair!L!OddWhileWriting'  BY <2>3 DEF Pair!L!Alone, Pair!L!OddWhileWriting
  <2>7. Pair!L!Written'  BY <2>3 DEF Pair!L!Written
  <2>8. \A q \in Procs : pc'[q] \in {"a", "b", "again"} => loc'[q] \in 0..seq /\ loc'[q] % 2 = 0
    BY <2>4 DEF Pair!L!Seen
  <2>9. \A q \in Procs : pc'[q] \in {"a", "b", "again"} => loc'[q] # seq'  BY <2>8
  <2>10. Pair!L!Seen' /\ Pair!L!Untorn'  BY <2>4, <2>8, <2>9 DEF Pair!L!Seen, Pair!L!Untorn
  <2>11. QED BY <2>5, <2>6, <2>7, <2>10
<1>5. CASE Pair!L!Begin(p)
  <2>1. /\ pc[p] = "begin" /\ seq % 2 = 0 /\ loc' = [loc EXCEPT ![p] = seq]
        /\ pc' = [pc EXCEPT ![p] = "a"] /\ UNCHANGED <<filled, seq, pair, copy>>
    BY <1>5 DEF Pair!L!Begin, Pair!L!BeginEven, Pair!L!BeginOdd
  <2>2. QED BY <2>1 DEF Pair!L!Alone, Pair!L!OddWhileWriting, Pair!L!Written, Pair!L!Seen,
     Pair!L!Untorn
<1>6. CASE Pair!L!LoadX(p)
  BY <1>6 DEF Pair!L!LoadX, Pair!L!Alone, Pair!L!OddWhileWriting, Pair!L!Written,
     Pair!L!Seen, Pair!L!Untorn
<1>7. CASE Pair!L!LoadY(p)
  BY <1>7 DEF Pair!L!LoadY, Pair!L!Alone, Pair!L!OddWhileWriting, Pair!L!Written,
     Pair!L!Seen, Pair!L!Untorn
<1>8. CASE Pair!L!Again(p)
  BY <1>8 DEF Pair!L!Again, Pair!L!Alone, Pair!L!OddWhileWriting, Pair!L!Written,
     Pair!L!Seen, Pair!L!Untorn
<1>9. CASE Pair!L!Return(p)
  BY <1>9 DEF Pair!L!Return, Pair!L!Nothing, Pair!L!Alone, Pair!L!OddWhileWriting,
     Pair!L!Written, Pair!L!Seen, Pair!L!Untorn
<1>10. QED BY <1>1, <1>2, <1>3, <1>4, <1>5, <1>6, <1>7, <1>8, <1>9 DEF Pair!L!Step,
   Pair!L!Writing, Pair!L!Reading

LEMMA CounterStutterIInv == ASSUME Pair!L!IInv, UNCHANGED Pair!L!vars PROVE Pair!L!IInv'
BY DEF Pair!L!vars, Pair!L!NeverTorn, Pair!L!IInv, Pair!L!TypeOK, Pair!L!Alone,
   Pair!L!OddWhileWriting, Pair!L!Written, Pair!L!Seen,
   Pair!L!Untorn, Pair!L!WriteLabels


LEMMA PairInitInv ==
  ASSUME 0 \in Values, MaxSeq \in Nat, Nil \notin Procs, Pair!Init PROVE Pair!IInv
<1>1. Pair!L!IInv  BY CounterInitInv DEF Pair!Init
<1>2. QED BY <1>1 DEF Pair!Init, Pair!IInv, Pair!L!Init, Pair!OneWriter, Pair!L!IInv

LEMMA PairNextIInv ==
  ASSUME 0 \in Values, MaxSeq \in Nat, Nil \notin Procs, Pair!IInv, [Pair!Next]_Pair!vars
  PROVE  Pair!IInv'
<1> USE DEF Pair!IInv, Pair!OneWriter, Pair!L!WriteLabels, Pair!L!NeverTorn
<1>1. Pair!L!IInv /\ Pair!L!TypeOK  BY DEF Pair!L!IInv
<1> USE <1>1
<1>2. ASSUME NEW p \in Procs, lock = Nil, Pair!L!Odd(p), lock' = p PROVE Pair!IInv'
  <2> USE <1>2
  <2>1. \A q \in Procs : pc[q] \notin Pair!L!WriteLabels  OBVIOUS
  <2>2. Pair!L!IInv'  BY <2>1, CounterOddStep
  <2>3. QED BY <2>1, <2>2 DEF Pair!L!Odd, Pair!L!Goto, Pair!L!TypeOK, Pair!L!IInv
<1>3. ASSUME NEW p \in Procs, Pair!L!StoreX(p) \/ Pair!L!StoreY(p), UNCHANGED lock PROVE Pair!IInv'
  <2>1. Pair!L!IInv'  BY <1>3, CounterStepIInv DEF Pair!L!Step, Pair!L!Writing
  <2>2. QED BY <1>3, <2>1 DEF Pair!L!StoreX, Pair!L!StoreY, Pair!L!Goto, Pair!L!TypeOK, Pair!L!IInv
<1>4. ASSUME NEW p \in Procs, Pair!L!Even(p), lock' = Nil PROVE Pair!IInv'
  <2>1. Pair!L!IInv'  BY <1>4, CounterStepIInv DEF Pair!L!Step, Pair!L!Writing
  <2>2. QED BY <1>4, <2>1 DEF Pair!L!Even, Pair!L!Goto, Pair!L!TypeOK, Pair!L!IInv
<1>5. ASSUME NEW p \in Procs, Pair!SeqRead(p) PROVE Pair!IInv'
  <2> USE <1>5
  <2>1. Pair!L!IInv'  BY CounterStepIInv DEF Pair!SeqRead, Pair!L!Step
  <2>2. \A q \in Procs : pc'[q] \in Pair!L!WriteLabels <=> pc[q] \in Pair!L!WriteLabels
    BY DEF Pair!SeqRead, Pair!L!Reading, Pair!L!Read, Pair!L!Begin,
       Pair!L!BeginEven, Pair!L!BeginOdd, Pair!L!LoadX, Pair!L!LoadY, Pair!L!Again,
                      Pair!L!Return, Pair!L!Goto, Pair!L!TypeOK
  <2>3. QED BY <2>1, <2>2 DEF Pair!SeqRead, Pair!L!IInv
<1>6. CASE UNCHANGED Pair!vars
  <2>1. Pair!L!IInv'  BY <1>6, CounterStutterIInv DEF Pair!vars, Pair!L!vars
  <2>2. QED BY <1>6, <2>1 DEF Pair!vars, Pair!L!IInv
<1>7. QED BY <1>2, <1>3, <1>4, <1>5, <1>6 DEF Pair!Next, Pair!SeqWrite

-----------------------------------------------------------------------------
(* Latency: the longest call. *)

LEMMA LatInitInv == ASSUME MaxCalls \in Nat, Lat!Init PROVE Lat!IInv
<1> DEFINE last == m2  max == m3  longest == m4
<1>1. Lat!TypeOK
  <2>1. 0 \in 0..MaxCalls  OBVIOUS
  <2>2. {last, max, longest} \subseteq Durations \cup {0}  BY DEF Lat!Init
  <2>3. QED BY Zenon, <2>1, <2>2 DEF Lat!Init, Lat!TypeOK
<1>2. Lat!At({"set"}) = {} /\ Lat!At({"compare", "set"}) = {}  BY DEF Lat!Init, Lat!At
<1>3. QED BY <1>1, <1>2 DEF Lat!Init, Lat!IInv, Lat!MaxReal, Lat!Alone

\* What a handler's step leaves of the others.
LEMMA LatMoves ==
  ASSUME NEW p \in Crowd, NEW to, pc \in [Crowd -> {"user", "call", "last", "compare", "set", "done"}],
         Lat!Goto(p, to), to \in {"user", "call", "last", "compare", "set", "done"}
  PROVE  /\ pc' \in [Crowd -> {"user", "call", "last", "compare", "set", "done"}]
         /\ pc'[p] = to /\ \A q \in Crowd \ {p} : pc'[q] = pc[q]
BY DEF Lat!Goto

LEMMA LatKept ==
  ASSUME Durations \subseteq Nat, MaxCalls \in Nat, Lat!IInv, NEW p \in Crowd, Lat!Ent(p) \/ Lat!Ret(p)
  PROVE  Lat!IInv'
<1> DEFINE count == m1  last == m2  max == m3  longest == m4  overlap == m5
<1>1. /\ Lat!TypeOK /\ Lat!MaxReal /\ Lat!Alone /\ \A q \in Lat!At({"set"}) : loc[q] <= longest
      /\ pc \in [Crowd -> {"user", "call", "last", "compare", "set", "done"}]
      /\ loc \in [Crowd -> Durations \cup {0}] /\ max \in Durations \cup {0}
      /\ longest \in Durations \cup {0} /\ last \in Durations \cup {0} /\ count \in 0..MaxCalls
      /\ max \in Nat /\ longest \in Nat /\ \A q \in Crowd : loc[q] \in Nat
  <2>1. \A n \in Durations \cup {0} : n \in Nat  OBVIOUS
  <2>2. Lat!TypeOK /\ \A n \in {last, max, longest} : n \in Durations \cup {0}
    BY DEF Lat!IInv, Lat!TypeOK
  <2>3. \A q \in Crowd : loc[q] \in Nat  BY Zenon, <2>1 DEF Lat!IInv, Lat!TypeOK
  <2>4. QED BY Zenon, <2>1, <2>2, <2>3 DEF Lat!IInv, Lat!TypeOK
<1> USE <1>1
<1>2. CASE /\ pc[p] \in {"user", "call", "done"} /\ \E to \in {"user", "call"} : Lat!Goto(p, to)
           /\ \A q \in Crowd \ {p} : loc'[q] = loc[q]
           /\ loc' \in [Crowd -> Durations \cup {0}]
           /\ UNCHANGED <<filled, count, last, max, longest, overlap>>
  <2> USE <1>2
  <2>1. /\ pc' \in [Crowd -> {"user", "call", "last", "compare", "set", "done"}]
        /\ pc'[p] \notin {"compare", "set"} /\ \A q \in Crowd \ {p} : pc'[q] = pc[q]
    BY LatMoves
  <2>2. Lat!At({"set"})' = Lat!At({"set"}) /\ Lat!At({"compare", "set"})' = Lat!At({"compare", "set"})
        /\ p \notin Lat!At({"set"})
    BY <2>1 DEF Lat!At
  <2>3. \A q \in Lat!At({"set"}) : loc'[q] = loc[q]  BY <2>2 DEF Lat!At
  <2>4. Lat!TypeOK'  BY <2>1 DEF Lat!TypeOK
  <2>5. QED BY <2>2, <2>3, <2>4 DEF Lat!IInv, Lat!MaxReal, Lat!Alone
<1>3. CASE /\ pc[p] = "call" /\ Lat!Goto(p, "last") /\ count < MaxCalls /\ count' = count + 1
           /\ \E ns \in Durations : loc' = [loc EXCEPT ![p] = ns]
           /\ UNCHANGED <<filled, last, max, longest, overlap>>
  <2> USE <1>3
  <2>1. /\ pc' \in [Crowd -> {"user", "call", "last", "compare", "set", "done"}]
        /\ pc'[p] = "last" /\ \A q \in Crowd \ {p} : pc'[q] = pc[q] /\ loc'[q] = loc[q]
        /\ loc' \in [Crowd -> Durations \cup {0}] /\ count' \in 0..MaxCalls
    BY LatMoves
  <2> USE <2>1
  <2>2. Lat!At({"set"})' = Lat!At({"set"}) /\ Lat!At({"compare", "set"})' = Lat!At({"compare", "set"})
        /\ p \notin Lat!At({"set"})
    BY DEF Lat!At
  <2>3. \A q \in Lat!At({"set"}) : loc'[q] = loc[q]  BY <2>2 DEF Lat!At
  <2>4. Lat!TypeOK'  BY DEF Lat!TypeOK
  <2>5. QED BY <2>2, <2>3, <2>4 DEF Lat!IInv, Lat!MaxReal, Lat!Alone
<1>4. CASE /\ pc[p] = "last" /\ last' = loc[p] /\ Lat!Goto(p, "compare")
           /\ overlap' = (overlap \/ Lat!At({"compare", "set"}) # {})
           /\ UNCHANGED <<filled, loc, count, max, longest>>
  <2> USE <1>4
  <2>1. /\ pc' \in [Crowd -> {"user", "call", "last", "compare", "set", "done"}]
        /\ pc'[p] = "compare" /\ \A q \in Crowd \ {p} : pc'[q] = pc[q]
    BY LatMoves
  <2>2. Lat!At({"set"})' = Lat!At({"set"}) /\ Lat!At({"compare", "set"})' = Lat!At({"compare", "set"}) \cup {p}
    BY <2>1 DEF Lat!At
  <2>3. overlap' \in BOOLEAN /\ (~overlap' => ~overlap /\ Lat!At({"compare", "set"}) = {})
    BY Zenon DEF Lat!TypeOK
  <2>4. Lat!TypeOK'  BY <2>1, <2>3 DEF Lat!TypeOK
  <2>5. QED BY <2>2, <2>3, <2>4 DEF Lat!IInv, Lat!MaxReal, Lat!Alone
<1>5. CASE /\ pc[p] = "compare" /\ longest' = (IF loc[p] > longest THEN loc[p] ELSE longest)
           /\ Lat!Goto(p, IF loc[p] > max THEN "set" ELSE "done")
           /\ UNCHANGED <<filled, loc, count, last, max, overlap>>
  <2> USE <1>5
  <2>1. /\ pc' \in [Crowd -> {"user", "call", "last", "compare", "set", "done"}]
        /\ pc'[p] = (IF loc[p] > max THEN "set" ELSE "done")
        /\ \A q \in Crowd \ {p} : pc'[q] = pc[q]
    BY LatMoves
  <2>2. longest' \in Durations \cup {0} /\ longest' >= longest /\ longest' >= loc[p]
        /\ longest' \in Nat
    OBVIOUS
  <2> USE <2>2
  <2>3. Lat!TypeOK'  BY <2>1 DEF Lat!TypeOK
  <2>4. /\ Lat!At({"set"})' = IF loc[p] > max THEN Lat!At({"set"}) \cup {p} ELSE Lat!At({"set"})
        /\ Lat!At({"compare", "set"})' = IF loc[p] > max THEN Lat!At({"compare", "set"})
                                     ELSE Lat!At({"compare", "set"}) \ {p}
        /\ Lat!At({"set"}) \subseteq Lat!At({"compare", "set"}) /\ p \in Lat!At({"compare", "set"})
        /\ p \notin Lat!At({"set"})
    BY <2>1 DEF Lat!At
  <2> USE <2>4
  <2>5. \A q \in Lat!At({"set"})' : loc'[q] <= longest'  BY DEF Lat!At
  <2>6. ASSUME ~overlap PROVE Lat!At({"set"}) = {} /\ max = longest
    BY <2>6 DEF Lat!Alone, Lat!MaxReal
  <2>7. Lat!MaxReal' /\ Lat!Alone'
    <3>1. CASE loc[p] > max  BY <2>6, <3>1 DEF Lat!MaxReal, Lat!Alone
    <3>2. CASE ~(loc[p] > max)  BY <2>6, <3>2 DEF Lat!MaxReal, Lat!Alone
    <3>3. QED BY <3>1, <3>2
  <2>8. QED BY <2>3, <2>5, <2>7 DEF Lat!IInv
<1>6. CASE /\ pc[p] = "set" /\ max' = loc[p] /\ Lat!Goto(p, "done")
           /\ UNCHANGED <<filled, loc, count, last, longest, overlap>>
  <2> USE <1>6
  <2>1. /\ pc' \in [Crowd -> {"user", "call", "last", "compare", "set", "done"}]
        /\ pc'[p] = "done" /\ \A q \in Crowd \ {p} : pc'[q] = pc[q]
    BY LatMoves
  <2>2. /\ Lat!At({"set"})' = Lat!At({"set"}) \ {p} /\ p \in Lat!At({"set"})
        /\ Lat!At({"compare", "set"})' = Lat!At({"compare", "set"}) \ {p}
    BY <2>1 DEF Lat!At
  <2>3. Lat!TypeOK'  BY <2>1 DEF Lat!TypeOK
  <2>4. Lat!MaxReal' /\ Lat!Alone'  BY <2>2 DEF Lat!MaxReal, Lat!Alone
  <2>5. QED BY <2>2, <2>3, <2>4 DEF Lat!IInv
<1>7. CASE Lat!Ent(p)  BY <1>2, <1>7 DEF Lat!Ent
<1>8. CASE Lat!Ret(p)
  <2>1. [loc EXCEPT ![p] = 0] \in [Crowd -> Durations \cup {0}]
        /\ \A q \in Crowd \ {p} : [loc EXCEPT ![p] = 0][q] = loc[q]
    OBVIOUS
  <2>2. QED BY <1>2, <1>3, <1>4, <1>5, <1>6, <1>8, <2>1 DEF Lat!Ret
<1>9. QED BY <1>7, <1>8

LEMMA LatNextIInv ==
  ASSUME Durations \subseteq Nat, MaxCalls \in Nat, Lat!IInv, [Lat!Next]_Lat!vars PROVE Lat!IInv'
<1>1. CASE UNCHANGED Lat!vars
  BY <1>1 DEF Lat!vars, Lat!IInv, Lat!TypeOK, Lat!MaxReal, Lat!Alone, Lat!At
<1>2. CASE Lat!Next  BY <1>2, LatKept DEF Lat!Next
<1>3. QED BY <1>1, <1>2

-----------------------------------------------------------------------------
(* WorkQueue: work and its flush. *)

WqLabels == {"user", "schedule", "flush", "copy", "return"}
Halves == (0..MaxWrites) \X (0..MaxWrites)

LEMMA WqFacts ==
  ASSUME MaxWrites \in Nat, Worker # Nil, Wq!IInv
  PROVE  /\ pc \in [Procs -> WqLabels] /\ loc \in [Procs -> 0..MaxWrites]
         /\ m6 \in 0..MaxWrites /\ lock \in {Nil, Worker}
         /\ m1 \in {"idle", "queued", "running", "requeued"}
         /\ m2 \in Halves /\ m3 \in Halves /\ m5 \in [Procs -> Halves]
         /\ m4 \in [Procs -> 0..2] /\ Wq!Ordered /\ \A p \in Procs : Wq!Holds(p)
         /\ m2[1] \in 0..MaxWrites /\ m2[2] \in 0..MaxWrites
         /\ m3[1] \in 0..MaxWrites /\ m3[2] \in 0..MaxWrites
         /\ \A p \in Procs : loc[p] \in 0..MaxWrites /\ m4[p] \in 0..2
<1> DEFINE work == m1  input == m2  result == m3  copy == m5
<1>1. Wq!TypeOK /\ Wq!Ordered /\ \A p \in Procs : Wq!Holds(p)  BY DEF Wq!IInv
<1> USE <1>1
<1>2. input \in Halves /\ result \in Halves /\ copy \in [Procs -> Halves]
  BY DEF Wq!TypeOK, Halves
<1>3. work \in {"idle", "queued", "running", "requeued"}  BY DEF Wq!TypeOK, Wq!Item!States
<1>4. /\ input[1] \in 0..MaxWrites /\ input[2] \in 0..MaxWrites
      /\ result[1] \in 0..MaxWrites /\ result[2] \in 0..MaxWrites
  BY <1>2 DEF Halves
<1>5. QED BY <1>2, <1>3, <1>4 DEF Wq!TypeOK, WqLabels

\* The parts of the invariant, from facts about every reader.
LEMMA WqWhole ==
  ASSUME pc' \in [Procs -> WqLabels], loc' \in [Procs -> 0..MaxWrites],
         m6' \in 0..MaxWrites, lock' \in {Nil, Worker},
         m1' \in {"idle", "queued", "running", "requeued"},
         m2' \in Halves, m3' \in Halves, m5' \in [Procs -> Halves],
         m4' \in [Procs -> 0..2], Wq!Ordered', \A p \in Procs : Wq!Holds(p)', Wq!FlushedRead'
  PROVE  Wq!IInv'
<1>1. Wq!TypeOK'  BY DEF Wq!TypeOK, Halves, WqLabels, Wq!Item!States
<1>2. QED BY <1>1 DEF Wq!IInv

\* The worker: what it copies is at least as new as every scheduled text.
LEMMA WqWorkStep ==
  ASSUME MaxWrites \in Nat, Worker # Nil, Wq!IInv, Wq!WorkFn PROVE Wq!IInv'
<1> DEFINE work == m1  input == m2  result == m3  waits == m4  copy == m5  sent == m6
<1> USE WqFacts
<1>1. UNCHANGED <<pc, loc, input, copy, sent>>  BY DEF Wq!WorkFn, Wq!buffers
<1> USE <1>1
<1>2. Wq!FlushedRead'  BY DEF Wq!IInv, Wq!FlushedRead
<1>3. CASE Wq!Item!Start /\ UNCHANGED <<pc, loc, lock, Wq!buffers, waits, sent>>
  <2>1. work = "queued" /\ work' = "running" /\ UNCHANGED <<lock, result, waits>>
    BY <1>3 DEF Wq!Item!Start, Wq!buffers
  <2> USE <2>1
  <2>2. Wq!Ordered'  BY DEF Wq!Ordered, Wq!Item!Running
  <2>3. \A p \in Procs : Wq!Holds(p)'  BY DEF Wq!Holds, Wq!Seen
  <2>4. QED BY <1>2, <2>2, <2>3, WqWhole
<1>4. CASE /\ Wq!Item!Running /\ lock = Nil /\ lock' = Worker
           /\ result' = <<input[1], result[2]>> /\ UNCHANGED <<work, waits>>
  <2> USE <1>4
  <2>1. /\ result'[1] = input[1] /\ result'[2] = result[2] /\ result' \in Halves
        /\ input'[1] = input[1] /\ input'[2] = input[2]
    BY DEF Halves
  <2>2. result[1] <= input[1] /\ result[2] <= input[2]  BY DEF Wq!Ordered
  <2> USE <2>1
  <2>3. \A n \in 0..MaxWrites : Wq!Seen(n) => Wq!Seen(n)'  BY <2>2 DEF Wq!Seen
  <2>4. Wq!Ordered'  BY <2>3 DEF Wq!Ordered, Wq!Item!Running
  <2>5. \A p \in Procs : Wq!Holds(p)'  BY <2>3 DEF Wq!Holds
  <2>6. QED BY <1>2, <2>4, <2>5, WqWhole
<1>5. CASE /\ lock = Worker /\ result' = <<result[1], input[2]>> /\ lock' = Nil /\ Wq!Item!End
           /\ waits' = [p \in Procs |-> IF waits[p] = 0 THEN 0 ELSE waits[p] - 1]
  <2> USE <1>5
  <2>1. /\ result'[1] = result[1] /\ result'[2] = input[2] /\ result' \in Halves
        /\ input'[1] = input[1] /\ input'[2] = input[2]
    BY DEF Halves
  <2>2. /\ result[1] = input[1] /\ input[2] <= input[1] /\ sent <= input[2]
        /\ result[2] <= input[2]
    BY DEF Wq!Ordered
  <2> USE <2>1
  <2>3. \A n \in 0..MaxWrites : (Wq!Seen(n) => Wq!Seen(n)') /\ (n <= sent => Wq!Seen(n)')
    BY <2>2 DEF Wq!Seen
  <2>4. work' \in {"idle", "queued"}  BY DEF Wq!Item!End, Wq!Item!Running
  <2>5. Wq!Ordered'  BY <2>2, <2>3 DEF Wq!Ordered
  <2>6. waits' \in [Procs -> 0..2]  OBVIOUS
  <2>7. ASSUME NEW p \in Procs PROVE Wq!Holds(p)'
    <3>1. /\ pc'[p] = pc[p] /\ loc'[p] = loc[p] /\ loc[p] \in 0..MaxWrites /\ Wq!Holds(p)
          /\ input'[2] = input[2] /\ sent' = sent /\ (waits[p] = 0 => waits'[p] = 0)
      OBVIOUS
    <3>2. QED BY <2>3, <3>1 DEF Wq!Holds
  <2>8. QED BY <1>2, <2>4, <2>5, <2>6, <2>7, WqWhole
<1>6. QED BY <1>3, <1>4, <1>5 DEF Wq!WorkFn

LEMMA WqWriteStep ==
  ASSUME MaxWrites \in Nat, Worker # Nil, Wq!IInv, NEW p \in Procs, Wq!WqWrite(p) PROVE Wq!IInv'
<1> DEFINE work == m1  input == m2  result == m3  waits == m4  copy == m5  sent == m6
<1> USE WqFacts
<1>1. CASE /\ pc[p] = "user" /\ lock = Nil /\ input[1] < MaxWrites
           /\ \/ /\ input' = <<input[1] + 1, input[1] + 1>>
                 /\ loc' = [loc EXCEPT ![p] = input'[1]]
                 /\ Wq!Goto(p, "schedule")
              \/ /\ input' = <<input[1] + 1, input[2]>>
                 /\ UNCHANGED <<pc, loc>>
           /\ UNCHANGED <<lock, work, result, waits, copy, sent>>
  <2> USE <1>1
  <2>1. /\ input'[1] = input[1] + 1 /\ input[1] + 1 \in 0..MaxWrites
        /\ input'[2] \in {input[1] + 1, input[2]} /\ input' \in Halves
    BY DEF Halves
  <2> USE <2>1
  <2>2. input[2] <= input'[2] /\ input'[2] <= input'[1]  BY DEF Wq!Ordered
  <2>3. Wq!Ordered'  BY <2>2 DEF Wq!Ordered, Wq!Seen
  <2>4. /\ pc' \in [Procs -> WqLabels] /\ loc' \in [Procs -> 0..MaxWrites]
        /\ \A q \in Procs \ {p} : pc'[q] = pc[q] /\ loc'[q] = loc[q]
        /\ \/ pc'[p] = "schedule" /\ loc'[p] = input'[1] /\ input'[2] = input'[1]
           \/ pc'[p] = "user"
    BY DEF Wq!Goto, WqLabels
  <2> USE <2>4
  <2>5. ASSUME NEW q \in Procs PROVE Wq!Holds(q)'
    <3>1. Wq!Holds(q) /\ waits'[q] = waits[q] /\ waits[p] = 0 /\ sent' = sent  BY DEF Wq!Holds
    <3>2. \A n : Wq!Seen(n)' = Wq!Seen(n)  BY DEF Wq!Seen
    <3>3. QED BY <2>2, <3>1, <3>2 DEF Wq!Holds
  <2>6. Wq!FlushedRead'  BY DEF Wq!IInv, Wq!FlushedRead
  <2>7. QED BY <2>3, <2>5, <2>6, WqWhole
<1>2. CASE /\ pc[p] = "schedule" /\ Wq!Item!Schedule
           /\ sent' = (IF loc[p] > sent THEN loc[p] ELSE sent)
           /\ loc' = [loc EXCEPT ![p] = 0] /\ Wq!Goto(p, "user")
           /\ UNCHANGED <<lock, Wq!buffers, waits>>
  <2> USE <1>2
  <2>1. /\ work' \in {"queued", "running", "requeued"}
        /\ work \in {"running", "requeued"} => work' = "requeued"
    BY DEF Wq!Item!Schedule
  <2>2. UNCHANGED <<lock, input, result, copy, waits>>  BY DEF Wq!buffers
  <2>3. /\ pc' \in [Procs -> WqLabels] /\ loc' \in [Procs -> 0..MaxWrites] /\ pc'[p] = "user"
        /\ \A q \in Procs \ {p} : pc'[q] = pc[q] /\ loc'[q] = loc[q]
        /\ waits[p] = waits[p]
    BY DEF Wq!Goto, WqLabels
  <2>4. sent' \in 0..MaxWrites /\ sent <= sent' /\ sent' <= input[2]
    <3>1. loc[p] <= input[2] /\ sent <= input[2]  BY DEF Wq!Holds, Wq!Ordered
    <3>2. QED BY <3>1
  <2> USE <2>2, <2>3, <2>4
  <2>5. Wq!Ordered'  BY <2>1 DEF Wq!Ordered, Wq!Item!Running
  <2>6. ASSUME NEW q \in Procs PROVE Wq!Holds(q)'
    <3>1. Wq!Holds(q) /\ \A n : Wq!Seen(n)' = Wq!Seen(n)  BY DEF Wq!Seen
    <3>2. CASE q = p  BY <3>1, <3>2 DEF Wq!Holds
    <3>3. CASE q # p  BY <3>1, <3>3 DEF Wq!Holds
    <3>4. QED BY <3>2, <3>3
  <2>7. Wq!FlushedRead'  BY DEF Wq!IInv, Wq!FlushedRead
  <2>8. QED BY <2>1, <2>5, <2>6, <2>7, WqWhole
<1>3. QED BY <1>1, <1>2 DEF Wq!WqWrite

LEMMA WqReadStep ==
  ASSUME MaxWrites \in Nat, Worker # Nil, Wq!IInv, NEW p \in Procs, Wq!WqRead(p) PROVE Wq!IInv'
<1> DEFINE work == m1  input == m2  result == m3  waits == m4  copy == m5  sent == m6
<1> USE WqFacts
<1>0. UNCHANGED <<lock, work, input, result, sent>>  BY DEF Wq!WqRead, Wq!buffers
<1>1. /\ UNCHANGED <<lock, work, input, result, sent>> /\ Wq!Ordered'
      /\ \A n : Wq!Seen(n) => Wq!Seen(n)'
  BY <1>0 DEF Wq!Ordered, Wq!Seen, Wq!Item!Running
<1>2. ASSUME /\ pc' \in [Procs -> WqLabels] /\ loc' \in [Procs -> 0..MaxWrites]
             /\ waits' \in [Procs -> 0..2] /\ copy' \in [Procs -> Halves]
             /\ \A q \in Procs \ {p} : /\ pc'[q] = pc[q] /\ loc'[q] = loc[q]
                                       /\ waits'[q] = waits[q] /\ copy'[q] = copy[q],
             Wq!Holds(p)',
             /\ pc'[p] \in {"copy", "return"} => copy'[p][1] >= loc'[p]
             /\ pc'[p] = "return" => copy'[p][2] >= loc'[p]
      PROVE  Wq!IInv'
  <2> USE <1>2
  <2>1. \A q \in Procs \ {p} : Wq!Holds(q)'  BY <1>1 DEF Wq!Holds
  <2>2. Wq!FlushedRead'  BY DEF Wq!IInv, Wq!FlushedRead
  <2>3. QED BY <1>1, <2>1, <2>2, WqWhole
<1>3. CASE /\ pc[p] = "user" /\ loc' = [loc EXCEPT ![p] = sent]
           /\ waits' = [waits EXCEPT ![p] = Wq!Item!Flushes] /\ Wq!Goto(p, "flush") /\ copy' = copy
  <2>1. Wq!Item!Flushes \in 0..2 /\ (Wq!Item!Flushes = 0 => work = "idle")  BY DEF Wq!Item!Flushes
  <2>2. work = "idle" => Wq!Seen(sent)  BY DEF Wq!Ordered
  <2>3. /\ pc'[p] = "flush" /\ loc'[p] = sent /\ waits'[p] = Wq!Item!Flushes
    BY <1>3 DEF Wq!Goto, WqLabels
  <2>4. Wq!Holds(p)'  BY <1>1, <2>1, <2>2, <2>3 DEF Wq!Holds
  <2>5. QED BY <1>2, <1>3, <2>1, <2>3, <2>4 DEF Wq!Goto, WqLabels
<1>4. CASE /\ pc[p] = "flush" /\ waits[p] = 0 /\ copy' = [copy EXCEPT ![p] = <<result[1], @[2]>>]
           /\ Wq!Goto(p, "copy") /\ UNCHANGED <<loc, waits>>
  <2> USE <1>4
  <2>1. Wq!Seen(loc[p])  BY DEF Wq!Holds
  <2>2. /\ copy'[p] = <<result[1], copy[p][2]>> /\ loc'[p] = loc[p] /\ waits'[p] = 0
        /\ pc'[p] = "copy" /\ pc' \in [Procs -> WqLabels]
        /\ \A q \in Procs \ {p} : pc'[q] = pc[q] /\ copy'[q] = copy[q]
    BY DEF Wq!Goto, WqLabels
  <2> USE <2>2
  <2>3. copy' \in [Procs -> Halves] /\ copy'[p][1] = result[1]  BY DEF Halves
  <2>4. Wq!Holds(p)'  BY <1>1, <2>1 DEF Wq!Holds
  <2>5. QED BY <1>2, <2>1, <2>3, <2>4 DEF Wq!Seen
<1>5. CASE /\ pc[p] = "copy" /\ copy' = [copy EXCEPT ![p] = <<@[1], result[2]>>]
           /\ Wq!Goto(p, "return") /\ UNCHANGED <<loc, waits>>
  <2> USE <1>5
  <2>1. Wq!Seen(loc[p])  BY DEF Wq!Holds
  <2>2. copy[p][1] >= loc[p]  BY DEF Wq!IInv, Wq!FlushedRead
  <2>3. /\ copy'[p] = <<copy[p][1], result[2]>> /\ loc'[p] = loc[p]
        /\ waits'[p] = waits[p] /\ waits[p] = 0
        /\ pc'[p] = "return" /\ pc' \in [Procs -> WqLabels]
        /\ \A q \in Procs \ {p} : pc'[q] = pc[q] /\ copy'[q] = copy[q]
    BY DEF Wq!Goto, WqLabels, Wq!Holds
  <2> USE <2>3
  <2>4. copy' \in [Procs -> Halves] /\ copy'[p][1] = copy[p][1] /\ copy'[p][2] = result[2]
    BY DEF Halves
  <2>5. Wq!Holds(p)'  BY <1>1, <2>1 DEF Wq!Holds
  <2>6. QED BY <1>2, <2>1, <2>2, <2>4, <2>5 DEF Wq!Seen
<1>6. CASE /\ pc[p] = "return" /\ loc' = [loc EXCEPT ![p] = 0]
           /\ copy' = [copy EXCEPT ![p] = Wq!Empty] /\ Wq!Goto(p, "user") /\ waits' = waits
  BY <1>1, <1>2, <1>6 DEF Wq!Goto, WqLabels, Wq!Holds, Halves, Wq!Empty
<1>7. QED BY <1>3, <1>4, <1>5, <1>6 DEF Wq!WqRead, Wq!buffers

LEMMA WqInitInv == ASSUME MaxWrites \in Nat, Worker # Nil, Wq!Init PROVE Wq!IInv
<1>1. <<0, 0>> \in (0..MaxWrites) \X (0..MaxWrites) /\ 0 \in 0..MaxWrites  OBVIOUS
<1>2. Wq!TypeOK  BY <1>1 DEF Wq!Init, Wq!TypeOK, Wq!Empty, Wq!Item!States
<1>3. Wq!Ordered  BY DEF Wq!Init, Wq!Ordered, Wq!Seen, Wq!Empty, Wq!Item!Running
<1>4. (\A p \in Procs : Wq!Holds(p)) /\ Wq!FlushedRead  BY DEF Wq!Init, Wq!Holds, Wq!FlushedRead
<1>5. QED BY <1>2, <1>3, <1>4 DEF Wq!IInv

LEMMA WqNextIInv ==
  ASSUME MaxWrites \in Nat, Worker # Nil, Wq!IInv, [Wq!Next]_Wq!vars PROVE Wq!IInv'
<1> DEFINE work == m1  input == m2  result == m3  waits == m4  copy == m5  sent == m6
<1>1. CASE UNCHANGED Wq!vars
  <2>1. UNCHANGED <<pc, loc, lock, work, input, result, copy, waits, sent>>
    BY <1>1 DEF Wq!vars, Wq!buffers
  <2> USE <2>1
  <2>2. Wq!Ordered' /\ Wq!FlushedRead'
    BY WqFacts DEF Wq!IInv, Wq!Ordered, Wq!FlushedRead, Wq!Seen, Wq!Item!Running
  <2>3. \A p \in Procs : Wq!Holds(p)'  BY WqFacts DEF Wq!Holds, Wq!Seen
  <2>4. QED BY <2>2, <2>3, WqFacts, WqWhole
<1>2. CASE Wq!Next  BY <1>2, WqWorkStep, WqWriteStep, WqReadStep DEF Wq!Next
<1>3. QED BY <1>1, <1>2

-----------------------------------------------------------------------------
(* DelayedWork: delayed work. *)

LEMMA DwCardinal == \A S : Dw!Cardinality(S) = Cardinality(S)
BY DEF Dw!Cardinality, Cardinality

DwLabels == {"user", "schedule", "flush", "print"}
DwTexts == (0..MaxWrites) \X (0..MaxWrites)
Asks(f) == {p \in Procs : f[p] = "schedule"}

LEMMA DwFacts ==
  ASSUME MaxWrites \in Nat, IsFiniteSet(Procs), Dw!IInv
  PROVE  /\ pc \in [Procs -> DwLabels] /\ loc \in [Procs -> 0..MaxWrites]
         /\ m5 \in 0..MaxWrites /\ m7 \in 0..MaxWrites /\ m6 \in BOOLEAN
         /\ m1 \in {"idle", "queued", "running", "requeued"}
         /\ m2 \in DwTexts /\ m3 \in DwTexts /\ m4 \in [Procs -> 0..2]
         /\ m2[1] \in 0..MaxWrites /\ m2[2] \in 0..MaxWrites /\ m3[2] \in 0..MaxWrites
         /\ \A p \in Procs : loc[p] \in 0..MaxWrites /\ m4[p] \in 0..2 /\ Dw!Holds(p)
         /\ m5 <= m2[2] /\ m2[2] <= m2[1] /\ m3[2] <= m2[2]
         /\ (~m6 /\ m1 = "idle" => m3[2] >= m5)
         /\ m7 + Dw!Planned + Cardinality(Asks(pc)) <= m2[1]
         /\ IsFiniteSet(Asks(pc)) /\ Cardinality(Asks(pc)) \in Nat /\ Dw!Planned \in 0..3
<1> DEFINE work == m1  input == m2  result == m3  sent == m5  delayed == m6  runs == m7
<1>1. Dw!TypeOK /\ Dw!Ordered /\ \A p \in Procs : Dw!Holds(p)  BY DEF Dw!IInv
<1> USE <1>1
<1>2. input \in DwTexts /\ result \in DwTexts  BY DEF Dw!TypeOK, DwTexts
<1>3. work \in {"idle", "queued", "running", "requeued"}  BY DEF Dw!TypeOK, Dw!Item!States
<1>4. input[1] \in 0..MaxWrites /\ input[2] \in 0..MaxWrites /\ result[2] \in 0..MaxWrites
  BY <1>2 DEF DwTexts
<1>5. IsFiniteSet(Asks(pc)) /\ Cardinality(Asks(pc)) \in Nat
  <2>1. Asks(pc) \subseteq Procs  BY DEF Asks
  <2>2. QED BY <2>1, FS_Subset, FS_CardinalityType
<1>6. runs + Dw!Planned + Cardinality(Asks(pc)) <= input[1]
  BY DwCardinal DEF Dw!Ordered, Dw!Asking, Asks
<1>7. Dw!Planned \in 0..3  BY DEF Dw!Planned
<1>8. sent \in 0..MaxWrites /\ runs \in 0..MaxWrites  BY DEF Dw!TypeOK
<1>9. /\ sent <= input[2] /\ input[2] <= input[1] /\ result[2] <= input[2]
      /\ (~delayed /\ work = "idle" => result[2] >= sent)
  BY DEF Dw!Ordered
<1>10. QED BY <1>2, <1>3, <1>4, <1>5, <1>6, <1>7, <1>8, <1>9 DEF Dw!TypeOK, DwLabels

LEMMA DwWhole ==
  ASSUME pc' \in [Procs -> DwLabels], loc' \in [Procs -> 0..MaxWrites],
         m5' \in 0..MaxWrites, m7' \in 0..MaxWrites, m6' \in BOOLEAN,
         m1' \in {"idle", "queued", "running", "requeued"},
         m2' \in DwTexts, m3' \in DwTexts, m4' \in [Procs -> 0..2],
         \A p \in Procs : Dw!Holds(p)', m5' <= m2'[2], m2'[2] <= m2'[1],
         m3'[2] <= m2'[2], ~m6' /\ m1' = "idle" => m3'[2] >= m5',
         m7' + Dw!Planned' + Cardinality(Asks(pc')) <= m2'[1], m7' <= m2'[1]
  PROVE  Dw!IInv'
<1> DEFINE result == m3
<1>1. Dw!TypeOK'  BY DEF Dw!TypeOK, DwTexts, DwLabels, Dw!Item!States
<1>2. Dw!Ordered'  BY DwCardinal DEF Dw!Ordered, Dw!Asking, Asks
<1>3. \A p \in Procs : pc'[p] = "print" => result'[2] >= loc'[p]
  <2>1. ASSUME NEW p \in Procs, pc'[p] = "print" PROVE result'[2] >= loc'[p]
    <3>1. loc'[p] <= result'[2]  BY <2>1 DEF Dw!Holds
    <3>2. loc'[p] \in Int /\ result'[2] \in Int  BY DEF DwTexts
    <3>3. QED BY <3>1, <3>2
  <2>2. QED BY <2>1
<1>4. QED BY <1>1, <1>2, <1>3 DEF Dw!IInv, Dw!FlushedRead

\* The timer and the worker: a run that ends was planned.
LEMMA DwWorkStep ==
  ASSUME MaxWrites \in Nat, IsFiniteSet(Procs), Dw!IInv, Dw!Kernel PROVE Dw!IInv'
<1> DEFINE work == m1  input == m2  result == m3  waits == m4  sent == m5  delayed == m6  runs == m7
<1> USE DwFacts
<1>1. UNCHANGED <<pc, loc, input, sent>>  BY DEF Dw!Kernel, Dw!Expire, Dw!DworkFn, Dw!buffers
<1> USE <1>1
<1>2. CASE /\ delayed /\ delayed' = FALSE /\ Dw!Item!Schedule /\ UNCHANGED <<result, runs, waits>>
  <2> USE <1>2
  <2>1. /\ work' \in {"queued", "running", "requeued"} /\ Dw!Planned' \in 0..3
        /\ Dw!Planned' <= Dw!Planned
    BY DEF Dw!Item!Schedule, Dw!Planned
  <2>2. \A p \in Procs : Dw!Holds(p)'  BY DEF Dw!Holds
  <2>3. /\ runs' + Dw!Planned' + Cardinality(Asks(pc')) <= input'[1] /\ runs' <= input'[1]
    BY <2>1
  <2>4. QED BY Zenon, <2>1, <2>2, <2>3, DwWhole
<1>3. CASE Dw!Item!Start /\ UNCHANGED <<delayed, result, runs, waits>>
  <2> USE <1>3
  <2>1. work = "queued" /\ work' = "running" /\ Dw!Planned' = Dw!Planned
    BY DEF Dw!Item!Start, Dw!Planned
  <2>2. \A p \in Procs : Dw!Holds(p)'  BY DEF Dw!Holds
  <2>3. /\ runs' + Dw!Planned' + Cardinality(Asks(pc')) <= input'[1] /\ runs' <= input'[1]
    BY <2>1
  <2>4. QED BY <2>1, <2>2, <2>3, DwWhole
<1>4. CASE /\ Dw!Item!Running /\ Dw!Item!End /\ result' = input /\ runs' = runs + 1
           /\ waits' = [p \in Procs |-> IF waits[p] = 0 THEN 0 ELSE waits[p] - 1]
           /\ UNCHANGED delayed
  <2> USE <1>4
  <2>1. /\ work \in {"running", "requeued"} /\ work' \in {"idle", "queued"}
        /\ Dw!Planned' \in 0..3 /\ Dw!Planned' + 1 = Dw!Planned
    BY DEF Dw!Item!Running, Dw!Item!End, Dw!Planned
  <2>2. waits' \in [Procs -> 0..2] /\ \A p \in Procs : waits[p] = 0 => waits'[p] = 0  OBVIOUS
  <2>3. result'[2] = input[2] /\ result' \in DwTexts  OBVIOUS
  <2>4. ASSUME NEW p \in Procs PROVE Dw!Holds(p)'
    <3>1. /\ pc'[p] = pc[p] /\ loc'[p] = loc[p] /\ loc[p] \in 0..MaxWrites /\ Dw!Holds(p)
          /\ input'[2] = input[2] /\ sent' = sent /\ (waits[p] = 0 => waits'[p] = 0)
      BY <2>2
    <3>2. QED BY <2>3, <3>1 DEF Dw!Holds
  <2>5. /\ runs' + Dw!Planned' + Cardinality(Asks(pc')) <= input'[1] /\ runs' <= input'[1]
        /\ runs' \in 0..MaxWrites
    BY <2>1
  <2>6. QED BY <2>1, <2>2, <2>3, <2>4, <2>5, DwWhole
<1>5. QED BY Zenon, <1>2, <1>3, <1>4 DEF Dw!Kernel, Dw!Expire, Dw!DworkFn, Dw!buffers

LEMMA DwWriteStep ==
  ASSUME MaxWrites \in Nat, IsFiniteSet(Procs), Dw!IInv, NEW p \in Procs, Dw!DwWrite(p) PROVE Dw!IInv'
<1> DEFINE work == m1  input == m2  result == m3  waits == m4  sent == m5  delayed == m6  runs == m7
<1> USE DwFacts
<1>1. CASE /\ pc[p] = "user" /\ input[1] < MaxWrites
           /\ \/ /\ input' = <<input[1] + 1, input[1] + 1>>
                 /\ loc' = [loc EXCEPT ![p] = input'[1]]
                 /\ Dw!Goto(p, "schedule")
              \/ /\ input' = <<input[1] + 1, input[2]>>
                 /\ UNCHANGED <<pc, loc>>
           /\ UNCHANGED <<work, delayed, result, runs, waits, sent>>
  <2> USE <1>1
  <2>1. /\ input'[1] = input[1] + 1 /\ input[1] + 1 \in 0..MaxWrites
        /\ input'[2] \in {input[1] + 1, input[2]} /\ input' \in DwTexts
    BY DEF DwTexts
  <2> USE <2>1
  <2>2. input[2] <= input'[2] /\ input'[2] <= input'[1]  OBVIOUS
  <2>3. /\ pc' \in [Procs -> DwLabels] /\ loc' \in [Procs -> 0..MaxWrites]
        /\ \A q \in Procs \ {p} : pc'[q] = pc[q] /\ loc'[q] = loc[q]
        /\ \/ pc'[p] = "schedule" /\ loc'[p] = input'[1] /\ input'[2] = input'[1]
           \/ pc'[p] = "user"
    BY DEF Dw!Goto, DwLabels
  <2>4. ASSUME NEW q \in Procs PROVE Dw!Holds(q)'
    <3>1. /\ Dw!Holds(q) /\ Dw!Holds(p) /\ waits'[q] = waits[q] /\ sent' = sent /\ result' = result
          /\ waits[p] = 0
      BY DEF Dw!Holds
    <3>2. QED BY <2>2, <2>3, <3>1 DEF Dw!Holds
  <2>5. /\ Cardinality(Asks(pc')) \in Nat
        /\ Cardinality(Asks(pc')) <= Cardinality(Asks(pc)) + 1
    <3>1. Asks(pc') = Asks(pc) \/ Asks(pc') = Asks(pc) \cup {p}  BY <2>3 DEF Asks
    <3>2. CASE Asks(pc') = Asks(pc)  BY <3>2
    <3>3. CASE Asks(pc') = Asks(pc) \cup {p}
      <4>1. p \notin Asks(pc)  BY DEF Asks
      <4>2. Cardinality(Asks(pc')) = Cardinality(Asks(pc)) + 1
        BY Zenon, <3>3, <4>1, FS_AddElement
      <4>3. QED BY <4>2
    <3>4. QED BY <3>1, <3>2, <3>3
  <2>6. Dw!Planned' = Dw!Planned  BY DEF Dw!Planned
  <2>7. /\ runs' + Dw!Planned' + Cardinality(Asks(pc')) <= input'[1] /\ runs' <= input'[1]
    BY <2>5, <2>6
  <2>8. QED BY <2>2, <2>3, <2>4, <2>7, DwWhole
<1>2. CASE /\ pc[p] = "schedule" /\ delayed' = (delayed \/ work \in {"idle", "running"})
           /\ sent' = (IF loc[p] > sent THEN loc[p] ELSE sent)
           /\ loc' = [loc EXCEPT ![p] = 0] /\ Dw!Goto(p, "user")
           /\ UNCHANGED <<work, input, result, runs, waits>>
  <2> USE <1>2
  <2>1. delayed' \in BOOLEAN /\ Dw!Planned' <= Dw!Planned + 1 /\ Dw!Planned' \in 0..3
    BY DEF Dw!Planned
  <2>2. /\ pc' \in [Procs -> DwLabels] /\ loc' \in [Procs -> 0..MaxWrites] /\ pc'[p] = "user"
        /\ \A q \in Procs \ {p} : pc'[q] = pc[q] /\ loc'[q] = loc[q]
    BY DEF Dw!Goto, DwLabels
  <2>3. sent' \in 0..MaxWrites /\ sent <= sent' /\ sent' <= input[2]
    <3>1. loc[p] <= input[2]  BY DEF Dw!Holds
    <3>2. QED BY <3>1
  <2> USE <2>2
  <2>4. ASSUME NEW q \in Procs PROVE Dw!Holds(q)'
    <3>1. CASE q = p  BY <3>1 DEF Dw!Holds
    <3>2. CASE q # p
      <4>1. /\ pc'[q] = pc[q] /\ loc'[q] = loc[q] /\ waits' = waits /\ input' = input
            /\ result' = result /\ Dw!Holds(q) /\ loc[q] \in 0..MaxWrites
        BY <3>2
      <4>2. QED BY <2>3, <4>1 DEF Dw!Holds
    <3>3. QED BY <3>1, <3>2
  <2>5. Cardinality(Asks(pc')) = Cardinality(Asks(pc)) - 1
    <3>1. Asks(pc') = Asks(pc) \ {p} /\ p \in Asks(pc)  BY DEF Asks
    <3>2. QED BY Zenon, <3>1, FS_RemoveElement
  <2>6. /\ runs' + Dw!Planned' + Cardinality(Asks(pc')) <= input'[1] /\ runs' <= input'[1]
    BY <2>1, <2>5
  <2>7. ~(~delayed' /\ work' = "idle")  BY Zenon
  <2>8. QED BY <2>1, <2>3, <2>4, <2>6, <2>7, DwWhole
<1>3. QED BY <1>1, <1>2 DEF Dw!DwWrite, Dw!buffers

LEMMA DwReadStep ==
  ASSUME MaxWrites \in Nat, IsFiniteSet(Procs), Dw!IInv, NEW p \in Procs, Dw!DwRead(p) PROVE Dw!IInv'
<1> DEFINE work == m1  input == m2  result == m3  waits == m4  sent == m5  delayed == m6  runs == m7
<1> USE DwFacts
<1>0. UNCHANGED <<input, result, runs, sent>>  BY DEF Dw!DwRead, Dw!buffers
<1>1. ASSUME /\ pc' \in [Procs -> DwLabels] /\ loc' \in [Procs -> 0..MaxWrites]
             /\ waits' \in [Procs -> 0..2] /\ delayed' \in BOOLEAN
             /\ work' \in {"idle", "queued", "running", "requeued"}
             /\ \A q \in Procs \ {p} : pc'[q] = pc[q] /\ loc'[q] = loc[q] /\ waits'[q] = waits[q],
             pc[p] # "schedule", pc'[p] # "schedule", Dw!Holds(p)', Dw!Planned' <= Dw!Planned,
             Dw!Planned' \in 0..3, ~delayed' /\ work' = "idle" => result[2] >= sent
      PROVE  Dw!IInv'
  <2> USE <1>1
  <2>1. \A q \in Procs \ {p} : Dw!Holds(q)'  BY <1>0 DEF Dw!Holds
  <2>2. Asks(pc') = Asks(pc)  BY DEF Asks
  <2>3. /\ runs' + Dw!Planned' + Cardinality(Asks(pc')) <= input'[1] /\ runs' <= input'[1]
    BY <1>0, <2>2
  <2>4. QED BY <1>0, <2>1, <2>3, DwWhole
<1>2. CASE /\ pc[p] = "user" /\ IF delayed THEN Dw!Item!Schedule ELSE UNCHANGED work
           /\ delayed' = FALSE /\ waits' = [waits EXCEPT ![p] = Dw!Item!Flushes']
           /\ loc' = [loc EXCEPT ![p] = sent] /\ Dw!Goto(p, "flush")
  <2> USE <1>2
  <2>1. /\ work' \in {"idle", "queued", "running", "requeued"}
        /\ (work' = "idle" => ~delayed /\ work = "idle")
    BY DEF Dw!Item!Schedule
  <2>2. Dw!Planned' <= Dw!Planned /\ Dw!Planned' \in 0..3  BY DEF Dw!Item!Schedule, Dw!Planned
  <2> USE <2>1
  <2>3. Dw!Item!Flushes' \in 0..2 /\ (Dw!Item!Flushes' = 0 => work' = "idle")
    BY DEF Dw!Item!Flushes
  <2>4. /\ pc'[p] = "flush" /\ loc'[p] = sent /\ waits'[p] = Dw!Item!Flushes'
        /\ pc' \in [Procs -> DwLabels] /\ loc' \in [Procs -> 0..MaxWrites]
        /\ waits' \in [Procs -> 0..2]
        /\ \A q \in Procs \ {p} : pc'[q] = pc[q] /\ loc'[q] = loc[q] /\ waits'[q] = waits[q]
    BY <2>3 DEF Dw!Goto, DwLabels
  <2>5. Dw!Holds(p)'  BY <1>0, <2>3, <2>4 DEF Dw!Holds
  <2>6. QED BY Zenon, <1>1, <2>2, <2>4, <2>5
<1>3. CASE /\ pc[p] = "flush" /\ waits[p] = 0 /\ Dw!Goto(p, "print")
           /\ UNCHANGED <<loc, work, delayed, waits>>
  <2> USE <1>3
  <2>1. /\ pc'[p] = "print" /\ loc'[p] = loc[p] /\ waits'[p] = 0 /\ pc' \in [Procs -> DwLabels]
        /\ \A q \in Procs \ {p} : pc'[q] = pc[q]
    BY DEF Dw!Goto, DwLabels
  <2>2. loc[p] <= result[2]  BY DEF Dw!Holds
  <2>3. Dw!Holds(p)'  BY <1>0, <2>1, <2>2 DEF Dw!Holds
  <2>4. Dw!Planned' = Dw!Planned  BY DEF Dw!Planned
  <2>5. QED BY <1>1, <2>1, <2>3, <2>4
<1>4. CASE /\ pc[p] = "print" /\ loc' = [loc EXCEPT ![p] = 0] /\ Dw!Goto(p, "user")
           /\ UNCHANGED <<work, delayed, waits>>
  <2> USE <1>4
  <2>1. /\ pc'[p] = "user" /\ waits'[p] = 0 /\ pc' \in [Procs -> DwLabels]
        /\ loc' \in [Procs -> 0..MaxWrites]
        /\ \A q \in Procs \ {p} : pc'[q] = pc[q] /\ loc'[q] = loc[q]
    BY DEF Dw!Goto, DwLabels, Dw!Holds
  <2>2. Dw!Holds(p)'  BY <2>1 DEF Dw!Holds
  <2>3. Dw!Planned' = Dw!Planned  BY DEF Dw!Planned
  <2>4. QED BY <1>1, <2>1, <2>2, <2>3
<1>5. QED BY Zenon, <1>2, <1>3, <1>4 DEF Dw!DwRead, Dw!buffers

LEMMA DwInitInv == ASSUME MaxWrites \in Nat, IsFiniteSet(Procs), Dw!Init PROVE Dw!IInv
<1> DEFINE work == m1  input == m2  result == m3  waits == m4  sent == m5  delayed == m6  runs == m7
<1>1. <<0, 0>> \in (0..MaxWrites) \X (0..MaxWrites) /\ 0 \in 0..MaxWrites  OBVIOUS
<1> USE <1>1
<1>2. Dw!TypeOK
  <2>1. {sent, runs} \subseteq 0..MaxWrites  BY DEF Dw!Init
  <2>2. /\ input \in (0..MaxWrites) \X (0..MaxWrites)
        /\ result \in (0..MaxWrites) \X (0..MaxWrites)
    BY DEF Dw!Init
  <2>3. waits \in [Procs -> 0..2] /\ loc \in [Procs -> 0..MaxWrites]  BY DEF Dw!Init
  <2>5. /\ pc \in [Procs -> {"user", "schedule", "flush", "print"}] /\ work \in Dw!Item!States
        /\ delayed \in BOOLEAN
    BY Zenon DEF Dw!Init, Dw!Item!States
  <2>4. QED BY <2>1, <2>2, <2>3, <2>5 DEF Dw!TypeOK
<1>3. Dw!Asking = {} /\ Dw!Planned = 0  BY DEF Dw!Init, Dw!Asking, Dw!Planned
<1>4. Cardinality(Dw!Asking) = 0  BY <1>3, FS_EmptySet, DwCardinal
<1>5. Dw!Ordered  BY <1>3, <1>4, DwCardinal DEF Dw!Init, Dw!Ordered
<1>6. (\A p \in Procs : Dw!Holds(p)) /\ Dw!FlushedRead  BY DEF Dw!Init, Dw!Holds, Dw!FlushedRead
<1>7. QED BY <1>2, <1>5, <1>6 DEF Dw!IInv

LEMMA DwNextIInv ==
  ASSUME MaxWrites \in Nat, IsFiniteSet(Procs), Dw!IInv, [Dw!Next]_Dw!vars PROVE Dw!IInv'
<1> DEFINE work == m1  input == m2  result == m3  waits == m4  sent == m5  delayed == m6  runs == m7
<1>1. CASE UNCHANGED Dw!vars
  <2>1. UNCHANGED <<pc, loc, work, delayed, input, result, runs, waits, sent>>
    BY <1>1 DEF Dw!vars, Dw!buffers
  <2>2. Dw!Planned' = Dw!Planned /\ \A p \in Procs : Dw!Holds(p)'
    BY <2>1, DwFacts DEF Dw!Planned, Dw!Holds
  <2>3. runs <= input[1]  BY DwFacts
  <2>4. QED BY <2>1, <2>2, <2>3, DwFacts, DwWhole
<1>2. CASE Dw!Next  BY <1>2, DwWorkStep, DwWriteStep, DwReadStep DEF Dw!Next
<1>3. QED BY <1>1, <1>2

-----------------------------------------------------------------------------
(* TimerSource: the timer and its work. *)

LEMMA TimerInitInv == ASSUME MaxTicks \in Nat, Timer!Init PROVE Timer!IInv
<1>1. 0 \in 0..MaxTicks  OBVIOUS
<1>2. Timer!TypeOK  BY Zenon, <1>1 DEF Timer!Init, Timer!TypeOK, Timer!Item!States
<1>3. QED BY <1>2 DEF Timer!Init, Timer!IInv, Timer!NeverAhead

\* The timer and the worker: the ticks only grow.
LEMMA SourceStep ==
  ASSUME MaxTicks \in Nat, Timer!IInv, UNCHANGED <<pc, loc, m1>>,
         \/ Timer!Tick \/ Timer!ScheduleWork \/ Timer!WorkFn
  PROVE  Timer!IInv'
<1> DEFINE work == m2  ticks == m3  processed == m4  softirq == m5
<1>0. ticks \in 0..MaxTicks /\ processed \in 0..MaxTicks /\ processed <= ticks
  BY DEF Timer!IInv, Timer!TypeOK
<1>1. ticks' \in 0..MaxTicks /\ ticks <= ticks'
  BY <1>0 DEF Timer!Tick, Timer!ScheduleWork, Timer!WorkFn
<1>7. softirq' \in BOOLEAN
  BY Zenon DEF Timer!Tick, Timer!ScheduleWork, Timer!WorkFn, Timer!IInv, Timer!TypeOK
<1>2. processed' \in 0..MaxTicks /\ processed' <= ticks'
  BY <1>0 DEF Timer!Tick, Timer!ScheduleWork, Timer!WorkFn
<1>3. work' \in Timer!Item!States
  BY DEF Timer!Tick, Timer!ScheduleWork, Timer!WorkFn, Timer!IInv, Timer!TypeOK,
     Timer!Item!States, Timer!Item!Schedule, Timer!Item!Start,
         Timer!Item!End, Timer!Item!Running
<1>4. Timer!TypeOK'  BY <1>1, <1>2, <1>3, <1>7 DEF Timer!IInv, Timer!TypeOK
<1>5. \A p \in Procs : pc'[p] = "ticks" => loc'[p] <= ticks'  BY <1>1 DEF Timer!IInv, Timer!TypeOK
<1>6. QED BY <1>2, <1>4, <1>5 DEF Timer!IInv, Timer!NeverAhead

LEMMA TimerReadStep ==
  ASSUME MaxTicks \in Nat, Timer!IInv, NEW p \in Procs, Timer!TimerRead(p) PROVE Timer!IInv'
<1> DEFINE seen == m1  work == m2  ticks == m3  processed == m4  softirq == m5
<1>1. /\ pc \in [Procs -> {"user", "ticks", "print"}]
      /\ loc \in [Procs -> 0..MaxTicks] /\ seen \in [Procs -> 0..MaxTicks]
      /\ ticks \in 0..MaxTicks /\ processed \in 0..MaxTicks /\ processed <= ticks
      /\ UNCHANGED <<work, ticks, processed, softirq>>
  BY DEF Timer!IInv, Timer!TypeOK, Timer!TimerRead
<1> USE <1>1
<1>2. /\ pc' \in [Procs -> {"user", "ticks", "print"}]
      /\ loc' \in [Procs -> 0..MaxTicks] /\ seen' \in [Procs -> 0..MaxTicks]
      /\ \A q \in Procs \ {p} : pc'[q] = pc[q] /\ loc'[q] = loc[q] /\ seen'[q] = seen[q]
  BY DEF Timer!TimerRead, Timer!Goto
<1>3. /\ pc'[p] = "ticks" => loc'[p] <= ticks
      /\ pc'[p] = "print" => loc'[p] <= seen'[p]
  BY DEF Timer!TimerRead, Timer!Goto, Timer!IInv
<1>4. Timer!TypeOK'  BY <1>2 DEF Timer!IInv, Timer!TypeOK
<1>5. \A q \in Procs : /\ pc'[q] = "ticks" => loc'[q] <= ticks
                       /\ pc'[q] = "print" => loc'[q] <= seen'[q]
  BY <1>2, <1>3 DEF Timer!IInv, Timer!NeverAhead
<1>6. QED BY <1>4, <1>5 DEF Timer!IInv, Timer!NeverAhead

LEMMA TimerNextIInv == ASSUME MaxTicks \in Nat, Timer!IInv, [Timer!Next]_Timer!vars PROVE Timer!IInv'
<1>1. CASE UNCHANGED Timer!vars
  BY <1>1 DEF Timer!vars, Timer!IInv, Timer!TypeOK, Timer!NeverAhead
<1>2. CASE Timer!TimerFn \/ Timer!WorkFn
  BY Zenon, <1>2, SourceStep DEF Timer!TimerFn, Timer!Tick, Timer!ScheduleWork, Timer!WorkFn
<1>3. CASE \E p \in Procs : Timer!TimerRead(p)  BY <1>3, TimerReadStep
<1>4. QED BY <1>1, <1>2, <1>3 DEF Timer!Next

-----------------------------------------------------------------------------
(* Wakeup: the wait queue. *)

LEMMA WaitqSafe ==
  ASSUME Waitq!IInv PROVE Waitq!Delivered
BY DEF Waitq!IInv, Waitq!Delivered, Waitq!Underway, Waitq!Pending, Waitq!TypeOK

LEMMA WaitqInitInv ==
  ASSUME MaxWrites \in Nat, Waitq!Init PROVE Waitq!IInv
<1>1. Waitq!TypeOK
  <2>1. <<0, 0>> \in (0..MaxWrites) \X (0..MaxWrites) /\ 0 \in 0..MaxWrites  OBVIOUS
  <2>2. QED BY Zenon, <2>1 DEF Waitq!Init, Waitq!TypeOK, Waitq!Item!States
<1>2. Waitq!Underway  BY DEF Waitq!Init, Waitq!Underway
<1>3. QED BY <1>1, <1>2 DEF Waitq!IInv

LEMMA WaitqWorkStep ==
  ASSUME MaxWrites \in Nat, Waitq!IInv, Waitq!WorkFn PROVE Waitq!IInv'
<1> DEFINE work == m1  input == m2  result == m3  ready == m4  waking == m5  delivered == m6
<1>1. /\ Waitq!TypeOK /\ Waitq!Underway
      /\ pc \in [Procs -> {"user", "schedule", "check", "asleep", "take", "poll", "polling"}]
      /\ ready \in BOOLEAN /\ waking \in BOOLEAN
  BY DEF Waitq!IInv, Waitq!TypeOK
<1> USE <1>1
<1>2. CASE work = "queued" /\ work' = "running"
           /\ UNCHANGED <<pc, input, result, ready, waking, delivered>>
  <2> USE <1>2
  <2>1. ~waking  BY DEF Waitq!Underway, Waitq!Item!Running
  <2>2. Waitq!Underway'  BY <2>1 DEF Waitq!Underway, Waitq!Pending
  <2>3. Waitq!TypeOK'  BY DEF Waitq!TypeOK, Waitq!Item!States
  <2>4. QED BY <2>2, <2>3 DEF Waitq!IInv
<1>3. CASE /\ work \in {"running", "requeued"} /\ result' = input /\ ready' = TRUE
           /\ waking' = TRUE /\ UNCHANGED <<pc, work, input, delivered>>
  <2>1. Waitq!Underway'  BY <1>3 DEF Waitq!Underway, Waitq!Item!Running
  <2>2. Waitq!TypeOK'  BY <1>3 DEF Waitq!TypeOK
  <2>3. QED BY <2>1, <2>2 DEF Waitq!IInv
<1>4. CASE /\ waking /\ waking' = FALSE /\ work \in {"running", "requeued"}
           /\ work' = IF work = "running" THEN "idle" ELSE "queued"
           /\ pc' = [p \in Procs |-> CASE pc[p] = "asleep" -> "check"
                                       [] pc[p] = "polling" -> "poll"
                                       [] OTHER -> pc[p]]
           /\ UNCHANGED <<input, result, ready, delivered>>
  <2> USE <1>4
  <2>1. \A p \in Procs : pc[p] = "schedule" => pc'[p] = "schedule"  OBVIOUS
  <2>2. Waitq!Pending => Waitq!Pending'  BY <2>1 DEF Waitq!Pending
  <2>3. Waitq!Underway'  BY <2>2 DEF Waitq!Underway
  <2>4. pc' \in [Procs -> {"user", "schedule", "check", "asleep", "take", "poll", "polling"}]
    OBVIOUS
  <2>5. work' \in Waitq!Item!States  BY DEF Waitq!Item!States
  <2>6. Waitq!TypeOK'  BY Zenon, <2>4, <2>5 DEF Waitq!TypeOK
  <2>7. QED BY <2>3, <2>6 DEF Waitq!IInv
<1>5. QED BY Zenon, <1>2, <1>3, <1>4 DEF Waitq!WorkFn, Waitq!Item!Start, Waitq!Item!Running,
   Waitq!Item!End

LEMMA WaitqWriteStep ==
  ASSUME MaxWrites \in Nat, Waitq!IInv, NEW p \in Procs, Waitq!WakeWrite(p) PROVE Waitq!IInv'
<1> DEFINE work == m1  input == m2  result == m3  ready == m4  waking == m5  delivered == m6
<1>1. /\ Waitq!TypeOK /\ Waitq!Underway
      /\ pc \in [Procs -> {"user", "schedule", "check", "asleep", "take", "poll", "polling"}]
      /\ ready \in BOOLEAN /\ waking \in BOOLEAN
      /\ input \in (0..MaxWrites) \X (0..MaxWrites)
  BY DEF Waitq!IInv, Waitq!TypeOK
<1> USE <1>1
<1>2. CASE /\ pc[p] = "user" /\ input[1] < MaxWrites
           /\ input' = <<input[1] + 1, input[1] + 1>> /\ ready' = FALSE
           /\ pc' = [pc EXCEPT ![p] = "schedule"]
           /\ UNCHANGED <<work, result, waking, delivered>>
  <2> USE <1>2
  <2>1. pc'[p] = "schedule"  OBVIOUS
  <2>2. Waitq!Pending'  BY <2>1 DEF Waitq!Pending
  <2>3. Waitq!Underway'  BY <2>2 DEF Waitq!Underway, Waitq!Item!Running
  <2>4. input' \in (0..MaxWrites) \X (0..MaxWrites)  OBVIOUS
  <2>5. Waitq!TypeOK'  BY Zenon, <2>4 DEF Waitq!TypeOK
  <2>6. QED BY <2>3, <2>5 DEF Waitq!IInv
<1>3. CASE /\ input[1] < MaxWrites /\ input' = <<input[1] + 1, input[2]>>
           /\ UNCHANGED <<pc, ready, work, result, waking, delivered>>
  <2>1. input'[2] = input[2] /\ input' \in (0..MaxWrites) \X (0..MaxWrites)  BY <1>3
  <2>2. Waitq!Underway' /\ Waitq!TypeOK'
    BY <1>3, <2>1 DEF Waitq!Underway, Waitq!Pending, Waitq!TypeOK, Waitq!Item!Running
  <2>3. QED BY <2>2 DEF Waitq!IInv
<1>4. CASE /\ pc[p] = "schedule" /\ Waitq!Item!Schedule /\ pc' = [pc EXCEPT ![p] = "user"]
           /\ UNCHANGED <<input, result, ready, waking, delivered>>
  <2> USE <1>4
  <2>1. work' \in {"queued", "requeued"}
    BY DEF Waitq!Item!Schedule, Waitq!TypeOK, Waitq!Item!States
  <2>2. waking => work' = "requeued"
    BY DEF Waitq!Item!Schedule, Waitq!Underway, Waitq!Item!Running
  <2>3. Waitq!Underway'  BY <2>1, <2>2 DEF Waitq!Underway, Waitq!Pending, Waitq!Item!Running
  <2>4. Waitq!TypeOK'  BY <2>1 DEF Waitq!TypeOK, Waitq!Item!States
  <2>5. QED BY <2>3, <2>4 DEF Waitq!IInv
<1>5. QED BY Zenon, <1>2, <1>3, <1>4 DEF Waitq!WakeWrite, Waitq!Goto

\* The readers do not touch what the worker has to do.
LEMMA WaitqReadStep ==
  ASSUME MaxWrites \in Nat, Waitq!IInv, NEW p \in Procs,
         Waitq!Enter(p) \/ Waitq!WakeRead(p) \/ Waitq!WakePoll(p) \/ Waitq!Interrupt(p)
  PROVE  Waitq!IInv'
<1> DEFINE work == m1  input == m2  result == m3  ready == m4  waking == m5  delivered == m6
<1>1. /\ Waitq!TypeOK /\ Waitq!Underway
      /\ pc \in [Procs -> {"user", "schedule", "check", "asleep", "take", "poll", "polling"}]
      /\ result \in (0..MaxWrites) \X (0..MaxWrites)
  BY DEF Waitq!IInv, Waitq!TypeOK
<1>2. PICK to \in {"user", "check", "asleep", "take", "poll", "polling"} :
        pc[p] # "schedule" /\ pc' = [pc EXCEPT ![p] = to]
  BY DEF Waitq!Enter, Waitq!WakeRead, Waitq!WakePoll, Waitq!Interrupt, Waitq!Goto
<1>3. UNCHANGED <<work, input, result, waking>>
  BY DEF Waitq!Enter, Waitq!WakeRead, Waitq!WakePoll, Waitq!Interrupt
<1>4. \/ UNCHANGED <<ready, delivered>>
      \/ ready' = FALSE /\ delivered' = result[2]
  BY DEF Waitq!Enter, Waitq!WakeRead, Waitq!WakePoll, Waitq!Interrupt
<1> USE <1>1, <1>3
<1>5. \A q \in Procs : pc[q] = "schedule" => pc'[q] = "schedule"  BY <1>2
<1>6. Waitq!Pending => Waitq!Pending'  BY <1>5 DEF Waitq!Pending
<1>7. Waitq!Underway'  BY <1>4, <1>6 DEF Waitq!Underway, Waitq!Item!Running
<1>8. Waitq!TypeOK'
  <2>1. result[2] \in 0..MaxWrites  OBVIOUS
  <2>2. pc' \in [Procs -> {"user", "schedule", "check", "asleep", "take", "poll", "polling"}]
    BY <1>2
  <2>3. QED BY Zenon, <1>4, <2>1, <2>2 DEF Waitq!TypeOK
<1>9. QED BY <1>7, <1>8 DEF Waitq!IInv

LEMMA WaitqNextIInv ==
  ASSUME MaxWrites \in Nat, Waitq!IInv, [Waitq!Next]_Waitq!vars PROVE Waitq!IInv'
<1>1. CASE UNCHANGED Waitq!vars
  BY <1>1 DEF Waitq!vars, Waitq!IInv, Waitq!TypeOK, Waitq!Underway, Waitq!Pending,
     Waitq!Item!Running
<1>2. QED BY <1>1, WaitqWorkStep, WaitqWriteStep, WaitqReadStep DEF Waitq!Next

-----------------------------------------------------------------------------
(* BufferDevice: the buffer of the character devices. *)

\* Whose new buffers are not yet the device's, and what the device holds.
Makers == {q \in Procs : pc[q] \in {"lock", "swap"}}
Fresh == {loc[p] : p \in Makers}
InUse == IF \A p \in Procs : pc[p] = "gone" THEN {} ELSE {m2} \ {Nil}
Apart == \A p, q \in Makers : loc[p] = loc[q] => p = q
Mode == IF m1 = "k4/02" THEN Buf!SwapOnly ELSE Buf!InPlaceOnly
BufSizes == CAP \in Nat \ {0} /\ 0 \notin Texts /\ Nil \notin Nodes /\ Nil \notin Procs
BufLabels == {"user", "first", "rest", "lock", "swap", "read", "return", "gone"}

LEMMA BufFacts ==
  ASSUME Buf!IInv
  PROVE  /\ Buf!TypeOK /\ Buf!Locked /\ Buf!Loaded /\ Buf!Shown /\ Buf!Copied /\ Buf!OneText /\ Mode
         /\ heap = InUse \cup Fresh /\ m2 \notin Fresh /\ Apart
<1> DEFINE cur == m2
<1>1. heap = InUse \cup Fresh /\ cur \notin Fresh
  BY DEF Buf!IInv, Buf!MemorySafe, InUse, Fresh, Makers
<1>2. Apart  BY DEF Buf!IInv, Buf!MemorySafe, Apart, Fresh, Makers
<1>3. QED BY <1>1, <1>2 DEF Buf!IInv, Mode

LEMMA BufAgain ==
  ASSUME Nil \notin Nodes, Buf!TypeOK', Buf!Locked', Buf!Loaded', Buf!Shown', Buf!Copied', Buf!OneText', Mode',
         heap' = InUse' \cup Fresh', m2' \notin Fresh', Apart'
  PROVE  Buf!IInv'
<1> DEFINE exercise == m1
<1>1. ASSUME NEW p \in Procs, NEW q \in Procs, loc'[p] = loc'[q], loc'[p] \in Fresh'
      PROVE  p = q
  <2> USE <1>1
  <2>1. CASE exercise' = "k4/02"
    <3>1. \A r \in Procs : r \in Makers' \/ loc'[r] = Nil  BY <2>1 DEF Mode, Buf!SwapOnly, Makers
    <3>2. \A r \in Makers' : loc'[r] \in Nodes  BY <2>1 DEF Mode, Buf!SwapOnly, Makers
    <3>3. loc'[p] \in Nodes  BY <3>2 DEF Fresh
    <3>4. QED BY <3>1, <3>3 DEF Apart
  <2>2. CASE exercise' # "k4/02"
    <3>1. Makers' = {}  BY <2>2 DEF Mode, Buf!InPlaceOnly, Makers
    <3>2. QED BY <3>1 DEF Fresh
  <2>3. QED BY <2>1, <2>2
<1>2. Buf!MemorySafe'  BY <1>1 DEF Buf!MemorySafe, InUse, Fresh, Makers
<1>3. QED BY <1>2 DEF Buf!IInv, Mode

\* The caller p goes on, the others stay where they are.
BufAlone(p, from, to) == /\ pc[p] = from /\ pc' = [pc EXCEPT ![p] = to]
                         /\ from # "gone" /\ to # "gone" /\ to \in BufLabels
LEMMA BufMoves ==
  ASSUME Buf!IInv, NEW p \in Procs, NEW from, NEW to, BufAlone(p, from, to)
  PROVE  /\ pc' \in [Procs -> BufLabels] /\ pc'[p] = to /\ \A q \in Procs \ {p} : pc'[q] = pc[q]
         /\ \A q \in Procs : pc[q] # "gone" /\ pc'[q] # "gone"
         /\ Buf!Loaded' /\ InUse = {m2} \ {Nil} /\ InUse' = {m2'} \ {Nil}
<1>1. pc \in [Procs -> BufLabels]  BY BufFacts DEF Buf!TypeOK, BufLabels
<1>2. pc' \in [Procs -> BufLabels] /\ pc'[p] = to /\ \A q \in Procs \ {p} : pc'[q] = pc[q]
  BY <1>1 DEF BufAlone
<1>3. \A q \in Procs : pc[q] # "gone"  BY BufFacts DEF Buf!Loaded, BufAlone
<1>4. \A q \in Procs : pc'[q] # "gone"  BY <1>2, <1>3 DEF BufAlone
<1>5. QED BY <1>2, <1>3, <1>4 DEF Buf!Loaded, InUse

\* Taking the mutex.
LEMMA BufAcquireStep ==
  ASSUME BufSizes, Buf!IInv, NEW p \in Procs, NEW from \in {"user", "lock"}, NEW to,
         Buf!Acquire(p, from, to),
         \/ from = "user" /\ to = "read" /\ UNCHANGED loc
         \/ from = "lock" /\ to = "swap" /\ UNCHANGED loc
         \/ /\ from = "user" /\ to = "first" /\ m1 # "k4/02"
            /\ \E v \in Texts : loc' = [loc EXCEPT ![p] = v]
  PROVE  Buf!IInv'
<1> DEFINE exercise == m1  cur == m2  content == m3  len == m4  got == m5  pos == m6  faulted == m7
<1>1. /\ BufAlone(p, from, to) /\ lock = Nil /\ lock' = p
      /\ UNCHANGED <<exercise, heap, cur, content, len, faulted, got, pos>>
  BY DEF Buf!Acquire, Buf!Goto, Buf!device, Buf!reader, BufAlone, BufLabels
<1> USE <1>1
<1>2. /\ pc' \in [Procs -> BufLabels] /\ pc'[p] = to /\ \A q \in Procs \ {p} : pc'[q] = pc[q]
      /\ Buf!Loaded' /\ InUse' = InUse
  BY BufMoves
<1>3. pc[p] = from  BY DEF BufAlone
<1> USE <1>2
<1>4. Buf!TypeOK'  BY Zenon, BufFacts DEF Buf!TypeOK, BufLabels
<1>5. Buf!Locked'
  <2>1. \A q \in Procs : pc[q] \notin {"first", "rest", "swap", "read"}
    BY BufFacts DEF Buf!Locked, BufSizes
  <2>2. QED BY <2>1 DEF Buf!Locked
<1>6. Buf!Shown'  BY BufFacts DEF Buf!Shown
<1>7. Buf!Copied' /\ Buf!OneText'
  <2>1. pc[p] \in {"user", "lock"} /\ got[p] = <<>> /\ got'[p] = <<>> /\ Len(got[p]) = 0
    BY <1>3, BufFacts DEF Buf!Copied
  <2>2. Buf!Copied'  BY <2>1, BufFacts DEF Buf!Copied
  <2>3. Buf!OneText'  BY <2>1, BufFacts DEF Buf!OneText
  <2>4. QED BY <2>2, <2>3
<1>8. /\ Makers' = Makers /\ \A q \in Makers : loc'[q] = loc[q]
  <2>1. \A q \in Procs : q # p => loc'[q] = loc[q]  BY BufFacts DEF Buf!TypeOK
  <2>2. QED BY <1>3, <2>1 DEF Makers
<1>9. Fresh' = Fresh /\ Apart'  BY <1>8, BufFacts DEF Fresh, Apart
<1>10. Mode'
  <2>1. CASE exercise = "k4/02"  BY <1>3, <2>1, BufFacts DEF Mode, Buf!SwapOnly
  <2>2. CASE exercise # "k4/02"
    <3>1. \A q \in Procs \ {p} : loc'[q] = loc[q]  BY BufFacts DEF Buf!TypeOK
    <3>2. Buf!InPlaceOnly /\ pc[p] = "user" /\ to # "rest" /\ to # "swap" /\ to # "lock"
      BY <1>3, <2>2, BufFacts DEF Mode, Buf!InPlaceOnly
    <3>3. to = "first" => loc'[p] \in Texts  BY BufFacts DEF Buf!TypeOK
    <3>4. QED BY <2>2, <3>1, <3>2, <3>3 DEF Mode, Buf!InPlaceOnly
  <2>3. QED BY <2>1, <2>2
<1>11. QED BY <1>4, <1>5, <1>6, <1>7, <1>9, <1>10, BufFacts, BufAgain DEF BufSizes

\* Writing into the fixed buffer.
LEMMA InPlaceStep ==
  ASSUME BufSizes, Buf!IInv, NEW p \in Procs, m1 # "k4/02", Buf!InPlace(p)
  PROVE  Buf!IInv'
<1> DEFINE exercise == m1  cur == m2  content == m3  len == m4  got == m5  pos == m6  faulted == m7
<1>1. CASE pc[p] = "user"  BY <1>1, BufAcquireStep DEF Buf!InPlace
<1>2. CASE pc[p] \in {"first", "rest"}
  <2>0. CAP \in Nat /\ CAP >= 1  BY DEF BufSizes
  <2>1. /\ lock = p /\ loc[p] \in Texts /\ cur \in Nodes /\ Len(content[cur]) = CAP
        /\ content[cur] \in Seq(Texts \cup {0}) /\ len \in 0..CAP
        /\ content \in [Nodes -> Seq(Texts \cup {0})]
    BY <1>2, BufFacts DEF Buf!Locked, Mode, Buf!InPlaceOnly, Buf!TypeOK
  <2>2. BufAlone(p, pc[p], IF pc[p] = "first" THEN "rest" ELSE "user")
    BY <1>2 DEF Buf!InPlace, Buf!Acquire, Buf!Goto, BufAlone, BufLabels
  <2>3. /\ pc' \in [Procs -> BufLabels] /\ pc'[p] = (IF pc[p] = "first" THEN "rest" ELSE "user")
        /\ \A q \in Procs \ {p} : pc'[q] = pc[q]
        /\ Buf!Loaded' /\ InUse = {cur} \ {Nil} /\ InUse' = {cur'} \ {Nil}
    BY <2>2, BufMoves
  <2>4. UNCHANGED <<exercise, heap, cur, got, pos>>
    BY <1>2 DEF Buf!InPlace, Buf!Acquire, Buf!reader
  <2> USE <2>1
  <2>5. \A q \in Procs \ {p} : pc[q] \notin {"first", "rest", "swap", "read"}
    BY BufFacts DEF Buf!Locked
  <2>6. got[p] = <<>> /\ Len(got[p]) = 0  BY <1>2, BufFacts DEF Buf!Copied
  <2>7. Makers = {} /\ Makers' = {} /\ Fresh = {} /\ Fresh' = {} /\ Apart'
    <3>1. \A q \in Procs : pc[q] \notin {"lock", "swap"} /\ pc'[q] \notin {"lock", "swap"}
      BY <2>3, BufFacts DEF Mode, Buf!InPlaceOnly
    <3>2. QED BY <3>1 DEF Makers, Fresh, Apart
  <2>8. Buf!Copied' /\ Buf!OneText'
    <3>1. pc'[p] # "read" /\ \A q \in Procs : pc'[q] # "read"  BY <2>3, <2>5
    <3>2. Buf!Copied'  BY <2>3, <2>4, <2>6, <3>1, BufFacts DEF Buf!Copied
    <3>3. Buf!OneText'  BY <2>4, <3>1, BufFacts DEF Buf!OneText
    <3>4. QED BY <3>2, <3>3
  <2>9. /\ content' \in [Nodes -> Seq(Texts \cup {0})] /\ Len(content'[cur]) = CAP
        /\ \A i \in 1..CAP : content[cur][i] # 0 => content'[cur][i] # 0
        /\ loc' \in [Procs -> Texts \cup Nodes \cup {Nil}]
        /\ \A q \in Procs \ {p} : loc'[q] = loc[q]
        /\ \/ pc[p] = "first" /\ lock' = lock /\ loc' = loc /\ len' = len /\ faulted' = TRUE
           \/ /\ pc[p] = "rest" /\ lock' = Nil
              /\ \/ len' = len /\ faulted' = faulted
                 \/ /\ faulted' = FALSE /\ len' \in 1..CAP
                    /\ \A i \in 1..len' : content'[cur][i] = loc[p]
    <3>0. loc \in [Procs -> Texts \cup Nodes \cup {Nil}]  BY BufFacts DEF Buf!TypeOK
    <3>1. CASE pc[p] = "first"
      <4> DEFINE s == [content[cur] EXCEPT ![1] = loc[p]]
      <4>1. /\ content' = [content EXCEPT ![cur] = s] /\ faulted' = TRUE
            /\ UNCHANGED <<loc, lock, len>>
        BY <3>1 DEF Buf!InPlace, Buf!Acquire
      <4>2. /\ s \in Seq(Texts \cup {0}) /\ Len(s) = CAP
            /\ \A i \in 1..CAP : s[i] = IF i = 1 THEN loc[p] ELSE content[cur][i]
        BY <2>0
      <4> USE <4>2
      <4>3. content'[cur] = s /\ content' \in [Nodes -> Seq(Texts \cup {0})]  BY <4>1
      <4>4. \A i \in 1..CAP : content[cur][i] # 0 => s[i] # 0  BY DEF BufSizes
      <4>5. QED BY <3>0, <3>1, <4>1, <4>3, <4>4
    <3>2. CASE pc[p] = "rest"
      <4> USE <3>2
      <4>1. PICK n \in 1..CAP :
              /\ content' = [content EXCEPT ![cur] =
                               [i \in 1..CAP |-> IF i <= n THEN loc[p] ELSE @[i]]]
              /\ \/ len' = n /\ faulted' = FALSE
                 \/ n < CAP /\ UNCHANGED <<len, faulted>>
        BY DEF Buf!InPlace, Buf!Acquire
      <4> DEFINE s == [i \in 1..CAP |-> IF i <= n THEN loc[p] ELSE content[cur][i]]
      <4>2. /\ s \in Seq(Texts \cup {0}) /\ Len(s) = CAP
            /\ \A i \in 1..CAP : s[i] = IF i <= n THEN loc[p] ELSE content[cur][i]
        BY <2>0
      <4> USE <4>2
      <4>3. content'[cur] = s /\ content' \in [Nodes -> Seq(Texts \cup {0})]
        <5>1. content' = [content EXCEPT ![cur] = s]  BY <4>1
        <5>2. QED BY <5>1
      <4> HIDE DEF s
      <4>4. \A i \in 1..CAP : content[cur][i] # 0 => s[i] # 0  BY DEF BufSizes
      <4>5. \A i \in 1..n : s[i] = loc[p]  BY <2>0
      <4>6. lock' = Nil /\ loc' = [loc EXCEPT ![p] = Nil]  BY DEF Buf!InPlace, Buf!Acquire
      <4>7. loc' \in [Procs -> Texts \cup Nodes \cup {Nil}] /\ \A q \in Procs \ {p} : loc'[q] = loc[q]
        BY <3>0, <4>6
      <4>8. QED BY <4>1, <4>3, <4>4, <4>5, <4>6, <4>7
    <3>3. QED BY Zenon, <1>2, <3>1, <3>2
  <2> USE <2>9
  <2>10. Buf!TypeOK'
    <3>1. lock' \in Procs \cup {Nil} /\ len' \in 0..CAP /\ faulted' \in BOOLEAN
      <4>1. faulted \in BOOLEAN /\ lock \in Procs \cup {Nil} /\ \A i \in 1..CAP : i \in 0..CAP
        BY <2>0, BufFacts DEF Buf!TypeOK
      <4>2. len' \in 0..CAP  BY <4>1
      <4>3. lock' \in Procs \cup {Nil} /\ faulted' \in BOOLEAN  BY Zenon, <4>1
      <4>4. QED BY <4>2, <4>3
    <3>2. QED BY <2>3, <2>4, <3>1, BufFacts DEF Buf!TypeOK, BufLabels
  <2>11. Buf!Locked'  BY <1>2, <2>3, <2>5 DEF Buf!Locked, BufSizes
  <2>12. Buf!Shown'
    <3>0. cur # Nil /\ 1 \in 1..CAP  BY <2>0 DEF BufSizes
    <3>1. CASE len' = len /\ faulted' = TRUE
      <4>1. \A i \in 1..len : i \in 1..CAP /\ content[cur][i] # 0  BY <2>0, BufFacts DEF Buf!Shown
      <4>2. QED BY <2>0, <2>4, <3>0, <3>1, <4>1 DEF Buf!Shown
    <3>2. CASE faulted' = FALSE /\ len' \in 1..CAP /\ \A i \in 1..len' : content'[cur][i] = loc[p]
      <4>1. 1 \in 1..len' /\ loc[p] # 0 /\ len' <= CAP  BY <2>0, <3>2 DEF BufSizes
      <4>2. QED BY <2>4, <3>0, <3>2, <4>1 DEF Buf!Shown
    <3>3. pc[p] = "rest" => faulted = TRUE  BY BufFacts DEF Mode, Buf!InPlaceOnly, Buf!TypeOK
    <3>4. QED BY Zenon, <3>1, <3>2, <3>3
  <2>13. Mode'
    <3>1. Buf!InPlaceOnly  BY BufFacts DEF Mode
    <3>2. \A q \in Procs : /\ pc'[q] \notin {"lock", "swap"}
                           /\ pc'[q] \in {"first", "rest"} => q = p
      BY <2>3, <2>5, <3>1 DEF Buf!InPlaceOnly
    <3>3. pc'[p] \in {"first", "rest"} => loc'[p] \in Texts /\ faulted'  BY <2>3
    <3>4. QED BY <2>4, <3>2, <3>3 DEF Mode, Buf!InPlaceOnly
  <2>14. QED BY <2>3, <2>4, <2>7, <2>8, <2>10, <2>11, <2>12, <2>13, BufFacts, BufAgain DEF BufSizes
<1>3. QED BY <1>1, <1>2 DEF Buf!InPlace, Buf!Acquire

\* Making a new buffer and swapping it in.
LEMMA MakeStep ==
  ASSUME BufSizes, Buf!IInv, NEW p \in Procs, m1 = "k4/02", pc[p] = "user",
         NEW n \in Nodes \ heap, NEW v \in Texts, NEW k \in 1..CAP,
         heap' = heap \cup {n}, m3' = [m3 EXCEPT ![n] = [i \in 1..k |-> v]],
         loc' = [loc EXCEPT ![p] = n], pc' = [pc EXCEPT ![p] = "lock"],
         UNCHANGED <<m1, lock, m2, m4, m7, m5, m6>>
  PROVE  Buf!IInv'
<1> DEFINE cur == m2  content == m3  len == m4  got == m5  pos == m6
<1> DEFINE s == [i \in 1..k |-> v]
<1>1. k \in Nat /\ k >= 1 /\ k <= CAP /\ CAP \in Nat  BY DEF BufSizes
<1>2. s \in Seq(Texts \cup {0}) /\ Len(s) = k /\ \A i \in 1..k : s[i] = v  BY <1>1
<1>3. Buf!OneBy(s) /\ v # 0
  <2>1. 1 \in 1..k /\ v # 0  BY <1>1 DEF BufSizes
  <2>2. QED BY <1>1, <1>2, <2>1 DEF Buf!OneBy
<1> HIDE DEF s
<1>4. /\ content \in [Nodes -> Seq(Texts \cup {0})] /\ cur \in Nodes \cup {Nil}
      /\ loc \in [Procs -> Texts \cup Nodes \cup {Nil}] /\ heap \subseteq Nodes
  BY BufFacts DEF Buf!TypeOK
<1>5. /\ content' \in [Nodes -> Seq(Texts \cup {0})] /\ content'[n] = s
      /\ \A m \in Nodes \ {n} : content'[m] = content[m]
  BY <1>2, <1>4 DEF s
<1>6. /\ loc' \in [Procs -> Texts \cup Nodes \cup {Nil}] /\ loc'[p] = n
      /\ \A q \in Procs \ {p} : loc'[q] = loc[q]
  BY <1>4
<1>7. BufAlone(p, "user", "lock")  BY DEF BufAlone, BufLabels
<1>8. /\ pc' \in [Procs -> BufLabels] /\ pc'[p] = "lock" /\ \A q \in Procs \ {p} : pc'[q] = pc[q]
      /\ Buf!Loaded' /\ InUse = {cur} \ {Nil} /\ InUse' = {cur} \ {Nil}
  BY <1>7, BufMoves
<1> USE <1>8
<1>9. Makers' = Makers \cup {p} /\ p \notin Makers /\ Makers \subseteq Procs  BY DEF Makers
<1>10. n # cur /\ n # Nil /\ n \notin Fresh  BY BufFacts DEF BufSizes
<1>11. \A q \in Makers : loc'[q] = loc[q] /\ loc[q] \in Fresh  BY <1>6, <1>9 DEF Fresh
<1>12. Fresh' = Fresh \cup {n}
  <2>1. Fresh' = {loc'[q] : q \in Makers \cup {p}}  BY <1>9 DEF Fresh
  <2>2. Fresh = {loc[q] : q \in Makers}  BY DEF Fresh
  <2>3. QED BY <1>6, <1>11, <2>1, <2>2
<1>13. Apart'  BY <1>6, <1>9, <1>10, <1>11, BufFacts DEF Apart
<1>14. heap' = InUse' \cup Fresh' /\ cur' \notin Fresh'  BY <1>10, <1>12, BufFacts
<1>15. Buf!TypeOK'  BY Zenon, <1>4, <1>5, <1>6, BufFacts DEF Buf!TypeOK, BufLabels
<1>16. Buf!Locked'  BY BufFacts DEF Buf!Locked
<1>17. cur # Nil => content'[cur] = content[cur]  BY <1>4, <1>5, <1>10
<1>18. Buf!Shown' /\ Buf!Copied'
  <2>1. len > 0 => cur # Nil  BY BufFacts DEF Buf!Shown
  <2>2. len \in Nat  BY BufFacts, <1>1 DEF Buf!TypeOK
  <2>3. Buf!Shown'
    <3>1. CASE len = 0  BY <3>1 DEF Buf!Shown
    <3>2. CASE len > 0  BY <1>17, <2>1, <3>2, BufFacts DEF Buf!Shown
    <3>3. QED BY <2>2, <3>1, <3>2
  <2>4. ASSUME NEW q \in Procs, pc'[q] = "read"
        PROVE  \A i \in 1..Len(got[q]) : got[q][i] = content'[cur][pos[q] + i]
    <3>1. /\ pc[q] = "read" /\ got[q] \in Seq(Texts \cup {0}) /\ pos[q] \in 0..CAP
          /\ got[q] # <<>> => pos[q] + Len(got[q]) <= len
          /\ \A i \in 1..Len(got[q]) : got[q][i] = content[cur][pos[q] + i]
      BY Zenon, <2>4, BufFacts DEF Buf!Copied, Buf!TypeOK
    <3>2. CASE got[q] = <<>>  BY <3>2
    <3> USE <3>1
    <3>3. CASE got[q] # <<>>
      <4>1. Len(got[q]) > 0 /\ Len(got[q]) \in Nat /\ pos[q] \in Nat  BY <3>3
      <4>2. len > 0  BY <2>2, <3>3, <4>1
      <4>3. QED BY Zenon, <1>17, <2>1, <4>2
    <3>4. QED BY <3>2, <3>3
  <2>5. Buf!Copied'  BY <2>4, BufFacts DEF Buf!Copied
  <2>6. QED BY <2>3, <2>5
<1>19. Buf!OneText'  BY BufFacts DEF Buf!OneText
<1>20. Mode'
  <2>1. SUFFICES ASSUME NEW q \in Procs
                 PROVE  /\ pc'[q] \notin {"first", "rest"}
                        /\ IF pc'[q] \in {"lock", "swap"}
                           THEN loc'[q] \in Nodes /\ Buf!OneBy(content'[loc'[q]])
                           ELSE loc'[q] = Nil
    BY DEF Mode, Buf!SwapOnly, Buf!OneBy
  <2>2. CASE q = p  BY <1>3, <1>5, <1>6, <2>2
  <2>3. CASE q # p
    <3>1. /\ pc[q] \notin {"first", "rest"}
          /\ IF pc[q] \in {"lock", "swap"} THEN loc[q] \in Nodes /\ Buf!OneBy(content[loc[q]])
                                           ELSE loc[q] = Nil
      BY BufFacts DEF Mode, Buf!SwapOnly
    <3>2. pc[q] \in {"lock", "swap"} => loc[q] # n  BY <1>10, <1>11 DEF Makers
    <3>3. QED BY <1>5, <1>6, <2>3, <3>1, <3>2
  <2>4. QED BY <2>2, <2>3
<1>21. QED BY <1>13, <1>14, <1>15, <1>16, <1>18, <1>19, <1>20, BufAgain DEF BufSizes

LEMMA SwapStep ==
  ASSUME BufSizes, Buf!IInv, NEW p \in Procs, m1 = "k4/02", pc[p] = "swap",
         heap' = heap \ {m2},
         m3' = [n \in Nodes |-> IF n = m2 THEN Buf!Zeroed ELSE m3[n]],
         m2' = loc[p], m4' = Len(m3[loc[p]]), lock' = Nil,
         loc' = [loc EXCEPT ![p] = Nil], pc' = [pc EXCEPT ![p] = "user"],
         UNCHANGED <<m1, m7, m5, m6>>
  PROVE  Buf!IInv'
<1> DEFINE cur == m2  content == m3  got == m5
<1> DEFINE n == loc[p]
           s == content[n]
<1>1. /\ content \in [Nodes -> Seq(Texts \cup {0})] /\ cur \in Nodes \cup {Nil}
      /\ loc \in [Procs -> Texts \cup Nodes \cup {Nil}] /\ heap \subseteq Nodes
      /\ n \in Nodes /\ Buf!OneBy(s) /\ s \in Seq(Texts \cup {0}) /\ Len(s) \in Nat
  BY BufFacts DEF Buf!TypeOK, Mode, Buf!SwapOnly
<1>2. BufAlone(p, "swap", "user")  BY DEF BufAlone, BufLabels
<1>3. /\ pc' \in [Procs -> BufLabels] /\ pc'[p] = "user" /\ \A q \in Procs \ {p} : pc'[q] = pc[q]
      /\ Buf!Loaded' /\ InUse = {cur} \ {Nil} /\ InUse' = {n} \ {Nil}
  BY <1>2, BufMoves
<1> USE <1>3
<1>4. Makers' = Makers \ {p} /\ p \in Makers /\ Makers \subseteq Procs  BY DEF Makers
<1>5. /\ loc' \in [Procs -> Texts \cup Nodes \cup {Nil}] /\ loc'[p] = Nil
      /\ \A q \in Procs \ {p} : loc'[q] = loc[q]
  BY <1>1
<1>6. n \in Fresh /\ n # cur /\ n # Nil /\ Fresh \subseteq Nodes
  <2>1. n \in Fresh  BY <1>4 DEF Fresh
  <2>2. \A q \in Makers : loc[q] \in Nodes  BY BufFacts DEF Mode, Buf!SwapOnly, Makers
  <2>3. Fresh \subseteq Nodes  BY <2>2 DEF Fresh
  <2>4. QED BY <1>1, <2>1, <2>3, BufFacts DEF BufSizes
<1>7. \A q \in Makers \ {p} : loc'[q] = loc[q] /\ loc[q] # n  BY <1>4, <1>5, BufFacts DEF Apart
<1>8. Fresh' = Fresh \ {n}
  <2>1. Fresh' = {loc'[q] : q \in Makers \ {p}}  BY <1>4 DEF Fresh
  <2>2. Fresh = {loc[q] : q \in Makers}  BY DEF Fresh
  <2>3. QED BY <1>4, <1>7, <2>1, <2>2
<1>9. Apart'  BY <1>4, <1>7, BufFacts DEF Apart
<1>10. heap' = InUse' \cup Fresh' /\ cur' \notin Fresh'
  <2>1. heap = ({cur} \ {Nil}) \cup Fresh /\ cur \notin Fresh  BY BufFacts
  <2>2. QED BY <1>6, <1>8, <2>1 DEF BufSizes
<1>11. \A m \in Nodes \ {cur} : content'[m] = content[m]  OBVIOUS
<1>12. content' \in [Nodes -> Seq(Texts \cup {0})]
  <2>1. Buf!Zeroed \in Seq(Texts \cup {0})  BY DEF Buf!Zeroed, BufSizes
  <2>2. QED BY <1>1, <2>1
<1>13. Len(s) \in 0..CAP /\ Len(s) <= CAP  BY <1>1 DEF Buf!OneBy, BufSizes
<1>14. Buf!TypeOK'  BY Zenon, <1>1, <1>5, <1>12, <1>13, BufFacts DEF Buf!TypeOK, BufLabels
<1>15. lock = p /\ \A q \in Procs \ {p} : pc[q] \notin {"first", "rest", "swap", "read"}
  BY BufFacts DEF Buf!Locked
<1>16. Buf!Locked'  BY <1>15 DEF Buf!Locked, BufSizes
<1>17. content'[n] = s  BY <1>1, <1>6, <1>11
<1>18. Buf!Shown'
  <2>1. \A i \in 1..Len(s) : s[i] # 0 /\ s[i] = s[1]  BY <1>1 DEF Buf!OneBy
  <2>2. QED BY <1>1, <1>6, <1>17, <2>1 DEF Buf!Shown
<1>19. \A q \in Procs : pc'[q] # "read"  BY <1>15
<1>20. Buf!Copied'
  <2>1. got[p] = <<>>  BY BufFacts DEF Buf!Copied
  <2>2. QED BY <1>19, <2>1, BufFacts DEF Buf!Copied
<1>21. Buf!OneText'  BY <1>19, BufFacts DEF Buf!OneText
<1>22. Mode'
  <2>1. SUFFICES ASSUME NEW q \in Procs
                 PROVE  /\ pc'[q] \notin {"first", "rest"}
                        /\ IF pc'[q] \in {"lock", "swap"}
                           THEN loc'[q] \in Nodes /\ Buf!OneBy(content'[loc'[q]])
                           ELSE loc'[q] = Nil
    BY DEF Mode, Buf!SwapOnly, Buf!OneBy
  <2>2. CASE q = p  BY <1>5, <2>2
  <2>3. CASE q # p
    <3>1. /\ pc[q] \notin {"first", "rest"}
          /\ IF pc[q] \in {"lock", "swap"} THEN loc[q] \in Nodes /\ Buf!OneBy(content[loc[q]])
                                           ELSE loc[q] = Nil
      BY BufFacts DEF Mode, Buf!SwapOnly
    <3>2. pc[q] \in {"lock", "swap"} => loc[q] # cur  BY BufFacts DEF Makers, Fresh
    <3>3. QED BY <1>5, <1>11, <2>3, <3>1, <3>2
  <2>4. QED BY <2>2, <2>3
<1>23. QED BY <1>9, <1>10, <1>14, <1>16, <1>18, <1>20, <1>21, <1>22, BufAgain DEF BufSizes

LEMMA KvStep ==
  ASSUME BufSizes, Buf!IInv, NEW p \in Procs, Buf!KvWrite(p) PROVE Buf!IInv'
<1> DEFINE exercise == m1
<1>1. exercise = "k4/02"  BY DEF Buf!KvWrite
<1>2. CASE Buf!Acquire(p, "lock", "swap") /\ UNCHANGED loc  BY <1>2, BufAcquireStep
<1>3. CASE pc[p] = "user" /\ ~Buf!Acquire(p, "lock", "swap")
  BY <1>1, <1>3, MakeStep DEF Buf!KvWrite, Buf!Goto, Buf!reader
<1>4. CASE pc[p] = "swap" /\ ~Buf!Acquire(p, "lock", "swap")
  BY <1>1, <1>4, SwapStep DEF Buf!KvWrite, Buf!Goto, Buf!reader
<1>5. QED BY <1>2, <1>3, <1>4 DEF Buf!KvWrite, Buf!Acquire

\* A reader's own steps.
LEMMA CopyStep ==
  ASSUME BufSizes, Buf!IInv, NEW p \in Procs, Buf!CopyOut(p) PROVE Buf!IInv'
<1> DEFINE exercise == m1  cur == m2  content == m3  len == m4  got == m5  pos == m6  faulted == m7
<1>1. CASE Buf!Acquire(p, "user", "read") /\ UNCHANGED loc  BY <1>1, BufAcquireStep
<1>2. CASE /\ ~Buf!Acquire(p, "user", "read") /\ pc[p] \in {"read", "return"}
  <2>1. /\ UNCHANGED <<exercise, loc, heap, cur, content, len, faulted>>
        /\ got' \in [Procs -> Seq(Texts \cup {0})] /\ pos' \in [Procs -> 0..CAP]
        /\ \A q \in Procs \ {p} : got'[q] = got[q] /\ pos'[q] = pos[q]
        /\ \/ pc[p] = "read" /\ pc' = pc /\ lock' = lock /\ pos' = pos
              /\ pos[p] + Len(got[p]) < len
              /\ got'[p] = Append(got[p], content[cur][pos[p] + Len(got[p]) + 1])
           \/ pc[p] = "read" /\ BufAlone(p, "read", "return") /\ lock' = Nil /\ got' = got /\ pos' = pos
           \/ pc[p] = "return" /\ BufAlone(p, "return", "user") /\ lock' = lock /\ got'[p] = <<>>
    <3>1. /\ got \in [Procs -> Seq(Texts \cup {0})] /\ pos \in [Procs -> 0..CAP]
          /\ pos[p] + Len(got[p]) <= CAP /\ CAP \in Nat
      BY BufFacts DEF Buf!TypeOK, Buf!Copied, BufSizes
    <3>2. CASE /\ pc[p] = "read" /\ pos[p] + Len(got[p]) < len
               /\ got' = [got EXCEPT ![p] = Append(@, content[cur][pos[p] + Len(@) + 1])]
               /\ UNCHANGED <<exercise, pc, loc, lock, heap, Buf!device, pos>>
      <4>1. /\ cur \in Nodes /\ len <= Len(content[cur]) /\ content[cur] \in Seq(Texts \cup {0})
            /\ len \in Nat
        <5>1. len \in Nat /\ len > 0  BY <3>1, <3>2, BufFacts DEF Buf!TypeOK
        <5>2. QED BY <5>1, BufFacts DEF Buf!Shown, Buf!TypeOK
      <4>2. pos[p] + Len(got[p]) + 1 \in 1..Len(content[cur])  BY <3>1, <3>2, <4>1
      <4>3. content[cur][pos[p] + Len(got[p]) + 1] \in Texts \cup {0}  BY <4>1, <4>2
      <4>4. Append(got[p], content[cur][pos[p] + Len(got[p]) + 1]) \in Seq(Texts \cup {0})
        BY <3>1, <4>3
      <4>5. QED BY <3>1, <3>2, <4>4 DEF Buf!device
    <3>3. CASE /\ pc[p] = "read" /\ lock' = Nil /\ Buf!Goto(p, "return")
               /\ UNCHANGED <<exercise, loc, heap, Buf!device, Buf!reader>>
      BY <3>1, <3>3 DEF Buf!Goto, Buf!device, Buf!reader, BufAlone, BufLabels
    <3>4. CASE /\ pc[p] = "return"
               /\ \/ pos' = [pos EXCEPT ![p] = @ + Len(got[p])]
                  \/ pos' = [pos EXCEPT ![p] = 0]
                  \/ UNCHANGED pos
               /\ got' = [got EXCEPT ![p] = <<>>]
               /\ Buf!Goto(p, "user")
               /\ UNCHANGED <<exercise, loc, lock, heap, Buf!device>>
      <4>1. pos[p] + Len(got[p]) \in 0..CAP /\ 0 \in 0..CAP  BY <3>1
      <4>2. pos' \in [Procs -> 0..CAP] /\ \A q \in Procs \ {p} : pos'[q] = pos[q]
        BY Zenon, <3>1, <3>4, <4>1
      <4>3. got' \in [Procs -> Seq(Texts \cup {0})] /\ got'[p] = <<>>
            /\ \A q \in Procs \ {p} : got'[q] = got[q]
        BY <3>1, <3>4
      <4>4. QED BY <3>4, <4>2, <4>3 DEF Buf!Goto, Buf!device, BufAlone, BufLabels
    <3>5. QED BY Zenon, <1>2, <3>2, <3>3, <3>4 DEF Buf!CopyOut, Buf!Acquire
  <2>2. /\ pc' \in [Procs -> BufLabels] /\ \A q \in Procs \ {p} : pc'[q] = pc[q]
        /\ pc'[p] \in {"read", "return", "user"} /\ Buf!Loaded' /\ InUse' = InUse
    <3>1. CASE pc' = pc
      BY <1>2, <2>1, <3>1, BufFacts DEF Buf!TypeOK, BufLabels, Buf!Loaded, InUse
    <3>2. CASE pc' # pc  BY Zenon, <2>1, <3>2, BufMoves
    <3>3. QED BY <3>1, <3>2
  <2>3. Buf!TypeOK'  BY Zenon, <2>1, <2>2, BufFacts DEF Buf!TypeOK, BufLabels
  <2>4. Buf!Locked'
    <3>1. \A q \in Procs : pc[q] \in {"first", "rest", "swap", "read"} <=> lock = q
      BY BufFacts DEF Buf!Locked
    <3>2. CASE pc' = pc /\ lock' = lock  BY <3>1, <3>2 DEF Buf!Locked
    <3>3. CASE BufAlone(p, "read", "return") /\ lock' = Nil
      <4>1. pc'[p] = "return"  BY <3>3, BufMoves
      <4>2. QED BY <2>2, <3>1, <3>3, <4>1 DEF Buf!Locked, BufSizes, BufAlone
    <3>4. CASE BufAlone(p, "return", "user") /\ lock' = lock
      <4>1. pc'[p] = "user"  BY <3>4, BufMoves
      <4>2. QED BY <2>2, <3>1, <3>4, <4>1 DEF Buf!Locked, BufAlone
    <3>5. QED BY <2>1, <3>2, <3>3, <3>4
  <2>5. Buf!Shown'  BY <2>1, BufFacts DEF Buf!Shown
  <2>6. Makers' = Makers /\ Fresh' = Fresh /\ Apart'
    <3>1. Makers' = Makers  BY <1>2, <2>2 DEF Makers
    <3>2. QED BY <2>1, <3>1, BufFacts DEF Fresh, Apart
  <2>7. Mode'  BY <1>2, <2>1, <2>2, BufFacts DEF Mode, Buf!SwapOnly, Buf!InPlaceOnly, Buf!OneBy
  <2>8. Buf!Copied' /\ Buf!OneText'
    <3> DEFINE g == got[p]
               x == content[cur][pos[p] + Len(g) + 1]
               Good == /\ pc'[p] \notin {"read", "return"} => got'[p] = <<>>
                       /\ pos'[p] + Len(got'[p]) <= CAP
                       /\ pc'[p] = "read" =>
                            /\ got'[p] # <<>> => pos'[p] + Len(got'[p]) <= len'
                            /\ \A i \in 1..Len(got'[p]) : got'[p][i] = content'[cur'][pos'[p] + i]
                       /\ \A i \in 1..Len(got'[p]) :
                            /\ got'[p][i] # 0
                            /\ pc'[p] = "read" /\ ~faulted' => got'[p][i] = got'[p][1]
    <3>0. ASSUME Good PROVE Buf!Copied' /\ Buf!OneText'
      <4>1. ASSUME NEW q \in Procs \ {p}
            PROVE  pc'[q] = pc[q] /\ got'[q] = got[q] /\ pos'[q] = pos[q]
        BY <2>1, <2>2
      <4>2. Buf!Copied'
        <5>1. SUFFICES ASSUME NEW q \in Procs
                       PROVE  /\ pc'[q] \notin {"read", "return"} => got'[q] = <<>>
                              /\ pos'[q] + Len(got'[q]) <= CAP
                              /\ pc'[q] = "read" =>
                                   /\ got'[q] # <<>> => pos'[q] + Len(got'[q]) <= len'
                                   /\ \A i \in 1..Len(got'[q]) :
                                         got'[q][i] = content'[cur'][pos'[q] + i]
          BY DEF Buf!Copied
        <5>2. CASE q = p  BY <3>0, <5>2 DEF Good
        <5>3. CASE q # p
          <6>1. /\ pc'[q] = pc[q] /\ got'[q] = got[q] /\ pos'[q] = pos[q]
                /\ len' = len /\ content' = content /\ cur' = cur
            BY <2>1, <4>1, <5>3
          <6>2. /\ pc[q] \notin {"read", "return"} => got[q] = <<>>
                /\ pos[q] + Len(got[q]) <= CAP
                /\ pc[q] = "read" => /\ got[q] # <<>> => pos[q] + Len(got[q]) <= len
                                     /\ \A i \in 1..Len(got[q]) : got[q][i] = content[cur][pos[q] + i]
            BY BufFacts DEF Buf!Copied
          <6>3. QED BY <6>1, <6>2
        <5>4. QED BY <5>2, <5>3
      <4>3. Buf!OneText'
        <5>1. SUFFICES ASSUME NEW q \in Procs, NEW i \in 1..Len(got'[q])
                       PROVE  /\ got'[q][i] # 0
                              /\ pc'[q] = "read" /\ ~faulted' => got'[q][i] = got'[q][1]
          BY DEF Buf!OneText
        <5>2. CASE q = p  BY <3>0, <5>2 DEF Good
        <5>3. CASE q # p
          <6>1. /\ pc'[q] = pc[q] /\ got'[q] = got[q] /\ faulted' = faulted
                /\ i \in 1..Len(got[q])
            BY <2>1, <4>1, <5>3
          <6>2. got[q][i] # 0 /\ (pc[q] = "read" /\ ~faulted => got[q][i] = got[q][1])
            BY <6>1, BufFacts DEF Buf!OneText
          <6>3. QED BY <6>1, <6>2
        <5>4. QED BY <5>2, <5>3
      <4>4. QED BY <4>2, <4>3
    <3> HIDE DEF Good
    <3>1. /\ g \in Seq(Texts \cup {0}) /\ Len(g) \in Nat /\ pos[p] \in Nat /\ len \in Nat
          /\ len <= CAP /\ CAP \in Nat
      BY BufFacts DEF Buf!TypeOK, BufSizes
    <3>2. \A i \in 1..Len(g) : g[i] # 0  BY BufFacts DEF Buf!OneText
    <3>3. CASE pc[p] = "read" /\ pc' = pc /\ pos' = pos /\ pos[p] + Len(g) < len /\ got'[p] = Append(g, x)
      <4>1. \A i \in 1..Len(g) : g[i] = content[cur][pos[p] + i]  BY <3>3, BufFacts DEF Buf!Copied
      <4>2. /\ Len(got'[p]) = Len(g) + 1 /\ got'[p][Len(g) + 1] = x
            /\ \A i \in 1..Len(g) : got'[p][i] = g[i]
        BY <3>1, <3>3
      <4>3. ASSUME NEW i \in 1..(Len(g) + 1)
            PROVE  got'[p][i] = content[cur][pos[p] + i] /\ pos[p] + i \in 1..len
        <5>1. i \in 1..Len(g) \/ (i = Len(g) + 1 /\ pos[p] + Len(g) + 1 = pos[p] + i)  BY <3>1
        <5>2. pos[p] + i \in 1..len  BY <3>1, <3>3
        <5>3. QED BY <4>1, <4>2, <5>1, <5>2
      <4>4. \A i \in 1..len : /\ content[cur][i] # 0
                              /\ ~faulted => content[cur][i] = content[cur][1]
        BY BufFacts DEF Buf!Shown
      <4>5. \A i \in 1..(Len(g) + 1) : /\ got'[p][i] # 0
                                       /\ ~faulted => got'[p][i] = content[cur][1]
        BY <4>3, <4>4
      <4>6. pos[p] + Len(got'[p]) <= len /\ pos[p] + Len(got'[p]) <= CAP  BY <3>1, <3>3, <4>2
      <4>7. /\ pc'[p] = "read" /\ pos'[p] = pos[p] /\ Len(got'[p]) = Len(g) + 1
            /\ 1 \in 1..(Len(g) + 1)
        BY <3>1, <3>3, <4>2
      <4>8. Good  BY <2>1, <4>3, <4>5, <4>6, <4>7 DEF Good
      <4>9. QED BY <3>0, <4>8
    <3>4. CASE pc'[p] = "return" /\ got' = got /\ pos' = pos
      <4>1. Good  BY <2>1, <3>1, <3>2, <3>4, BufFacts DEF Buf!Copied, Good
      <4>2. QED BY <3>0, <4>1
    <3>5. CASE pc'[p] = "user" /\ got'[p] = <<>>
      <4>1. Len(got'[p]) = 0 /\ pos'[p] \in 0..CAP /\ pos'[p] + 0 <= CAP  BY <2>1, <3>1, <3>5
      <4>2. Good  BY <2>1, <3>5, <4>1 DEF Good
      <4>3. QED BY <3>0, <4>2
    <3>6. QED BY <2>1, <3>3, <3>4, <3>5, BufMoves
  <2>9. heap' = InUse' \cup Fresh' /\ cur' \notin Fresh'  BY <2>1, <2>2, <2>6, BufFacts
  <2>10. QED BY <2>2, <2>3, <2>4, <2>5, <2>6, <2>7, <2>8, <2>9, BufAgain DEF BufSizes
<1>3. QED BY <1>1, <1>2 DEF Buf!CopyOut, Buf!Acquire

LEMMA BufInitInv ==
  ASSUME BufSizes, Procs # {}, Nodes # {}, Buf!Init
  PROVE  Buf!IInv
<1> DEFINE exercise == m1  cur == m2  content == m3  got == m5  pos == m6
<1>1. CAP \in Nat /\ 0 \in 0..CAP /\ 0 <= CAP  BY DEF BufSizes
<1> USE <1>1
<1>2. Buf!Zeroed \in Seq(Texts \cup {0}) /\ Len(Buf!Zeroed) = CAP  BY DEF Buf!Zeroed
<1>3. \A p \in Procs : /\ pc[p] = "user" /\ loc[p] = Nil /\ got[p] = <<>> /\ pos[p] = 0
                       /\ Len(got[p]) = 0
  BY DEF Buf!Init
<1>4. IF exercise = "k4/02" THEN cur = Nil /\ heap = {} ELSE cur \in Nodes /\ heap = {cur}
  BY Zenon DEF Buf!Init
<1>5. /\ pc \in [Procs -> BufLabels] /\ loc \in [Procs -> Texts \cup Nodes \cup {Nil}]
      /\ got \in [Procs -> Seq(Texts \cup {0})] /\ pos \in [Procs -> 0..CAP]
      /\ content \in [Nodes -> Seq(Texts \cup {0})]
  BY <1>2 DEF Buf!Init, BufLabels
<1> USE <1>3, <1>4
<1>6. Buf!TypeOK  BY Zenon, <1>5 DEF Buf!Init, Buf!TypeOK, BufLabels
<1>7. Buf!Locked /\ Buf!Loaded /\ Buf!Shown
  BY DEF Buf!Init, Buf!Locked, Buf!Loaded, Buf!Shown, BufSizes
<1>8. Buf!Copied /\ Buf!OneText  BY DEF Buf!Copied, Buf!OneText
<1>9. Buf!MemorySafe  BY DEF Buf!MemorySafe, BufSizes
<1>10. IF exercise = "k4/02" THEN Buf!SwapOnly ELSE Buf!InPlaceOnly
  BY <1>2 DEF Buf!SwapOnly, Buf!InPlaceOnly, Buf!Init
<1>11. QED BY <1>6, <1>7, <1>8, <1>9, <1>10 DEF Buf!IInv

LEMMA BufNextIInv ==
  ASSUME BufSizes, Buf!IInv, [Buf!Next]_Buf!vars PROVE Buf!IInv'
<1> DEFINE exercise == m1  cur == m2  content == m3  len == m4  got == m5  pos == m6  faulted == m7
<1>1. CASE UNCHANGED Buf!vars
  BY <1>1 DEF Buf!vars, Buf!device, Buf!reader, Buf!IInv, Buf!TypeOK, Buf!Locked,
     Buf!Loaded, Buf!Shown, Buf!Copied, Buf!MemorySafe,
              Buf!OneText, Buf!SwapOnly, Buf!InPlaceOnly, Buf!OneBy
<1>2. CASE Buf!Exit
  <2>1. /\ \A q \in Procs : pc[q] = "user" /\ pc'[q] = "gone"
        /\ pc' = [q \in Procs |-> "gone"] /\ heap' = heap \ {cur}
        /\ UNCHANGED <<exercise, loc, lock, cur, content, len, faulted, got, pos>>
    BY <1>2 DEF Buf!Exit, Buf!device, Buf!reader
  <2> USE <2>1
  <2>2. Makers = {} /\ Makers' = {} /\ Fresh = {} /\ Fresh' = {} /\ Apart' /\ InUse' = {}
    BY DEF Makers, Fresh, Apart, InUse
  <2>3. heap' = InUse' \cup Fresh'  BY <2>2, BufFacts DEF InUse
  <2>4. Buf!TypeOK'  BY BufFacts DEF Buf!TypeOK
  <2>5. Buf!Locked' /\ Buf!Loaded' /\ Buf!Shown'
    BY BufFacts DEF Buf!Locked, Buf!Loaded, Buf!Shown
  <2>6. Buf!Copied' /\ Buf!OneText'  BY BufFacts DEF Buf!Copied, Buf!OneText
  <2>7. Mode'  BY BufFacts DEF Mode, Buf!SwapOnly, Buf!InPlaceOnly, Buf!OneBy
  <2>8. QED BY <2>2, <2>3, <2>4, <2>5, <2>6, <2>7, BufAgain DEF BufSizes
<1>3. ASSUME NEW p \in Procs, Buf!Writes(p) PROVE Buf!IInv'
  BY <1>3, InPlaceStep, KvStep DEF Buf!Writes, Buf!MyWrite, Buf!UpperWrite, Buf!PageWrite
<1>4. ASSUME NEW p \in Procs, Buf!Reads(p) PROVE Buf!IInv'
  BY <1>4, CopyStep DEF Buf!Reads, Buf!MyRead, Buf!UpperRead, Buf!KvRead, Buf!PageRead
<1>5. QED BY <1>1, <1>2, <1>3, <1>4 DEF Buf!Next

-----------------------------------------------------------------------------
(* ListDevice: the list of messages. *)

LEMMA ListInitInv == ASSUME Nil \notin Procs, Nil \notin Nodes, List!Init PROVE List!IInv
<1>1. SubSeq(<<>>, 1, 0) = <<>>  OBVIOUS
<1>2. QED BY <1>1 DEF List!Init, List!IInv, List!TypeOK, List!Locked, List!Listed, List!InHand,
   List!Owned, List!Printed, List!InOrder

LEMMA ListAllocStep ==
  ASSUME Nil \notin Procs, Nil \notin Nodes, List!IInv, NEW p \in Procs, List!Alloc(p)
  PROVE  List!IInv'
<1> DEFINE exercise == m1  list == m2  got == m3
<1> USE DEF List!IInv, List!TypeOK
<1>1. PICK n \in Nodes \ heap : heap' = heap \cup {n} /\ loc' = [loc EXCEPT ![p] = n]
  BY Zenon DEF List!Alloc
<1>2. /\ pc[p] = "user" /\ pc' = [pc EXCEPT ![p] = "add"]
      /\ UNCHANGED <<exercise, filled, lock, list, got>>
  BY DEF List!Alloc, List!Goto
<1> USE <1>1, <1>2
<1>3. /\ loc'[p] = n /\ pc'[p] = "add" /\ loc[p] = Nil /\ n # Nil
      /\ \A q \in Procs \ {p} : loc'[q] = loc[q] /\ pc'[q] = pc[q]
  BY DEF List!Locked
<1>4. List!TypeOK' /\ List!Printed' /\ List!InOrder'  BY DEF List!Printed, List!InOrder
<1> USE <1>3
<1>5. List!Locked'  BY DEF List!Locked
<1>6. List!Listed'  BY DEF List!Listed
<1>7. List!InHand'  BY DEF List!InHand
<1>8. List!Owned'
  <2>1. ASSUME NEW x \in heap'
        PROVE (\E i \in 1..Len(list) : list[i] = x) \/ \E q \in Procs : loc'[q] = x
    BY <2>1 DEF List!Owned
  <2>2. QED BY Zenon, <2>1 DEF List!Owned
<1>9. QED BY <1>4, <1>5, <1>6, <1>7, <1>8

LEMMA ListAddStep ==
  ASSUME Nil \notin Procs, Nil \notin Nodes, List!IInv, NEW p \in Procs, List!ListAddTail(p)
  PROVE  List!IInv'
<1> DEFINE exercise == m1  list == m2  got == m3
<1> USE DEF List!IInv, List!TypeOK
<1> DEFINE n == Len(list)
<1>1. /\ pc[p] = "add" /\ lock = Nil
      /\ list' = Append(list, loc[p]) /\ loc' = [loc EXCEPT ![p] = Nil]
      /\ pc' = [pc EXCEPT ![p] = "user"] /\ UNCHANGED <<exercise, filled, lock, heap, got>>
  BY DEF List!ListAddTail, List!Goto
<1> USE <1>1
<1>2. loc[p] \in Nodes /\ loc[p] # Nil /\ loc[p] \in heap  BY DEF List!Locked, List!InHand
<1>3. /\ list' \in Seq(Nodes) /\ Len(list') = n + 1 /\ list'[n + 1] = loc[p]
      /\ \A i \in 1..n : list'[i] = list[i]
  BY <1>2, Appended
<1>4. /\ loc'[p] = Nil /\ pc'[p] = "user"
      /\ \A q \in Procs \ {p} : loc'[q] = loc[q] /\ pc'[q] = pc[q]
  OBVIOUS
<1>5. n \in Nat /\ \A i \in 1..(n + 1) : i = n + 1 \/ i \in 1..n  OBVIOUS
<1> USE <1>3
<1>6. List!TypeOK'  OBVIOUS
<1>7. List!Locked'  BY <1>4 DEF List!Locked
<1>8. List!Listed'
  <2>1. \A i \in 1..n : list[i] # loc[p] /\ list[i] # Nil  BY DEF List!Listed
  <2> USE <2>1
  <2>2. ASSUME NEW i \in 1..(n + 1)
        PROVE list'[i] \in heap /\ \A q \in Procs : loc'[q] # list'[i]
    <3>1. CASE i = n + 1  BY <1>2, <1>4, <3>1 DEF List!InHand
    <3>2. CASE i \in 1..n  BY <1>4, <3>2 DEF List!Listed
    <3>3. QED BY <1>5, <3>1, <3>2
  <2>3. ASSUME NEW i \in 1..(n + 1), NEW j \in 1..(n + 1), list'[i] = list'[j]
        PROVE i = j
    <3> USE <2>3
    <3>1. CASE i \in 1..n /\ j \in 1..n  BY <3>1 DEF List!Listed
    <3>2. i \in 1..n /\ j = n + 1 => FALSE  OBVIOUS
    <3>3. j \in 1..n /\ i = n + 1 => FALSE  OBVIOUS
    <3>4. QED BY <1>5, <3>1, <3>2, <3>3
  <2>4. QED BY <2>2, <2>3 DEF List!Listed
<1>9. List!InHand'  BY <1>4 DEF List!InHand
<1>10. List!Owned'
  <2> SUFFICES ASSUME NEW x \in heap
      PROVE (\E i \in 1..(n + 1) : list'[i] = x) \/ \E q \in Procs : loc'[q] = x
    BY DEF List!Owned
  <2>1. CASE x = loc[p]
    <3>1. n + 1 \in 1..(n + 1)  BY <1>5
    <3>2. QED BY Zenon, <2>1, <3>1
  <2>2. CASE \E i \in 1..n : list[i] = x  BY <2>2
  <2>3. CASE \E q \in Procs \ {p} : loc[q] = x  BY Zenon, <1>4, <2>3
  <2>4. QED BY Zenon, <2>1, <2>2, <2>3 DEF List!Owned
<1>11. List!Printed'  BY DEF List!Printed
<1>12. List!InOrder'
  <2> SUFFICES ASSUME NEW q \in Procs PROVE got[q] = SubSeq(list', 1, Len(got[q]))
    BY Zenon DEF List!InOrder
  <2>1. Len(got[q]) \in 0..n /\ got[q] = SubSeq(list, 1, Len(got[q]))
    BY DEF List!Printed, List!InOrder
  <2>2. QED BY <1>2, <2>1, PrefixAppend
<1>13. QED BY <1>6, <1>7, <1>8, <1>9, <1>10, <1>11, <1>12

LEMMA ShowStep ==
  ASSUME Nil \notin Procs, Nil \notin Nodes, List!IInv, NEW p \in Procs, List!Show(p)
  PROVE  List!IInv'
<1> DEFINE exercise == m1  list == m2  got == m3
<1> USE DEF List!IInv, List!TypeOK
<1> DEFINE n == Len(got[p])
<1>1. /\ got' = [got EXCEPT ![p] = Append(got[p], list[n + 1])] /\ n < Len(list)
      /\ UNCHANGED <<exercise, filled, pc, loc, lock, heap, list>>
  BY DEF List!Show
<1> USE <1>1
<1>2. n \in 0..(Len(list) - 1) /\ got[p] = SubSeq(list, 1, n) /\ n + 1 \in 0..Len(list)
  BY DEF List!InOrder
<1> USE <1>2
<1>3. got'[p] = SubSeq(list, 1, n + 1)  BY PrefixNext
<1>4. Len(got'[p]) = n + 1 /\ got'[p] \in Seq(Nodes)  BY <1>3, Prefix
<1>5. \A q \in Procs \ {p} : got'[q] = got[q]  OBVIOUS
<1>6. List!Printed' /\ List!InOrder'  BY <1>3, <1>4, <1>5 DEF List!Printed, List!InOrder
<1>7. List!TypeOK'  BY <1>4
<1>8. QED BY Zenon, <1>6, <1>7 DEF List!Locked, List!Listed, List!InHand, List!Owned

LEMMA ListReadStep ==
  ASSUME Nil \notin Procs, Nil \notin Nodes, List!IInv, NEW p \in Procs, List!Reads(p)
  PROVE  List!IInv'
<1> DEFINE exercise == m1  list == m2  got == m3
<1> USE DEF List!IInv, List!TypeOK
<1>1. CASE List!Start(p)
  <2>1. /\ pc[p] = "user" /\ lock = Nil /\ lock' = p /\ pc' = [pc EXCEPT ![p] = "show"]
        /\ UNCHANGED <<exercise, filled, loc, heap, list, got>>
    BY <1>1 DEF List!Start, List!Goto
  <2> USE <2>1
  <2>2. \A q \in Procs \ {p} : pc'[q] = pc[q] /\ lock # q /\ lock' # q  OBVIOUS
  <2>3. List!Locked'  BY <2>2 DEF List!Locked
  <2>4. QED BY Zenon, <2>3 DEF List!Listed, List!InHand, List!Owned, List!Printed, List!InOrder
<1>2. CASE List!Stop(p)
  <2>1. /\ pc[p] = "show" /\ lock' = Nil /\ pc' = [pc EXCEPT ![p] = "user"]
        /\ UNCHANGED <<exercise, filled, loc, heap, list, got>>
    BY <1>2 DEF List!Stop, List!Goto
  <2>2. List!Locked'  BY <2>1 DEF List!Locked
  <2>3. QED BY Zenon, <2>1, <2>2 DEF List!Listed, List!InHand, List!Owned, List!Printed,
     List!InOrder
<1>3. CASE got' = [got EXCEPT ![p] = <<>>] /\ UNCHANGED <<exercise, filled, pc, loc, lock, heap, list>>
  <2> USE <1>3
  <2>1. SubSeq(list, 1, 0) = <<>> /\ got'[p] = <<>> /\ \A q \in Procs \ {p} : got'[q] = got[q]
    OBVIOUS
  <2>2. List!Printed' /\ List!InOrder'  BY <2>1 DEF List!Printed, List!InOrder
  <2>3. List!TypeOK'  OBVIOUS
  <2>4. QED BY <2>2, <2>3 DEF List!Locked, List!Listed, List!InHand, List!Owned
<1>4. QED BY Zenon, <1>1, <1>2, <1>3, ShowStep DEF List!Reads, List!SlabRead, List!K5SeqStart,
   List!K5SeqNext, List!K5SeqStop, List!Close

LEMMA ListExitStep ==
  ASSUME Nil \notin Procs, Nil \notin Nodes, List!IInv, List!Exit
  PROVE  List!IInv'
<1> DEFINE exercise == m1  list == m2  got == m3
<1> USE DEF List!IInv, List!TypeOK
<1>1. /\ \A p \in Procs : pc[p] = "user" /\ loc[p] = Nil /\ got[p] = <<>>
      /\ pc' = [p \in Procs |-> "gone"] /\ list' = <<>>
      /\ heap' = heap \ {list[i] : i \in 1..Len(list)}
      /\ UNCHANGED <<exercise, filled, loc, lock, got>>
  BY DEF List!Exit, List!Elements, List!Locked
<1> USE <1>1
<1>2. list' \in Seq(Nodes) /\ Len(list') = 0 /\ SubSeq(<<>>, 1, 0) = <<>>  OBVIOUS
<1>3. List!TypeOK' /\ List!Locked' /\ List!Listed' /\ List!InHand' /\ List!Printed' /\ List!InOrder'
  BY <1>2 DEF List!Locked, List!Listed, List!InHand, List!Printed, List!InOrder
<1>4. List!Owned'  BY DEF List!Owned
<1>5. QED BY <1>3, <1>4

LEMMA ListNextIInv == ASSUME Nil \notin Procs, Nil \notin Nodes, List!IInv, [List!Next]_List!vars PROVE List!IInv'
<1>1. ASSUME NEW p \in Procs, List!Writes(p) PROVE List!IInv'
  BY <1>1, ListAllocStep, ListAddStep DEF List!Writes, List!SlabWrite, List!K5ProcWrite
<1>2. CASE UNCHANGED List!vars
  BY <1>2 DEF List!vars, List!IInv, List!TypeOK, List!Locked, List!Listed, List!InHand,
     List!Owned, List!Printed, List!InOrder
<1>3. QED BY <1>1, <1>2, ListReadStep, ListExitStep DEF List!Next

LEMMA ListSafe == ASSUME Nil \notin Nodes, List!IInv PROVE List!MemorySafe /\ List!InOrder
<1> DEFINE list == m2
<1> USE DEF List!IInv, List!TypeOK
<1> DEFINE inHand == {loc[p] : p \in Procs} \ {Nil}
<1>1. List!Elements(list) \cup inHand \subseteq heap
  BY DEF List!Elements, List!Listed, List!InHand
<1>2. List!Elements(list) \cap inHand = {}  BY DEF List!Elements, List!Listed
<1>3. heap \subseteq List!Elements(list) \cup inHand  BY Zenon DEF List!Elements, List!Owned
<1>4. QED BY <1>1, <1>2, <1>3 DEF List!MemorySafe, List!Listed, List!InHand

-----------------------------------------------------------------------------
(* PacketHook: the packets. *)

LEMMA NfInitInv ==
  ASSUME 0 \in Ports, MaxTtl \in Nat, Nf!Init PROVE Nf!IInv
<1>1. 0 \in 0..MaxTtl  OBVIOUS
<1>2. Nf!TypeOK  BY <1>1 DEF Nf!Init, Nf!TypeOK
<1>3. QED BY <1>2 DEF Nf!Init, Nf!IInv, Nf!Present, Nf!Intact, Nf!MemorySafe, Nf!Verdicts

\* A step that changes nothing but the place and the verdict.
LEMMA Verdict ==
  ASSUME Nf!IInv, UNCHANGED <<m1, filled, m2, loc, m3, m4, m5, m6>>,
         pc # "out", pc # "done", pc' = "done", m7' \in {"accept", "drop"}, Nf!Verdicts'
  PROVE  Nf!IInv'
BY DEF Nf!IInv, Nf!TypeOK, Nf!Present, Nf!Intact, Nf!MemorySafe

LEMMA Going ==
  ASSUME Nf!IInv, UNCHANGED <<m1, filled, m2, loc, m3, m4, m5, m6, m7>>,
         \/ pc = "hook" /\ pc' = "header" /\ m1 = "k6/02" /\ m2.proto = "tcp"
         \/ pc = "hook" /\ pc' = "writable" /\ m1 = "k6/04" /\ m2.ttl > 1
         \/ pc = "writable" /\ pc' = "refetch" /\ m4 # m3
  PROVE  Nf!IInv'
BY DEF Nf!IInv, Nf!TypeOK, Nf!Present, Nf!Intact, Nf!MemorySafe, Nf!Verdicts

LEMMA HookStep ==
  ASSUME Nil \notin Nodes, MaxTtl \in Nat, Nf!IInv, Nf!DropHook \/ Nf!PortHook \/ Nf!TtlHook
  PROVE  Nf!IInv'
<1> DEFINE exercise == m1  packet == m2  skb == m3  clone == m4  ttl == m5  port == m6  verdict
   == m7
<1>1. Nf!TypeOK /\ Nf!Present /\ Nf!Intact /\ Nf!MemorySafe  BY DEF Nf!IInv
<1>2. CASE Nf!DropHook  BY <1>1, <1>2, Verdict DEF Nf!DropHook, Nf!Decide, Nf!Verdicts
<1>3. CASE Nf!PortHook
  <2> USE <1>3
  <2>1. CASE pc = "hook"
    <3> USE <2>1
    <3>1. CASE port = 0 \/ packet.proto # "tcp" \/ ~filled
      <4>1. Nf!Decide("accept") /\ exercise = "k6/02"  BY <3>1 DEF Nf!PortHook
      <4>2. QED BY <4>1, Verdict DEF Nf!Decide, Nf!Verdicts
    <3>2. CASE ~(port = 0 \/ packet.proto # "tcp" \/ ~filled)
      <4>1. Nf!Goto("header") /\ exercise = "k6/02" /\ packet.proto = "tcp"
        BY <3>2 DEF Nf!PortHook
      <4>2. QED BY <4>1, Going DEF Nf!Goto
    <3>3. QED BY <3>1, <3>2
  <2>2. CASE pc = "header"
    <3> USE <2>2
    <3>1. packet.proto = "tcp" /\ exercise = "k6/02"  BY <1>1 DEF Nf!PortHook, Nf!Present
    <3>2. \/ Nf!Decide("accept")
          \/ Nf!Decide(IF packet.dest = port THEN "drop" ELSE "accept")
      BY DEF Nf!PortHook
    <3>3. QED BY <3>1, <3>2, Verdict DEF Nf!Decide, Nf!Verdicts
  <2>3. QED BY <2>1, <2>2 DEF Nf!PortHook
<1>4. CASE Nf!TtlHook
  <2>0. exercise = "k6/04" /\ ttl \in [Nodes -> 0..MaxTtl]
    BY <1>1, <1>4 DEF Nf!TtlHook, Nf!TypeOK
  <2> USE <2>0
  <2>1. CASE pc = "hook"
    <3> USE <2>1
    <3>1. loc = skb /\ ttl[loc] = packet.ttl /\ packet.ttl \in 0..MaxTtl
      BY <1>1 DEF Nf!Present, Nf!Intact, Nf!Packets
    <3>2. CASE ttl[loc] <= 1 \/ ~filled
      <4>1. Nf!Decide("accept")  BY <1>4, <3>2 DEF Nf!TtlHook
      <4>2. QED BY <3>1, <3>2, <4>1, Verdict DEF Nf!Decide, Nf!Verdicts
    <3>3. CASE ~(ttl[loc] <= 1 \/ ~filled)
      <4>1. Nf!Goto("writable")  BY <1>4, <3>3 DEF Nf!TtlHook
      <4>2. packet.ttl > 1  BY <3>1, <3>3
      <4>3. QED BY <4>1, <4>2, Going DEF Nf!Goto
    <3>4. QED BY <3>2, <3>3
  <2>2. CASE pc = "writable" /\ Nf!Decide("drop")  BY <2>2, Verdict DEF Nf!Decide, Nf!Verdicts
  <2>3. CASE pc = "writable" /\ clone # skb /\ Nf!Goto("refetch")  BY <2>3, Going DEF Nf!Goto
  <2>4. ASSUME pc = "writable", clone = skb, NEW n \in Nodes \ Nf!Allocated,
               skb' = n, ttl' = [ttl EXCEPT ![n] = ttl[skb]], pc' = "refetch",
               UNCHANGED <<exercise, filled, packet, loc, clone, port, verdict>>
        PROVE  Nf!IInv'
    <3> USE <2>4
    <3>1. skb \in Nodes /\ loc \in Nodes /\ packet \in Nf!Packets /\ skb \in Nf!Allocated
          /\ ttl[skb] = packet.ttl /\ packet.ttl > 1 /\ ttl[clone] = packet.ttl
      BY <1>1 DEF Nf!Present, Nf!Intact, Nf!MemorySafe, Nf!Allocated
    <3>2. ttl'[n] = packet.ttl /\ ttl'[clone] = packet.ttl /\ n # clone /\ n # Nil
          /\ ttl' \in [Nodes -> 0..MaxTtl]
      BY <3>1 DEF Nf!Allocated
    <3>3. Nf!TypeOK'  BY <1>1, <3>2 DEF Nf!TypeOK
    <3>4. QED BY <3>1, <3>2, <3>3 DEF Nf!IInv, Nf!Present, Nf!Intact, Nf!MemorySafe, Nf!Verdicts
  <2>5. CASE /\ pc = "refetch" /\ loc' = skb /\ pc' = "decrease"
             /\ UNCHANGED <<exercise, filled, packet, skb, clone, ttl, port, verdict>>
    BY <1>1, <2>5 DEF Nf!IInv, Nf!TypeOK, Nf!Present, Nf!Intact, Nf!MemorySafe,
       Nf!Verdicts
  <2>6. CASE /\ pc = "decrease" /\ ttl' = [ttl EXCEPT ![loc] = @ - 1]
             /\ pc' = "done" /\ verdict' = "accept"
             /\ UNCHANGED <<exercise, filled, packet, loc, skb, clone, port>>
    <3> USE <2>6
    <3>1. loc = skb /\ loc # clone /\ loc \in Nodes /\ packet \in Nf!Packets
          /\ ttl[loc] = packet.ttl /\ packet.ttl > 1 /\ packet.ttl \in 0..MaxTtl
      BY <1>1 DEF Nf!Present, Nf!Intact, Nf!MemorySafe, Nf!Packets
    <3> USE <3>1
    <3>2. packet.ttl - 1 \in 0..MaxTtl  OBVIOUS
    <3>3. ttl'[loc] = packet.ttl - 1 /\ ttl' \in [Nodes -> 0..MaxTtl]
          /\ \A n \in Nodes \ {loc} : ttl'[n] = ttl[n]
      BY <3>2
    <3> USE <3>3
    <3>4. Nf!TypeOK'  BY <1>1 DEF Nf!TypeOK
    <3>5. Nf!MemorySafe'  BY <1>1 DEF Nf!MemorySafe, Nf!TypeOK
    <3>6. Nf!Verdicts'  BY DEF Nf!Verdicts
    <3>7. QED BY <3>4, <3>5, <3>6 DEF Nf!IInv, Nf!Present, Nf!Intact
  <2>7. QED BY <1>4, <2>1, <2>2, <2>3, <2>4, <2>5, <2>6 DEF Nf!TtlHook
<1>5. QED BY <1>2, <1>3, <1>4

LEMMA NfNextIInv ==
  ASSUME 0 \in Ports, Nil \notin Nodes, MaxTtl \in Nat, Nf!IInv, [Nf!Next]_Nf!vars PROVE Nf!IInv'
<1> DEFINE packet == m2  skb == m3  clone == m4  ttl == m5
<1>1. CASE UNCHANGED Nf!vars
  BY <1>1 DEF Nf!vars, Nf!IInv, Nf!TypeOK, Nf!Present, Nf!Intact, Nf!MemorySafe, Nf!Verdicts
<1>2. CASE Nf!Receive
  <2> USE <1>2
  <2>1. PICK n \in Nodes, k \in Nf!Packets : /\ packet' = k /\ skb' = n /\ loc' = n
                                             /\ clone' \in {Nil, n}
                                             /\ ttl' = [ttl EXCEPT ![n] = k.ttl]
    BY Zenon DEF Nf!Receive
  <2>2. k.ttl \in 0..MaxTtl /\ ttl \in [Nodes -> 0..MaxTtl]  BY DEF Nf!IInv, Nf!TypeOK, Nf!Packets
  <2> USE <2>1
  <2>3. ttl'[n] = k.ttl /\ ttl' \in [Nodes -> 0..MaxTtl]  BY <2>2
  <2>4. Nf!TypeOK'  BY <2>3 DEF Nf!Receive, Nf!IInv, Nf!TypeOK
  <2>5. QED BY <2>3, <2>4 DEF Nf!Receive, Nf!IInv, Nf!Present, Nf!Intact, Nf!MemorySafe, Nf!Verdicts
<1>3. CASE Nf!DropClone
  <2>1. skb # Nil \/ pc = "out" \/ Nil \in Nodes  BY DEF Nf!IInv, Nf!Present
  <2>2. QED BY <1>3, <2>1 DEF Nf!DropClone, Nf!IInv, Nf!TypeOK, Nf!Present, Nf!Intact,
     Nf!MemorySafe, Nf!Verdicts
<1>4. CASE Nf!SetPort
  BY <1>4 DEF Nf!SetPort, Nf!IInv, Nf!TypeOK, Nf!Present, Nf!Intact, Nf!MemorySafe,
     Nf!Verdicts
<1>5. CASE Nf!DropHook \/ Nf!PortHook \/ Nf!TtlHook  BY <1>5, HookStep
<1>6. CASE Nf!Leave
  <2>1. 0 \in 0..MaxTtl  OBVIOUS
  <2>2. Nf!TypeOK'  BY <1>6, <2>1 DEF Nf!Leave, Nf!IInv, Nf!TypeOK
  <2>3. QED BY <1>6, <2>2 DEF Nf!Leave, Nf!IInv, Nf!Present, Nf!Intact, Nf!MemorySafe, Nf!Verdicts
<1>7. QED BY <1>1, <1>2, <1>3, <1>4, <1>5, <1>6 DEF Nf!Next

-----------------------------------------------------------------------------
(* ModuleLoad: what a module registers. *)

\* What makes a module's init and exit sound: init takes a thing after what it is
\* built on, and a door after what is needed behind it; exit releases them the
\* other way round, and what a caller may leave behind after every door.
LoadOrdered(R) ==
    /\ R.init \in Seq(Load!Resources) /\ Len(R.init) <= 5
    /\ \A i, j \in 1..Len(R.init) : i < j => R.init[i] # R.init[j]
    /\ \A i \in 1..Len(R.init) :
          /\ \A b \in Load!BuiltOn(R.init[i]) : /\ b \in R.gap => R.init[i] \in R.gap
                                                /\ b \notin Load!Optional
                                                /\ \E j \in 1..(i - 1) : R.init[j] = b
          /\ R.init[i] \in Load!Doors => \A b \in R.needs : /\ b \notin Load!Optional
                                                            /\ \E j \in 1..(i - 1) : R.init[j] = b
RollsBack(R) ==
    /\ R.undo \in BOOLEAN
    /\ R.undo => R # Load!TimerDev
    /\ \A i \in 1..Len(R.init) :
          /\ R = Load!TimerDev \/ R.init[i] # "timer"
          /\ i < Len(R.init) => /\ R.init[i] \notin Load!Pinning
                                /\ R.makes = {} \/ R.init[i] \notin Load!Doors
                                /\ R.undo \/ R.init[i] \in Load!Memory \cup {"timer"}
Made(R) ==
    /\ R.makes \subseteq Load!Resources \cup {"work"}
    /\ \A m \in R.makes \ {"work"} : Load!BuiltOn(m) \subseteq R.needs /\ m \notin Load!Doors
Reversed(R) ==
    /\ R.exit \in Seq(Load!Resources \cup {"work"}) /\ Len(R.exit) <= 5
    /\ \A i \in 1..Len(R.init) : \E k \in 1..Len(R.exit) : R.exit[k] = R.init[i]
    /\ \A m \in R.makes : \E k \in 1..Len(R.exit) : R.exit[k] = m
    /\ \A i, j \in 1..Len(R.exit) : i <= j =>
          /\ R.exit[i] \notin Load!BuiltOn(R.exit[j])
          /\ R.exit[j] \in Load!Doors \ {"work"} => R.exit[i] \notin R.needs
    /\ \A j \in 1..Len(R.exit) :
          /\ R.exit[j] \in Load!Doors \ {"timer", "work"} =>
               \A m \in R.makes : \E k \in (j + 1)..Len(R.exit) : R.exit[k] = m
          /\ R.exit[j] = "timer" =>
               "timer" \in R.gap /\ \E k \in (j + 1)..Len(R.exit) : R.exit[k] = "work"
Sound(R) == LoadOrdered(R) /\ RollsBack(R) /\ Made(R) /\ Reversed(R)

LEMMA SoundRows ==
  /\ Sound(Load!CharDev) /\ Sound(Load!Misc({})) /\ Sound(Load!Misc({"misc"})) /\ Sound(Load!Stack) /\ Sound(Load!Config)
  /\ Sound(Load!Work) /\ Sound(Load!TimerDev) /\ Sound(Load!Slab) /\ Sound(Load!KvBuffer) /\ Sound(Load!Page)
  /\ Sound(Load!PerCpuAlloc) /\ Sound(Load!DebugFs) /\ Sound(Load!ProcFs) /\ Sound(Load!SysFs) /\ Sound(Load!RamFs)
  /\ Sound(Load!Hook) /\ Sound(Load!NfStats) /\ Sound(Load!Kprobe) /\ Sound(Load!TracePrintk)
<1> USE DEF Sound, LoadOrdered, RollsBack, Made, Reversed, Load!Row, Load!Resources, Load!BuiltOn, Load!Doors, Load!Pinning,
            Load!Waiting, Load!Optional, Load!Memory, Load!TimerDev
<1>1. Sound(Load!CharDev)  BY DEF Load!CharDev
<1>2. Sound(Load!Misc({})) /\ Sound(Load!Misc({"misc"}))  BY DEF Load!Misc
<1>3. Sound(Load!Stack)  BY DEF Load!Stack
<1>4. Sound(Load!Config)  BY DEF Load!Config
<1>5. Sound(Load!Work)  BY DEF Load!Work
<1>6. Sound(Load!TimerDev)  OBVIOUS
<1>7. Sound(Load!Slab)  BY DEF Load!Slab
<1>8. Sound(Load!KvBuffer)  BY DEF Load!KvBuffer
<1>9. Sound(Load!Page)  BY DEF Load!Page
<1>10. Sound(Load!PerCpuAlloc)  BY DEF Load!PerCpuAlloc
<1>11. Sound(Load!DebugFs)  BY DEF Load!DebugFs
<1>12. Sound(Load!ProcFs)  BY DEF Load!ProcFs
<1>13. Sound(Load!SysFs)  BY DEF Load!SysFs
<1>14. Sound(Load!RamFs)  BY DEF Load!RamFs
<1>15. Sound(Load!Hook)  BY DEF Load!Hook
<1>16. Sound(Load!NfStats)  BY DEF Load!NfStats
<1>17. Sound(Load!Kprobe)  BY DEF Load!Kprobe
<1>18. Sound(Load!TracePrintk)  BY DEF Load!TracePrintk
<1>19. QED BY ONLY Zenon, <1>1, <1>2, <1>3, <1>4, <1>5, <1>6, <1>7, <1>8, <1>9, <1>10, <1>11,
     <1>12, <1>13,
          <1>14, <1>15, <1>16, <1>17, <1>18

LEMMA SoundModule == ASSUME m1 \in Load!Exercises PROVE Sound(Load!This)
<1>1. Sound(Load!MiscUpper) /\ Sound(Load!InfoDev) /\ Sound(Load!OpenCount) /\ Sound(Load!MaxTrack)
      /\ Sound(Load!Queue) /\ Sound(Load!PerCpuStatic) /\ Sound(Load!SeqPairDev)
  BY SoundRows DEF Load!MiscUpper, Load!InfoDev, Load!OpenCount, Load!MaxTrack,
     Load!Queue, Load!PerCpuStatic, Load!SeqPairDev
<1>2. Sound(Load!Delayed) /\ Sound(Load!Wake) /\ Sound(Load!NfDrop) /\ Sound(Load!NfPort) /\ Sound(Load!NfTtl)
      /\ Sound(Load!KprobeCount) /\ Sound(Load!Kretprobe) /\ Sound(Load!KprobeArg)
  <2>1. Load!Delayed = Load!Work /\ Load!Wake = Load!Work
    BY DEF Load!Delayed, Load!Wake, Load!Work
  <2>2. QED BY <2>1, SoundRows DEF Load!NfDrop, Load!NfPort, Load!NfTtl, Load!KprobeCount,
     Load!Kretprobe, Load!KprobeArg
<1>3. QED BY <1>1, <1>2, SoundRows DEF Load!This, Load!Module, Load!Exercises

\* What is left of a list before and after a place.
LEMMA LoadPlaces ==
  ASSUME NEW S, NEW s \in Seq(S), NEW n \in 0..Len(s)
  PROVE  /\ Load!Before(s, 0) = {} /\ Load!After(s, Len(s)) = {} /\ Load!After(s, 0) = Load!Before(s, Len(s))
         /\ n < Len(s) => /\ Load!Before(s, n + 1) = Load!Before(s, n) \cup {s[n + 1]}
                          /\ Load!After(s, n) = {s[n + 1]} \cup Load!After(s, n + 1)
         /\ n > 0 => Load!Before(s, n) = Load!Before(s, n - 1) \cup {s[n]} /\ n - 1 \in 0..Len(s)
<1>1. Load!Before(s, 0) = {} /\ Load!After(s, Len(s)) = {} /\ Load!After(s, 0) = Load!Before(s, Len(s))
  BY DEF Load!Before, Load!After
<1>2. ASSUME n < Len(s) PROVE Load!Before(s, n + 1) = Load!Before(s, n) \cup {s[n + 1]}
  <2>1. \A i : i \in 1..(n + 1) <=> i \in 1..n \/ i = n + 1  OBVIOUS
  <2>2. QED BY <2>1 DEF Load!Before
<1>3. ASSUME n < Len(s) PROVE Load!After(s, n) = {s[n + 1]} \cup Load!After(s, n + 1)
  <2>1. \A i : i \in (n + 1)..Len(s) <=> i \in (n + 2)..Len(s) \/ i = n + 1  BY <1>3
  <2>2. (n + 1) + 1 = n + 2  OBVIOUS
  <2>3. QED BY <2>1, <2>2 DEF Load!After
<1>4. ASSUME n > 0 PROVE Load!Before(s, n) = Load!Before(s, n - 1) \cup {s[n]} /\ n - 1 \in 0..Len(s)
  <2>1. \A i : i \in 1..n <=> i \in 1..(n - 1) \/ i = n  BY <1>4
  <2>2. QED BY <1>4, <2>1 DEF Load!Before
<1>5. QED BY <1>1, <1>2, <1>3, <1>4

Roles == Kworker \notin Actors /\ Softirq \notin Actors /\ Kworker # Softirq

LEMMA LoadFacts ==
  ASSUME Load!IInv
  PROVE  /\ m1 \in Load!Exercises /\ filled \in BOOLEAN
         /\ m2 \in {"init", "undo", "live", "exit"} \cup Load!Final
         /\ m3 \in Nat /\ m3 \in 0..5 /\ heap \subseteq Load!Resources
         /\ m4 \in [Load!Everyone -> Load!Doors \cup {"out"}] /\ m5 \in BOOLEAN
         /\ Load!TypeOK /\ Load!Standing /\ Load!Through /\ Load!Known /\ Load!Loading /\ Load!Undoing /\ Load!Leaving /\ Load!NothingLeft
         /\ Sound(Load!This) /\ LoadOrdered(Load!This) /\ RollsBack(Load!This) /\ Made(Load!This) /\ Reversed(Load!This)
         /\ Load!This.init \in Seq(Load!Resources) /\ Len(Load!This.init) \in Nat /\ Len(Load!This.init) <= 5
         /\ Load!This.exit \in Seq(Load!Resources \cup {"work"}) /\ Len(Load!This.exit) \in Nat /\ Len(Load!This.exit) <= 5
         /\ Load!This.undo \in BOOLEAN
<1> DEFINE exercise == m1
<1>1. exercise \in Load!Exercises  BY DEF Load!IInv, Load!TypeOK
<1>2. Sound(Load!This)  BY <1>1, SoundModule
<1>3. LoadOrdered(Load!This) /\ RollsBack(Load!This) /\ Made(Load!This) /\ Reversed(Load!This)
  BY <1>2 DEF Sound
<1>4. QED BY <1>2, <1>3 DEF Load!IInv, Load!TypeOK, LoadOrdered, RollsBack, Reversed

\* The row of the table stays the same.
LEMMA SameRow ==
  ASSUME UNCHANGED <<m1, filled>>
  PROVE  Load!This' = Load!This /\ Load!Needs' = Load!Needs /\ \A r : Load!Stub(r)' = Load!Stub(r)
<1>1. Load!This' = Load!This  BY DEF Load!This
<1>2. QED BY <1>1 DEF Load!Needs, Load!Stub

LEMMA LoadTakeStep ==
  ASSUME Roles, Load!IInv, Load!Take PROVE Load!IInv'
<1> DEFINE held == heap  exercise == m1  phase == m2  at == m3  inside == m4  queued == m5
<1> USE LoadFacts
<1> DEFINE r == Load!This.init[at + 1]
<1>1. /\ phase = "init" /\ at < Len(Load!This.init) /\ UNCHANGED <<exercise, filled, inside, queued>>
      /\ at \in 0..Len(Load!This.init) /\ at + 1 \in 1..Len(Load!This.init) /\ at + 1 \in 0..5
      /\ r \in Load!Resources
  BY DEF Load!Take
<1> USE <1>1
<1>2. Load!This' = Load!This /\ Load!Needs' = Load!Needs /\ \A x : Load!Stub(x)' = Load!Stub(x)
  BY SameRow
<1>3. Load!Before(Load!This.init, at + 1) = Load!Before(Load!This.init, at) \cup {r}
  BY LoadPlaces
<1>4. Load!Runner' = Load!Runner  BY DEF Load!Runner
<1>5. Load!Known /\ Load!Loading /\ \A b : b \in Load!Before(Load!This.init, at) /\ b \notin Load!Optional /\ ~Load!Stub(b) => b \in held
  BY DEF Load!Loading, Load!Before
<1>6. Load!Before(Load!This.init, at + 1) \subseteq Load!Before(Load!This.init, Len(Load!This.init))
  BY DEF Load!Before
<1> USE <1>2
<1>7. CASE ~Load!Stub(r) /\ held' = held \cup {r} /\ at' = at + 1 /\ UNCHANGED phase
  <2> USE <1>7
  <2>1. Load!TypeOK'  BY DEF Load!TypeOK
  <2>2. \A b \in Load!BuiltOn(r) : b \in held
    <3>1. ASSUME NEW b \in Load!BuiltOn(r)
          PROVE  (b \in Load!This.gap => r \in Load!This.gap) /\ b \notin Load!Optional /\ b \in Load!Before(Load!This.init, at)
      <4>1. (at + 1) - 1 = at  OBVIOUS
      <4>2. /\ b \in Load!This.gap => r \in Load!This.gap
            /\ b \notin Load!Optional /\ \E j \in 1..((at + 1) - 1) : Load!This.init[j] = b
        BY Zenon DEF LoadOrdered
      <4>3. QED BY <4>1, <4>2 DEF Load!Before
    <3>2. QED BY <1>5, <3>1 DEF Load!Stub
  <2>3. r \in Load!Doors => Load!Needs \subseteq held
    <3>1. ASSUME r \in Load!Doors, NEW b \in Load!This.needs
          PROVE  b \notin Load!Optional /\ b \in Load!Before(Load!This.init, at)
      BY <3>1 DEF LoadOrdered, Load!Before
    <3>2. QED BY <1>5, <3>1 DEF Load!Needs, Load!Stub
  <2>4. Load!Standing'  BY <2>2, <2>3 DEF Load!Standing
  <2>5. Load!Through'  BY DEF Load!Through
  <2>6. Load!Known'  BY <1>3, <1>4, <1>6 DEF Load!Known
  <2>7. Load!Loading'
    <3>1. \A i \in 1..(at + 1) : Load!Stub(Load!This.init[i]) \/ Load!This.init[i] \in Load!Optional \cup held'
      BY DEF Load!Loading
    <3>2. QED BY <1>3, <3>1 DEF Load!Loading
  <2>8. Load!Undoing'  BY <1>3, <1>4 DEF Load!Undoing
  <2>9. Load!Leaving' /\ Load!NothingLeft'  BY DEF Load!Leaving, Load!NothingLeft, Load!Final
  <2>10. QED BY <2>1, <2>4, <2>5, <2>6, <2>7, <2>8, <2>9 DEF Load!IInv
<1>8. CASE (Load!Stub(r) \/ r \in Load!Optional) /\ at' = at + 1 /\ UNCHANGED <<held, phase>>
  <2> USE <1>8
  <2>1. Load!TypeOK'  BY DEF Load!TypeOK
  <2>2. Load!Standing' /\ Load!Through'  BY DEF Load!Standing, Load!Through
  <2>3. Load!Known'  BY <1>4 DEF Load!Known
  <2>4. Load!Loading'
    <3>1. \A i \in 1..(at + 1) : Load!Stub(Load!This.init[i]) \/ Load!This.init[i] \in Load!Optional \cup held'
      BY DEF Load!Loading
    <3>2. QED BY <1>3, <3>1 DEF Load!Loading
  <2>5. Load!Undoing'  BY <1>3, <1>4 DEF Load!Undoing
  <2>6. Load!Leaving' /\ Load!NothingLeft'  BY DEF Load!Leaving, Load!NothingLeft, Load!Final
  <2>7. QED BY <2>1, <2>2, <2>3, <2>4, <2>5, <2>6 DEF Load!IInv
<1>9. CASE /\ phase' = IF Load!This.undo THEN "undo" ELSE "failed"
           /\ UNCHANGED <<held, at>>
  <2> USE <1>9
  <2>1. Load!TypeOK'  BY DEF Load!TypeOK, Load!Final
  <2>2. Load!Standing' /\ Load!Through'  BY DEF Load!Standing, Load!Through
  <2>3. Load!Known'  BY <1>4 DEF Load!Known
  <2>4. Load!Loading'  BY DEF Load!Loading
  <2>5. Load!Undoing'  BY <1>4 DEF Load!Undoing
  <2>6. ASSUME ~Load!This.undo, Load!This # Load!TimerDev
        PROVE  held \subseteq Load!Memory /\ Load!Silent
    <3>1. held \subseteq Load!Before(Load!This.init, at) /\ ~Load!Runner  BY <2>6 DEF Load!Undoing
    <3>2. \A i \in 1..at : i \in 1..Len(Load!This.init) /\ i < Len(Load!This.init)  OBVIOUS
    <3> USE <3>1
    <3>3. held \subseteq Load!Memory  BY <2>6, <3>2 DEF RollsBack, Load!Before
    <3>4. Load!Memory \cap Load!Doors = {}
      BY DEF Load!Memory, Load!Doors, Load!Pinning, Load!Waiting
    <3>5. \A a \in Load!Everyone : inside[a] = "out"  BY <3>3, <3>4 DEF Load!Through, Load!Runner
    <3>6. QED BY <3>3, <3>5 DEF Load!Runner, Load!Silent
  <2>7. Load!Leaving'  BY DEF Load!Leaving, Load!Final
  <2>8. Load!NothingLeft'  BY <2>6 DEF Load!NothingLeft, Load!Silent
  <2>9. QED BY <2>1, <2>2, <2>3, <2>4, <2>5, <2>7, <2>8 DEF Load!IInv
<1>10. QED BY <1>7, <1>8, <1>9 DEF Load!Take

LEMMA ReadyStep ==
  ASSUME Roles, Load!IInv, Load!Ready PROVE Load!IInv'
<1> DEFINE held == heap  exercise == m1  phase == m2  at == m3  inside == m4  queued == m5
<1> USE LoadFacts
<1>1. /\ phase = "init" /\ phase' = "live" /\ UNCHANGED <<exercise, filled, at, held, inside, queued>>
  BY DEF Load!Ready
<1> USE <1>1
<1>2. Load!This' = Load!This /\ Load!Needs' = Load!Needs /\ \A x : Load!Stub(x)' = Load!Stub(x)
  BY SameRow
<1>3. Load!Runner' = Load!Runner  BY DEF Load!Runner
<1>4. Load!TypeOK' /\ Load!Standing' /\ Load!Through' /\ Load!Known'
  BY <1>2, <1>3 DEF Load!TypeOK, Load!Standing, Load!Through, Load!Known
<1>5. Load!Loading' /\ Load!Undoing' /\ Load!Leaving' /\ Load!NothingLeft'
  BY DEF Load!Loading, Load!Undoing, Load!Leaving, Load!NothingLeft, Load!Final
<1>6. QED BY <1>4, <1>5 DEF Load!IInv

\* Whoever is in the kernel's hands while an init rolls back.
LEMMA Quiet ==
  ASSUME Roles, Load!IInv, m2 = "undo", m3 = 0
  PROVE  heap = {} /\ Load!Silent
<1> DEFINE held == heap  inside == m4
<1> USE LoadFacts
<1>1. held = {} /\ ~Load!Runner
  <2>1. Load!Before(Load!This.init, 0) = {}  BY LoadPlaces
  <2>2. QED BY <2>1 DEF Load!Undoing, RollsBack
<1>2. \A a \in Load!Everyone : inside[a] = "out"  BY <1>1 DEF Load!Through, Load!Runner
<1>3. QED BY <1>1, <1>2 DEF Load!Runner, Load!Silent

LEMMA UndoStep ==
  ASSUME Roles, Load!IInv, Load!Undo PROVE Load!IInv'
<1> DEFINE held == heap  exercise == m1  phase == m2  at == m3  inside == m4  queued == m5
<1> USE LoadFacts
<1> DEFINE r == Load!This.init[at]
<1>1. phase = "undo" /\ UNCHANGED <<exercise, filled, inside>> /\ Load!This.undo /\ at < Len(Load!This.init)
      /\ ~Load!Runner /\ held \subseteq Load!Before(Load!This.init, at) /\ at \in 0..Len(Load!This.init)
  BY DEF Load!Undo, Load!Undoing, RollsBack
<1> USE <1>1
<1>2. Load!This' = Load!This /\ Load!Needs' = Load!Needs /\ \A x : Load!Stub(x)' = Load!Stub(x)
  BY SameRow
<1>3. CASE at = 0 /\ phase' = "failed" /\ UNCHANGED <<at, held, queued>>
  <2> USE <1>3
  <2>1. held = {} /\ Load!Silent  BY Quiet
  <2>2. Load!TypeOK' /\ Load!NothingLeft'
    BY <1>2, <2>1 DEF Load!TypeOK, Load!NothingLeft, Load!Silent, Load!Final
  <2>3. Load!Standing' /\ Load!Through' /\ Load!Known'
    BY <1>2, <2>1 DEF Load!Standing, Load!Through, Load!Known, Load!Runner,
       Load!Silent
  <2>4. Load!Loading' /\ Load!Undoing' /\ Load!Leaving'
    BY DEF Load!Loading, Load!Undoing, Load!Leaving
  <2>5. QED BY <2>2, <2>3, <2>4 DEF Load!IInv
<1>4. CASE at # 0 /\ Load!Release(r) /\ at' = at - 1 /\ phase' = phase
  <2>1. /\ at > 0 /\ at \in 1..Len(Load!This.init) /\ at - 1 \in 0..5 /\ r \in Load!Resources
        /\ at' <= Len(Load!This.init) /\ at' < Len(Load!This.init)
        /\ Load!Before(Load!This.init, at) = Load!Before(Load!This.init, at - 1) \cup {r}
    <3>1. at > 0 /\ at \in 1..Len(Load!This.init) /\ at - 1 \in 0..5  BY <1>4
    <3>2. Load!Before(Load!This.init, at) = Load!Before(Load!This.init, at - 1) \cup {r}
      BY <3>1, LoadPlaces
    <3>3. QED BY <1>4, <3>1, <3>2
  <2>2. /\ held' = held \ {r} /\ queued' = FALSE /\ ~queued
        /\ r \in Load!Waiting /\ ~Load!Stub(r) => Load!Inside(r) = {}
    BY <1>4 DEF Load!Release, Load!Runner, Load!Standing
  <2> USE <2>1
  <2>3. /\ \A i \in 1..(at - 1) : Load!This.init[i] # r /\ r \notin Load!BuiltOn(Load!This.init[i])
        /\ \A i \in 1..(at - 1) : Load!This.init[i] \in Load!Doors => r \notin Load!This.needs
        /\ r \notin Load!Pinning
    <3>1. \A i, j \in 1..Len(Load!This.init) : i < j => Load!This.init[i] # Load!This.init[j]
      BY DEF LoadOrdered
    <3>2. \A i \in 1..(at - 1) : i \in 1..Len(Load!This.init) /\ Load!This.init[i] # r  BY <3>1
    <3>3. ASSUME NEW i \in 1..(at - 1), NEW j \in 1..(i - 1)
          PROVE  j \in 1..(at - 1)
      OBVIOUS
    <3> USE <3>2
    <3>4. ASSUME NEW i \in 1..(at - 1), r \in Load!BuiltOn(Load!This.init[i]) PROVE FALSE
      <4>1. PICK j \in 1..(i - 1) : Load!This.init[j] = r  BY Zenon, <3>4 DEF LoadOrdered
      <4>2. QED BY <3>3, <4>1
    <3>5. \A i \in 1..(at - 1) : Load!This.init[i] \in Load!Doors => r \notin Load!This.needs
      BY <3>3 DEF LoadOrdered
    <3>6. r \notin Load!Pinning  BY DEF RollsBack
    <3>7. QED BY <3>4, <3>5, <3>6
  <2>4. held' \subseteq Load!Before(Load!This.init, at - 1)  BY <2>2
  <2>5. \A x \in held' : \E i \in 1..(at - 1) : Load!This.init[i] = x  BY <2>4 DEF Load!Before
  <2>6. Load!TypeOK'  BY Zenon, <1>4, <2>2 DEF Load!TypeOK
  <2>7. Load!Standing'
    <3>1. \A x \in held' : r \notin Load!BuiltOn(x) /\ (x \in Load!Doors => r \notin Load!Needs)
      BY <2>3, <2>5 DEF Load!Needs
    <3>2. QED BY <1>2, <2>2, <3>1 DEF Load!Standing
  <2>8. Load!Through'
    <3>1. ASSUME NEW a \in Load!Everyone, inside[a] = r PROVE FALSE
      <4>1. r # "out" /\ r # "work"  BY DEF Load!Resources
      <4>2. r \in held /\ r \in Load!Doors  BY <3>1, <4>1 DEF Load!Through
      <4>3. ~Load!Stub(r) /\ r \in Load!Waiting  BY <2>3, <4>2 DEF Load!Standing, Load!Doors
      <4>4. QED BY <2>2, <3>1, <4>3 DEF Load!Inside
    <3>2. QED BY <2>2, <3>1 DEF Load!Through
  <2>9. ~Load!Runner'  BY <2>2 DEF Load!Runner
  <2>10. Load!Known'  BY <1>2, <2>2, <2>9 DEF Load!Known
  <2>11. Load!Loading'
    <3>1. \A i \in 1..(at - 1) : i \in 1..at  OBVIOUS
    <3>2. \A i \in 1..at : Load!Stub(Load!This.init[i]) \/ Load!This.init[i] \in Load!Optional \cup held
      BY DEF Load!Loading
    <3>3. \A i \in 1..(at - 1) : Load!Stub(Load!This.init[i]) \/ Load!This.init[i] \in Load!Optional \cup held'
      BY Zenon, <2>2, <2>3, <3>1, <3>2
    <3>4. QED BY <1>2, <1>4, <2>4, <3>3 DEF Load!Loading
  <2>12. Load!Undoing'  BY <1>2, <1>4, <2>4, <2>9 DEF Load!Undoing
  <2>13. Load!Leaving' /\ Load!NothingLeft'
    BY <1>4 DEF Load!Leaving, Load!NothingLeft, Load!Final
  <2>14. QED BY <2>6, <2>7, <2>8, <2>10, <2>11, <2>12, <2>13 DEF Load!IInv
<1>5. QED BY <1>3, <1>4 DEF Load!Undo

LEMMA RmmodStep ==
  ASSUME Roles, Load!IInv, Load!Rmmod PROVE Load!IInv'
<1> DEFINE held == heap  exercise == m1  phase == m2  at == m3  inside == m4  queued == m5
<1> USE LoadFacts
<1>1. /\ phase = "live" /\ phase' = "exit" /\ at' = 0
      /\ UNCHANGED <<exercise, filled, held, inside, queued>>
      /\ \A a \in Load!Everyone : inside[a] \notin Load!Pinning
  BY DEF Load!Rmmod, Load!Inside
<1> USE <1>1
<1>2. Load!This' = Load!This /\ Load!Needs' = Load!Needs /\ \A x : Load!Stub(x)' = Load!Stub(x)
  BY SameRow
<1>3. Load!Runner' = Load!Runner  BY DEF Load!Runner
<1>4. Load!After(Load!This.exit, 0) = Load!Before(Load!This.exit, Len(Load!This.exit))
  BY LoadPlaces
<1>5. held \subseteq Load!Before(Load!This.exit, Len(Load!This.exit))
  <2>1. \A x \in Load!Before(Load!This.init, Len(Load!This.init)) : x \in Load!Before(Load!This.exit, Len(Load!This.exit))
    BY DEF Reversed, Load!Before
  <2>2. \A x \in Load!This.makes : x \in Load!Before(Load!This.exit, Len(Load!This.exit))
    BY DEF Reversed, Load!Before
  <2>3. QED BY <2>1, <2>2 DEF Load!Known
<1>6. Load!TypeOK' /\ Load!Standing' /\ Load!Through' /\ Load!Known'
  BY <1>2, <1>3 DEF Load!TypeOK, Load!Standing, Load!Through, Load!Known
<1>7. Load!Leaving'  BY <1>2, <1>3, <1>4, <1>5 DEF Load!Leaving, Load!Known
<1>8. Load!Loading' /\ Load!Undoing' /\ Load!NothingLeft'
  BY DEF Load!Loading, Load!Undoing, Load!NothingLeft, Load!Final
<1>9. QED BY <1>6, <1>7, <1>8 DEF Load!IInv

LEMMA LoadExitStep ==
  ASSUME Roles, Load!IInv, Load!Exit PROVE Load!IInv'
<1> DEFINE held == heap  exercise == m1  phase == m2  at == m3  inside == m4  queued == m5
<1> USE LoadFacts
<1> DEFINE r == Load!This.exit[at + 1]
<1>1. /\ phase = "exit" /\ UNCHANGED <<exercise, filled, inside>>
      /\ at <= Len(Load!This.exit) /\ at \in 0..Len(Load!This.exit) /\ held \subseteq Load!After(Load!This.exit, at)
      /\ (Load!Runner => "work" \in Load!After(Load!This.exit, at))
      /\ \A a \in Load!Everyone : inside[a] \notin Load!Pinning
  BY DEF Load!Exit, Load!Leaving
<1> USE <1>1
<1>2. Load!This' = Load!This /\ Load!Needs' = Load!Needs /\ \A x : Load!Stub(x)' = Load!Stub(x)
  BY SameRow
<1>3. CASE at = Len(Load!This.exit) /\ phase' = "gone" /\ UNCHANGED <<at, held, queued>>
  <2> USE <1>3
  <2>1. held = {} /\ ~Load!Runner  BY LoadPlaces
  <2> USE <2>1
  <2>2. \A a \in Load!Everyone : inside[a] = "out"  BY DEF Load!Through, Load!Runner
  <2>3. Load!TypeOK' /\ Load!NothingLeft'
    BY <2>2 DEF Load!TypeOK, Load!NothingLeft, Load!Silent,
       Load!Final, Load!Runner
  <2>4. Load!Standing' /\ Load!Through' /\ Load!Known'
    BY <1>2, <2>2 DEF Load!Standing, Load!Through, Load!Known, Load!Runner
  <2>5. Load!Loading' /\ Load!Undoing' /\ Load!Leaving'
    BY DEF Load!Loading, Load!Undoing, Load!Leaving
  <2>6. QED BY <2>3, <2>4, <2>5 DEF Load!IInv
<1>4. CASE at # Len(Load!This.exit) /\ Load!Release(r) /\ at' = at + 1 /\ phase' = phase
  <2>1. /\ at < Len(Load!This.exit) /\ at + 1 \in 1..Len(Load!This.exit) /\ at + 1 \in 0..5
        /\ at' <= Len(Load!This.exit) /\ Load!After(Load!This.exit, at) = {r} \cup Load!After(Load!This.exit, at + 1)
    <3>1. at < Len(Load!This.exit) /\ at + 1 \in 1..Len(Load!This.exit) /\ at + 1 \in 0..5
      BY <1>4
    <3>2. Load!After(Load!This.exit, at) = {r} \cup Load!After(Load!This.exit, at + 1)
      BY <3>1, LoadPlaces
    <3>3. QED BY <1>4, <3>1, <3>2
  <2>2. ~Load!Stub(r) => (r \in Load!Waiting => Load!Inside(r) = {})  BY <1>4 DEF Load!Release
  <2>3. held' = held \ {r} /\ (queued' => queued) /\ queued' \in BOOLEAN
    <3>1. CASE Load!Stub(r) /\ UNCHANGED <<held, queued>>
      <4>1. r \notin held  BY <3>1 DEF Load!Standing
      <4>2. QED BY <3>1, <4>1
    <3>2. CASE held' = held \ {r} /\ queued' = (queued /\ r # "work")  BY <3>2
    <3>3. QED BY <1>4, <3>1, <3>2 DEF Load!Release
  <2>4. \A j \in (at + 2)..Len(Load!This.exit) :
           /\ r \notin Load!BuiltOn(Load!This.exit[j])
           /\ Load!This.exit[j] \in Load!Doors \ {"work"} => r \notin Load!This.needs
    <3>1. \A j \in (at + 2)..Len(Load!This.exit) : j \in 1..Len(Load!This.exit) /\ at + 1 <= j
      OBVIOUS
    <3>2. QED BY <2>1, <3>1 DEF Reversed
  <2> USE <2>3
  <2>5. \A x \in held' : \E j \in (at + 2)..Len(Load!This.exit) : Load!This.exit[j] = x
    <3>1. (at + 1) + 1 = at + 2  OBVIOUS
    <3>2. QED BY <2>1, <3>1 DEF Load!After
  <2>6. Load!TypeOK'  BY <1>4, <2>1 DEF Load!TypeOK
  <2>7. Load!Standing'
    <3>1. \A x \in held' : r \notin Load!BuiltOn(x) /\ x # "work" /\ (x \in Load!Doors => r \notin Load!Needs)
      BY <2>4, <2>5 DEF Load!Needs, Load!Resources
    <3>2. QED BY <1>2, <3>1 DEF Load!Standing
  <2>8. Load!Through'
    <3>1. ASSUME NEW a \in Load!Everyone, inside[a] = r, r # "work", r # "out" PROVE FALSE
      <4> USE <3>1
      <4>1. r \in held /\ r \in Load!Doors  BY DEF Load!Through
      <4>2. ~Load!Stub(r) /\ r \in Load!Waiting  BY <4>1 DEF Load!Standing, Load!Doors
      <4>3. QED BY <2>2, <4>2 DEF Load!Inside
    <3>2. QED BY <3>1 DEF Load!Through
  <2>9. Load!Runner' => Load!Runner /\ "work" \in Load!After(Load!This.exit, at + 1)
    <3>1. ASSUME Load!Runner' PROVE Load!Runner
      BY <3>1 DEF Load!Runner
    <3>2. ASSUME Load!Runner', r = "work" PROVE FALSE
      <4> USE <3>2
      <4>1. ~Load!Stub(r)  BY <3>1 DEF Load!Known, Load!Stub
      <4>2. ~queued'  BY Zenon, <1>4, <4>1 DEF Load!Release
      <4>3. inside[Kworker] = "work" /\ Kworker \in Load!Everyone
        BY <4>2 DEF Load!Runner, Load!Through, Load!Everyone
      <4>4. QED BY <2>2, <4>1, <4>3 DEF Load!Inside, Load!Waiting
    <3>3. QED BY <2>1, <3>1, <3>2
  <2>10. Load!Known'  BY <1>2, <2>9 DEF Load!Known
  <2>11. held' \subseteq Load!After(Load!This.exit, at + 1)  BY <2>1
  <2>12. Load!Leaving'  BY <1>2, <1>4, <2>1, <2>9, <2>11 DEF Load!Leaving
  <2>13. Load!Loading' /\ Load!Undoing' /\ Load!NothingLeft'
    BY <1>4 DEF Load!Loading, Load!Undoing, Load!NothingLeft, Load!Final
  <2>14. QED BY <2>6, <2>7, <2>8, <2>10, <2>12, <2>13 DEF Load!IInv
<1>5. QED BY <1>3, <1>4 DEF Load!Exit

\* Where what a caller leaves behind will be released.
LEMMA LeaveStep ==
  ASSUME Roles, Load!IInv, NEW a \in Actors, Load!Leave(a) PROVE Load!IInv'
<1> DEFINE held == heap  exercise == m1  phase == m2  at == m3  inside == m4  queued == m5
<1> USE LoadFacts
<1> DEFINE d == inside[a]
<1>1. /\ d # "out" /\ inside' = [inside EXCEPT ![a] = "out"] /\ UNCHANGED <<exercise, filled, phase, at>>
      /\ a \in Load!Everyone /\ a # Kworker /\ a # Softirq
  BY DEF Load!Leave, Load!Everyone, Roles
<1>2. PICK made \in SUBSET (Load!Resources \cup {"work"}) :
        /\ held' = held \cup (made \ {"work"}) /\ queued' = (queued \/ "work" \in made)
        /\ made \subseteq Load!This.makes /\ (~filled => made = {})
  <2>1. PICK made \in IF filled THEN SUBSET Load!This.makes ELSE {{}} :
          held' = held \cup (made \ {"work"}) /\ queued' = (queued \/ "work" \in made)
    BY DEF Load!Leave
  <2>2. made \subseteq Load!This.makes /\ (~filled => made = {})  BY <2>1
  <2>3. made \subseteq Load!Resources \cup {"work"}  BY <2>2 DEF Made
  <2>4. QED BY <2>1, <2>2, <2>3
<1> USE <1>1, <1>2
<1>3. d \in held /\ d \in Load!Doors \ {"timer", "work"} /\ Load!Needs \subseteq held
  <2>1. d # "work" /\ d # "timer" /\ d \in held  BY DEF Load!Through
  <2>2. d \in Load!Doors  OBVIOUS
  <2>3. QED BY <2>1, <2>2 DEF Load!Standing
<1>4. Load!This' = Load!This /\ Load!Needs' = Load!Needs /\ \A x : Load!Stub(x)' = Load!Stub(x)
  BY SameRow
<1>5. /\ inside' \in [Load!Everyone -> Load!Doors \cup {"out"}] /\ inside'[a] = "out"
      /\ \A b \in Load!Everyone \ {a} : inside'[b] = inside[b]
  OBVIOUS
<1>6. Load!TypeOK'  BY <1>5 DEF Load!TypeOK
<1>7. Load!Standing'
  <2>1. ASSUME NEW m \in made \ {"work"}
        PROVE  Load!BuiltOn(m) \subseteq held /\ m \notin Load!Doors /\ ~Load!Stub(m)
    <3>1. filled /\ m \in Load!This.makes \ {"work"}  OBVIOUS
    <3>2. Load!BuiltOn(m) \subseteq Load!This.needs /\ m \notin Load!Doors  BY <3>1 DEF Made
    <3>3. Load!Needs = Load!This.needs /\ ~Load!Stub(m)  BY <3>1 DEF Load!Needs, Load!Stub
    <3>4. QED BY <1>3, <3>2, <3>3
  <2>2. QED BY <1>4, <2>1 DEF Load!Standing
<1>8. Load!Through'  BY <1>5 DEF Load!Through
<1>9. Load!Runner' => Load!Runner \/ (filled /\ "work" \in made)
  <2>1. inside'[Kworker] = inside[Kworker]  BY <1>5 DEF Load!Everyone
  <2>2. QED BY <2>1 DEF Load!Runner
<1>10. \A m \in Load!This.makes : m \in Load!Before(Load!This.exit, Len(Load!This.exit))
  BY DEF Reversed, Load!Before
<1>11. Load!Known'  BY <1>4, <1>9, <1>10 DEF Load!Known
<1>12. Load!Loading'  BY <1>4 DEF Load!Loading
<1>13. Load!Undoing'
  <2>1. CASE Load!This # Load!TimerDev /\ (phase = "undo" \/ (phase = "init" /\ at < Len(Load!This.init)))
    <3>1. held \subseteq Load!Before(Load!This.init, at) /\ at < Len(Load!This.init) /\ ~Load!Runner
      BY <2>1 DEF Load!Undoing
    <3> USE <3>1
    <3>2. Load!This.makes = {}
      <4>1. PICK i \in 1..at : Load!This.init[i] = d  BY <1>3 DEF Load!Before
      <4>2. i \in 1..Len(Load!This.init) /\ i < Len(Load!This.init)  OBVIOUS
      <4>3. QED BY <1>3, <2>1, <4>1, <4>2 DEF RollsBack
    <3>3. made = {}  BY <3>2
    <3>4. QED BY <1>4, <1>9, <3>3 DEF Load!Undoing
  <2>2. CASE ~(Load!This # Load!TimerDev /\ (phase = "undo" \/ (phase = "init" /\ at < Len(Load!This.init))))
    BY <1>4, <2>2 DEF Load!Undoing
  <2>3. QED BY <2>1, <2>2
<1>14. Load!Leaving'
  <2>1. ASSUME phase = "exit", NEW m \in made PROVE m \in Load!After(Load!This.exit, at)
    <3>1. PICK j \in (at + 1)..Len(Load!This.exit) : Load!This.exit[j] = d
      BY <1>3, <2>1 DEF Load!Leaving, Load!After
    <3>2. j \in 1..Len(Load!This.exit) /\ m \in Load!This.makes  OBVIOUS
    <3>3. PICK k \in (j + 1)..Len(Load!This.exit) : Load!This.exit[k] = m
      BY <1>3, <3>1, <3>2 DEF Reversed
    <3>4. k \in (at + 1)..Len(Load!This.exit)  OBVIOUS
    <3>5. QED BY <3>3, <3>4 DEF Load!After
  <2>2. QED BY <1>4, <1>5, <1>9, <2>1 DEF Load!Leaving, Load!Pinning
<1>15. Load!NothingLeft'  BY <1>4 DEF Load!NothingLeft, Load!Silent
<1>16. QED BY <1>6, <1>7, <1>8, <1>11, <1>12, <1>13, <1>14, <1>15 DEF Load!IInv

\* No door is open where nothing but memory is left.
LEMMA Doorless ==
  ASSUME Load!IInv, m2 = "gone" \/ (m2 = "failed" /\ Load!This # Load!TimerDev)
  PROVE  heap \cap Load!Doors = {}
<1> DEFINE held == heap
<1> USE LoadFacts
<1>1. held \subseteq Load!Memory  BY DEF Load!NothingLeft
<1>2. QED BY <1>1 DEF Load!Memory, Load!Doors, Load!Pinning, Load!Waiting

LEMMA LoadEnterStep ==
  ASSUME Roles, Load!IInv, NEW a \in Actors, Load!Enter(a) PROVE Load!IInv'
<1> DEFINE held == heap  exercise == m1  phase == m2  at == m3  inside == m4  queued == m5
<1> USE LoadFacts
<1>1. PICK d \in held \cap (Load!Doors \ {"timer", "work"}) :
        (d \in Load!Pinning => phase \in {"init", "live"}) /\ inside' = [inside EXCEPT ![a] = d]
  BY Zenon DEF Load!Enter
<1>2. /\ UNCHANGED <<exercise, filled, phase, at, held, queued>> /\ a \in Load!Everyone
      /\ a # Kworker /\ a # Softirq
  BY DEF Load!Enter, Load!Everyone, Roles
<1> USE <1>1, <1>2
<1>3. Load!This' = Load!This /\ Load!Needs' = Load!Needs /\ \A x : Load!Stub(x)' = Load!Stub(x)
  BY SameRow
<1>4. /\ inside' \in [Load!Everyone -> Load!Doors \cup {"out"}] /\ inside'[a] = d
      /\ \A b \in Load!Everyone \ {a} : inside'[b] = inside[b]
  OBVIOUS
<1> USE <1>3, <1>4
<1>5. Load!Runner' = Load!Runner  BY DEF Load!Runner, Load!Everyone
<1>6. Load!TypeOK' /\ Load!Standing'  BY DEF Load!TypeOK, Load!Standing
<1>7. Load!Through'  BY DEF Load!Through
<1>8. Load!Known' /\ Load!Loading' /\ Load!Undoing'
  BY <1>5 DEF Load!Known, Load!Loading, Load!Undoing
<1>9. Load!Leaving'  BY <1>5 DEF Load!Leaving
<1>10. Load!NothingLeft'  BY Doorless DEF Load!NothingLeft
<1>11. QED BY <1>6, <1>7, <1>8, <1>9, <1>10 DEF Load!IInv

LEMMA TimerStep ==
  ASSUME Roles, Load!IInv, Load!TimerFires PROVE Load!IInv'
<1> DEFINE held == heap  exercise == m1  phase == m2  at == m3  inside == m4  queued == m5
<1> USE LoadFacts
<1>1. /\ "timer" \in held /\ inside' = [inside EXCEPT ![Softirq] = "timer"]
      /\ UNCHANGED <<exercise, filled, phase, at, held, queued>> /\ Softirq \in Load!Everyone
      /\ "timer" \in Load!Doors /\ "timer" \notin Load!Pinning /\ Kworker \in Load!Everyone
  BY DEF Load!TimerFires, Load!Everyone, Load!Doors, Load!Waiting, Load!Pinning
<1> USE <1>1
<1>2. Load!This' = Load!This /\ Load!Needs' = Load!Needs /\ \A x : Load!Stub(x)' = Load!Stub(x)
  BY SameRow
<1>3. /\ inside' \in [Load!Everyone -> Load!Doors \cup {"out"}] /\ inside'[Softirq] = "timer"
      /\ \A b \in Load!Everyone \ {Softirq} : inside'[b] = inside[b]
  OBVIOUS
<1> USE <1>2, <1>3
<1>4. Load!Runner' = Load!Runner  BY DEF Load!Runner, Roles
<1>5. Load!TypeOK' /\ Load!Standing'  BY DEF Load!TypeOK, Load!Standing
<1>6. Load!Through'  BY DEF Load!Through, Roles
<1>7. Load!Known' /\ Load!Loading' /\ Load!Undoing'
  BY <1>4 DEF Load!Known, Load!Loading, Load!Undoing
<1>8. Load!Leaving'  BY <1>4 DEF Load!Leaving
<1>9. Load!NothingLeft'  BY Doorless DEF Load!NothingLeft
<1>10. QED BY <1>5, <1>6, <1>7, <1>8, <1>9 DEF Load!IInv

LEMMA TimerEndsStep ==
  ASSUME Roles, Load!IInv, Load!TimerEnds PROVE Load!IInv'
<1> DEFINE held == heap  exercise == m1  phase == m2  at == m3  inside == m4  queued == m5
<1> USE LoadFacts
<1>1. /\ inside[Softirq] = "timer" /\ inside' = [inside EXCEPT ![Softirq] = "out"] /\ queued' = TRUE
      /\ UNCHANGED <<exercise, filled, phase, at, held>>
      /\ Softirq \in Load!Everyone /\ Kworker \in Load!Everyone
  BY DEF Load!TimerEnds, Load!Everyone
<1> USE <1>1
<1>2. Load!This' = Load!This /\ Load!Needs' = Load!Needs /\ \A x : Load!Stub(x)' = Load!Stub(x)
  BY SameRow
<1>3. /\ inside' \in [Load!Everyone -> Load!Doors \cup {"out"}] /\ inside'[Softirq] = "out"
      /\ \A b \in Load!Everyone \ {Softirq} : inside'[b] = inside[b]
  OBVIOUS
<1>4. "timer" \in held /\ "timer" \in Load!Doors /\ ~Load!Stub("timer")
  BY DEF Load!Through, Load!Standing, Load!Doors, Load!Waiting
<1>5. PICK i \in 1..Len(Load!This.init) : Load!This.init[i] = "timer"
  <2>1. "timer" \notin Load!This.makes \ {"work"}  BY <1>4 DEF Made
  <2>2. QED BY <1>4, <2>1 DEF Load!Known, Load!Before
<1>6. Load!This = Load!TimerDev /\ ~Load!This.undo  BY <1>5 DEF RollsBack
<1>7. ASSUME NEW j \in 1..Len(Load!This.exit), Load!This.exit[j] = "timer"
      PROVE  filled /\ \E k \in (j + 1)..Len(Load!This.exit) : Load!This.exit[k] = "work"
  BY <1>4, <1>7 DEF Reversed, Load!Stub
<1>8. PICK j \in 1..Len(Load!This.exit) : Load!This.exit[j] = "timer"  BY Zenon, <1>5 DEF Reversed
<1>9. filled /\ "work" \in Load!Before(Load!This.exit, Len(Load!This.exit))
  <2>1. PICK k \in (j + 1)..Len(Load!This.exit) : Load!This.exit[k] = "work"  BY <1>7, <1>8
  <2>2. k \in 1..Len(Load!This.exit)  OBVIOUS
  <2>3. QED BY <1>7, <1>8, <2>1, <2>2 DEF Load!Before
<1>10. phase = "exit" => "work" \in Load!After(Load!This.exit, at)
  <2>1. SUFFICES ASSUME phase = "exit" PROVE "work" \in Load!After(Load!This.exit, at)
    OBVIOUS
  <2>2. PICK l \in (at + 1)..Len(Load!This.exit) : Load!This.exit[l] = "timer"
    BY <1>4, <2>1 DEF Load!Leaving, Load!After
  <2>3. PICK k \in (l + 1)..Len(Load!This.exit) : Load!This.exit[k] = "work"  BY <1>7, <2>2
  <2>4. k \in (at + 1)..Len(Load!This.exit)  OBVIOUS
  <2>5. QED BY <2>3, <2>4 DEF Load!After
<1>11. Load!TypeOK' /\ Load!Standing'  BY <1>2, <1>3 DEF Load!TypeOK, Load!Standing
<1>12. Load!Through'  BY <1>3 DEF Load!Through
<1>13. Load!Known' /\ Load!Loading'  BY <1>2, <1>9 DEF Load!Known, Load!Loading
<1>14. Load!Undoing'  BY <1>2, <1>6 DEF Load!Undoing
<1>15. Load!Leaving'  BY <1>2, <1>3, <1>10 DEF Load!Leaving, Load!Pinning
<1>16. Load!NothingLeft'  BY <1>2, <1>4, <1>6 DEF Load!NothingLeft
<1>17. QED BY <1>11, <1>12, <1>13, <1>14, <1>15, <1>16 DEF Load!IInv

LEMMA LoadWorkStep ==
  ASSUME Roles, Load!IInv, Load!WorkStarts \/ Load!WorkEnds PROVE Load!IInv'
<1> DEFINE held == heap  exercise == m1  phase == m2  at == m3  inside == m4  queued == m5
<1> USE LoadFacts
<1>1. /\ UNCHANGED <<exercise, filled, phase, at, held>> /\ Kworker \in Load!Everyone /\ Load!Runner
      /\ queued' \in BOOLEAN /\ (queued' => queued)
      /\ inside' \in {[inside EXCEPT ![Kworker] = "work"], [inside EXCEPT ![Kworker] = "out"]}
      /\ "work" \in Load!Doors /\ "work" \notin Load!Pinning /\ "out" \notin Load!Pinning
  <2>1. "work" \in Load!Doors /\ "work" \notin Load!Pinning /\ "out" \notin Load!Pinning /\ Kworker \in Load!Everyone
    BY DEF Load!Everyone, Load!Doors, Load!Waiting, Load!Pinning
  <2>2. CASE Load!WorkStarts  BY Zenon, <2>1, <2>2 DEF Load!WorkStarts, Load!Runner
  <2>3. CASE Load!WorkEnds  BY <2>1, <2>3 DEF Load!WorkEnds, Load!Runner
  <2>4. QED BY <2>2, <2>3
<1> USE <1>1
<1>2. Load!This' = Load!This /\ Load!Needs' = Load!Needs /\ \A x : Load!Stub(x)' = Load!Stub(x)
  BY SameRow
<1>3. /\ inside' \in [Load!Everyone -> Load!Doors \cup {"out"}] /\ inside'[Kworker] \in {"work", "out"}
      /\ \A b \in Load!Everyone \ {Kworker} : inside'[b] = inside[b]
  OBVIOUS
<1> USE <1>2, <1>3
<1>4. Load!TypeOK' /\ Load!Standing'  BY DEF Load!TypeOK, Load!Standing
<1>5. Load!Through'  BY DEF Load!Through
<1>6. Load!Known' /\ Load!Loading' /\ Load!Undoing'  BY DEF Load!Known, Load!Loading, Load!Undoing
<1>7. Load!Leaving'  BY DEF Load!Leaving
<1>8. Load!NothingLeft'  BY DEF Load!NothingLeft, Load!Runner, Load!Silent
<1>9. QED BY <1>4, <1>5, <1>6, <1>7, <1>8 DEF Load!IInv

LEMMA LoadInitInv == ASSUME Roles, Load!Init PROVE Load!IInv
<1> DEFINE held == heap  exercise == m1  phase == m2  at == m3  inside == m4  queued == m5
<1>1. /\ exercise \in Load!Exercises /\ filled \in BOOLEAN /\ phase = "init" /\ at = 0 /\ held = {}
      /\ queued = FALSE /\ inside = [a \in Load!Everyone |-> "out"] /\ Kworker \in Load!Everyone
  BY DEF Load!Init, Load!Everyone
<1> USE <1>1
<1>2. ~Load!Runner  BY DEF Load!Runner
<1>3. Len(Load!This.init) \in Nat  BY SoundModule DEF Sound, LoadOrdered
<1>4. Load!TypeOK /\ Load!Standing /\ Load!Through /\ Load!Known
  <2>1. Load!TypeOK
    <3>1. inside \in [Load!Everyone -> Load!Doors \cup {"out"}]  OBVIOUS
    <3>2. at \in 0..5  OBVIOUS
    <3>3. held \subseteq Load!Resources  OBVIOUS
    <3>4. queued \in BOOLEAN  BY Zenon
    <3>5. QED BY <3>1, <3>2, <3>3, <3>4 DEF Load!TypeOK
  <2>2. Load!Standing /\ Load!Known  BY <1>2 DEF Load!Standing, Load!Known
  <2>3. Load!Through  BY DEF Load!Through
  <2>4. QED BY <2>1, <2>2, <2>3
<1>5. Load!Loading /\ Load!Undoing /\ Load!Leaving /\ Load!NothingLeft
  BY <1>2, <1>3 DEF Load!Loading, Load!Undoing, Load!Leaving, Load!NothingLeft
<1>6. QED BY <1>4, <1>5 DEF Load!IInv

LEMMA LoadNextIInv == ASSUME Roles, Load!IInv, [Load!Next]_Load!vars PROVE Load!IInv'
<1> DEFINE held == heap  exercise == m1  phase == m2  at == m3  inside == m4  queued == m5
<1>1. CASE UNCHANGED Load!vars
  <2>1. UNCHANGED <<exercise, filled, phase, at, held, inside, queued>>  BY <1>1 DEF Load!vars
  <2> USE <2>1
  <2>2. Load!This' = Load!This /\ Load!Needs' = Load!Needs /\ (\A x : Load!Stub(x)' = Load!Stub(x)) /\ Load!Runner' = Load!Runner
    BY SameRow DEF Load!Runner
  <2>3. Load!TypeOK' /\ Load!Standing' /\ Load!Through' /\ Load!Known'
    BY <2>2 DEF Load!IInv, Load!TypeOK, Load!Standing, Load!Through, Load!Known
  <2>4. Load!Loading' /\ Load!Undoing' /\ Load!Leaving' /\ Load!NothingLeft'
    BY <2>2 DEF Load!IInv, Load!Loading, Load!Undoing, Load!Leaving,
       Load!NothingLeft, Load!Silent
  <2>5. QED BY <2>3, <2>4 DEF Load!IInv
<1>2. CASE Load!Next
  BY <1>2, LoadTakeStep, ReadyStep, UndoStep, LoadExitStep, RmmodStep, LeaveStep,
     LoadEnterStep, TimerStep,
     TimerEndsStep, LoadWorkStep DEF Load!Next, Load!Loader, Load!Runs
<1>3. QED BY <1>1, <1>2

LEMMA LoadSafe == ASSUME Roles, Load!IInv PROVE Load!NoUseAfterRelease /\ Load!NothingLeft
<1> DEFINE held == heap  inside == m4
<1>1. ASSUME NEW a \in Load!Everyone \ {Kworker}, inside[a] # "out" PROVE {inside[a]} \cup Load!Needs \subseteq held
  <2>1. a \in Load!Everyone /\ a # Kworker /\ inside[a] \in held
    BY <1>1, LoadFacts DEF Load!Everyone, Load!Through, Roles
  <2>2. inside[a] \in Load!Doors  BY <1>1, <2>1, LoadFacts
  <2>3. QED BY <2>1, <2>2, LoadFacts DEF Load!Standing
<1>2. QED BY <1>1, LoadFacts DEF Load!NoUseAfterRelease, Load!Standing

-----------------------------------------------------------------------------
(* SpscRing: the rings of two threads. *)

\* The sizes: powers of two in the code, where Width is a multiple of CAP.
RingSizes == /\ CAP \in Nat \ {0} /\ M \in Nat \ {0} /\ Width \in Nat /\ CAP < Width
             /\ Width % CAP = 0
Index == 0..Width - 1
RingFull(s, h, n, t) == RingHolds(s, h % CAP, n, t, CAP, M)

LEMMA BetweenIs ==
  ASSUME Width \in Nat \ {0}, NEW a \in Index, NEW b \in Index
  PROVE  /\ b >= a => Ring!Between(a, b) = b - a
         /\ b < a => Ring!Between(a, b) = b + Width - a
<1>1. ASSUME b >= a PROVE Ring!Between(a, b) = b - a
  <2>1. b + Width - a \in Width..(2 * Width - 1) /\ (b + Width - a) - Width = b - a
    BY <1>1 DEF Index
  <2>2. (b + Width - a) % Width = (b + Width - a) - Width  BY <2>1, ModOnce
  <2>3. QED BY <2>1, <2>2 DEF Ring!Between
<1>2. ASSUME b < a PROVE Ring!Between(a, b) = b + Width - a
  <2>1. b + Width - a \in 0..(Width - 1)  BY <1>2 DEF Index
  <2>2. (b + Width - a) % Width = b + Width - a  BY <2>1, ModSmall
  <2>3. QED BY <2>2 DEF Ring!Between
<1>3. QED BY <1>1, <1>2

LEMMA NextIs ==
  ASSUME Width \in Nat \ {0}, NEW a \in Index
  PROVE  /\ Ring!Next1(a) \in Index
         /\ a < Width - 1 => Ring!Next1(a) = a + 1
         /\ a = Width - 1 => Ring!Next1(a) = 0
<1>1. CASE a < Width - 1
  <2>1. a + 1 \in 0..(Width - 1)  BY <1>1 DEF Index
  <2>2. (a + 1) % Width = a + 1  BY <2>1, ModSmall
  <2>3. QED BY <1>1, <2>1, <2>2 DEF Ring!Next1, Index
<1>2. CASE a = Width - 1
  <2>1. a + 1 \in Width..(2 * Width - 1) /\ (a + 1) - Width = 0  BY <1>2 DEF Index
  <2>2. (a + 1) % Width = (a + 1) - Width  BY <2>1, ModOnce
  <2>3. QED BY <1>2, <2>1, <2>2 DEF Ring!Next1, Index
<1>3. QED BY <1>1, <1>2 DEF Index

\* How the distance of two indices moves.
LEMMA Distance ==
  ASSUME Width \in Nat \ {0}, NEW a \in Index, NEW b \in Index
  PROVE  /\ Ring!Between(a, b) \in Index /\ Ring!Between(a, b) \in Nat
         /\ Ring!Between(a, b) = 0 <=> a = b
         /\ Ring!Between(a, b) < Width - 1 => Ring!Between(a, Ring!Next1(b)) = Ring!Between(a, b) + 1
         /\ Ring!Between(a, b) > 0 => Ring!Between(Ring!Next1(a), b) = Ring!Between(a, b) - 1
<1>1. /\ b >= a => Ring!Between(a, b) = b - a
      /\ b < a => Ring!Between(a, b) = b + Width - a
  BY BetweenIs
<1>2. /\ Ring!Next1(b) \in Index
      /\ b < Width - 1 => Ring!Next1(b) = b + 1
      /\ b = Width - 1 => Ring!Next1(b) = 0
  BY NextIs
<1>3. /\ Ring!Next1(a) \in Index
      /\ a < Width - 1 => Ring!Next1(a) = a + 1
      /\ a = Width - 1 => Ring!Next1(a) = 0
  BY NextIs
<1>4. /\ Ring!Next1(b) >= a => Ring!Between(a, Ring!Next1(b)) = Ring!Next1(b) - a
      /\ Ring!Next1(b) < a => Ring!Between(a, Ring!Next1(b)) = Ring!Next1(b) + Width - a
  BY <1>2, BetweenIs
<1>5. /\ b >= Ring!Next1(a) => Ring!Between(Ring!Next1(a), b) = b - Ring!Next1(a)
      /\ b < Ring!Next1(a) => Ring!Between(Ring!Next1(a), b) = b + Width - Ring!Next1(a)
  BY <1>3, BetweenIs
<1>6. a \in Nat /\ b \in Nat /\ a < Width /\ b < Width  BY DEF Index
<1> USE <1>1, <1>6
<1>7. Ring!Between(a, b) \in Index /\ Ring!Between(a, b) \in Nat /\ (Ring!Between(a, b) = 0 <=> a = b)
  BY DEF Index
<1>8. Ring!Between(a, b) < Width - 1 => Ring!Between(a, Ring!Next1(b)) = Ring!Between(a, b) + 1
  BY <1>2, <1>4
<1>9. Ring!Between(a, b) > 0 => Ring!Between(Ring!Next1(a), b) = Ring!Between(a, b) - 1
  BY <1>3, <1>5
<1>10. QED BY <1>7, <1>8, <1>9

\* The slots of two indices.
LEMMA Slots ==
  ASSUME RingSizes, NEW a \in Index, NEW b \in Index
  PROVE  /\ a % CAP \in 0..CAP - 1
         /\ b % CAP = ((a % CAP) + Ring!Between(a, b)) % CAP
         /\ Ring!Next1(a) % CAP = ((a % CAP) + 1) % CAP
<1>1. CAP \in Nat \ {0} /\ Width \in Nat \ {0}  BY DEF RingSizes
<1> USE <1>1
<1>2. a \in Nat /\ b \in Nat /\ Ring!Between(a, b) \in Nat  BY Distance DEF Index
<1>3. PICK k \in Nat : Width = CAP * k
  <2>1. PICK k \in Nat : Width = CAP * k + (Width % CAP)
    <3>1. Width \in Nat  OBVIOUS
    <3>2. QED BY Zenon, <3>1, Quotient
  <2>2. CAP * k + 0 = CAP * k  OBVIOUS
  <2>3. QED BY <2>1, <2>2 DEF RingSizes
<1>4. b % CAP = (a + Ring!Between(a, b)) % CAP
  <2>1. a + Ring!Between(a, b) = b \/ a + Ring!Between(a, b) = b + Width  BY <1>2, BetweenIs
  <2>2. (b + CAP * k) % CAP = b % CAP  BY Zenon, <1>2, ModMultiple
  <2>3. QED BY <1>3, <2>1, <2>2
<1>5. Ring!Next1(a) % CAP = (a + 1) % CAP
  <2>1. a + 1 = Ring!Next1(a) \/ (a + 1 = 0 + Width /\ Ring!Next1(a) = 0)
    <3>1. \/ a < Width - 1
          \/ a = Width - 1 /\ a + 1 = 0 + Width
      BY DEF Index
    <3>2. /\ a < Width - 1 => Ring!Next1(a) = a + 1
          /\ a = Width - 1 => Ring!Next1(a) = 0
      BY NextIs
    <3>3. CASE a < Width - 1  BY <3>2, <3>3
    <3>4. CASE a = Width - 1 /\ a + 1 = 0 + Width  BY <3>2, <3>4
    <3>5. QED BY <3>1, <3>3, <3>4
  <2>2. (0 + CAP * k) % CAP = 0 % CAP
    <3>1. 0 \in Nat  OBVIOUS
    <3>2. QED BY <3>1, ModMultiple
  <2>3. QED BY <1>3, <2>1, <2>2
<1>6. ((a % CAP) + Ring!Between(a, b)) % CAP = (a + Ring!Between(a, b)) % CAP
  BY Zenon, <1>2, ModAdd
<1>7. ((a % CAP) + 1) % CAP = (a + 1) % CAP
  <2>1. 1 \in Nat  OBVIOUS
  <2>2. QED BY Zenon, <1>2, <2>1, ModAdd
<1>8. a % CAP \in 0..CAP - 1
  <2>1. a \in Int  BY <1>2
  <2>2. QED BY <2>1, ModRange
<1>9. QED BY <1>4, <1>5, <1>6, <1>7, <1>8

LEMMA RingPlacedIs ==
  ASSUME RingSizes, Ring!TypeOK
  PROVE  Ring!Placed <=> /\ Ring!Stored <= CAP /\ m5 = (m6 + Ring!Stored) % M
                         /\ RingFull(m2, m3, Ring!Stored, m6)
<1> DEFINE head == m3
<1>1. ASSUME NEW i \in 0..Ring!Stored - 1 PROVE ((head % CAP) + i) % CAP = (head + i) % CAP
  <2>1. head \in Nat /\ i \in Nat /\ CAP \in Nat \ {0}  BY DEF Ring!TypeOK, RingSizes
  <2>2. QED BY Zenon, <2>1, ModAdd
<1>2. QED BY <1>1 DEF Ring!Placed, RingFull, RingHolds

\* The same of the state after a step.
LEMMA PlacedAgain ==
  ASSUME RingSizes, Ring!TypeOK', Ring!Stored' <= CAP, m5' = (m6' + Ring!Stored') % M,
         RingFull(m2', m3', Ring!Stored', m6')
  PROVE  Ring!Placed'
<1> DEFINE head == m3
<1>1. ASSUME NEW i \in 0..Ring!Stored' - 1 PROVE ((head' % CAP) + i) % CAP = (head' + i) % CAP
  <2>1. head' \in Nat /\ i \in Nat /\ CAP \in Nat \ {0}  BY DEF Ring!TypeOK, RingSizes
  <2>2. QED BY Zenon, <2>1, ModAdd
<1>2. QED BY <1>1 DEF Ring!Placed, RingFull, RingHolds

LEMMA RingFacts ==
  ASSUME RingSizes, Ring!IInv
  PROVE  /\ m3 \in Index /\ m4 \in Index /\ Width \in Nat \ {0}
         /\ Ring!Stored \in 0..CAP /\ Ring!Stored \in Nat /\ m3 % CAP \in 0..CAP - 1
         /\ m6 \in 0..M - 1 /\ m6 \in Nat
         /\ m4 % CAP = ((m3 % CAP) + Ring!Stored) % CAP
         /\ RingFull(m2, m3, Ring!Stored, m6)
         /\ pc[Consumer] \in {"copy", "publish"} =>
              /\ Ring!Stored \in 1..CAP
              /\ m2[m3 % CAP] = m6
<1> DEFINE slot == m2  head == m3  tail == m4  taken == m6
<1>1. head \in Index /\ tail \in Index /\ Width \in Nat \ {0} /\ taken \in 0..M - 1
      /\ M \in Nat \ {0} /\ taken \in Nat
  BY DEF Ring!IInv, Ring!TypeOK, Index, RingSizes
<1> USE <1>1
<1>2. Ring!Stored \in Nat /\ Ring!Stored <= CAP
  BY Distance DEF Ring!IInv, Ring!Placed, Ring!Stored
<1>3. /\ head % CAP \in 0..CAP - 1
      /\ tail % CAP = ((head % CAP) + Ring!Stored) % CAP
  BY Slots DEF Ring!Stored
<1>4. RingFull(slot, head, Ring!Stored, taken) /\ CAP \in Nat \ {0}
  BY RingPlacedIs DEF Ring!IInv, RingSizes
<1> USE <1>2, <1>4
<1>5. ASSUME pc[Consumer] \in {"copy", "publish"}
      PROVE  Ring!Stored \in 1..CAP /\ slot[head % CAP] = taken
  <2>1. Ring!Stored \in 1..CAP  BY <1>5 DEF Ring!IInv, Ring!Consuming
  <2>2. slot[head % CAP] = taken % M  BY <1>3, <2>1, RingTake DEF RingFull
  <2>3. taken % M = taken  BY ModSmall
  <2>4. QED BY <2>1, <2>2, <2>3
<1>6. Ring!Stored \in 0..CAP  OBVIOUS
<1>7. QED BY <1>3, <1>5, <1>6

LEMMA RingSafe ==
  ASSUME RingSizes, Ring!IInv
  PROVE  Ring!InOrder
<1> DEFINE head == m3  tail == m4
<1>1. CASE pc[Consumer] = "copy" /\ pc[Producer] = "copy"
  <2>1. Ring!Stored \in 1..CAP /\ Ring!Stored < CAP
    BY <1>1, RingFacts DEF Ring!IInv, Ring!Producing
  <2>2. head % CAP \in 0..CAP - 1 /\ CAP \in Nat \ {0} /\ 0 \in Nat /\ Ring!Stored \in Nat
        /\ 0 < Ring!Stored /\ Ring!Stored < 0 + CAP /\ 0 < CAP /\ Ring!Stored <= CAP
        /\ (head % CAP) + 0 = head % CAP
    BY <2>1, RingFacts DEF RingSizes
  <2> USE <2>2
  <2>3. ((head % CAP) + 0) % CAP # ((head % CAP) + Ring!Stored) % CAP  BY Zenon, ModApart
  <2>4. (head % CAP) % CAP = head % CAP  BY ModSmall
  <2>5. head % CAP # tail % CAP  BY <2>3, <2>4, RingFacts
  <2>6. QED BY <1>1, <2>5, RingFacts DEF Ring!InOrder, Ring!Stored, Ring!Between, Ring!IInv,
     Ring!Placed
<1>2. CASE ~(pc[Consumer] = "copy" /\ pc[Producer] = "copy")
  BY <1>2, RingFacts DEF Ring!InOrder, Ring!Stored, Ring!Between, Ring!IInv,
     Ring!Placed, Ring!Consuming
<1>3. QED BY <1>1, <1>2

LEMMA RingInitInv ==
  ASSUME RingSizes, Producer # Consumer, Ring!Init PROVE Ring!IInv
<1> DEFINE head == m3  tail == m4  sent == m5  taken == m6
<1>1. 0 \in Index /\ Width \in Nat \ {0} /\ M \in Nat \ {0} /\ CAP \in Nat \ {0}
  BY DEF RingSizes, Index
<1>2. head = 0 /\ tail = 0 /\ sent = 0 /\ taken = 0
      /\ pc[Producer] = "user" /\ pc[Consumer] = "user"
  BY DEF Ring!Init, Ring!Ends
<1> USE <1>1, <1>2
<1>3. Ring!Stored = 0 /\ (0 + 0) % M = 0
  <2>1. Ring!Between(0, 0) = 0  BY Distance
  <2>2. (0 + 0) % M = 0  BY ModSmall
  <2>3. QED BY <2>1, <2>2 DEF Ring!Stored
<1>4. Ring!TypeOK  BY DEF Ring!Init, Ring!TypeOK, Index
<1>5. Ring!Placed  BY <1>3 DEF Ring!Placed
<1>6. QED BY <1>4, <1>5 DEF Ring!IInv, Ring!Producing, Ring!Consuming

LEMMA RingPutStep ==
  ASSUME RingSizes, Producer # Consumer, Ring!IInv, Ring!Put,
         UNCHANGED <<filled, m1, m3, m6, m7>>
  PROVE  Ring!IInv'
<1> DEFINE slot == m2  head == m3  tail == m4  sent == m5  taken == m6
<1>1. Ring!TypeOK /\ Ring!Placed /\ Ring!Producing /\ Ring!Consuming  BY DEF Ring!IInv
<1> USE <1>1
<1>2. /\ head \in Index /\ tail \in Index /\ Width \in Nat \ {0} /\ sent \in 0..M - 1
      /\ CAP \in Nat \ {0} /\ M \in Nat \ {0} /\ CAP < Width
      /\ slot \in [0..CAP - 1 -> 0..M - 1]
      /\ pc \in [Ring!Ends -> {"user", "check", "copy", "publish"}]
      /\ loc \in [Ring!Ends -> Index] /\ Producer \in Ring!Ends /\ Consumer \in Ring!Ends
  BY Zenon, RingFacts DEF Ring!TypeOK, Index, RingSizes, Ring!Ends
<1> USE <1>2
<1>3. CASE pc[Producer] = "user" /\ loc' = [loc EXCEPT ![Producer] = head]
           /\ pc' = [pc EXCEPT ![Producer] = "check"] /\ UNCHANGED <<slot, tail, sent>>
  <2> USE <1>3
  <2>1. /\ pc'[Producer] = "check" /\ pc'[Consumer] = pc[Consumer]
        /\ loc'[Producer] = head /\ loc'[Consumer] = loc[Consumer] /\ Ring!Stored' = Ring!Stored
    BY DEF Ring!Stored
  <2>2. Ring!TypeOK'  BY DEF Ring!TypeOK, Index
  <2> USE <2>1
  <2>3. Ring!Placed' /\ Ring!Consuming'  BY DEF Ring!Placed, Ring!Consuming
  <2>4. Ring!Between(loc[Producer]', tail') = Ring!Stored /\ Ring!Stored \in Ring!Stored..CAP
    BY RingFacts DEF Ring!Stored
  <2>5. QED BY <2>2, <2>3, <2>4 DEF Ring!IInv, Ring!Producing
<1>4. CASE /\ pc[Producer] = "check"
           /\ pc' = [pc EXCEPT ![Producer] =
                IF (tail + Width - loc[Producer]) % Width = CAP THEN "user" ELSE "copy"]
           /\ UNCHANGED <<loc, slot, tail, sent>>
  <2> USE <1>4
  <2>1. /\ pc'[Producer] = IF Ring!Between(loc[Producer], tail) = CAP THEN "user" ELSE "copy"
        /\ pc'[Consumer] = pc[Consumer] /\ Ring!Stored' = Ring!Stored
    BY DEF Ring!Stored, Ring!Between
  <2>2. Ring!TypeOK'  BY Zenon DEF Ring!TypeOK
  <2> USE <2>1
  <2>3. Ring!Placed' /\ Ring!Consuming'  BY DEF Ring!Placed, Ring!Consuming
  <2>4. pc'[Producer] = "copy" => Ring!Stored < CAP
    <3>1. Ring!Between(loc[Producer], tail) \in Ring!Stored..CAP /\ Ring!Stored \in Nat
      BY RingFacts DEF Ring!Producing
    <3>2. QED BY <3>1
  <2>5. QED BY <2>2, <2>3, <2>4 DEF Ring!IInv, Ring!Producing
<1>5. CASE /\ pc[Producer] = "copy" /\ slot' = [slot EXCEPT ![tail % CAP] = sent]
           /\ pc' = [pc EXCEPT ![Producer] = "publish"] /\ UNCHANGED <<loc, tail, sent>>
  <2> USE <1>5
  <2>1. /\ pc'[Producer] = "publish" /\ pc'[Consumer] = pc[Consumer] /\ Ring!Stored' = Ring!Stored
        /\ Ring!Stored < CAP
    BY DEF Ring!Stored, Ring!Producing
  <2>2. tail % CAP \in 0..CAP - 1  BY Slots
  <2>3. Ring!TypeOK'  BY Zenon, <2>2 DEF Ring!TypeOK
  <2> USE <2>1
  <2>4. RingFull(slot', head, Ring!Stored + 1, taken)
    <3>1. sent = (taken + Ring!Stored) % M  BY DEF Ring!Placed
    <3>2. Ring!Stored \in 0..CAP - 1  BY RingFacts
    <3>3. QED BY Zenon, <3>1, <3>2, RingFacts, RingPut DEF RingFull
  <2>5. RingFull(slot', head, Ring!Stored, taken)
    <3>1. \A i \in 0..Ring!Stored - 1 : i \in 0..(Ring!Stored + 1) - 1  BY RingFacts
    <3>2. QED BY <2>4, <3>1 DEF RingFull, RingHolds
  <2>6. Ring!Placed'
    <3>1. Ring!Stored' <= CAP /\ sent' = (taken' + Ring!Stored') % M  BY DEF Ring!Placed
    <3>2. RingFull(slot', head', Ring!Stored', taken')  BY <2>5
    <3>3. QED BY <2>3, <3>1, <3>2, PlacedAgain
  <2>7. slot'[tail % CAP] = sent  BY <2>2
  <2>8. Ring!Producing' /\ Ring!Consuming'  BY <2>7 DEF Ring!Producing, Ring!Consuming
  <2>9. QED BY <2>3, <2>6, <2>8 DEF Ring!IInv
<1>6. CASE /\ pc[Producer] = "publish" /\ tail' = Ring!Next1(tail) /\ sent' = (sent + 1) % M
           /\ pc' = [pc EXCEPT ![Producer] = "user"] /\ UNCHANGED <<loc, slot>>
  <2> USE <1>6
  <2>1. /\ pc'[Producer] = "user" /\ pc'[Consumer] = pc[Consumer] /\ Ring!Stored < CAP
        /\ slot[tail % CAP] = sent /\ sent = (taken + Ring!Stored) % M
    BY DEF Ring!Producing, Ring!Placed
  <2>2. tail' \in Index /\ Ring!Stored' = Ring!Stored + 1 /\ Ring!Stored \in Nat
    <3>1. Ring!Between(head, tail) < Width - 1  BY <2>1, RingFacts DEF Ring!Stored
    <3>2. Ring!Between(head, Ring!Next1(tail)) = Ring!Between(head, tail) + 1 /\ Ring!Next1(tail) \in Index
      BY <3>1, Distance, NextIs
    <3>3. QED BY <3>2, RingFacts DEF Ring!Stored
  <2> USE <2>2
  <2>3. sent' = (taken + (Ring!Stored + 1)) % M
    <3>1. /\ taken + Ring!Stored \in Nat /\ 1 \in Nat
          /\ (taken + Ring!Stored) + 1 = taken + (Ring!Stored + 1)
      BY RingFacts
    <3>2. (((taken + Ring!Stored) % M) + 1) % M = ((taken + Ring!Stored) + 1) % M
      BY Zenon, <3>1, ModAdd
    <3>3. QED BY <2>1, <3>1, <3>2
  <2>4. Ring!TypeOK'
    <3>1. sent' \in 0..M - 1
      <4>1. taken + (Ring!Stored + 1) \in Int  BY RingFacts
      <4>2. QED BY Zenon, <2>3, <4>1, ModRange
    <3>2. QED BY <3>1 DEF Ring!TypeOK, Index
  <2>5. RingFull(slot, head, Ring!Stored + 1, taken)
    <3>1. \A i \in 0..(Ring!Stored + 1) - 1 : i = Ring!Stored \/ i \in 0..Ring!Stored - 1
      BY RingFacts
    <3>2. slot[((head % CAP) + Ring!Stored) % CAP] = (taken + Ring!Stored) % M  BY <2>1, RingFacts
    <3>3. QED BY <3>1, <3>2, RingFacts DEF RingFull, RingHolds
  <2>6. Ring!Placed'
    <3>1. Ring!Stored' <= CAP  BY <2>1
    <3>2. QED BY <2>3, <2>4, <2>5, <3>1, PlacedAgain
  <2>7. Ring!Producing' /\ Ring!Consuming'
    <3>1. Ring!Stored' > 0 /\ Ring!Stored' >= Ring!Stored  OBVIOUS
    <3>2. pc[Consumer] = "check" => Ring!Between(head, loc[Consumer]) <= Ring!Stored'
      <4>1. Ring!Between(head, loc[Consumer]) \in Nat  BY Distance
      <4>2. QED BY <4>1 DEF Ring!Consuming
    <3>3. QED BY <2>1, <3>1, <3>2 DEF Ring!Producing, Ring!Consuming
  <2>8. QED BY <2>4, <2>6, <2>7 DEF Ring!IInv
<1>7. QED BY <1>3, <1>4, <1>5, <1>6 DEF Ring!Put, Ring!Goto

LEMMA RingTakeStep ==
  ASSUME RingSizes, Producer # Consumer, Ring!IInv, Ring!Take,
         UNCHANGED <<filled, m1, m2, m4, m5>>
  PROVE  Ring!IInv'
<1> DEFINE slot == m2  head == m3  tail == m4  sent == m5  taken == m6  got == m7
<1>1. Ring!TypeOK /\ Ring!Placed /\ Ring!Producing /\ Ring!Consuming  BY DEF Ring!IInv
<1>2. /\ head \in Index /\ tail \in Index /\ Width \in Nat \ {0} /\ sent \in 0..M - 1
      /\ CAP \in Nat \ {0} /\ M \in Nat \ {0} /\ CAP < Width
      /\ slot \in [0..CAP - 1 -> 0..M - 1]
      /\ pc \in [Ring!Ends -> {"user", "check", "copy", "publish"}]
      /\ loc \in [Ring!Ends -> Index] /\ Producer \in Ring!Ends /\ Consumer \in Ring!Ends
  BY Zenon, <1>1, RingFacts DEF Ring!TypeOK, Index, RingSizes, Ring!Ends
<1>3. CASE pc[Consumer] = "user" /\ loc' = [loc EXCEPT ![Consumer] = tail]
           /\ pc' = [pc EXCEPT ![Consumer] = "check"] /\ UNCHANGED <<head, taken, got>>
  <2>1. /\ pc'[Consumer] = "check" /\ pc'[Producer] = pc[Producer]
        /\ loc'[Consumer] = tail /\ loc'[Producer] = loc[Producer] /\ Ring!Stored' = Ring!Stored
    BY <1>2, <1>3 DEF Ring!Stored
  <2>2. Ring!TypeOK'  BY <1>1, <1>2, <1>3 DEF Ring!TypeOK, Index
  <2>3. Ring!Placed' /\ Ring!Producing'  BY <1>1, <1>3, <2>1 DEF Ring!Placed, Ring!Producing
  <2>4. Ring!Between(head', loc[Consumer]') = Ring!Stored /\ Ring!Stored \in Nat
    BY <1>3, <2>1, RingFacts DEF Ring!Stored
  <2>5. QED BY <2>1, <2>2, <2>3, <2>4 DEF Ring!IInv, Ring!Consuming
<1>4. CASE /\ pc[Consumer] = "check"
           /\ pc' = [pc EXCEPT ![Consumer] = IF head = loc[Consumer] THEN "user" ELSE "copy"]
           /\ UNCHANGED <<loc, head, taken, got>>
  <2>1. /\ pc'[Consumer] = IF head = loc[Consumer] THEN "user" ELSE "copy"
        /\ pc'[Producer] = pc[Producer] /\ Ring!Stored' = Ring!Stored
    BY <1>2, <1>4 DEF Ring!Stored
  <2>2. Ring!TypeOK'  BY <1>1, <1>2, <1>4 DEF Ring!TypeOK
  <2>3. Ring!Placed' /\ Ring!Producing'  BY <1>1, <1>4, <2>1 DEF Ring!Placed, Ring!Producing
  <2>4. pc'[Consumer] = "copy" => Ring!Stored > 0
    <3>1. /\ Ring!Between(head, loc[Consumer]) \in Nat
          /\ Ring!Between(head, loc[Consumer]) = 0 <=> head = loc[Consumer]
      BY <1>2, Distance
    <3>2. QED BY <1>1, <1>4, <2>1, <3>1, RingFacts DEF Ring!Consuming
  <2>5. QED BY <2>1, <2>2, <2>3, <2>4 DEF Ring!IInv, Ring!Consuming
<1>5. CASE /\ pc[Consumer] = "copy" /\ got' = slot[head % CAP]
           /\ pc' = [pc EXCEPT ![Consumer] = "publish"] /\ UNCHANGED <<loc, head, taken>>
  <2>1. /\ pc'[Consumer] = "publish" /\ pc'[Producer] = pc[Producer] /\ Ring!Stored' = Ring!Stored
        /\ got' = taken /\ taken \in 0..M - 1
    BY <1>2, <1>5, RingFacts DEF Ring!Stored
  <2>2. Ring!TypeOK'  BY <1>1, <1>2, <1>5, <2>1 DEF Ring!TypeOK
  <2>3. Ring!Placed' /\ Ring!Producing' /\ Ring!Consuming'
    BY <1>1, <1>5, <2>1 DEF Ring!Placed, Ring!Producing, Ring!Consuming
  <2>4. QED BY <2>2, <2>3 DEF Ring!IInv
<1>6. CASE /\ pc[Consumer] = "publish" /\ head' = Ring!Next1(head) /\ taken' = (taken + 1) % M
           /\ pc' = [pc EXCEPT ![Consumer] = "user"] /\ UNCHANGED <<loc, got>>
  <2>1. /\ pc'[Consumer] = "user" /\ pc'[Producer] = pc[Producer] /\ Ring!Stored \in 1..CAP
        /\ sent = (taken + Ring!Stored) % M
    BY <1>1, <1>2, <1>6, RingFacts DEF Ring!Placed
  <2>2. head' \in Index /\ Ring!Stored' = Ring!Stored - 1 /\ Ring!Stored \in Nat /\ Ring!Stored - 1 \in Nat
    <3>1. Ring!Between(head, tail) > 0  BY <2>1 DEF Ring!Stored
    <3>2. Ring!Between(Ring!Next1(head), tail) = Ring!Between(head, tail) - 1 /\ Ring!Next1(head) \in Index
      BY <1>2, <3>1, Distance, NextIs
    <3>3. QED BY <1>6, <2>1, <3>2, RingFacts DEF Ring!Stored
  <2>3. sent = (taken' + (Ring!Stored - 1)) % M
    <3>1. /\ taken + 1 \in Nat /\ (taken + 1) + (Ring!Stored - 1) = taken + Ring!Stored
      BY <2>2, RingFacts
    <3>2. (((taken + 1) % M) + (Ring!Stored - 1)) % M = ((taken + 1) + (Ring!Stored - 1)) % M
      BY Zenon, <1>2, <2>2, <3>1, ModAdd
    <3>3. QED BY <1>6, <2>1, <3>1, <3>2
  <2>4. Ring!TypeOK'
    <3>1. taken' \in 0..M - 1
      <4>1. taken + 1 \in Int  BY RingFacts
      <4>2. QED BY Zenon, <1>2, <1>6, <4>1, ModRange
    <3>2. QED BY <1>1, <1>2, <1>6, <2>2, <3>1 DEF Ring!TypeOK, Index
  <2>5. RingFull(slot, head', Ring!Stored - 1, taken')
    <3>1. RingHolds(slot, ((head % CAP) + 1) % CAP, Ring!Stored - 1, (taken + 1) % M, CAP, M)
      BY Zenon, <1>2, <2>1, RingFacts, RingTake DEF RingFull
    <3>2. head' % CAP = ((head % CAP) + 1) % CAP  BY <1>2, <1>6, Slots
    <3>3. QED BY <1>6, <3>1, <3>2 DEF RingFull
  <2>6. Ring!Placed'
    <3>1. Ring!Stored' <= CAP  BY <1>2, <2>1, <2>2
    <3>2. QED BY <1>6, <2>2, <2>3, <2>4, <2>5, <3>1, PlacedAgain
  <2>7. Ring!Producing' /\ Ring!Consuming'
    <3>1. Ring!Stored' <= Ring!Stored  BY <2>2
    <3>2. pc[Producer] = "check" => Ring!Between(loc[Producer], tail) \in Ring!Stored'..CAP
      BY <1>1, <1>2, <2>1, <2>2 DEF Ring!Producing
    <3>3. pc[Producer] \in {"copy", "publish"} => Ring!Stored' < CAP
      BY <1>1, <1>2, <2>1, <2>2 DEF Ring!Producing
    <3>4. QED BY <1>1, <1>6, <2>1, <3>2, <3>3 DEF Ring!Producing, Ring!Consuming
  <2>8. QED BY <2>4, <2>6, <2>7 DEF Ring!IInv
<1>7. QED BY <1>3, <1>4, <1>5, <1>6 DEF Ring!Take, Ring!Goto

LEMMA RingNextIInv ==
  ASSUME RingSizes, Producer # Consumer, Ring!IInv, [Ring!Next]_Ring!vars
  PROVE  Ring!IInv'
<1>1. CASE UNCHANGED Ring!vars
  BY <1>1 DEF Ring!vars, Ring!IInv, Ring!TypeOK, Ring!Placed, Ring!Producing,
     Ring!Consuming, Ring!Stored, Ring!Between
<1>2. QED BY <1>1, RingPutStep, RingTakeStep DEF Ring!Next, Ring!Push, Ring!Pop, Ring!SpscPush,
   Ring!SpscPop

-----------------------------------------------------------------------------
(* SemQueue: the queue with semaphores. *)

\* The messages in the ring, from its head; t is the number of the first.
SemFull(s, h, n, t) == RingHolds(s, h, n, t, CAP, M)

LEMMA StoredIs ==
  ASSUME CAP \in Nat \ {0}, Sem!TypeOK, Sem!Counted, Producer # Consumer
  PROVE  /\ Sem!Stored \in 0..CAP /\ Sem!Stored \in Nat
         /\ pc[Producer] = "copy" => Sem!Stored \in 0..CAP - 1
         /\ pc[Consumer] = "copy" => Sem!Stored \in 1..CAP
         /\ m1 + m2 <= CAP
<1> DEFINE empty == m1  full == m2
<1>1. /\ empty \in Nat /\ full \in Nat
      /\ pc[Producer] \in {"user", "wait", "copy", "post"}
      /\ pc[Consumer] \in {"user", "wait", "copy", "post"}
  BY DEF Sem!TypeOK, Sem!Ends
<1> DEFINE pcopy == Sem!Holds(Producer, {"copy"})
           pany == Sem!Holds(Producer, {"copy", "post"})
           cpost == Sem!Holds(Consumer, {"post"})
           cany == Sem!Holds(Consumer, {"copy", "post"})
<1>2. /\ pcopy \in {0, 1} /\ pany \in {0, 1} /\ cpost \in {0, 1} /\ cany \in {0, 1}
      /\ pcopy <= pany /\ cpost <= cany
      /\ pc[Producer] = "copy" => pcopy = 1 /\ pany = 1
      /\ pc[Consumer] = "copy" => cpost = 0 /\ cany = 1
  BY <1>1 DEF Sem!Holds
<1>3. empty + full + pany + cany = CAP /\ Sem!Stored = CAP - empty - pcopy - cpost
  BY DEF Sem!Counted, Sem!Stored
<1> HIDE DEF pcopy, pany, cpost, cany
<1>4. QED BY <1>1, <1>2, <1>3

LEMMA SemPlacedIs ==
  Sem!Placed <=> /\ m5 = (m4 + Sem!Stored) % CAP /\ m6 = (m7 + Sem!Stored) % M
                 /\ SemFull(m3, m4, Sem!Stored, m7)
BY DEF Sem!Placed, SemFull, RingHolds

LEMMA SemSafe ==
  ASSUME CAP \in Nat \ {0}, M \in Nat \ {0}, Producer # Consumer, Sem!IInv
  PROVE  Sem!InOrder
<1> DEFINE empty == m1  full == m2  slot == m3  head == m4  tail == m5  taken == m7
<1>1. Sem!TypeOK /\ Sem!Counted /\ Sem!Placed  BY DEF Sem!IInv
<1> USE <1>1
<1>2. /\ pc[Consumer] = "copy" => Sem!Stored \in 1..CAP
      /\ pc[Producer] = "copy" => Sem!Stored \in 0..CAP - 1
      /\ empty + full <= CAP
  BY StoredIs
<1>3. head \in 0..CAP - 1 /\ taken \in 0..M - 1 /\ M \in Int  BY DEF Sem!TypeOK
<1> USE <1>2, <1>3
<1>4. ASSUME pc[Consumer] = "copy" PROVE slot[head] = taken
  <2>1. 0 \in 0..Sem!Stored - 1 /\ head + 0 = head /\ taken + 0 = taken  BY <1>4
  <2>2. slot[(head + 0) % CAP] = (taken + 0) % M  BY <2>1 DEF Sem!Placed
  <2>3. head % CAP = head /\ taken % M = taken  BY ModSmall
  <2>4. QED BY <2>1, <2>2, <2>3
<1>5. ASSUME pc[Consumer] = "copy", pc[Producer] = "copy" PROVE head # tail
  <2>1. /\ 0 \in Nat /\ Sem!Stored \in Nat /\ 0 < Sem!Stored /\ Sem!Stored < 0 + CAP /\ 0 < CAP
        /\ Sem!Stored <= CAP /\ head + 0 = head
    BY <1>5
  <2>2. (head + 0) % CAP # (head + Sem!Stored) % CAP  BY <2>1, ModApart
  <2>3. head % CAP = head  BY ModSmall
  <2>4. QED BY <2>1, <2>2, <2>3 DEF Sem!Placed
<1>6. QED BY <1>4, <1>5 DEF Sem!InOrder

LEMMA SemInitInv ==
  ASSUME CAP \in Nat \ {0}, M \in Nat \ {0}, Producer # Consumer, Sem!Init PROVE Sem!IInv
<1> DEFINE empty == m1  full == m2
<1>1. Sem!TypeOK /\ Sem!Counted /\ Sem!Stored = 0
  <2>1. pc[Producer] = "user" /\ pc[Consumer] = "user" /\ empty = CAP /\ full = 0
    BY DEF Sem!Init, Sem!Ends
  <2>2. Sem!Counted /\ Sem!Stored = 0
    <3>1. /\ Sem!Holds(Producer, {"copy"}) = 0 /\ Sem!Holds(Producer, {"copy", "post"}) = 0
          /\ Sem!Holds(Consumer, {"post"}) = 0 /\ Sem!Holds(Consumer, {"copy", "post"}) = 0
      BY <2>1 DEF Sem!Holds
    <3>2. CAP \in Nat  OBVIOUS
    <3>3. QED BY <2>1, <3>1, <3>2 DEF Sem!Counted, Sem!Stored
  <2>3. Sem!TypeOK  BY DEF Sem!Init, Sem!TypeOK
  <2>4. QED BY <2>2, <2>3
<1>2. (0 + 0) % CAP = 0 /\ (0 + 0) % M = 0  BY ModSmall
<1>3. QED BY <1>1, <1>2 DEF Sem!IInv, Sem!Placed, Sem!Init

\* The message goes in at tail, behind those that are there.
LEMMA SemPutStep ==
  ASSUME CAP \in Nat \ {0}, M \in Nat \ {0}, Producer # Consumer, Sem!IInv,
         pc[Producer] = "copy", pc' = [pc EXCEPT ![Producer] = "post"],
         m3' = [m3 EXCEPT ![m5] = m6], m5' = (m5 + 1) % CAP,
         m6' = (m6 + 1) % M, UNCHANGED <<filled, m1, m2, m4, m7>>
  PROVE  Sem!IInv'
<1> DEFINE empty == m1  full == m2  slot == m3  head == m4  tail == m5  sent == m6  taken == m7
<1>1. Sem!TypeOK /\ Sem!Counted /\ Sem!Placed  BY DEF Sem!IInv
<1> USE <1>1
<1>2. /\ pc'[Producer] = "post" /\ pc'[Consumer] = pc[Consumer]
      /\ empty \in 0..CAP /\ full \in 0..CAP
  BY DEF Sem!TypeOK, Sem!Ends
<1>3. Sem!Counted' /\ Sem!Stored' = Sem!Stored + 1
  <2>1. /\ Sem!Holds(Producer, {"copy"}) = 1 /\ Sem!Holds(Producer, {"copy"})' = 0
        /\ Sem!Holds(Producer, {"copy", "post"})' = Sem!Holds(Producer, {"copy", "post"})
        /\ Sem!Holds(Consumer, {"copy", "post"})' = Sem!Holds(Consumer, {"copy", "post"})
        /\ Sem!Holds(Consumer, {"post"})' = Sem!Holds(Consumer, {"post"})
        /\ Sem!Holds(Consumer, {"post"}) \in {0, 1}
    BY <1>2 DEF Sem!Holds
  <2>2. QED BY <1>2, <2>1 DEF Sem!Counted, Sem!Stored
<1>4. Sem!Stored \in 0..CAP - 1 /\ Sem!Stored \in Nat  BY StoredIs
<1>5. /\ head \in 0..CAP - 1 /\ taken \in 0..M - 1 /\ slot \in [0..CAP - 1 -> 0..M - 1]
      /\ tail = (head + Sem!Stored) % CAP /\ sent = (taken + Sem!Stored) % M
      /\ SemFull(slot, head, Sem!Stored, taken) /\ taken \in Nat /\ head \in Nat
  BY SemPlacedIs DEF Sem!TypeOK
<1> USE <1>4, <1>5
<1>6. SemFull(slot', head, Sem!Stored + 1, taken)  BY Zenon, RingPut DEF SemFull
<1>7. tail' = (head + (Sem!Stored + 1)) % CAP /\ sent' = (taken + (Sem!Stored + 1)) % M
  <2>1. (((head + Sem!Stored) % CAP) + 1) % CAP = ((head + Sem!Stored) + 1) % CAP
    <3>1. head + Sem!Stored \in Nat /\ 1 \in Nat  OBVIOUS
    <3>2. QED BY <3>1, ModAdd
  <2>2. (((taken + Sem!Stored) % M) + 1) % M = ((taken + Sem!Stored) + 1) % M
    <3>1. taken + Sem!Stored \in Nat /\ 1 \in Nat  OBVIOUS
    <3>2. QED BY <3>1, ModAdd
  <2>3. (head + Sem!Stored) + 1 = head + (Sem!Stored + 1) /\ (taken + Sem!Stored) + 1 = taken + (Sem!Stored + 1)
    OBVIOUS
  <2>4. QED BY <2>1, <2>2, <2>3
<1>8. Sem!Placed'  BY <1>3, <1>6, <1>7 DEF Sem!Placed, SemFull, RingHolds
<1>9. Sem!TypeOK'
  <2>1. tail' \in 0..CAP - 1 /\ sent' \in 0..M - 1  BY <1>7, ModRange
  <2>2. sent \in 0..M - 1  BY DEF Sem!TypeOK
  <2>3. QED BY Zenon, <2>1, <2>2 DEF Sem!TypeOK
<1>10. QED BY <1>3, <1>8, <1>9 DEF Sem!IInv

\* The message at head comes out.
LEMMA SemGetStep ==
  ASSUME CAP \in Nat \ {0}, M \in Nat \ {0}, Producer # Consumer, Sem!IInv,
         pc[Consumer] = "copy", pc' = [pc EXCEPT ![Consumer] = "post"],
         m4' = (m4 + 1) % CAP, m7' = (m7 + 1) % M,
         UNCHANGED <<filled, m1, m2, m3, m5, m6>>
  PROVE  Sem!IInv'
<1> DEFINE empty == m1  full == m2  slot == m3  head == m4  tail == m5  sent == m6  taken == m7
<1>1. Sem!TypeOK /\ Sem!Counted /\ Sem!Placed  BY DEF Sem!IInv
<1>2. /\ pc'[Consumer] = "post" /\ pc'[Producer] = pc[Producer]
      /\ empty \in 0..CAP /\ full \in 0..CAP
  BY <1>1 DEF Sem!TypeOK, Sem!Ends
<1>3. Sem!Counted' /\ Sem!Stored' = Sem!Stored - 1
  <2>1. /\ Sem!Holds(Consumer, {"post"}) = 0 /\ Sem!Holds(Consumer, {"post"})' = 1
        /\ Sem!Holds(Producer, {"copy", "post"})' = Sem!Holds(Producer, {"copy", "post"})
        /\ Sem!Holds(Consumer, {"copy", "post"})' = Sem!Holds(Consumer, {"copy", "post"})
        /\ Sem!Holds(Producer, {"copy"})' = Sem!Holds(Producer, {"copy"})
        /\ Sem!Holds(Producer, {"copy"}) \in {0, 1}
    BY <1>2 DEF Sem!Holds
  <2>2. QED BY <1>1, <1>2, <2>1 DEF Sem!Counted, Sem!Stored
<1>4. Sem!Stored \in 1..CAP /\ Sem!Stored \in Nat /\ Sem!Stored - 1 \in Nat  BY <1>1, StoredIs
<1>5. /\ head \in 0..CAP - 1 /\ taken \in 0..M - 1
      /\ tail = (head + Sem!Stored) % CAP /\ sent = (taken + Sem!Stored) % M
      /\ SemFull(slot, head, Sem!Stored, taken) /\ taken \in Nat /\ head \in Nat
  BY <1>1, SemPlacedIs DEF Sem!TypeOK
<1> USE <1>4, <1>5
<1>6. SemFull(slot, head', Sem!Stored - 1, taken')  BY RingTake DEF SemFull
<1>7. tail = (head' + (Sem!Stored - 1)) % CAP /\ sent = (taken' + (Sem!Stored - 1)) % M
  <2>1. (((head + 1) % CAP) + (Sem!Stored - 1)) % CAP = ((head + 1) + (Sem!Stored - 1)) % CAP
    <3>1. head + 1 \in Nat  OBVIOUS
    <3>2. QED BY Zenon, <3>1, ModAdd
  <2>2. (((taken + 1) % M) + (Sem!Stored - 1)) % M = ((taken + 1) + (Sem!Stored - 1)) % M
    <3>1. taken + 1 \in Nat  OBVIOUS
    <3>2. QED BY Zenon, <3>1, ModAdd
  <2>3. (head + 1) + (Sem!Stored - 1) = head + Sem!Stored /\ (taken + 1) + (Sem!Stored - 1) = taken + Sem!Stored
    OBVIOUS
  <2>4. QED BY <2>1, <2>2, <2>3
<1>8. Sem!Placed'  BY <1>3, <1>6, <1>7 DEF Sem!Placed, SemFull, RingHolds
<1>9. Sem!TypeOK'
  <2>1. head' \in 0..CAP - 1 /\ taken' \in 0..M - 1
    <3>1. head + 1 \in Int /\ taken + 1 \in Int  OBVIOUS
    <3>2. QED BY Zenon, <3>1, ModRange
  <2>2. QED BY Zenon, <1>1, <2>1 DEF Sem!TypeOK
<1>10. QED BY <1>3, <1>8, <1>9 DEF Sem!IInv

\* The steps that leave the ring alone move a slot from one count to another.
LEMMA EndStep ==
  ASSUME CAP \in Nat \ {0}, M \in Nat \ {0}, Producer # Consumer, Sem!IInv,
         UNCHANGED <<filled, Sem!ring>>,
         \/ UNCHANGED <<pc, m1, m2>>
         \/ /\ pc' = [pc EXCEPT ![Producer] = "wait"] /\ pc[Producer] = "user"
            /\ UNCHANGED <<m1, m2>>
         \/ /\ pc' = [pc EXCEPT ![Consumer] = "wait"] /\ pc[Consumer] = "user"
            /\ UNCHANGED <<m1, m2>>
         \/ /\ pc[Producer] = "wait" /\ m1 > 0 /\ m1' = m1 - 1
            /\ pc' = [pc EXCEPT ![Producer] = "copy"] /\ UNCHANGED m2
         \/ /\ pc[Consumer] = "wait" /\ m2 > 0 /\ m2' = m2 - 1
            /\ pc' = [pc EXCEPT ![Consumer] = "copy"] /\ UNCHANGED m1
         \/ /\ pc[Producer] = "post" /\ m2' = m2 + 1
            /\ pc' = [pc EXCEPT ![Producer] = "user"] /\ UNCHANGED m1
         \/ /\ pc[Consumer] = "post" /\ m1' = m1 + 1
            /\ pc' = [pc EXCEPT ![Consumer] = "user"] /\ UNCHANGED m2
  PROVE  Sem!IInv'
<1> DEFINE empty == m1  full == m2
<1>1. Sem!TypeOK /\ Sem!Counted /\ Sem!Placed  BY DEF Sem!IInv
<1> USE <1>1
<1>2. /\ empty \in 0..CAP /\ full \in 0..CAP
      /\ pc \in [Sem!Ends -> {"user", "wait", "copy", "post"}]
      /\ pc' \in [Sem!Ends -> {"user", "wait", "copy", "post"}]
  BY DEF Sem!TypeOK, Sem!Ends
<1> USE <1>2
<1>3. Sem!Counted' /\ Sem!Stored' = Sem!Stored
  BY DEF Sem!Counted, Sem!Stored, Sem!Holds, Sem!Ends
<1> USE <1>3
<1>4. Sem!Placed'  BY DEF Sem!Placed, Sem!ring
<1>5. empty' \in 0..CAP /\ full' \in 0..CAP
  <2>1. /\ empty' \in Nat /\ full' \in Nat
        /\ Sem!Holds(Producer, {"copy", "post"})' \in {0, 1}
        /\ Sem!Holds(Consumer, {"copy", "post"})' \in {0, 1}
    BY DEF Sem!Holds
  <2>2. QED BY <2>1 DEF Sem!Counted
<1>6. Sem!TypeOK'  BY <1>5 DEF Sem!TypeOK, Sem!ring
<1>7. QED BY <1>4, <1>6 DEF Sem!IInv

LEMMA SemNextIInv ==
  ASSUME CAP \in Nat \ {0}, M \in Nat \ {0}, Producer # Consumer, Sem!IInv, [Sem!Next]_Sem!vars
  PROVE  Sem!IInv'
<1>1. CASE UNCHANGED Sem!vars  BY <1>1, EndStep DEF Sem!vars
<1>2. CASE Sem!SqPut /\ UNCHANGED filled
  BY <1>2, SemPutStep, EndStep DEF Sem!SqPut, Sem!Goto, Sem!ring
<1>3. CASE Sem!SqGet /\ UNCHANGED filled
  BY <1>3, SemGetStep, EndStep DEF Sem!SqGet, Sem!Goto, Sem!ring
<1>4. QED BY <1>1, <1>2, <1>3 DEF Sem!Next

-----------------------------------------------------------------------------
(* CondQueue: the queue with condition variables. *)

LEMMA CondCardinal == \A S : Cond!Cardinality(S) = Cardinality(S)
BY DEF Cond!Cardinality, Cardinality

\* The threads at some of the labels; n of them at least, if somebody sleeps.
Those(f, L) == {q \in Crowd : f[q] \in L}
Served(f, n, S, A) == Those(f, S) # {} => n <= Cardinality(Those(f, A))
Only(f, g, p) == \A q \in Crowd \ {p} : g[q] = f[q]

LEMMA AtFinite ==
  ASSUME IsFiniteSet(Crowd), NEW f, NEW L
  PROVE  IsFiniteSet(Those(f, L)) /\ Cardinality(Those(f, L)) \in Nat
<1>1. Those(f, L) \subseteq Crowd  BY DEF Those
<1>2. IsFiniteSet(Those(f, L))  BY <1>1, FS_Subset
<1>3. QED BY <1>2, FS_CardinalityType

\* Fewer asleep and more awake serves nobody worse.
LEMMA ServedMore ==
  ASSUME IsFiniteSet(Crowd), NEW f, NEW g, NEW S, NEW A, NEW n \in Int,
         Those(g, S) \subseteq Those(f, S), Those(f, A) \subseteq Those(g, A), Served(f, n, S, A)
  PROVE  Served(g, n, S, A)
<1>1. Cardinality(Those(f, A)) <= Cardinality(Those(g, A))  BY AtFinite, FS_Subset
<1>2. Cardinality(Those(f, A)) \in Nat /\ Cardinality(Those(g, A)) \in Nat  BY AtFinite
<1>3. Those(g, S) # {} => Those(f, S) # {}  OBVIOUS
<1>4. QED BY <1>1, <1>2, <1>3 DEF Served

LEMMA AtJoin ==
  ASSUME IsFiniteSet(Crowd), NEW f, NEW g, NEW p \in Crowd, NEW L, Only(f, g, p),
         f[p] \notin L, g[p] \in L
  PROVE  Cardinality(Those(g, L)) = Cardinality(Those(f, L)) + 1
<1>1. Those(g, L) = Those(f, L) \cup {p} /\ p \notin Those(f, L)  BY DEF Those, Only
<1>2. IsFiniteSet(Those(f, L))  BY AtFinite
<1>3. QED BY Zenon, <1>1, <1>2, FS_AddElement

LEMMA AtLeave ==
  ASSUME IsFiniteSet(Crowd), NEW f, NEW g, NEW p \in Crowd, NEW L, Only(f, g, p),
         f[p] \in L, g[p] \notin L
  PROVE  Cardinality(Those(g, L)) = Cardinality(Those(f, L)) - 1
<1>1. Those(g, L) = Those(f, L) \ {p} /\ p \in Those(f, L)  BY DEF Those, Only
<1>2. IsFiniteSet(Those(f, L))  BY AtFinite
<1>3. QED BY Zenon, <1>1, <1>2, FS_RemoveElement

LEMMA ServedLess ==
  ASSUME NEW f, NEW g, NEW S, NEW A, NEW n \in Int, Those(g, S) = Those(f, S),
         Cardinality(Those(f, A)) \in Nat,
         Cardinality(Those(g, A)) = Cardinality(Those(f, A)) - 1, Served(f, n, S, A)
  PROVE  Served(g, n - 1, S, A)
<1>1. SUFFICES ASSUME Those(f, S) # {} PROVE n - 1 <= Cardinality(Those(g, A))
  BY DEF Served
<1>2. n <= Cardinality(Those(f, A))  BY <1>1 DEF Served
<1>3. QED BY <1>2

\* What pthread_cond_signal does: one more awake for the message that was put
\* in (or the slot that was given back), one fewer among those p belonged to.
LEMMA SignalServes ==
  ASSUME IsFiniteSet(Crowd), NEW Labels, pc \in [Crowd -> Labels], "user" \in Labels,
         NEW p \in Crowd, NEW sl \in Labels, NEW aw \in Labels, Cond!Signal(p, sl, aw),
         NEW A, aw \in A, sl \notin A, sl # aw, pc[p] \notin A, pc[p] # sl, "user" # sl,
         NEW n \in Int, Served(pc, n, {sl}, A),
         NEW S, NEW B, pc[p] \in B, "user" \notin B, sl \notin B, aw \notin B,
         sl \notin S, aw \notin S, "user" \notin S, pc[p] \notin S,
         NEW k \in Int, Served(pc, k, S, B)
  PROVE  Served(pc', n + 1, {sl}, A) /\ Served(pc', k - 1, S, B)
<1>1. CASE Those(pc, {sl}) = {}
  <2>1. pc' = [pc EXCEPT ![p] = "user"]  BY <1>1 DEF Those, Cond!Signal, Cond!Goto
  <2>2. pc'[p] = "user" /\ Only(pc, pc', p)  BY <2>1 DEF Only
  <2> USE <2>2
  <2>3. Those(pc', {sl}) = {}  BY <1>1 DEF Those, Only
  <2>4. Those(pc', S) = Those(pc, S)  BY DEF Those, Only
  <2>5. Cardinality(Those(pc', B)) = Cardinality(Those(pc, B)) - 1  BY AtLeave
  <2>6. Cardinality(Those(pc, B)) \in Nat  BY AtFinite
  <2>7. Served(pc', n + 1, {sl}, A)  BY <2>3 DEF Served
  <2>8. Served(pc', k - 1, S, B)  BY <2>4, <2>5, <2>6, ServedLess
  <2>9. QED BY <2>7, <2>8
<1>2. CASE Those(pc, {sl}) # {}
  <2>1. PICK q \in Crowd : pc[q] = sl /\ pc' = [pc EXCEPT ![q] = aw, ![p] = "user"]
    BY <1>2 DEF Those, Cond!Signal
  <2> DEFINE mid == [pc EXCEPT ![q] = aw]
  <2>2. /\ q # p /\ Only(pc, mid, q) /\ mid[q] = aw /\ mid[p] = pc[p]
        /\ Only(mid, pc', p) /\ pc'[p] = "user"
    BY <2>1 DEF Only
  <2> USE <2>2
  <2>3. /\ Those(pc', {sl}) \subseteq Those(mid, {sl}) /\ Those(mid, A) \subseteq Those(pc', A)
        /\ Those(pc', S) = Those(mid, S) /\ Those(mid, S) = Those(pc, S)
        /\ Those(mid, B) = Those(pc, B)
    BY <2>1 DEF Those, Only
  <2> HIDE DEF mid
  <2>4. Cardinality(Those(mid, A)) = Cardinality(Those(pc, A)) + 1  BY <2>1, AtJoin
  <2>5. Cardinality(Those(pc', B)) = Cardinality(Those(mid, B)) - 1  BY AtLeave
  <2>6. Cardinality(Those(pc, A)) \in Nat /\ Cardinality(Those(pc, B)) \in Nat  BY AtFinite
  <2>7. Served(mid, n + 1, {sl}, A)
    <3>1. n <= Cardinality(Those(pc, A))  BY <1>2 DEF Served
    <3>2. n + 1 <= Cardinality(Those(mid, A))  BY <2>4, <2>6, <3>1
    <3>3. QED BY <3>2 DEF Served
  <2>8. Served(pc', n + 1, {sl}, A)
    <3>1. n + 1 \in Int  OBVIOUS
    <3>2. QED BY Zenon, <2>3, <2>7, <3>1, ServedMore
  <2>9. Served(pc', k - 1, S, B)  BY <2>3, <2>5, <2>6, ServedLess
  <2>10. QED BY <2>8, <2>9
<1>3. QED BY Zenon, <1>1, <1>2

LEMMA ServedIs ==
  Cond!SleepersServed <=> /\ Served(pc, m4, {"not_empty"}, {"get", "empty?"})
                          /\ Served(pc, CAP - m4, {"not_full"}, {"put", "full?"})
BY CondCardinal DEF Cond!SleepersServed, Served, Cond!At, Those

LEMMA InOrderIs ==
  Cond!InOrder <=> /\ RingHolds(m1, m2, m4, m6, CAP, M)
                   /\ m5 = (m6 + m4) % M
                   /\ \A p \in Crowd : pc[p] \in {"full?", "empty?"} => lock = p
BY DEF Cond!InOrder, RingHolds

LEMMA CondInitInv ==
  ASSUME CAP \in Nat \ {0}, M \in Nat \ {0}, IsFiniteSet(Crowd), Nil \notin Crowd, Cond!Init
  PROVE  Cond!IInv
<1>1. (0 + 0) % CAP = 0 /\ (0 + 0) % M = 0  BY ModSmall
<1>2. Cond!TypeOK /\ Cond!Locked  BY DEF Cond!Init, Cond!TypeOK, Cond!Locked
<1>3. Cond!Placed /\ Cond!InOrder  BY <1>1 DEF Cond!Init, Cond!Placed, Cond!InOrder
<1>4. Cond!SleepersServed
  <2>1. Those(pc, {"not_empty"}) = {} /\ Those(pc, {"not_full"}) = {}  BY DEF Cond!Init, Those
  <2>2. QED BY <2>1, ServedIs DEF Served
<1>5. QED BY <1>2, <1>3, <1>4 DEF Cond!IInv

\* A signal moves one sleeper to those who are on their way.
LEMMA SignalMoves ==
  ASSUME pc \in [Crowd -> {"user", "put", "full?", "not_full", "get", "empty?", "not_empty"}],
         NEW p \in Crowd,
         \/ Cond!Signal(p, "not_empty", "get") /\ pc[p] = "full?"
         \/ Cond!Signal(p, "not_full", "put") /\ pc[p] = "empty?"
  PROVE  /\ pc' \in [Crowd -> {"user", "put", "full?", "not_full", "get", "empty?", "not_empty"}]
         /\ pc'[p] = "user"
         /\ \A q \in Crowd \ {p} : pc'[q] \in {"full?", "empty?"} <=> pc[q] \in {"full?", "empty?"}
<1>1. \/ pc' = [pc EXCEPT ![p] = "user"]
      \/ \E q \in Crowd \ {p} : \/ /\ pc[q] = "not_empty"
                                   /\ pc' = [pc EXCEPT ![q] = "get", ![p] = "user"]
                                \/ /\ pc[q] = "not_full"
                                   /\ pc' = [pc EXCEPT ![q] = "put", ![p] = "user"]
  BY DEF Cond!Signal, Cond!Goto
<1>2. CASE pc' = [pc EXCEPT ![p] = "user"]  BY <1>2
<1>3. ASSUME NEW q \in Crowd \ {p}, pc[q] = "not_empty",
             pc' = [pc EXCEPT ![q] = "get", ![p] = "user"]
      PROVE  /\ pc' \in [Crowd -> {"user", "put", "full?", "not_full", "get", "empty?", "not_empty"}]
             /\ pc'[p] = "user"
             /\ \A r \in Crowd \ {p} :
                  pc'[r] \in {"full?", "empty?"} <=> pc[r] \in {"full?", "empty?"}
  BY <1>3
<1>4. ASSUME NEW q \in Crowd \ {p}, pc[q] = "not_full",
             pc' = [pc EXCEPT ![q] = "put", ![p] = "user"]
      PROVE  /\ pc' \in [Crowd -> {"user", "put", "full?", "not_full", "get", "empty?", "not_empty"}]
             /\ pc'[p] = "user"
             /\ \A r \in Crowd \ {p} :
                  pc'[r] \in {"full?", "empty?"} <=> pc[r] \in {"full?", "empty?"}
  BY <1>4
<1>5. QED BY <1>1, <1>2, <1>3, <1>4

LEMMA CondPutStep ==
  ASSUME CAP \in Nat \ {0}, M \in Nat \ {0}, IsFiniteSet(Crowd), Nil \notin Crowd, Cond!IInv,
         NEW p \in Crowd, pc[p] = "full?", m4 < CAP,
         m1' = [m1 EXCEPT ![m3] = m5], m3' = (m3 + 1) % CAP,
         m4' = m4 + 1, m5' = (m5 + 1) % M, Cond!Signal(p, "not_empty", "get"),
         lock' = Nil, UNCHANGED <<filled, m2, m6>>
  PROVE  Cond!IInv'
<1> DEFINE slot == m1  head == m2  tail == m3  count == m4  sent == m5  taken == m6
<1>1. Cond!TypeOK /\ Cond!Locked /\ Cond!Placed /\ Cond!InOrder /\ Cond!SleepersServed
  BY DEF Cond!IInv
<1>2. /\ pc' \in [Crowd -> {"user", "put", "full?", "not_full", "get", "empty?", "not_empty"}]
      /\ pc'[p] = "user"
      /\ \A q \in Crowd \ {p} : pc'[q] \in {"full?", "empty?"} <=> pc[q] \in {"full?", "empty?"}
  BY <1>1, SignalMoves DEF Cond!TypeOK
<1>3. Cond!Locked' /\ \A q \in Crowd : pc'[q] \notin {"full?", "empty?"}
  BY <1>1, <1>2 DEF Cond!Locked
<1>4. /\ head \in 0..CAP - 1 /\ taken \in 0..M - 1 /\ slot \in [0..CAP - 1 -> 0..M - 1]
      /\ tail = (head + count) % CAP /\ sent = (taken + count) % M /\ sent \in 0..M - 1
      /\ RingHolds(slot, head, count, taken, CAP, M) /\ taken \in Nat /\ head \in Nat
      /\ count \in 0..CAP - 1 /\ count \in Nat
  BY <1>1, InOrderIs DEF Cond!Placed, Cond!TypeOK
<1> USE <1>4
<1>5. RingHolds(slot', head, count', taken, CAP, M)  BY Zenon, RingPut
<1>6. tail' = (head + count') % CAP /\ sent' = (taken + count') % M
  <2>1. /\ head + count \in Nat /\ taken + count \in Nat /\ 1 \in Nat
        /\ (head + count) + 1 = head + (count + 1) /\ (taken + count) + 1 = taken + (count + 1)
    OBVIOUS
  <2> USE <2>1
  <2>2. (((head + count) % CAP) + 1) % CAP = ((head + count) + 1) % CAP  BY ModAdd
  <2>3. (((taken + count) % M) + 1) % M = ((taken + count) + 1) % M  BY ModAdd
  <2>4. QED BY <2>2, <2>3
<1>7. Cond!TypeOK'
  <2>1. tail' \in 0..CAP - 1 /\ sent' \in 0..M - 1
    <3>1. head + count' \in Int /\ taken + count' \in Int  OBVIOUS
    <3>2. QED BY Zenon, <1>6, <3>1, ModRange
  <2>2. slot' \in [0..CAP - 1 -> 0..M - 1] /\ count' \in 0..CAP  OBVIOUS
  <2>3. QED BY <1>1, <1>2, <2>1, <2>2 DEF Cond!TypeOK
<1>8. Cond!Placed' /\ Cond!InOrder'  BY <1>3, <1>5, <1>6 DEF Cond!Placed, Cond!InOrder, RingHolds
<1>9. Cond!SleepersServed'
  <2>1. /\ Served(pc, count, {"not_empty"}, {"get", "empty?"})
        /\ Served(pc, CAP - count, {"not_full"}, {"put", "full?"})
    BY <1>1, ServedIs
  <2>2. /\ Served(pc', count + 1, {"not_empty"}, {"get", "empty?"})
        /\ Served(pc', (CAP - count) - 1, {"not_full"}, {"put", "full?"})
    <3>1. CAP - count \in Int /\ count \in Int  OBVIOUS
    <3>2. pc \in [Crowd -> {"user", "put", "full?", "not_full", "get", "empty?", "not_empty"}]
      BY <1>1 DEF Cond!TypeOK
    <3>3. QED
      <4> DEFINE L == {"user", "put", "full?", "not_full", "get", "empty?", "not_empty"}
                 A == {"get", "empty?"}
                 S == {"not_full"}
                 B == {"put", "full?"}
      <4>1. /\ "user" \in L /\ "not_empty" \in L /\ "get" \in L /\ "get" \in A
            /\ "not_empty" \notin A /\ "not_empty" # "get" /\ pc[p] \notin A
            /\ pc[p] # "not_empty" /\ "user" # "not_empty" /\ pc[p] \in B
            /\ "user" \notin B /\ "not_empty" \notin B /\ "get" \notin B
            /\ "not_empty" \notin S /\ "get" \notin S /\ "user" \notin S /\ pc[p] \notin S
        OBVIOUS
      <4>2. /\ pc \in [Crowd -> L] /\ Served(pc, count, {"not_empty"}, A)
            /\ Served(pc, CAP - count, S, B)
        BY <2>1, <3>2
      <4> HIDE DEF L, A, S, B
      <4>3. /\ Served(pc', count + 1, {"not_empty"}, A)
            /\ Served(pc', (CAP - count) - 1, S, B)
        BY <3>1, <4>1, <4>2, SignalServes
      <4>4. QED BY <4>3 DEF A, S, B
  <2>3. (CAP - count) - 1 = CAP - count'  OBVIOUS
  <2>4. QED BY <2>2, <2>3, CondCardinal DEF Cond!SleepersServed, Served, Cond!At, Those
<1>10. QED BY <1>3, <1>7, <1>8, <1>9 DEF Cond!IInv

LEMMA CondGetStep ==
  ASSUME CAP \in Nat \ {0}, M \in Nat \ {0}, IsFiniteSet(Crowd), Nil \notin Crowd, Cond!IInv,
         NEW p \in Crowd, pc[p] = "empty?", m4 > 0,
         m2' = (m2 + 1) % CAP, m4' = m4 - 1, m6' = (m6 + 1) % M,
         Cond!Signal(p, "not_full", "put"), lock' = Nil, UNCHANGED <<filled, m1, m3, m5>>
  PROVE  Cond!IInv'
<1> DEFINE slot == m1  head == m2  tail == m3  count == m4  sent == m5  taken == m6
<1>1. Cond!TypeOK /\ Cond!Locked /\ Cond!Placed /\ Cond!InOrder /\ Cond!SleepersServed
  BY DEF Cond!IInv
<1>2. /\ pc' \in [Crowd -> {"user", "put", "full?", "not_full", "get", "empty?", "not_empty"}]
      /\ pc'[p] = "user"
      /\ \A q \in Crowd \ {p} : pc'[q] \in {"full?", "empty?"} <=> pc[q] \in {"full?", "empty?"}
  BY <1>1, SignalMoves DEF Cond!TypeOK
<1>3. Cond!Locked' /\ \A q \in Crowd : pc'[q] \notin {"full?", "empty?"}
  BY <1>1, <1>2 DEF Cond!Locked
<1>4. /\ head \in 0..CAP - 1 /\ taken \in 0..M - 1
      /\ tail = (head + count) % CAP /\ sent = (taken + count) % M
      /\ RingHolds(slot, head, count, taken, CAP, M) /\ taken \in Nat /\ head \in Nat
      /\ count \in 1..CAP /\ count \in Nat /\ count - 1 \in Nat
  BY <1>1, InOrderIs DEF Cond!Placed, Cond!TypeOK
<1> USE <1>4
<1>5. RingHolds(slot, head', count', taken', CAP, M)  BY RingTake
<1>6. tail = (head' + count') % CAP /\ sent = (taken' + count') % M
  <2>1. /\ head + 1 \in Nat /\ taken + 1 \in Nat
        /\ (head + 1) + (count - 1) = head + count /\ (taken + 1) + (count - 1) = taken + count
    OBVIOUS
  <2> USE <2>1
  <2>2. (((head + 1) % CAP) + (count - 1)) % CAP = ((head + 1) + (count - 1)) % CAP
    BY Zenon, ModAdd
  <2>3. (((taken + 1) % M) + (count - 1)) % M = ((taken + 1) + (count - 1)) % M  BY Zenon, ModAdd
  <2>4. QED BY <2>2, <2>3
<1>7. Cond!TypeOK'
  <2>1. head' \in 0..CAP - 1 /\ taken' \in 0..M - 1
    <3>1. head + 1 \in Int /\ taken + 1 \in Int  OBVIOUS
    <3>2. QED BY Zenon, <3>1, ModRange
  <2>2. count' \in 0..CAP  OBVIOUS
  <2>3. QED BY <1>1, <1>2, <2>1, <2>2 DEF Cond!TypeOK
<1>8. Cond!Placed' /\ Cond!InOrder'  BY <1>3, <1>5, <1>6 DEF Cond!Placed, Cond!InOrder, RingHolds
<1>9. Cond!SleepersServed'
  <2>1. /\ Served(pc, count, {"not_empty"}, {"get", "empty?"})
        /\ Served(pc, CAP - count, {"not_full"}, {"put", "full?"})
    BY <1>1, ServedIs
  <2>2. /\ Served(pc', (CAP - count) + 1, {"not_full"}, {"put", "full?"})
        /\ Served(pc', count - 1, {"not_empty"}, {"get", "empty?"})
    <3>1. CAP - count \in Int /\ count \in Int  OBVIOUS
    <3>2. pc \in [Crowd -> {"user", "put", "full?", "not_full", "get", "empty?", "not_empty"}]
      BY <1>1 DEF Cond!TypeOK
    <3>3. QED
      <4> DEFINE L == {"user", "put", "full?", "not_full", "get", "empty?", "not_empty"}
                 A == {"put", "full?"}
                 S == {"not_empty"}
                 B == {"get", "empty?"}
      <4>1. /\ "user" \in L /\ "not_full" \in L /\ "put" \in L /\ "put" \in A
            /\ "not_full" \notin A /\ "not_full" # "put" /\ pc[p] \notin A
            /\ pc[p] # "not_full" /\ "user" # "not_full" /\ pc[p] \in B
            /\ "user" \notin B /\ "not_full" \notin B /\ "put" \notin B
            /\ "not_full" \notin S /\ "put" \notin S /\ "user" \notin S /\ pc[p] \notin S
        OBVIOUS
      <4>2. /\ pc \in [Crowd -> L] /\ Served(pc, CAP - count, {"not_full"}, A)
            /\ Served(pc, count, S, B)
        BY <2>1, <3>2
      <4> HIDE DEF L, A, S, B
      <4>3. /\ Served(pc', (CAP - count) + 1, {"not_full"}, A)
            /\ Served(pc', count - 1, S, B)
        BY <3>1, <4>1, <4>2, SignalServes
      <4>4. QED BY <4>3 DEF A, S, B
  <2>3. (CAP - count) + 1 = CAP - count'  OBVIOUS
  <2>4. QED BY <2>2, <2>3, CondCardinal DEF Cond!SleepersServed, Served, Cond!At, Those
<1>10. QED BY <1>3, <1>7, <1>8, <1>9 DEF Cond!IInv

\* The steps that leave the ring alone.
LEMMA CondCallerStep ==
  ASSUME CAP \in Nat \ {0}, M \in Nat \ {0}, IsFiniteSet(Crowd), Nil \notin Crowd, Cond!IInv,
         NEW p \in Crowd, UNCHANGED <<filled, Cond!ring>>,
         \/ Cond!Call(p) \/ Cond!Acquire(p, "put", "full?") \/ Cond!Acquire(p, "get", "empty?")
         \/ pc[p] = "full?" /\ m4 = CAP /\ Cond!Wait(p, "not_full")
         \/ pc[p] = "empty?" /\ m4 = 0 /\ Cond!Wait(p, "not_empty")
         \/ Cond!Spurious(p)
  PROVE  Cond!IInv'
<1> DEFINE count == m4
<1>1. Cond!TypeOK /\ Cond!Locked /\ Cond!Placed /\ Cond!InOrder /\ Cond!SleepersServed
  BY DEF Cond!IInv
<1>2. PICK to \in {"put", "full?", "not_full", "get", "empty?", "not_empty"} :
        /\ pc' = [pc EXCEPT ![p] = to]
        /\ \/ pc[p] = "user" /\ to \in {"put", "get"} /\ lock' = lock
           \/ pc[p] = "put" /\ to = "full?" /\ lock = Nil /\ lock' = p
           \/ pc[p] = "get" /\ to = "empty?" /\ lock = Nil /\ lock' = p
           \/ pc[p] = "full?" /\ to = "not_full" /\ count = CAP /\ lock' = Nil
           \/ pc[p] = "empty?" /\ to = "not_empty" /\ count = 0 /\ lock' = Nil
           \/ pc[p] = "not_full" /\ to = "put" /\ lock' = lock
           \/ pc[p] = "not_empty" /\ to = "get" /\ lock' = lock
  BY DEF Cond!Call, Cond!Acquire, Cond!Wait, Cond!Spurious, Cond!Goto
<1> USE <1>2
<1>3. pc'[p] = to /\ \A q \in Crowd \ {p} : pc'[q] = pc[q]  BY <1>1 DEF Cond!TypeOK
<1>4. Cond!Locked'  BY <1>1, <1>3 DEF Cond!Locked, Cond!TypeOK
<1>5. Cond!TypeOK' /\ Cond!Placed'  BY <1>1 DEF Cond!TypeOK, Cond!Placed, Cond!ring
<1>6. Cond!InOrder'  BY <1>1, <1>4 DEF Cond!InOrder, Cond!Locked, Cond!ring
<1>7. Cond!SleepersServed'
  <2>0. /\ Served(pc, count, {"not_empty"}, {"get", "empty?"})
        /\ Served(pc, CAP - count, {"not_full"}, {"put", "full?"})
        /\ count \in Int /\ CAP - count \in Int /\ count' = count
    BY <1>1, ServedIs DEF Cond!TypeOK, Cond!ring
  <2> USE <2>0
  <2>1. Served(pc', count, {"not_empty"}, {"get", "empty?"})
    <3>1. CASE to = "not_empty"
      <4>1. Cardinality(Those(pc', {"get", "empty?"})) \in Nat /\ count = 0  BY <3>1, AtFinite
      <4>2. QED BY <4>1 DEF Served
    <3>2. CASE to # "not_empty"
      <4>1. /\ Those(pc', {"not_empty"}) \subseteq Those(pc, {"not_empty"})
            /\ Those(pc, {"get", "empty?"}) \subseteq Those(pc', {"get", "empty?"})
        BY <1>3, <3>2 DEF Those
      <4>2. QED BY <4>1, ServedMore
    <3>3. QED BY <3>1, <3>2
  <2>2. Served(pc', CAP - count, {"not_full"}, {"put", "full?"})
    <3>1. CASE to = "not_full"
      <4>1. Cardinality(Those(pc', {"put", "full?"})) \in Nat /\ CAP - count = 0
        BY <3>1, AtFinite
      <4>2. QED BY <4>1 DEF Served
    <3>2. CASE to # "not_full"
      <4>1. /\ Those(pc', {"not_full"}) \subseteq Those(pc, {"not_full"})
            /\ Those(pc, {"put", "full?"}) \subseteq Those(pc', {"put", "full?"})
        BY <1>3, <3>2 DEF Those
      <4>2. QED BY <4>1, ServedMore
    <3>3. QED BY <3>1, <3>2
  <2>3. QED BY <2>1, <2>2, CondCardinal DEF Cond!SleepersServed, Served, Cond!At, Those
<1>8. QED BY <1>4, <1>5, <1>6, <1>7 DEF Cond!IInv

LEMMA CondNextIInv ==
  ASSUME CAP \in Nat \ {0}, M \in Nat \ {0}, IsFiniteSet(Crowd), Nil \notin Crowd,
         Cond!IInv, [Cond!Next]_Cond!vars
  PROVE  Cond!IInv'
<1>1. CASE UNCHANGED Cond!vars
  BY <1>1 DEF Cond!vars, Cond!ring, Cond!IInv, Cond!TypeOK, Cond!Locked, Cond!Placed,
     Cond!InOrder, Cond!SleepersServed, Cond!At
<1>2. ASSUME NEW p \in Crowd, Cond!BqueuePut(p), UNCHANGED filled PROVE Cond!IInv'
  BY <1>2, CondPutStep, CondCallerStep DEF Cond!BqueuePut, Cond!Acquire, Cond!Wait
<1>3. ASSUME NEW p \in Crowd, Cond!BqueueGet(p), UNCHANGED filled PROVE Cond!IInv'
  BY <1>3, CondGetStep, CondCallerStep DEF Cond!BqueueGet, Cond!Acquire, Cond!Wait
<1>4. ASSUME NEW p \in Crowd, Cond!Call(p) \/ Cond!Spurious(p) PROVE Cond!IInv'
  BY <1>4, CondCallerStep DEF Cond!Call, Cond!Spurious
<1>5. QED BY <1>1, <1>2, <1>3, <1>4 DEF Cond!Next, Cond!Step

-----------------------------------------------------------------------------
(* TreiberStack: the lock-free stack. *)

\* What is reached from an address is closed under the links, and the least such.
LEMMA OnClosed ==
  ASSUME NEW f \in [Nodes -> Lfs!Addresses], NEW a \in Lfs!Addresses
  PROVE  /\ Lfs!On(f, a) \subseteq Nodes /\ a \in Lfs!On(f, a) \cup {Nil}
         /\ \A m \in Lfs!On(f, a) : f[m] \in Lfs!On(f, a) \cup {Nil}
BY DEF Lfs!On, Lfs!Addresses

LEMMA OnLeast ==
  ASSUME NEW f \in [Nodes -> Lfs!Addresses], NEW a \in Lfs!Addresses, NEW S \in SUBSET Nodes,
         a \in S \cup {Nil}, \A m \in S : f[m] \in S \cup {Nil}
  PROVE  Lfs!On(f, a) \subseteq S
BY DEF Lfs!On

LEMMA OnNil ==
  ASSUME NEW f \in [Nodes -> Lfs!Addresses]
  PROVE  Lfs!On(f, Nil) = {} /\ Lfs!Ends(f, Nil)
<1>1. ASSUME NEW n \in Lfs!On(f, Nil) PROVE FALSE
  <2> DEFINE T == {m \in Nodes : FALSE}
  <2>1. T \in SUBSET Nodes /\ Nil \in T \cup {Nil} /\ \A m \in T : f[m] \in T \cup {Nil}  OBVIOUS
  <2>2. n \in T  BY Zenon, <2>1 DEF Lfs!On
  <2>3. QED BY <2>2
<1>2. QED BY <1>1 DEF Lfs!Ends

LEMMA OnStep ==
  ASSUME Nil \notin Nodes, NEW f \in [Nodes -> Lfs!Addresses], NEW a \in Nodes
  PROVE  Lfs!On(f, a) = {a} \cup Lfs!On(f, f[a])
<1>0. a \in Lfs!Addresses /\ f[a] \in Lfs!Addresses  BY DEF Lfs!Addresses
<1> USE <1>0
<1>1. Lfs!On(f, a) \subseteq {a} \cup Lfs!On(f, f[a])
  <2> DEFINE T == {a} \cup Lfs!On(f, f[a])
  <2>1. T \in SUBSET Nodes /\ a \in T \cup {Nil}  BY OnClosed
  <2>2. \A m \in T : f[m] \in T \cup {Nil}  BY OnClosed
  <2>3. QED BY Zenon, <2>1, <2>2 DEF Lfs!On
<1>2. Lfs!On(f, f[a]) \subseteq Lfs!On(f, a) /\ a \in Lfs!On(f, a)
  <2>1. a \in Lfs!On(f, a)  BY DEF Lfs!On
  <2>2. Lfs!On(f, a) \in SUBSET Nodes /\ \A m \in Lfs!On(f, a) : f[m] \in Lfs!On(f, a) \cup {Nil}
    BY OnClosed
  <2>3. QED BY <2>1, <2>2, OnLeast
<1>3. QED BY <1>1, <1>2

\* A list that ends does not come back to its first node.
LEMMA NotAgain ==
  ASSUME Nil \notin Nodes, NEW f \in [Nodes -> Lfs!Addresses], NEW a \in Nodes, Lfs!Ends(f, a)
  PROVE  a \notin Lfs!On(f, f[a]) /\ Lfs!Ends(f, f[a])
<1>1. Lfs!On(f, a) = {a} \cup Lfs!On(f, f[a]) /\ f[a] \in Lfs!Addresses  BY OnStep
<1> USE <1>1
<1>2. Lfs!Ends(f, f[a])  BY DEF Lfs!Ends
<1>3. ASSUME a \in Lfs!On(f, f[a]) PROVE FALSE
  <2> DEFINE T == {n \in Lfs!On(f, f[a]) : a \in Lfs!On(f, n)}
  <2>1. a \in Lfs!On(f, a)  OBVIOUS
  <2>2. a \in T /\ T \in SUBSET Lfs!On(f, a)  BY <1>3, <2>1
  <2>3. ASSUME NEW n \in T PROVE f[n] \in T
    <3>1. n \in Nodes /\ f[n] \in Lfs!On(f, f[a]) \cup {Nil}  BY OnClosed
    <3>2. a \in Lfs!On(f, f[n])
      <4>1. CASE n = a  BY <1>3, <4>1
      <4>2. CASE n # a  BY <3>1, <4>2, OnStep
      <4>3. QED BY <4>1, <4>2
    <3>3. f[n] # Nil  BY <3>2, OnNil
    <3>4. QED BY <3>1, <3>2, <3>3
  <2>4. QED BY Zenon, <2>2, <2>3 DEF Lfs!Ends
<1>4. QED BY <1>2, <1>3

\* A list changes only with the links of its own nodes.
LEMMA OnSame ==
  ASSUME NEW f \in [Nodes -> Lfs!Addresses], NEW g \in [Nodes -> Lfs!Addresses], NEW a \in Lfs!Addresses,
         \A n \in Lfs!On(f, a) : g[n] = f[n]
  PROVE  Lfs!On(g, a) = Lfs!On(f, a) /\ (Lfs!Ends(f, a) => Lfs!Ends(g, a))
<1>1. Lfs!On(g, a) \subseteq Lfs!On(f, a)
  <2>1. Lfs!On(f, a) \in SUBSET Nodes /\ a \in Lfs!On(f, a) \cup {Nil}
        /\ \A m \in Lfs!On(f, a) : g[m] \in Lfs!On(f, a) \cup {Nil}
    BY OnClosed
  <2>2. QED BY <2>1, OnLeast
<1>2. Lfs!On(f, a) \subseteq Lfs!On(g, a)
  <2>1. Lfs!On(g, a) \in SUBSET Nodes /\ a \in Lfs!On(g, a) \cup {Nil}
        /\ \A m \in Lfs!On(g, a) : g[m] \in Lfs!On(g, a) \cup {Nil}
    BY OnClosed
  <2>2. \A m \in Lfs!On(g, a) : f[m] \in Lfs!On(g, a) \cup {Nil}  BY <1>1, <2>1
  <2>3. QED BY <2>1, <2>2, OnLeast
<1>3. Lfs!On(f, a) = Lfs!On(g, a)  BY <1>1, <1>2
<1>4. QED BY <1>3 DEF Lfs!Ends

LEMMA EndsPush ==
  ASSUME NEW f \in [Nodes -> Lfs!Addresses], NEW a \in Nodes, a \notin Lfs!On(f, f[a]), Lfs!Ends(f, f[a]),
         Nil \notin Nodes
  PROVE  Lfs!Ends(f, a)
<1>1. Lfs!On(f, a) = {a} \cup Lfs!On(f, f[a]) /\ f[a] \in Lfs!Addresses  BY OnStep
<1> USE <1>1
<1>2. ASSUME NEW S \in SUBSET Lfs!On(f, a), S # {} PROVE \E n \in S : f[n] \notin S
  <2> DEFINE T == S \cap Lfs!On(f, f[a])
  <2>1. CASE T = {}
    <3>1. S = {a}  BY <1>2, <2>1
    <3>2. f[a] # a  BY OnClosed
    <3>3. QED BY <3>1, <3>2
  <2>2. CASE T # {}
    <3>1. T \in SUBSET Lfs!On(f, f[a])  OBVIOUS
    <3>2. PICK n \in T : f[n] \notin T  BY Zenon, <2>2, <3>1 DEF Lfs!Ends
    <3>3. f[n] \in Lfs!On(f, f[a]) \cup {Nil} /\ Nil \notin Lfs!On(f, a)  BY OnClosed
    <3>4. QED BY <3>2, <3>3
  <2>3. QED BY <2>1, <2>2
<1>3. QED BY <1>2 DEF Lfs!Ends

\* MemorySafe said of one node and one thread at a time.
Stacked == Lfs!On(m2, m4)
Parked == Lfs!On(m3, m5)
Has(p) == pc[p] \in {"push", "retire", "park"}
LfsOwned == /\ \A n \in Nodes : n \in heap <=> \/ n \in Stacked
                                               \/ n \in Parked
                                               \/ \E p \in Procs : Has(p) /\ loc[p] = n
            /\ \A n \in Stacked : n \notin Parked
            /\ \A p \in Procs : Has(p) => loc[p] \notin Stacked /\ loc[p] \notin Parked
            /\ \A p, q \in Procs : Has(p) /\ Has(q) /\ loc[p] = loc[q] => p = q

LEMMA LfsFacts ==
  ASSUME Lfs!IInv
  PROVE  /\ Lfs!TypeOK /\ Lfs!Looked /\ LfsOwned /\ Lfs!Ends(m2, m4) /\ Lfs!Ends(m3, m5)
         /\ m2 \in [Nodes -> Lfs!Addresses] /\ m3 \in [Nodes -> Lfs!Addresses]
         /\ m4 \in Lfs!Addresses /\ m5 \in Lfs!Addresses
         /\ Stacked \subseteq Nodes /\ Parked \subseteq Nodes
<1> DEFINE next == m2  rnext == m3  head == m4  retired == m5
<1>1. /\ next \in [Nodes -> Lfs!Addresses] /\ rnext \in [Nodes -> Lfs!Addresses]
      /\ head \in Lfs!Addresses /\ retired \in Lfs!Addresses
  BY DEF Lfs!IInv, Lfs!TypeOK
<1>2. Stacked \subseteq Nodes /\ Parked \subseteq Nodes  BY <1>1, OnClosed DEF Stacked, Parked
<1>3. LfsOwned  BY Zenon DEF Lfs!IInv, Lfs!MemorySafe, LfsOwned, Has, Stacked, Parked
<1>4. QED BY Zenon, <1>1, <1>2, <1>3 DEF Lfs!IInv, Lfs!MemorySafe

LEMMA LfsAgain ==
  ASSUME Lfs!TypeOK', Lfs!Looked', LfsOwned', Lfs!Ends(m2, m4)', Lfs!Ends(m3, m5)'
  PROVE  Lfs!IInv'
<1> DEFINE next == m2  rnext == m3  head == m4  retired == m5
<1>1. /\ next' \in [Nodes -> Lfs!Addresses] /\ rnext' \in [Nodes -> Lfs!Addresses]
      /\ head' \in Lfs!Addresses /\ retired' \in Lfs!Addresses /\ heap' \subseteq Nodes
  BY DEF Lfs!TypeOK
<1>2. Stacked' \subseteq Nodes /\ Parked' \subseteq Nodes  BY <1>1, OnClosed DEF Stacked, Parked
<1>3. \A p \in Procs : Has(p)' => loc'[p] \in Nodes  BY DEF Lfs!Looked, Has
<1>4. \A p \in Procs : pc'[p] = "peek" => loc'[p] \in heap'
  <2>1. \A p \in Procs : pc'[p] = "peek" => loc'[p] \in Nodes
    BY <1>2, <1>3 DEF Lfs!Looked, Lfs!Used, Has, Stacked, Parked
  <2>2. QED BY <2>1 DEF Lfs!Looked, Lfs!Used, LfsOwned, Has, Stacked, Parked
<1>5. heap' = Stacked' \cup Parked' \cup {loc'[p] : p \in {q \in Procs : Has(q)'}}
  BY <1>1, <1>2, <1>3 DEF LfsOwned
<1>6. Lfs!MemorySafe'  BY <1>4, <1>5 DEF Lfs!MemorySafe, LfsOwned, Has, Stacked, Parked
<1>7. QED BY <1>6 DEF Lfs!IInv

LEMMA LfsPushStep ==
  ASSUME Nil \notin Nodes, Lfs!IInv, NEW p \in Procs, Lfs!Push(p), filled' = filled PROVE Lfs!IInv'
<1> DEFINE ahead == m1  next == m2  rnext == m3  head == m4  retired == m5
<1> USE LfsFacts
<1>1. CASE pc[p] = "user"
  <2>1. PICK n \in Nodes \ heap :
          /\ heap' = heap \cup {n} /\ loc' = [loc EXCEPT ![p] = n]
          /\ next' = [next EXCEPT ![n] = head] /\ rnext' = [rnext EXCEPT ![n] = Nil]
          /\ pc' = [pc EXCEPT ![p] = "push"] /\ UNCHANGED <<head, retired, ahead>>
    BY <1>1 DEF Lfs!Push, Lfs!InHand, Lfs!Goto
  <2> USE <2>1
  <2>2. n \notin Stacked /\ n \notin Parked /\ \A q \in Procs : Has(q) => loc[q] # n
    BY DEF LfsOwned
  <2>3. Lfs!TypeOK'  BY DEF Lfs!TypeOK, Lfs!Addresses
  <2>4. /\ next' \in [Nodes -> Lfs!Addresses] /\ \A m \in Nodes \ {n} : next'[m] = next[m]
        /\ rnext' \in [Nodes -> Lfs!Addresses] /\ \A m \in Nodes \ {n} : rnext'[m] = rnext[m]
    BY <2>3 DEF Lfs!TypeOK
  <2> USE <2>2, <2>4
  <2>5. Stacked' = Stacked /\ Lfs!Ends(next, head)'
    <3>1. head' = head /\ \A m \in Lfs!On(next, head) : next'[m] = next[m]  BY DEF Stacked
    <3>2. Lfs!On(next', head) = Lfs!On(next, head) /\ Lfs!Ends(next', head)
      BY Zenon, <3>1, OnSame
    <3>3. QED BY <3>1, <3>2 DEF Stacked
  <2>6. Parked' = Parked /\ Lfs!Ends(rnext, retired)'
    <3>1. retired' = retired /\ \A m \in Lfs!On(rnext, retired) : rnext'[m] = rnext[m]
      BY DEF Parked
    <3>2. Lfs!On(rnext', retired) = Lfs!On(rnext, retired) /\ Lfs!Ends(rnext', retired)
      BY Zenon, <3>1, OnSame
    <3>3. QED BY <3>1, <3>2 DEF Parked
  <2>7. /\ pc'[p] = "push" /\ loc'[p] = n /\ ~Has(p)
        /\ \A q \in Procs \ {p} : pc'[q] = pc[q] /\ loc'[q] = loc[q]
    BY <1>1 DEF Lfs!TypeOK, Has
  <2> USE <2>5, <2>6, <2>7
  <2>8. LfsOwned'  BY DEF LfsOwned, Has
  <2>9. \A q \in Procs \ {p} : pc[q] \in {"peek", "pop"} => loc[q] \in Nodes \ {n}
    BY DEF Lfs!Looked, Lfs!Used, Has, Stacked, Parked
  <2>10. Lfs!Looked'
    <3>1. Lfs!Used \subseteq Lfs!Used'  BY <1>1 DEF Lfs!Used, Stacked, Parked
    <3>2. QED BY <2>9, <3>1 DEF Lfs!Looked
  <2>11. QED BY <2>3, <2>8, <2>10, LfsAgain
<1>2. CASE pc[p] = "push" /\ head = next[loc[p]]
  <2> USE <1>2
  <2> DEFINE n == loc[p]
  <2>1. /\ head' = n /\ loc' = [loc EXCEPT ![p] = Nil] /\ pc' = [pc EXCEPT ![p] = "user"]
        /\ UNCHANGED <<next, heap, rnext, retired, ahead>>
    BY DEF Lfs!Push, Lfs!InHand, Lfs!Goto
  <2>2. n \in Nodes /\ n \notin Stacked /\ n \notin Parked  BY DEF Lfs!Looked, LfsOwned, Has
  <2> USE <2>1, <2>2
  <2>3. Lfs!TypeOK'  BY DEF Lfs!TypeOK, Lfs!Addresses
  <2>4. Stacked' = {n} \cup Stacked  BY OnStep DEF Stacked
  <2>5. Lfs!Ends(next, head)'  BY EndsPush DEF Stacked
  <2>6. Parked' = Parked /\ Lfs!Ends(rnext, retired)'  BY DEF Parked, Lfs!Ends
  <2>7. /\ pc'[p] = "user" /\ Has(p)
        /\ \A q \in Procs \ {p} : pc'[q] = pc[q] /\ loc'[q] = loc[q]
    BY DEF Lfs!TypeOK, Has
  <2> USE <2>6, <2>7
  <2>8. LfsOwned'  BY <2>4 DEF LfsOwned, Has
  <2>9. Lfs!Looked'
    <3>1. Lfs!Used \subseteq Lfs!Used'  BY <2>4 DEF Lfs!Used, Stacked, Parked
    <3>2. QED BY <3>1 DEF Lfs!Looked
  <2>10. QED BY <2>3, <2>5, <2>8, <2>9, LfsAgain
<1>3. CASE pc[p] = "push" /\ head # next[loc[p]]
  <2> DEFINE n == loc[p]
  <2>1. next' = [next EXCEPT ![n] = head] /\ UNCHANGED <<head, loc, pc, heap, rnext, retired, ahead>>
    BY <1>3 DEF Lfs!Push
  <2>2. n \in Nodes /\ n \notin Stacked /\ n \notin Parked /\ Has(p)
    BY <1>3 DEF Lfs!Looked, LfsOwned, Has
  <2> USE <2>1, <2>2
  <2>3. Lfs!TypeOK'  BY Zenon DEF Lfs!TypeOK
  <2>4. next' \in [Nodes -> Lfs!Addresses] /\ \A m \in Nodes \ {n} : next'[m] = next[m]
    BY <2>3 DEF Lfs!TypeOK
  <2> USE <2>4
  <2>5. Stacked' = Stacked /\ Lfs!Ends(next, head)'
    <3>1. head' = head /\ \A m \in Lfs!On(next, head) : next'[m] = next[m]  BY DEF Stacked
    <3>2. Lfs!On(next', head) = Lfs!On(next, head) /\ Lfs!Ends(next', head)
      BY Zenon, <3>1, OnSame
    <3>3. QED BY <3>1, <3>2 DEF Stacked
  <2>6. Parked' = Parked /\ Lfs!Ends(rnext, retired)'  BY DEF Parked, Lfs!Ends
  <2> USE <2>5, <2>6
  <2>7. LfsOwned'  BY DEF LfsOwned, Has
  <2>8. \A q \in Procs : pc[q] \in {"peek", "pop"} => loc[q] \in Nodes \ {n}
    <3>1. \A q \in Procs : pc[q] \in {"retire", "park"} => loc[q] # n /\ loc[q] \in Nodes
      BY <1>3 DEF LfsOwned, Has, Lfs!Looked
    <3>2. QED BY <3>1 DEF Lfs!Looked, Lfs!Used, Stacked, Parked
  <2>9. Lfs!Looked'
    <3>1. Lfs!Used' = Lfs!Used  BY DEF Lfs!Used, Stacked, Parked
    <3>2. QED BY <2>8, <3>1 DEF Lfs!Looked
  <2>10. QED BY <2>3, <2>7, <2>9, LfsAgain
<1>4. QED BY <1>1, <1>2, <1>3 DEF Lfs!Push

LEMMA RetireStep ==
  ASSUME Nil \notin Nodes, Lfs!IInv, NEW p \in Procs, Lfs!Retire(p), UNCHANGED <<m1, m4, filled>>
  PROVE  Lfs!IInv'
<1> DEFINE next == m2  rnext == m3  head == m4  retired == m5
<1> USE LfsFacts
<1> DEFINE n == loc[p]
<1>1. /\ pc[p] \in {"retire", "park"} /\ Has(p) /\ n \in Nodes /\ n \notin Stacked /\ n \notin Parked
      /\ UNCHANGED <<heap, next>>
  BY DEF Lfs!Retire, Lfs!Looked, LfsOwned, Has
<1> USE <1>1
<1>2. Stacked' = Stacked /\ Lfs!Ends(next, head)'  BY DEF Stacked, Lfs!Ends
<1> USE <1>2
<1>3. CASE /\ rnext' = [rnext EXCEPT ![n] = retired]
           /\ pc' \in {pc, [pc EXCEPT ![p] = "park"]} /\ UNCHANGED <<loc, retired>>
  <2> USE <1>3
  <2>1. Lfs!TypeOK'  BY DEF Lfs!TypeOK
  <2>2. rnext' \in [Nodes -> Lfs!Addresses] /\ \A m \in Nodes \ {n} : rnext'[m] = rnext[m]
    BY <2>1 DEF Lfs!TypeOK
  <2>3. Parked' = Parked /\ Lfs!Ends(rnext, retired)'
    <3>1. retired' = retired /\ \A m \in Lfs!On(rnext, retired) : rnext'[m] = rnext[m]
      BY <2>2 DEF Parked
    <3>2. Lfs!On(rnext', retired) = Lfs!On(rnext, retired) /\ Lfs!Ends(rnext', retired)
      BY Zenon, <2>2, <3>1, OnSame
    <3>3. QED BY <3>1, <3>2 DEF Parked
  <2>4. \A q \in Procs : /\ loc'[q] = loc[q] /\ Has(q)' = Has(q) /\ (q # p => pc'[q] = pc[q])
                         /\ pc'[p] \in {"retire", "park"}
    BY DEF Lfs!TypeOK, Has
  <2> USE <2>3, <2>4
  <2>5. LfsOwned'  BY DEF LfsOwned
  <2>6. Lfs!Used' = Lfs!Used  BY DEF Lfs!Used, Stacked, Parked
  <2>7. Lfs!Looked'  BY <2>6 DEF Lfs!Looked
  <2>8. QED BY <2>1, <2>5, <2>7, LfsAgain
<1>4. CASE /\ retired = rnext[n] /\ retired' = n /\ loc' = [loc EXCEPT ![p] = Nil]
           /\ pc' = [pc EXCEPT ![p] = "user"] /\ UNCHANGED rnext
  <2> USE <1>4
  <2>1. Lfs!TypeOK'  BY DEF Lfs!TypeOK, Lfs!Addresses
  <2>2. Parked' = {n} \cup Parked  BY OnStep DEF Parked
  <2>3. Lfs!Ends(rnext, retired)'  BY EndsPush DEF Parked
  <2>4. /\ pc'[p] = "user"
        /\ \A q \in Procs \ {p} : pc'[q] = pc[q] /\ loc'[q] = loc[q]
    BY DEF Lfs!TypeOK
  <2> USE <2>4
  <2>5. LfsOwned'  BY <2>2 DEF LfsOwned, Has
  <2>6. Lfs!Used \subseteq Lfs!Used'  BY <2>2 DEF Lfs!Used, Stacked, Parked
  <2>7. Lfs!Looked'  BY <2>6 DEF Lfs!Looked
  <2>8. QED BY <2>1, <2>3, <2>5, <2>7, LfsAgain
<1>5. QED BY <1>3, <1>4 DEF Lfs!Retire, Lfs!Goto, Lfs!InHand

\* The loop of pop looks at the head, before its first attempt or after one that failed.
LEMMA LookStep ==
  ASSUME Nil \notin Nodes, Lfs!IInv, NEW p \in Procs, Lfs!Look(p), pc[p] \in {"user", "pop"},
         m1' \in {m1, [m1 EXCEPT ![p] = Nil]},
         UNCHANGED <<heap, m2, m3, m4, m5, filled>>
  PROVE  Lfs!IInv'
<1> DEFINE ahead == m1  next == m2  rnext == m3  head == m4  retired == m5
<1> USE LfsFacts
<1>1. /\ loc' = [loc EXCEPT ![p] = head]
      /\ pc' = [pc EXCEPT ![p] = IF head = Nil THEN "user" ELSE "peek"]
  BY DEF Lfs!Look, Lfs!InHand, Lfs!Goto
<1>2. Lfs!TypeOK'  BY <1>1 DEF Lfs!TypeOK, Lfs!Addresses
<1>3. /\ loc'[p] = head /\ pc'[p] \in {"user", "peek"} /\ (pc'[p] = "peek" => head # Nil)
      /\ \A q \in Procs \ {p} : pc'[q] = pc[q] /\ loc'[q] = loc[q] /\ ahead'[q] = ahead[q]
  BY <1>1 DEF Lfs!TypeOK
<1>4. Stacked' = Stacked /\ Parked' = Parked /\ Lfs!Ends(next, head)' /\ Lfs!Ends(rnext, retired)'
  BY DEF Stacked, Parked, Lfs!Ends
<1> USE <1>3, <1>4
<1>5. \A q \in Procs : Has(q)' = Has(q) /\ (Has(q) => loc'[q] = loc[q])  BY DEF Has
<1>6. LfsOwned'  BY <1>5 DEF LfsOwned
<1>7. Lfs!Used \subseteq Lfs!Used' /\ (head # Nil => head \in Lfs!Used)
  <2>1. head # Nil => head \in Stacked  BY OnClosed DEF Stacked
  <2>2. QED BY <2>1 DEF Lfs!Used, Stacked, Parked
<1>8. Lfs!Looked'  BY <1>7 DEF Lfs!Looked
<1>9. QED BY <1>2, <1>6, <1>8, LfsAgain

LEMMA LfsPopStep ==
  ASSUME Nil \notin Nodes, Lfs!IInv, NEW p \in Procs, Lfs!Pop(p), filled' = filled PROVE Lfs!IInv'
<1> DEFINE ahead == m1  next == m2  rnext == m3  head == m4  retired == m5
<1> USE LfsFacts
<1>1. CASE Lfs!Retire(p) /\ UNCHANGED <<ahead, head>>  BY <1>1, RetireStep
<1>2. CASE /\ pc[p] \in {"user", "pop"} /\ Lfs!Look(p)
           /\ ahead' \in {ahead, [ahead EXCEPT ![p] = Nil]}
           /\ UNCHANGED <<heap, next, rnext, head, retired>>
  BY <1>2, LookStep
<1>3. CASE /\ pc[p] = "peek" /\ ahead' = [ahead EXCEPT ![p] = next[loc[p]]]
           /\ pc' = [pc EXCEPT ![p] = "pop"]
           /\ UNCHANGED <<loc, heap, next, rnext, head, retired>>
  <2> USE <1>3
  <2>1. loc[p] \in Nodes /\ loc[p] \in Lfs!Used
    <3>1. \A q \in Procs : pc[q] \in {"retire", "park"} => loc[q] \in Nodes  BY DEF Lfs!Looked
    <3>2. QED BY <3>1 DEF Lfs!Looked, Lfs!Used, Stacked, Parked
  <2>2. Lfs!TypeOK'  BY <2>1 DEF Lfs!TypeOK
  <2>3. /\ pc'[p] = "pop" /\ ahead'[p] = next[loc[p]]
        /\ \A q \in Procs \ {p} : pc'[q] = pc[q] /\ ahead'[q] = ahead[q]
    BY DEF Lfs!TypeOK
  <2>4. Stacked' = Stacked /\ Parked' = Parked /\ Lfs!Ends(next, head)' /\ Lfs!Ends(rnext, retired)'
    BY DEF Stacked, Parked, Lfs!Ends
  <2> USE <2>3, <2>4
  <2>5. \A q \in Procs : Has(q)' = Has(q)  BY DEF Has
  <2>6. LfsOwned'  BY <2>5 DEF LfsOwned
  <2>7. Lfs!Used' = Lfs!Used  BY DEF Lfs!Used, Stacked, Parked
  <2>8. Lfs!Looked'  BY <2>1, <2>7 DEF Lfs!Looked
  <2>9. QED BY <2>2, <2>6, <2>8, LfsAgain
<1>4. CASE /\ pc[p] = "pop" /\ head = loc[p] /\ head' = ahead[p]
           /\ ahead' = [ahead EXCEPT ![p] = Nil] /\ pc' = [pc EXCEPT ![p] = "retire"]
           /\ UNCHANGED <<loc, heap, next, rnext, retired>>
  <2> USE <1>4
  <2> DEFINE n == loc[p]
  <2>1. n \in Nodes /\ head' = next[n]
    <3>1. \A q \in Procs : pc[q] \in {"retire", "park"} => loc[q] \in Nodes  BY DEF Lfs!Looked
    <3>2. QED BY <3>1 DEF Lfs!Looked, Lfs!Used, Stacked, Parked
  <2> USE <2>1
  <2>2. Lfs!TypeOK'  BY DEF Lfs!TypeOK, Lfs!Addresses
  <2>3. /\ Stacked = {n} \cup Stacked' /\ n \notin Stacked' /\ Lfs!Ends(next, head)'
    BY OnStep, NotAgain DEF Stacked
  <2>4. Parked' = Parked /\ Lfs!Ends(rnext, retired)'  BY DEF Parked, Lfs!Ends
  <2>5. /\ pc'[p] = "retire" /\ ~Has(p)
        /\ \A q \in Procs \ {p} : pc'[q] = pc[q] /\ ahead'[q] = ahead[q]
    BY DEF Lfs!TypeOK, Has
  <2> USE <2>3, <2>4, <2>5
  <2>6. LfsOwned'
    <3>1. n \notin Parked /\ \A q \in Procs : Has(q) => loc[q] # n  BY DEF LfsOwned
    <3>2. Has(p)'  BY DEF Has
    <3>3. \A q \in Procs \ {p} : Has(q)' = Has(q)  BY DEF Has
    <3>4. QED BY <3>1, <3>2, <3>3 DEF LfsOwned
  <2>7. Lfs!Used \subseteq Lfs!Used'  BY DEF Lfs!Used, Stacked, Parked
  <2>8. Lfs!Looked'  BY <2>7 DEF Lfs!Looked
  <2>9. QED BY <2>2, <2>6, <2>8, LfsAgain
<1>5. QED BY <1>1, <1>2, <1>3, <1>4 DEF Lfs!Pop, Lfs!InHand, Lfs!Goto, Lfs!fields

LEMMA DestroyStep ==
  ASSUME Nil \notin Nodes, Lfs!IInv, Lfs!Destroy, filled' = filled PROVE Lfs!IInv'
<1> DEFINE ahead == m1  next == m2  rnext == m3  head == m4  retired == m5
<1> USE LfsFacts
<1>1. /\ \A q \in Procs : pc[q] = "user" /\ pc'[q] = "gone"
      /\ heap' = heap \ (Stacked \cup Parked) /\ head' = Nil /\ retired' = Nil
      /\ UNCHANGED <<loc, ahead, next, rnext>>
  BY DEF Lfs!Destroy, Stacked, Parked, Lfs!fields
<1> USE <1>1
<1>2. Stacked' = {} /\ Parked' = {} /\ Lfs!Ends(next, head)' /\ Lfs!Ends(rnext, retired)'
  BY OnNil DEF Stacked, Parked
<1>3. heap' = {}  BY DEF LfsOwned, Has, Lfs!TypeOK
<1>4. Lfs!TypeOK'  BY <1>3 DEF Lfs!TypeOK, Lfs!Addresses, Lfs!Destroy
<1>5. LfsOwned' /\ Lfs!Looked'  BY <1>2, <1>3 DEF LfsOwned, Has, Lfs!Looked
<1>6. QED BY <1>2, <1>4, <1>5, LfsAgain

LEMMA LfsInitInv == ASSUME Nil \notin Nodes, Lfs!Init PROVE Lfs!IInv
<1> DEFINE next == m2  rnext == m3  head == m4  retired == m5
<1>1. /\ next \in [Nodes -> Lfs!Addresses] /\ rnext \in [Nodes -> Lfs!Addresses]
      /\ head = Nil /\ retired = Nil /\ heap = {} /\ \A p \in Procs : pc[p] = "user"
  BY DEF Lfs!Init, Lfs!Addresses
<1> USE <1>1
<1>2. Lfs!On(next, head) = {} /\ Lfs!On(rnext, retired) = {} /\ Lfs!Ends(next, head) /\ Lfs!Ends(rnext, retired)
  BY OnNil
<1>3. Lfs!TypeOK  BY DEF Lfs!Init, Lfs!TypeOK, Lfs!Addresses
<1>4. Lfs!Looked  BY Zenon DEF Lfs!Looked
<1>5. Lfs!MemorySafe  BY <1>2 DEF Lfs!MemorySafe
<1>6. QED BY <1>3, <1>4, <1>5 DEF Lfs!IInv

LEMMA LfsNextIInv == ASSUME Nil \notin Nodes, Lfs!IInv, [Lfs!Next]_Lfs!vars PROVE Lfs!IInv'
<1>1. CASE UNCHANGED Lfs!vars
  BY <1>1 DEF Lfs!vars, Lfs!fields, Lfs!IInv, Lfs!TypeOK, Lfs!Looked, Lfs!Used,
     Lfs!MemorySafe
<1>2. CASE Lfs!Destroy /\ filled' = filled  BY <1>2, DestroyStep
<1>3. ASSUME NEW p \in Procs, Lfs!Push(p) \/ Lfs!Pop(p), filled' = filled PROVE Lfs!IInv'
  BY <1>3, LfsPushStep, LfsPopStep
<1>4. QED BY <1>1, <1>2, <1>3 DEF Lfs!Next

-----------------------------------------------------------------------------
(* McsLock: the queue of the waiting threads. *)

LEMMA McsInitInv == ASSUME Nil \notin Crowd, Mcs!Init PROVE Mcs!IInv
BY DEF Mcs!Init, Mcs!IInv, Mcs!TypeOK, Mcs!Queue, Mcs!First, Mcs!Others, Mcs!Last,
   Mcs!Once, Mcs!Listed, Mcs!Unfilled, Mcs!Holds, Mcs!Behind

\* Who holds the lock is at the head, who is behind is further back.
LEMMA McsPlaces ==
  ASSUME Mcs!IInv, filled, NEW p \in Crowd
  PROVE  /\ pc[p] \in Mcs!Holds => m4 # <<>> /\ m4[1] = p
         /\ pc[p] \in {"mark", "link"} => \E i \in 2..Len(m4) : m4[i] = p
         /\ pc[p] = "spin" /\ ~m2[p] => m4 # <<>> /\ m4[1] = p
<1> DEFINE order == m4
<1>1. Mcs!First /\ Mcs!Others /\ Mcs!Listed /\ order \in Seq(Crowd)
  BY DEF Mcs!IInv, Mcs!Queue, Mcs!TypeOK
<1> USE <1>1
<1>2. pc[p] \in Mcs!Holds \cup Mcs!Behind => \E i \in 1..Len(order) : order[i] = p
  BY DEF Mcs!Listed
<1>3. \A i \in 1..Len(order) : i = 1 \/ i \in 2..Len(order)  OBVIOUS
<1>4. \A i \in 1..Len(order) : order # <<>>  OBVIOUS
<1>5. QED BY <1>2, <1>3, <1>4 DEF Mcs!First, Mcs!Others, Mcs!Holds, Mcs!Behind

LEMMA CallStep ==
  ASSUME Nil \notin Crowd, Mcs!IInv, NEW p \in Crowd, Mcs!Call(p)
  PROVE  Mcs!IInv'
<1> DEFINE next == m1  locked == m2  tail == m3  order == m4
<1>1. /\ pc[p] = "user" /\ UNCHANGED <<filled, loc, next, locked, tail, order>>
      /\ pc' = [pc EXCEPT ![p] = IF filled THEN "reset" ELSE "critical"]
  BY DEF Mcs!Call, Mcs!Goto
<1> USE <1>1
<1>2. Mcs!TypeOK' /\ Mcs!Unfilled'  BY DEF Mcs!IInv, Mcs!TypeOK, Mcs!Unfilled
<1>3. ASSUME filled PROVE Mcs!Queue'
  <2>1. Mcs!First /\ Mcs!Others /\ Mcs!Last /\ Mcs!Once /\ Mcs!Listed /\ order \in Seq(Crowd)
    BY <1>3 DEF Mcs!IInv, Mcs!Queue, Mcs!TypeOK
  <2>2. \A x \in Crowd \ {p} : pc'[x] = pc[x]  BY DEF Mcs!IInv, Mcs!TypeOK
  <2>3. pc'[p] = "reset"  BY <1>3 DEF Mcs!IInv, Mcs!TypeOK
  <2> USE <2>1
  <2>4. \A i \in 1..Len(order) : order[i] \in Crowd /\ order[i] # p
    BY DEF Mcs!First, Mcs!Others, Mcs!Holds, Mcs!Behind
  <2>5. Mcs!First' /\ Mcs!Others' /\ Mcs!Last' /\ Mcs!Once'
    BY <2>2, <2>4 DEF Mcs!First, Mcs!Others, Mcs!Last, Mcs!Once
  <2>6. Mcs!Listed'  BY <2>2, <2>3, <2>4 DEF Mcs!Listed, Mcs!Holds, Mcs!Behind
  <2>7. QED BY <2>5, <2>6 DEF Mcs!Queue
<1>4. QED BY <1>2, <1>3 DEF Mcs!IInv, Mcs!Queue

LEMMA TypeStep ==
  ASSUME Nil \notin Crowd, Mcs!IInv, NEW p \in Crowd, Mcs!Step(p)
  PROVE  Mcs!TypeOK' /\ Mcs!Unfilled' /\ filled' = filled
<1> DEFINE next == m1  locked == m2  tail == m3  order == m4
<1>1. Mcs!TypeOK /\ Mcs!Unfilled /\ filled' = filled  BY DEF Mcs!IInv, Mcs!Step
<1> USE <1>1
<1>2. pc[p] = "link" \/ pc[p] = "pass" => loc[p] \in Crowd
  <2>1. pc[p] = "link" \/ pc[p] = "pass" => filled  BY DEF Mcs!Unfilled
  <2>2. ASSUME filled, pc[p] = "link" PROVE loc[p] \in Crowd
    <3>1. PICK i \in 2..Len(order) : order[i] = p  BY <2>2, McsPlaces
    <3>2. loc[p] = order[i - 1]  BY <2>2, <3>1 DEF Mcs!IInv, Mcs!Queue, Mcs!Others
    <3>3. i - 1 \in 1..Len(order) /\ order \in Seq(Crowd)  BY <3>1 DEF Mcs!TypeOK
    <3>4. QED BY <3>2, <3>3
  <2>3. ASSUME filled, pc[p] = "pass" PROVE loc[p] \in Crowd
    <3>1. loc[p] = order[2] /\ Len(order) > 1  BY <2>3 DEF Mcs!IInv, Mcs!Queue, Mcs!Listed
    <3>2. QED BY <3>1 DEF Mcs!TypeOK
  <2>4. QED BY <2>1, <2>2, <2>3
<1>3. pc' \in [Crowd -> {"user", "reset", "swap", "mark", "link", "spin",
                         "critical", "last", "await", "pass"}]
  BY DEF Mcs!TypeOK, Mcs!Step, Mcs!Lock, Mcs!Unlock, Mcs!Goto
<1>4. /\ loc' \in [Crowd -> Crowd \cup {Nil}] /\ next' \in [Crowd -> Crowd \cup {Nil}]
      /\ locked' \in [Crowd -> BOOLEAN] /\ tail' \in Crowd \cup {Nil}
  BY Zenon, <1>2 DEF Mcs!TypeOK, Mcs!Step, Mcs!Lock, Mcs!Unlock
<1>5. order' \in Seq(Crowd)
  <2>1. \/ order' = order
        \/ order' = Append(order, p)
        \/ order' = Tail(order) /\ pc[p] \in {"last", "pass"}
    BY DEF Mcs!Step, Mcs!Lock, Mcs!Unlock
  <2>2. pc[p] \in {"last", "pass"} => order # <<>>
    <3>1. pc[p] \in {"last", "pass"} => filled  BY DEF Mcs!Unfilled
    <3>2. QED BY <3>1, McsPlaces DEF Mcs!Holds
  <2>3. order \in Seq(Crowd)  BY DEF Mcs!TypeOK
  <2> USE <2>3
  <2>4. CASE order' = Append(order, p)  BY <2>4
  <2>5. CASE order' = Tail(order) /\ pc[p] \in {"last", "pass"}  BY <2>2, <2>5
  <2>6. QED BY <2>1, <2>4, <2>5
<1>6. Mcs!Unfilled'  BY DEF Mcs!TypeOK, Mcs!Unfilled, Mcs!Step, Mcs!Lock, Mcs!Unlock, Mcs!Goto
<1>7. QED BY <1>3, <1>4, <1>5, <1>6 DEF Mcs!TypeOK

\* Steps of a thread outside the queue: reset, and the exchange on tail.
LEMMA McsEnterStep ==
  ASSUME Nil \notin Crowd, Mcs!IInv, filled, NEW p \in Crowd, Mcs!Lock(p),
         pc[p] \in {"reset", "swap"}
  PROVE  Mcs!First' /\ Mcs!Others' /\ Mcs!Last' /\ Mcs!Once' /\ Mcs!Listed'
<1> DEFINE next == m1  locked == m2  tail == m3  order == m4
<1>1. Mcs!TypeOK /\ Mcs!First /\ Mcs!Others /\ Mcs!Last /\ Mcs!Once /\ Mcs!Listed
  BY DEF Mcs!IInv, Mcs!Queue
<1> USE <1>1
<1>2. order \in Seq(Crowd) /\ Len(order) \in Nat  BY DEF Mcs!TypeOK
<1> USE <1>2
<1>3. \A i \in 1..Len(order) : order[i] \in Crowd /\ order[i] # p
  BY DEF Mcs!First, Mcs!Others, Mcs!Holds, Mcs!Behind
<1>4. CASE pc[p] = "reset"
  <2>1. /\ next' = [next EXCEPT ![p] = Nil] /\ pc' = [pc EXCEPT ![p] = "swap"]
        /\ UNCHANGED <<loc, locked, tail, order>>
    BY <1>4 DEF Mcs!Lock, Mcs!Goto
  <2> USE <2>1
  <2>2. \A x \in Crowd \ {p} : pc'[x] = pc[x] /\ next'[x] = next[x]  BY DEF Mcs!TypeOK
  <2>3. pc'[p] = "swap" /\ next'[p] = Nil  BY DEF Mcs!TypeOK
  <2>4. Mcs!First' /\ Mcs!Others' /\ Mcs!Last' /\ Mcs!Once'
    BY <1>3, <2>2 DEF Mcs!First, Mcs!Others, Mcs!Last, Mcs!Once
  <2>5. Mcs!Listed'  BY <1>3, <2>2, <2>3 DEF Mcs!Listed, Mcs!Holds, Mcs!Behind
  <2>6. QED BY <2>4, <2>5
<1>5. CASE pc[p] = "swap"
  <2> DEFINE n == Len(order)
  <2>1. /\ loc' = [loc EXCEPT ![p] = tail] /\ tail' = p /\ order' = Append(order, p)
        /\ pc' = [pc EXCEPT ![p] = IF tail = Nil THEN "critical" ELSE "mark"]
        /\ UNCHANGED <<next, locked>>
    BY <1>5 DEF Mcs!Lock, Mcs!Goto
  <2> USE <2>1
  <2>2. \A x \in Crowd \ {p} : pc'[x] = pc[x] /\ loc'[x] = loc[x]  BY DEF Mcs!TypeOK
  <2>3. /\ pc'[p] = IF tail = Nil THEN "critical" ELSE "mark"
        /\ loc'[p] = tail /\ next[p] = Nil
    BY <1>5 DEF Mcs!TypeOK, Mcs!Listed
  <2>4. /\ Len(order') = n + 1 /\ order'[n + 1] = p /\ order' # <<>>
        /\ \A i \in 1..n : order'[i] = order[i]
    OBVIOUS
  <2>5. /\ tail = Nil => n = 0
        /\ tail # Nil => n > 0 /\ tail = order[n] /\ next[order[n]] = Nil
    BY <1>3 DEF Mcs!Last
  <2> USE <2>4
  <2>6. Mcs!First'  BY <1>3, <2>2, <2>3, <2>5 DEF Mcs!First, Mcs!Holds
  <2>7. Mcs!Others'
    <3> SUFFICES ASSUME NEW i \in 2..(n + 1)
        PROVE /\ pc'[order'[i]] \in Mcs!Behind
              /\ pc'[order'[i]] \in {"mark", "link"} =>
                   loc'[order'[i]] = order'[i - 1] /\ next'[order'[i - 1]] = Nil
              /\ pc'[order'[i]] \in {"link", "spin"} => locked'[order'[i]]
              /\ pc'[order'[i]] = "spin" => next'[order'[i - 1]] = order'[i]
      BY DEF Mcs!Others
    <3>1. CASE i = n + 1  BY <2>3, <2>5, <3>1 DEF Mcs!Behind
    <3>2. CASE i # n + 1
      <4>1. i \in 2..n /\ i - 1 \in 1..n /\ i \in 1..n  BY <3>2
      <4> USE <4>1
      <4>2. order'[i] = order[i] /\ order'[i - 1] = order[i - 1]  OBVIOUS
      <4>3. pc'[order[i]] = pc[order[i]] /\ loc'[order[i]] = loc[order[i]]  BY <1>3, <2>2
      <4>4. QED BY <4>2, <4>3 DEF Mcs!Others
    <3>3. QED BY <3>1, <3>2
  <2>8. Mcs!Last'  BY <2>3 DEF Mcs!Last
  <2>9. Mcs!Once'  BY <1>3 DEF Mcs!Once
  <2>10. Mcs!Listed'
    <3>1. \A x \in Crowd \ {p} : \A i \in 1..n : order[i] = x => i \in 1..(n+1) /\ order'[i] = x
      OBVIOUS
    <3>2. n > 1 => order'[2] = order[2] /\ order[2] # p /\ order[2] \in Crowd /\ n + 1 > 1
      BY <1>3
    <3>3. n + 1 \in 1..(n + 1)  OBVIOUS
    <3>4. QED BY <2>2, <2>3, <3>1, <3>2, <3>3 DEF Mcs!Listed, Mcs!Holds, Mcs!Behind
  <2>11. QED BY <2>6, <2>7, <2>8, <2>9, <2>10
<1>6. QED BY <1>4, <1>5

\* Steps of a thread behind the first: mark, link; and the end of its wait.
LEMMA WaitStep ==
  ASSUME Nil \notin Crowd, Mcs!IInv, filled, NEW p \in Crowd, Mcs!Lock(p),
         pc[p] \in {"mark", "link", "spin"}
  PROVE  Mcs!First' /\ Mcs!Others' /\ Mcs!Last' /\ Mcs!Once' /\ Mcs!Listed'
<1> DEFINE next == m1  locked == m2  tail == m3  order == m4
<1>1. Mcs!TypeOK /\ Mcs!First /\ Mcs!Others /\ Mcs!Last /\ Mcs!Once /\ Mcs!Listed
  BY DEF Mcs!IInv, Mcs!Queue
<1> USE <1>1
<1>2. order \in Seq(Crowd) /\ Len(order) \in Nat  BY DEF Mcs!TypeOK
<1>3. \A i \in 1..Len(order) : order[i] \in Crowd  BY <1>2
<1>4. CASE pc[p] = "mark"
  <2> USE <1>4
  <2>1. /\ locked' = [locked EXCEPT ![p] = TRUE] /\ pc' = [pc EXCEPT ![p] = "link"]
        /\ UNCHANGED <<loc, next, tail, order>>
    BY DEF Mcs!Lock, Mcs!Goto
  <2> USE <2>1
  <2>2. /\ \A x \in Crowd \ {p} : pc'[x] = pc[x] /\ locked'[x] = locked[x]
        /\ pc'[p] = "link" /\ locked'[p]
    BY DEF Mcs!TypeOK
  <2> USE <2>2
  <2>3. Mcs!First'  BY <1>2, <1>3 DEF Mcs!First, Mcs!Holds
  <2>4. Mcs!Others'  BY <1>2, <1>3 DEF Mcs!Others, Mcs!Behind
  <2>5. Mcs!Last' /\ Mcs!Once'  BY DEF Mcs!Last, Mcs!Once
  <2>6. Mcs!Listed'  BY <1>2, <1>3 DEF Mcs!Listed, Mcs!Holds, Mcs!Behind
  <2>7. QED BY <2>3, <2>4, <2>5, <2>6
<1>5. CASE pc[p] = "link"
  <2>1. /\ next' = [next EXCEPT ![loc[p]] = p] /\ pc' = [pc EXCEPT ![p] = "spin"]
        /\ UNCHANGED <<loc, locked, tail, order>>
    BY <1>5 DEF Mcs!Lock, Mcs!Goto
  <2>2. PICK k \in 2..Len(order) : order[k] = p  BY <1>5, McsPlaces
  <2>3. k - 1 \in 1..Len(order) /\ k \in 1..Len(order) /\ Len(order) # k - 1  BY <1>2, <2>2
  <2>4. loc[p] = order[k - 1] /\ loc[p] \in Crowd /\ locked[p]
    BY <1>3, <1>5, <2>2, <2>3 DEF Mcs!Others
  <2>5. /\ \A x \in Crowd \ {p} : pc'[x] = pc[x]
        /\ pc'[p] = "spin"
        /\ \A x \in Crowd \ {order[k - 1]} : next'[x] = next[x]
        /\ next'[order[k - 1]] = p
    BY <2>1, <2>4 DEF Mcs!TypeOK
  <2>6. \A i \in 1..Len(order) :
          /\ i # k - 1 => order[i] # order[k - 1]
          /\ i # k => order[i] # p
    BY <2>2, <2>3 DEF Mcs!Once
  <2> USE <2>5
  <2>7. Mcs!First'  BY <1>2, <1>3, <1>5, <2>1 DEF Mcs!First, Mcs!Holds
  <2>8. Mcs!Others'
    <3> SUFFICES ASSUME NEW i \in 2..Len(order)
        PROVE /\ pc'[order[i]] \in Mcs!Behind
              /\ pc'[order[i]] \in {"mark", "link"} =>
                   loc[order[i]] = order[i - 1] /\ next'[order[i - 1]] = Nil
              /\ pc'[order[i]] \in {"link", "spin"} => locked[order[i]]
              /\ pc'[order[i]] = "spin" => next'[order[i - 1]] = order[i]
      BY <2>1 DEF Mcs!Others
    <3>1. CASE i = k  BY <2>2, <2>4, <3>1 DEF Mcs!Behind
    <3>2. CASE i # k
      <4>1. i \in 1..Len(order) /\ i - 1 \in 1..Len(order) /\ i - 1 # k - 1  BY <1>2, <2>2, <3>2
      <4> USE <4>1
      <4>2. pc'[order[i]] = pc[order[i]] /\ next'[order[i - 1]] = next[order[i - 1]]
        <5>1. order[i] \in Crowd /\ order[i] # p  BY <1>3, <2>6, <3>2
        <5>2. order[i - 1] \in Crowd  BY <1>3
        <5>3. order[i - 1] # order[k - 1]  BY <2>6
        <5>4. QED BY <5>1, <5>2, <5>3
      <4>3. QED BY <4>2 DEF Mcs!Others
    <3>3. QED BY <3>1, <3>2
  <2>9. Mcs!Last'
    <3>1. Len(order) \in 1..Len(order) /\ order # <<>>  BY <1>2, <2>2
    <3> USE <3>1
    <3>2. order[Len(order)] \in Crowd  BY <1>3
    <3>3. order[Len(order)] # order[k - 1]  BY <2>3, <2>6
    <3>4. next'[order[Len(order)]] = next[order[Len(order)]]  BY <3>2, <3>3
    <3>5. QED BY <2>1, <3>4 DEF Mcs!Last
  <2>10. Mcs!Once'  BY <2>1 DEF Mcs!Once
  <2>11. pc[order[k - 1]] # "swap"
    BY <1>2, <2>2, <2>3 DEF Mcs!First, Mcs!Others, Mcs!Holds, Mcs!Behind
  <2>12. Mcs!Listed'
    <3>1. \A x \in Crowd : pc'[x] = "swap" => next'[x] = Nil  BY <2>11 DEF Mcs!Listed
    <3>2. \A x \in Crowd : pc'[x] \in Mcs!Holds \cup Mcs!Behind => pc[x] \in Mcs!Holds \cup Mcs!Behind
      BY <1>5 DEF Mcs!Holds, Mcs!Behind
    <3>3. \A x \in Crowd : pc'[x] \in {"await", "pass"} => x # p  OBVIOUS
    <3>4. ASSUME NEW x \in Crowd, pc'[x] = "pass"
          PROVE loc[x] = order[2] /\ pc'[order[2]] = "spin"
      <4>1. pc[x] = "pass"  BY <3>3, <3>4
      <4>2. loc[x] = order[2] /\ pc[order[2]] = "spin" /\ Len(order) > 1  BY <4>1 DEF Mcs!Listed
      <4>3. QED BY <1>2, <1>3, <4>2
    <3>5. QED BY <2>1, <3>1, <3>2, <3>3, <3>4 DEF Mcs!Listed
  <2>13. QED BY <2>7, <2>8, <2>9, <2>10, <2>12
<1>6. CASE pc[p] = "spin"
  <2> USE <1>6
  <2>1. /\ ~locked[p] /\ pc' = [pc EXCEPT ![p] = "critical"]
        /\ UNCHANGED <<loc, next, locked, tail, order>>
    BY DEF Mcs!Lock, Mcs!Goto
  <2> USE <2>1
  <2>2. order # <<>> /\ order[1] = p  BY McsPlaces
  <2> USE <2>2
  <2>3. \A i \in 2..Len(order) : order[i] # p  BY <1>2 DEF Mcs!Once
  <2>4. /\ \A x \in Crowd \ {p} : pc'[x] = pc[x]
        /\ pc'[p] = "critical"
    BY DEF Mcs!TypeOK
  <2>5. Mcs!First' /\ Mcs!Others' /\ Mcs!Last' /\ Mcs!Once'
    BY <1>2, <1>3, <2>3, <2>4 DEF Mcs!First, Mcs!Others, Mcs!Last,
       Mcs!Once, Mcs!Holds
  <2>6. Mcs!Listed'
    <3>1. \A x \in Crowd : pc[x] # "pass"  BY McsPlaces DEF Mcs!Holds
    <3>2. QED BY <2>4, <3>1 DEF Mcs!Listed, Mcs!Holds, Mcs!Behind
  <2>7. QED BY <2>5, <2>6
<1>7. QED BY <1>4, <1>5, <1>6

\* Steps of the thread that holds the lock.
LEMMA HoldStep ==
  ASSUME Nil \notin Crowd, Mcs!IInv, filled, NEW p \in Crowd, Mcs!Unlock(p)
  PROVE  Mcs!First' /\ Mcs!Others' /\ Mcs!Last' /\ Mcs!Once' /\ Mcs!Listed'
<1> DEFINE next == m1  locked == m2  tail == m3  order == m4
<1>1. Mcs!TypeOK /\ Mcs!First /\ Mcs!Others /\ Mcs!Last /\ Mcs!Once /\ Mcs!Listed
  BY DEF Mcs!IInv, Mcs!Queue
<1>2. order \in Seq(Crowd) /\ Len(order) \in Nat  BY <1>1 DEF Mcs!TypeOK
<1>3. \A i \in 1..Len(order) : order[i] \in Crowd  BY <1>2
<1>4. pc[p] \in Mcs!Holds  BY DEF Mcs!Unlock, Mcs!Holds
<1>5. order # <<>> /\ order[1] = p /\ Len(order) > 0  BY <1>2, <1>4, McsPlaces
<1>6. \A i \in 2..Len(order) : order[i] # p  BY <1>1, <1>2, <1>5 DEF Mcs!Once
<1>7. \A x \in Crowd \ {p} : pc[x] \notin Mcs!Holds
  BY <1>5, McsPlaces
  \* A successor that has told of itself is the second, and spins.
<1>8. next[p] # Nil => /\ Len(order) > 1 /\ next[p] = order[2] /\ pc[order[2]] = "spin"
                       /\ order[2] # p
  <2>1. next[p] # Nil => Len(order) # 1  BY <1>1, <1>5 DEF Mcs!Last
  <2>2. Len(order) > 1 => 2 \in 2..Len(order) /\ order[2 - 1] = p  BY <1>2, <1>5
  <2>3. Len(order) > 1 => /\ pc[order[2]] \in Mcs!Behind
                          /\ pc[order[2]] \in {"mark", "link"} => next[p] = Nil
                          /\ pc[order[2]] = "spin" => next[p] = order[2]
                          /\ order[2] # p
    BY <1>1, <1>6, <2>2 DEF Mcs!Others
  <2>4. next[p] # Nil => Len(order) > 1
    <3> DEFINE n == Len(order)
    <3>1. n \in Nat /\ n > 0 /\ (next[p] # Nil => n # 1)  BY <1>2, <1>5, <2>1
    <3> HIDE DEF n
    <3>2. \A k \in Nat : k > 0 /\ k # 1 => k > 1  OBVIOUS
    <3>3. next[p] # Nil => n > 1  BY ONLY <3>1, <3>2
    <3>4. QED BY <3>3 DEF n
  <2>5. QED BY <2>3, <2>4 DEF Mcs!Behind
<1>9. CASE \/ pc[p] = "critical"
           \/ pc[p] = "last" /\ tail # p
           \/ pc[p] = "await"
  <2>1. /\ \/ /\ pc' = [pc EXCEPT ![p] = "pass"] /\ loc' = [loc EXCEPT ![p] = next[p]]
              /\ next[p] # Nil
           \/ /\ pc' = [pc EXCEPT ![p] = "last"] /\ loc' = [loc EXCEPT ![p] = next[p]]
           \/ /\ pc' = [pc EXCEPT ![p] = "await"] /\ loc' = loc /\ tail # p
        /\ UNCHANGED <<next, locked, tail, order>>
    BY <1>9 DEF Mcs!Unlock, Mcs!Goto
  <2>2. /\ \A x \in Crowd \ {p} : pc'[x] = pc[x] /\ loc'[x] = loc[x]
        /\ \/ pc'[p] = "pass" /\ loc'[p] = next[p] /\ next[p] # Nil
           \/ pc'[p] = "last"
           \/ pc'[p] = "await" /\ tail # p
    BY <1>1, <2>1 DEF Mcs!TypeOK
  <2>3. tail # p => Len(order) > 1  BY <1>1, <1>2, <1>5 DEF Mcs!Last
  <2>4. Mcs!First' /\ Mcs!Others' /\ Mcs!Last' /\ Mcs!Once'
    BY <1>1, <1>2, <1>3, <1>5, <1>6, <2>1, <2>2 DEF Mcs!First, Mcs!Others, Mcs!Last,
       Mcs!Once, Mcs!Holds
  <2>5. Mcs!Listed'
    <3>1. \A x \in Crowd : pc'[x] \in {"await", "pass", "swap"} => x = p \/ pc'[x] = "swap"
      BY <1>7, <2>2 DEF Mcs!Holds
    <3>2. pc'[p] # "swap"  BY <2>2
    <3>3. 2 \in 2..Len(order) => order[2] \in Crowd  BY <1>2
    <3>4. QED BY <1>1, <1>2, <1>4, <1>7, <1>8, <2>1, <2>2, <2>3, <3>1, <3>2, <3>3 DEF Mcs!Listed,
       Mcs!Holds, Mcs!Behind
  <2>6. QED BY <2>4, <2>5
<1>10. CASE pc[p] = "last" /\ tail = p
  <2>1. /\ tail' = Nil /\ order' = Tail(order) /\ pc' = [pc EXCEPT ![p] = "user"]
        /\ UNCHANGED <<loc, next, locked>>
    BY <1>10 DEF Mcs!Unlock, Mcs!Goto
  <2>2. Len(order) = 1
    <3>1. order[Len(order)] = p  BY <1>1, <1>5, <1>10 DEF Mcs!Last
    <3>2. Len(order) \in 1..Len(order) /\ 1 \in 1..Len(order)  BY <1>2, <1>5
    <3>3. QED BY Zenon, <1>1, <1>5, <3>1, <3>2 DEF Mcs!Once
  <2>3. order' = <<>>  BY <1>2, <2>1, <2>2
  <2>4. \A x \in Crowd : pc'[x] \notin Mcs!Holds \cup Mcs!Behind
    <3>1. \A x \in Crowd \ {p} : pc'[x] = pc[x]  BY <1>1, <2>1 DEF Mcs!TypeOK
    <3>2. pc'[p] = "user"  BY <1>1, <2>1 DEF Mcs!TypeOK
    <3>3. \A x \in Crowd \ {p} : pc[x] \notin Mcs!Holds \cup Mcs!Behind
      BY <1>1, <1>5, <2>2 DEF Mcs!Listed
    <3>4. QED BY <3>1, <3>2, <3>3 DEF Mcs!Holds, Mcs!Behind
  <2>5. Mcs!First' /\ Mcs!Others' /\ Mcs!Last' /\ Mcs!Once'
    <3>1. Len(order') = 0  BY <2>3
    <3>2. QED BY <2>1, <2>3, <3>1 DEF Mcs!First, Mcs!Others, Mcs!Last, Mcs!Once
  <2>6. Mcs!Listed'
    <3>1. \A x \in Crowd : pc'[x] = "swap" => pc[x] = "swap"  BY <1>1, <2>1 DEF Mcs!TypeOK
    <3>2. QED BY <1>1, <2>1, <2>4, <3>1 DEF Mcs!Listed, Mcs!Holds, Mcs!Behind
  <2>7. QED BY <2>5, <2>6
<1>11. CASE pc[p] = "pass"
  <2> DEFINE n == Len(order)
  <2>1. /\ locked' = [locked EXCEPT ![loc[p]] = FALSE]
        /\ order' = Tail(order) /\ pc' = [pc EXCEPT ![p] = "user"]
        /\ UNCHANGED <<loc, next, tail>>
    BY <1>11 DEF Mcs!Unlock, Mcs!Goto
  <2>2. n > 1 /\ loc[p] = order[2] /\ pc[order[2]] = "spin"  BY <1>1, <1>11 DEF Mcs!Listed
  <2>3. /\ Len(order') = n - 1 /\ order' # <<>>
        /\ \A i \in 1..(n - 1) : order'[i] = order[i + 1]
    <3>1. order' \in Seq(Crowd) /\ Len(order') = n - 1  BY <1>2, <1>5, <2>1
    <3>2. \A i \in 1..(n - 1) : order'[i] = order[i + 1]  BY <1>2, <1>5, <2>1
    <3>3. order' # <<>>  BY <1>2, <2>2, <3>1
    <3>4. QED BY <3>1, <3>2, <3>3
  <2>4. order[2] \in Crowd /\ order[2] # p /\ 2 \in 1..n  BY <1>2, <1>3, <1>6, <2>2
  <2>5. /\ \A x \in Crowd \ {p} : pc'[x] = pc[x]
        /\ pc'[p] = "user"
        /\ \A x \in Crowd \ {order[2]} : locked'[x] = locked[x]
        /\ ~locked'[order[2]]
    BY Zenon, <1>1, <2>1, <2>2, <2>4 DEF Mcs!TypeOK
  <2>6. Mcs!First'
    <3>1. order'[1] = order[2]  BY <2>2, <2>3, <1>2
    <3>2. QED BY <2>2, <2>4, <2>5, <3>1 DEF Mcs!First
  <2>7. Mcs!Others'
    <3> SUFFICES ASSUME NEW i \in 2..(n - 1)
        PROVE /\ pc'[order'[i]] \in Mcs!Behind
              /\ pc'[order'[i]] \in {"mark", "link"} =>
                   loc[order'[i]] = order'[i - 1] /\ next[order'[i - 1]] = Nil
              /\ pc'[order'[i]] \in {"link", "spin"} => locked'[order'[i]]
              /\ pc'[order'[i]] = "spin" => next[order'[i - 1]] = order'[i]
      BY Zenon, <2>1, <2>3 DEF Mcs!Others
    <3>1. /\ i + 1 \in 2..n /\ i + 1 \in 1..n /\ (i + 1) - 1 = i /\ i + 1 # 2
          /\ i \in 1..(n - 1) /\ i - 1 \in 1..(n - 1) /\ (i - 1) + 1 = i
      BY <1>2
    <3>2. order'[i] = order[i + 1] /\ order'[i - 1] = order[i]  BY <2>3, <3>1
    <3>3. order[i + 1] \in Crowd /\ order[i + 1] # p /\ order[i + 1] # order[2]
      BY <1>1, <1>3, <1>6, <2>4, <3>1 DEF Mcs!Once
    <3>4. pc'[order'[i]] = pc[order[i + 1]] /\ locked'[order'[i]] = locked[order[i + 1]]
      BY <2>5, <3>2, <3>3
    <3>5. /\ pc[order[i + 1]] \in Mcs!Behind
          /\ pc[order[i + 1]] \in {"mark", "link"} =>
               loc[order[i + 1]] = order[i] /\ next[order[i]] = Nil
          /\ pc[order[i + 1]] \in {"link", "spin"} => locked[order[i + 1]]
          /\ pc[order[i + 1]] = "spin" => next[order[i]] = order[i + 1]
      BY <1>1, <3>1 DEF Mcs!Others
    <3>6. QED BY <3>2, <3>4, <3>5
  <2>8. Mcs!Last'
    <3>1. n - 1 \in 1..(n - 1) /\ (n - 1) + 1 = n  BY <1>2, <2>2
    <3>2. order'[n - 1] = order[n]  BY <2>3, <3>1
    <3>3. QED BY <1>1, <1>5, <2>1, <2>3, <3>2 DEF Mcs!Last
  <2>9. Mcs!Once'
    <3> SUFFICES ASSUME NEW i \in 1..(n - 1), NEW j \in 1..(n - 1), order'[i] = order'[j]
        PROVE i = j
      BY <2>3 DEF Mcs!Once
    <3>1. i + 1 \in 1..n /\ j + 1 \in 1..n /\ order[i + 1] = order[j + 1]  BY <1>2, <2>3
    <3>2. i + 1 = j + 1  BY <1>1, <3>1 DEF Mcs!Once
    <3>3. QED BY <3>2
  <2>10. Mcs!Listed'
    <3>1. \A x \in Crowd : pc'[x] \notin Mcs!Holds  BY <1>7, <2>5 DEF Mcs!Holds
    <3>2. ASSUME NEW x \in Crowd, pc'[x] \in Mcs!Behind
          PROVE \E i \in 1..(n - 1) : order'[i] = x
      <4>1. x # p /\ pc[x] \in Mcs!Behind  BY <2>5, <3>2 DEF Mcs!Behind
      <4>2. PICK i \in 1..n : order[i] = x  BY <1>1, <4>1 DEF Mcs!Listed
      <4>3. i # 1  BY <1>5, <4>1, <4>2
      <4>4. i - 1 \in 1..(n - 1) /\ (i - 1) + 1 = i  BY <1>2, <4>3
      <4>5. order'[i - 1] = x  BY <2>3, <4>2, <4>4
      <4>6. QED BY <4>4, <4>5
    <3>3. \A x \in Crowd : pc'[x] = "swap" => pc[x] = "swap"  BY <2>5
    <3>4. QED BY <1>1, <2>1, <2>3, <3>1, <3>2, <3>3 DEF Mcs!Listed, Mcs!Holds
  <2>11. QED BY <2>6, <2>7, <2>8, <2>9, <2>10
<1>12. QED BY <1>9, <1>10, <1>11 DEF Mcs!Unlock

LEMMA McsNextIInv == ASSUME Nil \notin Crowd, Mcs!IInv, [Mcs!Next]_Mcs!vars PROVE Mcs!IInv'
<1>1. ASSUME NEW p \in Crowd, Mcs!Step(p) PROVE Mcs!IInv'
  <2>1. Mcs!TypeOK' /\ Mcs!Unfilled' /\ filled' = filled  BY <1>1, TypeStep
  <2>2. ASSUME filled PROVE Mcs!First' /\ Mcs!Others' /\ Mcs!Last' /\ Mcs!Once' /\ Mcs!Listed'
    <3>1. CASE Mcs!Lock(p)
      <4>1. pc[p] \in {"reset", "swap", "mark", "link", "spin"}  BY <3>1 DEF Mcs!Lock
      <4>2. QED BY <2>2, <3>1, <4>1, McsEnterStep, WaitStep
    <3>2. CASE Mcs!Unlock(p)  BY <2>2, <3>2, HoldStep
    <3>3. QED BY <1>1, <3>1, <3>2 DEF Mcs!Step
  <2>3. QED BY <2>1, <2>2 DEF Mcs!IInv, Mcs!Queue
<1>2. ASSUME NEW p \in Crowd, Mcs!Call(p) PROVE Mcs!IInv'
  BY <1>2, CallStep
<1>3. CASE UNCHANGED Mcs!vars
  BY <1>3 DEF Mcs!vars, Mcs!IInv, Mcs!TypeOK, Mcs!Queue, Mcs!Unfilled, Mcs!First,
     Mcs!Others, Mcs!Last, Mcs!Once, Mcs!Listed
<1>4. QED BY <1>1, <1>2, <1>3 DEF Mcs!Next

-----------------------------------------------------------------------------
(* LockWord: the two locks on one word. *)

LEMMA WordInitInv == ASSUME Word!Init PROVE Word!IInv
BY DEF Word!Init, Word!IInv, Word!TypeOK, Word!Unfilled, Word!Taken, Word!Exclusive,
   Word!NoneForgotten

LEMMA SpinStep ==
  ASSUME Word!IInv, NEW p \in Crowd, Word!Lock(p) \/ Word!Unlock(p), m1 = "c1_02",
         UNCHANGED <<filled, m1>>
  PROVE  Word!IInv'
<1> USE DEF Word!IInv, Word!TypeOK, Word!Unfilled, Word!Taken, Word!Exclusive, Word!NoneForgotten, Word!Goto
<1>1. CASE Word!Lock(p)  BY <1>1 DEF Word!Lock
<1>2. CASE Word!Unlock(p)  BY <1>2 DEF Word!Unlock
<1>3. QED BY <1>1, <1>2

LEMMA FutexLockStep ==
  ASSUME Word!IInv, NEW p \in Crowd, Word!FutexLock(p), m1 = "c3_04",
         UNCHANGED <<filled, m1>>
  PROVE  Word!IInv'
<1> USE DEF Word!IInv, Word!TypeOK, Word!Unfilled, Word!Taken, Word!Exclusive, Word!NoneForgotten, Word!Goto
<1>1. CASE pc[p] = "lock"  BY <1>1 DEF Word!FutexLock
<1>2. CASE pc[p] = "exchange"  BY <1>2 DEF Word!FutexLock
<1>3. CASE pc[p] = "wait"  BY <1>3 DEF Word!FutexLock, Word!FutexWait
<1>4. QED BY <1>1, <1>2, <1>3 DEF Word!FutexLock

LEMMA FutexUnlockStep ==
  ASSUME Word!IInv, NEW p \in Crowd, Word!FutexUnlock(p), m1 = "c3_04",
         UNCHANGED <<filled, m1>>
  PROVE  Word!IInv'
<1> DEFINE word == m2
<1> USE DEF Word!IInv, Word!TypeOK, Word!Unfilled, Word!Taken, Word!Exclusive, Word!NoneForgotten, Word!Goto
<1>1. CASE pc[p] = "critical"  BY <1>1 DEF Word!FutexUnlock
<1>2. CASE pc[p] = "store"  BY <1>2 DEF Word!FutexUnlock
<1>3. CASE pc[p] = "wake"
  <2> USE <1>3
  <2>1. UNCHANGED word  BY DEF Word!FutexUnlock
  <2> USE <2>1
  <2>2. CASE \E q \in Crowd : pc[q] = "asleep"
    <3>1. PICK q \in Crowd : pc[q] = "asleep" /\ pc' = [pc EXCEPT ![q] = "exchange", ![p] = "user"]
      BY <2>2 DEF Word!FutexUnlock, Word!FutexWake
    <3> USE <3>1
    <3>2. pc'[q] = "exchange" /\ pc'[p] = "user" /\ \A x \in Crowd \ {p, q} : pc'[x] = pc[x]
      OBVIOUS
    <3>3. Word!TypeOK'  OBVIOUS
    <3>4. QED BY <3>2, <3>3
  <2>3. CASE ~\E q \in Crowd : pc[q] = "asleep"  BY <2>3 DEF Word!FutexUnlock, Word!FutexWake
  <2>4. QED BY <2>2, <2>3
<1>4. QED BY <1>1, <1>2, <1>3 DEF Word!FutexUnlock

LEMMA WordNextIInv == ASSUME Word!IInv, [Word!Next]_Word!vars PROVE Word!IInv'
<1> DEFINE exercise == m1
<1> USE DEF Word!IInv, Word!TypeOK, Word!Unfilled, Word!Taken, Word!Exclusive, Word!NoneForgotten, Word!Goto
<1>1. ASSUME NEW p \in Crowd, Word!Step(p) PROVE Word!IInv'
  BY <1>1, SpinStep, FutexLockStep, FutexUnlockStep DEF Word!Step
<1>2. ASSUME NEW p \in Crowd, Word!Spurious(p) PROVE Word!IInv'
  BY <1>2 DEF Word!Spurious
<1>3. ASSUME NEW p \in Crowd, Word!Call(p), UNCHANGED <<filled, exercise>> PROVE Word!IInv'
  BY <1>3 DEF Word!Call
<1>4. CASE UNCHANGED Word!vars  BY <1>4 DEF Word!vars
<1>5. QED BY <1>1, <1>2, <1>3, <1>4 DEF Word!Next

-----------------------------------------------------------------------------
(* TimeoutManager: the timeouts. *)

\* Nodes that leave the heap take with them the marks that were theirs.
LEMMA Dropped ==
  ASSUME Heap!IInv, NEW popped \in SUBSET heap, heap' = heap \ popped,
         m2' = m2 \ Heap!IdsOf(Heap!Marked(popped)),
         m3' = m3 \ (popped \ Heap!Marked(popped)), filled' = filled, m1' = m1
  PROVE  Heap!IInv'
<1> DEFINE cancelled == m2  live == m3
<1>1. Heap!TypeOK'  BY DEF Heap!IInv, Heap!TypeOK
<1>2. Heap!Unique'  BY DEF Heap!IInv, Heap!Unique
<1>3. ASSUME NEW n \in heap \ popped PROVE n[2] \in cancelled' <=> n[2] \in cancelled
  BY <1>3 DEF Heap!IInv, Heap!Unique, Heap!IdsOf, Heap!Marked
<1>4. Heap!Marked(heap)' = Heap!Marked(heap) \ popped
  <2>1. Heap!Marked(heap)' = {n \in heap \ popped : n[2] \in cancelled'}  BY DEF Heap!Marked
  <2>2. QED BY <1>3, <2>1 DEF Heap!Marked
<1>5. Heap!LiveKept'
  <2>1. live = heap \ Heap!Marked(heap)  BY DEF Heap!IInv, Heap!LiveKept
  <2>2. Heap!Marked(popped) = Heap!Marked(heap) \cap popped  BY DEF Heap!Marked
  <2>3. live' = heap' \ Heap!Marked(heap)'  BY <1>4, <2>1, <2>2
  <2>4. QED BY <2>3 DEF Heap!LiveKept
<1>6. QED BY <1>1, <1>2, <1>5 DEF Heap!IInv

LEMMA HeapInitInv == ASSUME Heap!Init PROVE Heap!IInv
BY DEF Heap!Init, Heap!IInv, Heap!TypeOK, Heap!Unique, Heap!LiveKept, Heap!Marked

LEMMA HeapNextIInv ==
  ASSUME Heap!IInv, [Heap!Next]_Heap!vars PROVE Heap!IInv'
<1> DEFINE now == m1  cancelled == m2  live == m3
<1> USE DEF Heap!IInv
<1>1. CASE UNCHANGED Heap!vars
  BY <1>1 DEF Heap!vars, Heap!TypeOK, Heap!Unique, Heap!LiveKept, Heap!Marked
<1>2. CASE Heap!Add /\ UNCHANGED filled
  <2>1. PICK n \in Deadlines \X Ids :
          /\ n[2] \notin cancelled \cup Heap!IdsOf(heap) /\ heap' = heap \cup {n}
          /\ live' = live \cup {n} /\ UNCHANGED <<now, cancelled>>
    BY <1>2 DEF Heap!Add
  <2> USE <2>1
  <2>2. \A m \in heap : m[2] # n[2]  BY DEF Heap!IdsOf
  <2>3. Heap!TypeOK'  BY <1>2 DEF Heap!TypeOK
  <2>4. Heap!Unique'  BY <2>2 DEF Heap!Unique
  <2>5. Heap!LiveKept'
    <3>1. n[2] \notin cancelled  OBVIOUS
    <3>2. Heap!Marked(heap)' = Heap!Marked(heap) /\ n \notin Heap!Marked(heap)
      BY <3>1 DEF Heap!Marked
    <3>3. QED BY <3>2 DEF Heap!LiveKept
  <2>6. QED BY <2>3, <2>4, <2>5
<1>3. CASE Heap!Cancel /\ UNCHANGED filled
  <2>1. PICK id \in Ids :
          /\ cancelled' = cancelled \cup {id} /\ live' = {n \in live : n[2] # id}
          /\ UNCHANGED <<now, heap>>
    BY <1>3 DEF Heap!Cancel
  <2>2. Heap!TypeOK' /\ Heap!Unique'  BY <1>3, <2>1 DEF Heap!TypeOK, Heap!Unique
  <2>3. Heap!LiveKept'  BY <2>1 DEF Heap!LiveKept, Heap!Marked
  <2>4. QED BY <2>2, <2>3
<1>4. CASE Heap!NextDeadline /\ UNCHANGED filled
  <2>1. PICK popped \in SUBSET Heap!Marked(heap) :
          /\ heap' = heap \ popped /\ cancelled' = cancelled \ Heap!IdsOf(popped)
          /\ UNCHANGED <<now, live>>
    BY <1>4 DEF Heap!NextDeadline
  <2>2. popped \in SUBSET heap /\ Heap!Marked(popped) = popped /\ live \ (popped \ popped) = live
    BY DEF Heap!Marked
  <2>3. QED BY <1>4, <2>1, <2>2, Dropped
<1>5. CASE Heap!Expire /\ UNCHANGED filled
  <2>1. PICK max \in 0..Max, popped \in SUBSET Heap!Due(heap) :
          /\ heap' = heap \ popped
          /\ cancelled' = cancelled \ Heap!IdsOf(Heap!Marked(popped))
          /\ live' = live \ (popped \ Heap!Marked(popped)) /\ now' = now
    BY <1>5 DEF Heap!Expire
  <2>2. popped \in SUBSET heap  BY DEF Heap!Due
  <2>3. QED BY <1>5, <2>1, <2>2, Dropped
<1>6. CASE Heap!Tick /\ UNCHANGED filled
  BY <1>6 DEF Heap!Tick, Heap!TypeOK, Heap!Unique, Heap!LiveKept, Heap!Marked
<1>7. QED BY <1>1, <1>2, <1>3, <1>4, <1>5, <1>6 DEF Heap!Next

-----------------------------------------------------------------------------
(* Pacing: rates. *)

\* The bucket fills and grants something; WATCHDOG_USEC can be halved.
Rates == /\ Capacity \in Nat /\ Scale \in Nat /\ Rate \in Nat \ {0}
         /\ Usec \in Nat /\ Usec >= 2

LEMMA Times ==
  ASSUME NEW R \in Nat, NEW a \in Nat, NEW b \in Nat, a <= b + 1
  PROVE  a * R \in Nat /\ b * R \in Nat /\ a * R <= b * R + R
<1>1. PICK d \in Nat : b + 1 = a + d
  <2> DEFINE d == b + 1 - a
  <2>1. d \in Nat /\ b + 1 = a + d  OBVIOUS
  <2>2. QED BY <2>1
<1>2. (b + 1) * R = b * R + R /\ (a + d) * R = a * R + d * R  OBVIOUS
<1>3. d * R \in Nat /\ a * R \in Nat /\ b * R \in Nat  OBVIOUS
<1>4. a * R + d * R = b * R + R  BY <1>1, <1>2
<1>5. QED BY <1>3, <1>4

LEMMA Periods ==
  ASSUME Rates
  PROVE  /\ Pace!interval \in Nat /\ Pace!interval >= 1 /\ Pace!interval <= Usec
         /\ Pace!Patience \in Nat /\ Pace!Patience = Usec + 1 - Pace!interval
         /\ Pace!Full \in Nat /\ Pace!Full \div Rate + 1 \in Nat /\ Rate \in Nat /\ Scale \in Nat
         /\ Usec \in Nat
<1>1. Pace!interval \in Nat /\ Pace!interval >= 1 /\ Pace!interval <= Usec
  BY DEF Rates, Pace!interval
<1>2. Pace!Full \in Nat  BY DEF Pace!Full, Rates
<1>3. Pace!Full \div Rate + 1 \in Nat  BY <1>2 DEF Rates
<1>4. QED BY <1>1, <1>2, <1>3 DEF Rates, Pace!Patience

LEMMA AvailableIs ==
  ASSUME Rates, Pace!TypeOK
  PROVE  /\ m3 + m2 * Rate \in Nat /\ m2 * Rate \in Nat
         /\ Pace!Available \in 0..Pace!Full /\ Pace!Available <= m3 + m2 * Rate
         /\ Pace!Available = Pace!Full \/ Pace!Available = m3 + m2 * Rate
<1> DEFINE since == m2  tokens == m3
<1>1. tokens \in Nat /\ since \in Nat /\ Rate \in Nat /\ Pace!Full \in Nat
  BY Periods DEF Pace!TypeOK
<1>2. since * Rate \in Nat  BY <1>1
<1>3. QED BY <1>1, <1>2 DEF Pace!Available, Pace!Least

LEMMA PaceSafe ==
  ASSUME Rates, Pace!IInv
  PROVE  Pace!RateHeld /\ Pace!NeverLate
<1> DEFINE exercise == m1  since == m2  excess == m6  idle == m7
<1>1. /\ Pace!TypeOK /\ Pace!Paced /\ exercise \in {"c4_03", "c5_03"} /\ excess \in Nat
      /\ since \in Nat /\ idle \in 0..Pace!Patience
  BY DEF Pace!IInv, Pace!TypeOK
<1> USE <1>1
<1>2. Pace!RateHeld
  <2>1. Pace!Available \in 0..Pace!Full /\ Pace!Full \in Nat  BY AvailableIs, Periods
  <2>2. excess = 0 \/ excess + Pace!Available <= Pace!Full  BY DEF Pace!Paced
  <2>3. QED BY <2>1, <2>2 DEF Pace!RateHeld
<1>3. Pace!NeverLate
  <2>1. exercise = "c5_03" => since < idle + Pace!interval  BY DEF Pace!Paced
  <2>2. /\ Pace!interval \in Nat /\ Usec \in Nat /\ Pace!Patience = Usec + 1 - Pace!interval
        /\ Pace!Patience \in Nat
    BY Periods
  <2>3. since < idle + Pace!interval => since <= Usec  BY <2>2
  <2>4. QED BY <2>1, <2>3 DEF Pace!NeverLate
<1>4. QED BY <1>2, <1>3

LEMMA PaceInitInv == ASSUME Rates, Pace!Init PROVE Pace!IInv
<1> DEFINE since == m2  excess == m6  idle == m7
<1>1. /\ Pace!interval \in Nat /\ Pace!interval >= 1 /\ Pace!Patience \in Nat /\ Pace!Full \in Nat
  BY Periods
<1>2. Pace!TypeOK
  <2>1. Pace!Full \in 0..Pace!Full /\ 0 \in 0..Pace!Patience  BY <1>1
  <2>2. QED BY Zenon, <2>1 DEF Pace!Init, Pace!TypeOK
<1>3. excess = 0 /\ since = 0 /\ idle = 0 /\ Pace!Available \in 0..Pace!Full
  BY <1>2, AvailableIs DEF Pace!Init
<1>4. Pace!Paced  BY <1>1, <1>3 DEF Pace!Paced
<1>5. QED BY <1>2, <1>4 DEF Pace!IInv

LEMMA TickStep ==
  ASSUME Rates, Pace!IInv, Pace!Tick, UNCHANGED <<filled, m1, m5>> PROVE Pace!IInv'
<1> DEFINE exercise == m1  since == m2  tokens == m3  pinged == m4  excess == m6  idle == m7
<1>1. /\ Pace!TypeOK /\ Pace!Paced /\ excess \in Nat /\ Rate \in Nat /\ since \in Nat
      /\ tokens \in 0..Pace!Full /\ Pace!Full \in Nat /\ idle \in 0..Pace!Patience
      /\ Pace!interval \in Nat /\ Pace!Patience \in Nat
  BY Periods DEF Pace!IInv, Pace!TypeOK
<1>2. /\ excess' = IF excess > Rate THEN excess - Rate ELSE 0
      /\ tokens' = tokens /\ pinged' = pinged
  BY DEF Pace!Tick
<1>3. excess' \in Nat  BY <1>1, <1>2
<1>4. CASE /\ exercise = "c4_03" /\ idle' = idle
           /\ since' = Pace!Least(since + 1, Pace!Full \div Rate + 1)
  <2>1. since' \in Nat /\ since' <= since + 1
    <3>1. Pace!Full \div Rate + 1 \in Nat  BY Periods
    <3>2. QED BY <1>1, <1>4, <3>1 DEF Pace!Least
  <2>2. Pace!TypeOK'
    BY <1>1, <1>2, <1>3, <1>4, <2>1 DEF Pace!TypeOK, Pace!Patience, Pace!interval, Pace!Full
  <2>3. Pace!Available' \in 0..Pace!Full /\ Pace!Available' <= Pace!Available + Rate
    <3>1. /\ since' * Rate \in Nat /\ since * Rate \in Nat
          /\ since' * Rate <= since * Rate + Rate
      BY Zenon, <1>1, <2>1, Times
    <3>2. tokens \in Nat /\ Pace!Full' = Pace!Full  BY <1>1 DEF Pace!Full
    <3>3. QED BY <1>1, <1>2, <3>1, <3>2 DEF Pace!Available, Pace!Least, Pace!Full
  <2>4. excess + Pace!Available <= Pace!Full /\ Pace!Available \in 0..Pace!Full
    BY <1>1, <1>4, AvailableIs DEF Pace!Paced
  <2>5. excess' + Pace!Available' <= Pace!Full
    <3>1. CASE excess > Rate
      <4>1. excess' = excess - Rate /\ Pace!Available \in Nat /\ Pace!Available' \in Nat
        BY <1>1, <1>2, <2>3, <2>4, <3>1
      <4>2. \A e, x, y, r, f \in Int : x <= y + r /\ e + y <= f => (e - r) + x <= f  OBVIOUS
      <4>3. /\ excess \in Int /\ Pace!Available' \in Int /\ Pace!Available \in Int /\ Rate \in Int
            /\ Pace!Full \in Int /\ Pace!Available' <= Pace!Available + Rate /\ excess + Pace!Available <= Pace!Full
        BY <1>1, <2>3, <2>4, <4>1
      <4>4. QED BY Zenon, <4>1, <4>2, <4>3
    <3>2. CASE ~(excess > Rate)
      <4>1. excess' = 0 /\ Pace!Available' \in Nat /\ Pace!Available' <= Pace!Full
        BY <1>1, <1>2, <2>3, <3>2
      <4>2. QED BY <4>1
    <3>3. QED BY <3>1, <3>2
  <2>6. Pace!Paced'  BY <1>4, <2>5 DEF Pace!Paced, Pace!Full
  <2>7. QED BY <2>2, <2>6 DEF Pace!IInv
<1>5. CASE /\ exercise = "c5_03" /\ idle < Pace!Patience
           /\ since' = since + 1 /\ idle' = idle + 1
  <2>1. Pace!TypeOK'
    BY <1>1, <1>2, <1>3, <1>5 DEF Pace!TypeOK, Pace!Patience, Pace!interval, Pace!Full
  <2>2. excess = 0 /\ since < idle + Pace!interval  BY <1>1, <1>5 DEF Pace!Paced
  <2>3. excess' = 0 /\ since' < idle' + Pace!interval  BY <1>1, <1>2, <1>5, <2>2
  <2>4. Pace!Paced'  BY <1>5, <2>3 DEF Pace!Paced, Pace!interval
  <2>5. QED BY <2>1, <2>4 DEF Pace!IInv
<1>6. QED BY <1>4, <1>5 DEF Pace!Tick

LEMMA AllowStep ==
  ASSUME Rates, Pace!IInv, Pace!Allow, UNCHANGED <<filled, m1, m5>> PROVE Pace!IInv'
<1> DEFINE exercise == m1  since == m2  tokens == m3  pinged == m4  excess == m6  idle == m7
<1>1. /\ Pace!TypeOK /\ Pace!Paced /\ excess \in Nat /\ Rate \in Nat /\ Scale \in Nat
      /\ Pace!Full \in Nat /\ exercise = "c4_03" /\ since' = 0
      /\ UNCHANGED <<pinged, idle>>
  BY Periods DEF Pace!IInv, Pace!TypeOK, Pace!Allow
<1> USE <1>1
<1>2. Pace!Available \in 0..Pace!Full /\ excess + Pace!Available <= Pace!Full
  BY AvailableIs DEF Pace!Paced
<1>3. \/ Pace!Available >= Scale /\ tokens' = Pace!Available - Scale /\ excess' = excess + Scale
      \/ tokens' = Pace!Available /\ excess' = excess
  BY DEF Pace!Allow, Pace!Available
<1>4. tokens' \in 0..Pace!Full /\ excess' \in Nat /\ excess' + tokens' <= Pace!Full  BY <1>2, <1>3
<1> USE <1>4
<1>5. Pace!TypeOK'  BY DEF Pace!TypeOK, Pace!Full, Pace!Patience, Pace!interval
<1>6. Pace!Available' = tokens'
  <2>1. since' * Rate = 0  OBVIOUS
  <2>2. QED
    <3>1. Pace!Available' = Pace!Least(Pace!Full, tokens' + since' * Rate)
      BY DEF Pace!Available, Pace!Full, Pace!Least
    <3>2. tokens' + since' * Rate = tokens' /\ tokens' \in Nat
      <4>0. Pace!Full \in Nat /\ tokens' \in 0..Pace!Full  OBVIOUS
      <4>1. tokens' \in Nat  BY <4>0
      <4>2. \A x \in Nat : x + 0 = x  OBVIOUS
      <4>3. QED BY <2>1, <4>1, <4>2
    <3>3. Pace!Least(Pace!Full, tokens') = tokens'  BY <3>2 DEF Pace!Least
    <3>4. QED BY <3>1, <3>2, <3>3
<1>7. Pace!Paced'  BY <1>6 DEF Pace!Paced, Pace!Full
<1>8. QED BY <1>5, <1>7 DEF Pace!IInv

LEMMA PingStep ==
  ASSUME Rates, Pace!IInv, Pace!WdShouldPing, UNCHANGED <<filled, m1, m5>> PROVE Pace!IInv'
<1> DEFINE exercise == m1  since == m2  tokens == m3  pinged == m4  excess == m6  idle == m7
<1>1. /\ Pace!TypeOK /\ Pace!Paced /\ since \in Nat /\ pinged \in BOOLEAN
      /\ Pace!interval \in Nat /\ Pace!interval >= 1 /\ Pace!Patience \in Nat
      /\ exercise = "c5_03" /\ idle' = 0 /\ UNCHANGED <<tokens, excess>>
  BY Periods DEF Pace!IInv, Pace!TypeOK, Pace!WdShouldPing
<1> USE <1>1
<1>2. since' \in Nat /\ since' < Pace!interval /\ pinged' \in BOOLEAN
  <2>1. CASE ~pinged \/ since >= Pace!interval
    <3>1. pinged' = TRUE /\ since' = 0  BY <2>1 DEF Pace!WdShouldPing
    <3>2. QED BY <3>1
  <2>2. CASE ~(~pinged \/ since >= Pace!interval)  BY <2>2 DEF Pace!WdShouldPing
  <2>3. QED BY <2>1, <2>2
<1>3. Pace!TypeOK'  BY <1>2 DEF Pace!TypeOK, Pace!Full, Pace!Patience, Pace!interval
<1>4. Pace!Paced'
  <2>1. excess = 0  BY DEF Pace!Paced
  <2>2. since' < idle' + Pace!interval  BY <1>2
  <2>3. QED BY <2>1, <2>2 DEF Pace!Paced, Pace!interval
<1>5. QED BY <1>3, <1>4 DEF Pace!IInv

LEMMA PaceNextIInv ==
  ASSUME Rates, Pace!IInv, [Pace!Next]_Pace!vars PROVE Pace!IInv'
<1>1. CASE UNCHANGED Pace!vars
  BY <1>1 DEF Pace!vars, Pace!IInv, Pace!TypeOK, Pace!Paced, Pace!Available, Pace!Full,
     Pace!interval, Pace!Patience
<1>2. QED BY <1>1, TickStep, AllowStep, PingStep DEF Pace!Next

-----------------------------------------------------------------------------
(* ByteStream: bytes of a connection. *)

\* The n bytes that follow the first a; BUF, CAP and MaxBytes are sizes.
Piece(a, n) == [i \in 1..n |-> a + i]
Room1 == CAP \in Nat /\ 1 \in Nat /\ MaxMsgs \in Nat

LEMMA PieceIs ==
  ASSUME NEW a \in Nat, NEW n \in Nat
  PROVE  /\ Piece(a, n) \in Seq(Nat) /\ Len(Piece(a, n)) = n
         /\ \A i \in 1..n : Piece(a, n)[i] = a + i
BY DEF Piece

LEMMA RunPiece ==
  ASSUME NEW a \in Nat, NEW n \in Nat
  PROVE  Net!Run(a + 1, a + n) = Piece(a, n)
<1>1. (a + n) + 1 - (a + 1) = n /\ \A i \in 1..n : (a + 1) + i - 1 = a + i  OBVIOUS
<1>2. QED BY <1>1 DEF Net!Run, Piece

LEMMA PieceNone == ASSUME NEW a \in Nat PROVE Piece(a, 0) = << >>
<1>1. Piece(a, 0) \in Seq(Nat) /\ Len(Piece(a, 0)) = 0  BY PieceIs
<1>2. \A s \in Seq(Nat) : Len(s) = 0 => s = << >>  OBVIOUS
<1>3. QED BY <1>1, <1>2

LEMMA Joined ==
  ASSUME NEW S, NEW s \in Seq(S), NEW t \in Seq(S)
  PROVE  /\ s \o t \in Seq(S) /\ Len(s \o t) = Len(s) + Len(t)
         /\ \A i \in 1..Len(s) : (s \o t)[i] = s[i]
         /\ \A i \in 1..Len(t) : (s \o t)[Len(s) + i] = t[i]
OBVIOUS

LEMMA PieceJoin ==
  ASSUME NEW a \in Nat, NEW n \in Nat, NEW k \in Nat
  PROVE  Piece(a, n) \o Piece(a + n, k) = Piece(a, n + k)
<1> DEFINE s == Piece(a, n)
           t == Piece(a + n, k)
           u == Piece(a, n + k)
<1>1. /\ s \in Seq(Nat) /\ Len(s) = n /\ \A i \in 1..n : s[i] = a + i
      /\ u \in Seq(Nat) /\ Len(u) = n + k /\ \A i \in 1..(n + k) : u[i] = a + i
  <2>1. n + k \in Nat  OBVIOUS
  <2>2. QED BY Zenon, <2>1, PieceIs
<1>2. t \in Seq(Nat) /\ Len(t) = k /\ \A i \in 1..k : t[i] = (a + n) + i
  <2>1. a + n \in Nat  OBVIOUS
  <2>2. QED BY <2>1, PieceIs
<1> HIDE DEF s, t, u
<1>3. /\ s \o t \in Seq(Nat) /\ Len(s \o t) = n + k
      /\ \A i \in 1..n : (s \o t)[i] = s[i]
      /\ \A i \in 1..k : (s \o t)[n + i] = t[i]
  <2>1. s \in Seq(Nat) /\ t \in Seq(Nat)  BY <1>1, <1>2
  <2>2. /\ s \o t \in Seq(Nat) /\ Len(s \o t) = Len(s) + Len(t)
        /\ \A i \in 1..Len(s) : (s \o t)[i] = s[i]
        /\ \A i \in 1..Len(t) : (s \o t)[Len(s) + i] = t[i]
    BY <2>1, Joined
  <2>3. Len(s) = n /\ Len(t) = k  BY <1>1, <1>2
  <2>4. QED BY <2>2, <2>3
<1>4. ASSUME NEW i \in 1..(n + k) PROVE (s \o t)[i] = u[i]
  <2>1. CASE i \in 1..n  BY <1>1, <1>3, <2>1
  <2>2. CASE i \notin 1..n
    <3>1. i - n \in 1..k /\ n + (i - n) = i /\ (a + n) + (i - n) = a + i  BY <2>2
    <3>2. (s \o t)[n + (i - n)] = (a + n) + (i - n)  BY Zenon, <1>2, <1>3, <3>1
    <3>3. QED BY Zenon, <1>1, <3>1, <3>2
  <2>3. QED BY Zenon, <2>1, <2>2
<1>5. s \o t = u  BY Zenon, <1>1, <1>3, <1>4, SameSeq
<1>6. QED BY <1>5 DEF s, t, u

\* What was read last lies before what comes next.
LEMMA ReadMore ==
  ASSUME NEW x \in Nat, NEW m \in Nat, NEW k \in Nat, m <= x
  PROVE  /\ Net!Run(x - m + 1, x) = Piece(x - m, m)
         /\ Piece(x - m, m) \o Net!Run(x + 1, x + k) = Piece(x - m, m + k)
         /\ Net!Run((x + k) - (m + k) + 1, x + k) = Piece(x - m, m + k)
<1> DEFINE a == x - m
<1>1. a \in Nat /\ a + m = x /\ m + k \in Nat /\ a + (m + k) = x + k
      /\ (x + k) - (m + k) + 1 = a + 1
  OBVIOUS
<1>2. Net!Run(x + 1, x + k) = Piece(x, k)  BY RunPiece
<1> HIDE DEF a
<1> USE <1>1
<1>3. Net!Run(a + 1, a + m) = Piece(a, m) /\ Net!Run(a + 1, a + (m + k)) = Piece(a, m + k)
  BY RunPiece
<1>4. Piece(a, m) \o Piece(a + m, k) = Piece(a, m + k)  BY Zenon, PieceJoin
<1>5. Net!Run(a + 1, x) = Piece(a, m) /\ Piece(a, m) \o Net!Run(x + 1, x + k) = Piece(a, m + k)
      /\ Net!Run((x + k) - (m + k) + 1, x + k) = Piece(a, m + k)
  BY Zenon, <1>2, <1>3, <1>4
<1>6. QED BY <1>5 DEF a

LEMMA LeastIs ==
  ASSUME NEW x \in Int, NEW y \in Int, NEW k \in 1..Net!Least(x, y)
  PROVE  k <= x /\ k <= y /\ k \in Nat /\ k >= 1
BY DEF Net!Least

LEMMA PieceFront ==
  ASSUME NEW a \in Nat, NEW n \in Nat, NEW k \in 0..n
  PROVE  SubSeq(Piece(a, n), 1, k) = Piece(a, k)
<1> DEFINE s == Piece(a, n)
           u == Piece(a, k)
<1>1. /\ s \in Seq(Nat) /\ Len(s) = n /\ \A i \in 1..n : s[i] = a + i
      /\ u \in Seq(Nat) /\ Len(u) = k /\ \A i \in 1..k : u[i] = a + i
  <2>1. k \in Nat  OBVIOUS
  <2>2. QED BY Zenon, <2>1, PieceIs
<1> HIDE DEF s, u
<1>2. /\ SubSeq(s, 1, k) \in Seq(Nat) /\ Len(SubSeq(s, 1, k)) = k
      /\ \A i \in 1..k : SubSeq(s, 1, k)[i] = s[i]
  BY <1>1, Prefix
<1>3. \A i \in 1..k : i \in 1..n  OBVIOUS
<1>4. SubSeq(s, 1, k) = u  BY <1>1, <1>2, <1>3, SameSeq
<1>5. QED BY <1>4 DEF s, u

LEMMA Rest ==
  ASSUME NEW S, NEW s \in Seq(S), NEW k \in 0..Len(s)
  PROVE  /\ SubSeq(s, k + 1, Len(s)) \in Seq(S) /\ Len(SubSeq(s, k + 1, Len(s))) = Len(s) - k
         /\ \A i \in 1..(Len(s) - k) : SubSeq(s, k + 1, Len(s))[i] = s[k + i]
OBVIOUS

LEMMA PieceRest ==
  ASSUME NEW a \in Nat, NEW n \in Nat, NEW k \in 0..n
  PROVE  SubSeq(Piece(a, n), k + 1, n) = Piece(a + k, n - k)
<1> DEFINE s == Piece(a, n)
           u == Piece(a + k, n - k)
<1>1. s \in Seq(Nat) /\ Len(s) = n /\ \A i \in 1..n : s[i] = a + i  BY PieceIs
<1>2. u \in Seq(Nat) /\ Len(u) = n - k /\ \A i \in 1..(n - k) : u[i] = (a + k) + i
  <2>1. a + k \in Nat /\ n - k \in Nat  OBVIOUS
  <2>2. QED BY <2>1, PieceIs
<1> HIDE DEF s, u
<1>3. /\ SubSeq(s, k + 1, n) \in Seq(Nat) /\ Len(SubSeq(s, k + 1, n)) = n - k
      /\ \A i \in 1..(n - k) : SubSeq(s, k + 1, n)[i] = s[k + i]
  BY Zenon, <1>1, Rest
<1>4. ASSUME NEW i \in 1..(n - k) PROVE SubSeq(s, k + 1, n)[i] = u[i]
  <2>1. k + i \in 1..n /\ a + (k + i) = (a + k) + i  OBVIOUS
  <2>2. QED BY <1>1, <1>2, <1>3, <2>1
<1>5. SubSeq(s, k + 1, n) = u  BY <1>2, <1>3, <1>4, SameSeq
<1>6. QED BY <1>5 DEF s, u

-----------------------------------------------------------------------------
\* A connection by itself, and with the n of its bytes that an echo holds.
Sane(r) == /\ r.sent \in 0..MaxMsgs /\ r.rcvd \in 0..r.sent /\ r.taken \in 0..Len(r.out)
           /\ Len(r.out) <= MaxMsgs /\ 1 - (Len(r.out) - r.taken) >= 0
           /\ r.out = Piece(0, Len(r.out))
Back(r, n) == Len(r.out) + n = r.rcvd /\ (r.phase = "closed" => r.rcvd = r.sent)
Echoed == m1 \in Net!Echoes \cup {"echo"} =>
            \A c \in Procs : Back(m3[c], IF c = loc THEN Len(m2) ELSE 0)
ReadSoFar == pc \in Net!Reading => m2 = Net!Run(m3[loc].rcvd - Len(m2) + 1, m3[loc].rcvd)

LEMMA OutRun ==
  ASSUME NEW s \in Seq(Nat) PROVE Net!Run(1, Len(s)) = Piece(0, Len(s))
<1>1. Len(s) \in Nat /\ 0 + 1 = 1 /\ 0 + Len(s) = Len(s) /\ 0 \in Nat  OBVIOUS
<1>2. Net!Run(0 + 1, 0 + Len(s)) = Piece(0, Len(s))  BY <1>1, RunPiece
<1>3. QED BY <1>1, <1>2

\* The state, connection by connection.
LEMMA NetFacts ==
  ASSUME Net!IInv
  PROVE  /\ filled \in BOOLEAN /\ loc \in Procs /\ m2 \in Seq(Nat) /\ Len(m2) \in Nat
         /\ Len(m2) <= MaxMsgs /\ m3 \in [Procs -> Net!Connections]
         /\ m1 \in Net!Echoes \cup Net!Playground \cup {"f2_02", "f2_03", "c2_01"}
         /\ m4 \subseteq Procs \cup {"listen", "stop"}
         /\ \A c \in Procs : m3[c] \in Net!Connections /\ Sane(m3[c]) /\ m3[c].out \in Seq(Nat)
         /\ Echoed /\ ReadSoFar /\ Net!ShortIsEnd /\ Net!Placed /\ Net!Buffered
<1> DEFINE buf == m2  conn == m3
<1>1. ASSUME NEW c \in Procs PROVE conn[c] \in Net!Connections /\ Sane(conn[c]) /\ conn[c].out \in Seq(Nat)
  <2>1. conn[c] \in Net!Connections /\ conn[c].out \in Seq(Nat)
    BY DEF Net!IInv, Net!Shaped, Net!Connections
  <2>2. conn[c].out = Piece(0, Len(conn[c].out))  BY <2>1, OutRun DEF Net!IInv, Net!InOrder
  <2>3. QED BY <2>1, <2>2 DEF Net!IInv, Net!TypeOK, Sane, Net!Room
<1>2. Echoed  BY Zenon DEF Net!IInv, Net!InOrder, Echoed, Back
<1>3. buf \in Seq(Nat) /\ Len(buf) \in Nat  BY DEF Net!IInv, Net!Shaped
<1>4. QED BY <1>1, <1>2, <1>3 DEF Net!IInv, Net!TypeOK, Net!Shaped, Net!InOrder, ReadSoFar,
   Net!Reading

LEMMA NetAgain ==
  ASSUME filled' \in BOOLEAN, loc' \in Procs, m2' \in Seq(Nat), Len(m2') <= MaxMsgs,
         m1' \in Net!Echoes \cup Net!Playground \cup {"f2_02", "f2_03", "c2_01"},
         m4' \subseteq Procs \cup {"listen", "stop"}, m3' \in [Procs -> Net!Connections],
         \A c \in Procs : Sane(m3'[c]), Echoed', ReadSoFar', Net!ShortIsEnd', Net!Placed', Net!Buffered'
  PROVE  Net!IInv'
<1> DEFINE conn == m3
<1>1. Net!TypeOK'  BY DEF Net!TypeOK, Sane, Net!Room
<1>2. ASSUME NEW c \in Procs PROVE conn'[c].out = Net!Run(1, Len(conn'[c].out))
  <2>1. conn'[c].out \in Seq(Nat)  BY DEF Net!Connections
  <2>2. Net!Run(1, Len(conn'[c].out)) = Piece(0, Len(conn'[c].out))  BY <2>1, OutRun
  <2>3. QED BY <2>2 DEF Sane
<1>3. Net!InOrder'  BY Zenon, <1>2 DEF Net!InOrder, Echoed, Back, ReadSoFar, Net!Reading
<1>4. QED BY <1>1, <1>3 DEF Net!IInv, Net!Shaped

\* A step that leaves the bytes that were read and written where they are.
Keeps(r, s) == /\ s \in Net!Connections /\ s.out = r.out /\ s.rcvd = r.rcvd
               /\ s.sent \in r.sent..MaxMsgs
               /\ s.taken \in r.taken..Len(r.out)
               /\ r.shut => s.shut /\ s.sent = r.sent
               /\ s.phase = "closed" => /\ s.sent = r.sent
                                        /\ \/ r.phase = "closed" \/ r.rcvd = r.sent
                                           \/ m1 \notin Net!Echoes \cup {"echo"}
LEMMA SaneKept ==
  ASSUME NEW r \in Net!Connections, NEW s, Sane(r), Keeps(r, s), Room1
  PROVE  Sane(s)
<1>1. /\ s \in Net!Connections /\ s.out = r.out /\ s.rcvd = r.rcvd /\ s.sent \in r.sent..MaxMsgs
      /\ s.taken \in r.taken..Len(r.out)
  BY DEF Keeps
<1>2. /\ r.sent \in 0..MaxMsgs /\ r.rcvd \in 0..r.sent /\ r.taken \in 0..Len(r.out)
      /\ Len(r.out) \in Nat /\ 1 - (Len(r.out) - r.taken) >= 0 /\ Len(r.out) <= MaxMsgs
      /\ r.out = Piece(0, Len(r.out)) /\ 1 \in Nat /\ MaxMsgs \in Nat
  BY DEF Sane, Room1, Net!Connections
<1>3. s.sent \in 0..MaxMsgs /\ r.rcvd \in 0..s.sent  BY <1>1, <1>2
<1>4. s.taken \in 0..Len(r.out) /\ 1 - (Len(r.out) - s.taken) >= 0  BY <1>1, <1>2
<1>5. QED BY <1>1, <1>2, <1>3, <1>4 DEF Sane

LEMMA Moved ==
  ASSUME Net!IInv, Room1, UNCHANGED <<filled, m1, m2>>, loc' \in Procs,
         m3' \in [Procs -> Net!Connections], \A c \in Procs : Keeps(m3[c], m3'[c]),
         m4' \subseteq Procs \cup {"listen", "stop"}, Net!Placed',
         loc' = loc \/ (m2 = << >> /\ pc' \notin Net!Writing \cup Net!Reading),
         pc' \in Net!Writing => pc \in Net!Writing,
         pc' \in Net!Reading => pc \in Net!Reading,
         pc' \in Net!Resting => m2 = << >>,
         pc' = "short" => Net!Unread(loc) = 0 /\ m3[loc].shut,
         pc' = "full" => Len(m2) = CAP
  PROVE  Net!IInv'
<1> DEFINE exercise == m1  buf == m2  conn == m3
<1>1. ASSUME NEW c \in Procs PROVE Sane(conn'[c])
  <2>1. Sane(conn[c]) /\ Keeps(conn[c], conn'[c]) /\ Len(conn[c].out) \in Nat
        /\ conn[c] \in Net!Connections
    BY NetFacts
  <2>2. QED BY <2>1, SaneKept
<1>2. Echoed'
  <2>1. SUFFICES ASSUME exercise \in Net!Echoes \cup {"echo"}, NEW c \in Procs
                 PROVE  Back(conn'[c], IF c = loc' THEN Len(buf) ELSE 0)
    BY DEF Echoed
  <2>2. Back(conn[c], IF c = loc THEN Len(buf) ELSE 0)  BY <2>1, NetFacts DEF Echoed
  <2>3. loc' = loc \/ Len(buf) = 0  OBVIOUS
  <2>4. Back(conn[c], IF c = loc' THEN Len(buf) ELSE 0)  BY <2>2, <2>3
  <2>5. Keeps(conn[c], conn'[c])  OBVIOUS
  <2>6. QED BY Zenon, <2>1, <2>4, <2>5 DEF Back, Keeps
<1>3. ReadSoFar' /\ Net!Buffered'
  <2>1. Keeps(conn[loc], conn'[loc])  BY NetFacts
  <2>2. pc' \in Net!Writing \cup Net!Reading => loc' = loc  OBVIOUS
  <2>3. ReadSoFar'  BY <2>1, <2>2, NetFacts DEF ReadSoFar, Keeps
  <2>4. Net!Buffered'  BY Zenon, <2>1, <2>2, NetFacts DEF Net!Buffered, Keeps
  <2>5. QED BY <2>3, <2>4
<1>4. Net!ShortIsEnd'
  <2>1. pc' = "short" => loc' = loc  BY DEF Net!Reading
  <2>2. Keeps(conn[loc], conn'[loc])  BY NetFacts
  <2>3. pc' = "short" => Net!AtEof'  BY <2>1, <2>2 DEF Net!AtEof, Net!Unread, Keeps
  <2>4. QED BY <2>3 DEF Net!ShortIsEnd
<1>5. QED BY <1>1, <1>2, <1>3, <1>4, NetFacts, NetAgain

\* Keeping a connection as it is.
LEMMA KeepsSame ==
  ASSUME Net!IInv PROVE \A c \in Procs : Keeps(m3[c], m3[c])
<1> DEFINE conn == m3
<1>1. ASSUME NEW c \in Procs PROVE Keeps(conn[c], conn[c])
  <2>1. conn[c] \in Net!Connections /\ Sane(conn[c])  BY NetFacts
  <2>2. conn[c].sent \in conn[c].sent..MaxMsgs /\ conn[c].taken \in conn[c].taken..Len(conn[c].out)
    BY <2>1 DEF Sane
  <2>3. QED BY <2>1, <2>2 DEF Keeps
<1>2. QED BY Zenon, <1>1

\* A read appends to what was read before.
LEMMA NetReadStep ==
  ASSUME Net!IInv, Room1, NEW n \in Int, Net!ReadSome(n), UNCHANGED <<filled, m1, loc>>,
         m4' \subseteq Procs \cup {"listen", "stop"}, Net!Placed',
         \/ pc \in {"read_full", "read_drain"} /\ pc' = pc /\ m1 \notin Net!Echoes \cup {"echo"}
         \/ m2 = << >> /\ pc' \in {"echo", "sendall"} /\ m1 \in Net!Echoes \cup {"echo"}
  PROVE  Net!IInv'
<1> DEFINE exercise == m1  buf == m2  conn == m3
<1>1. PICK k \in 1..Net!Least(n, Net!Unread(loc)) :
        /\ buf' = buf \o Net!Run(conn[loc].rcvd + 1, conn[loc].rcvd + k)
        /\ conn' = [conn EXCEPT ![loc].rcvd = @ + k]
  BY Zenon DEF Net!ReadSome
<1> DEFINE r == conn[loc]
           m == Len(buf)
<1>2. /\ loc \in Procs /\ conn \in [Procs -> Net!Connections] /\ r \in Net!Connections /\ Sane(r)
      /\ r.rcvd \in Nat /\ m \in Nat /\ buf \in Seq(Nat) /\ r.out \in Seq(Nat)
      /\ r.sent \in Nat /\ Len(r.out) \in Nat
  BY NetFacts DEF Net!Connections
<1> USE <1>2
<1>3. k \in Nat /\ k >= 1 /\ r.rcvd + k <= r.sent /\ r.sent <= MaxMsgs /\ r.rcvd + k \in Nat
  BY <1>1 DEF Net!Least, Net!Unread, Sane
<1>4. /\ conn' \in [Procs -> Net!Connections] /\ conn'[loc] = [r EXCEPT !.rcvd = r.rcvd + k]
      /\ \A c \in Procs \ {loc} : conn'[c] = conn[c]
  <2>1. [r EXCEPT !.rcvd = r.rcvd + k] \in Net!Connections  BY Zenon, <1>3 DEF Net!Connections
  <2>2. QED BY <1>1, <2>1
<1>5. /\ conn'[loc].rcvd = r.rcvd + k /\ conn'[loc].out = r.out /\ conn'[loc].sent = r.sent
      /\ conn'[loc].taken = r.taken /\ conn'[loc].phase = r.phase
  BY <1>4 DEF Net!Connections
<1>6. \A c \in Procs : Sane(conn'[c])
  <2>1. Sane(conn'[loc])  BY <1>3, <1>5 DEF Sane
  <2>2. QED BY Zenon, <1>4, <2>1, NetFacts
<1>7. m <= r.rcvd /\ buf = Piece(r.rcvd - m, m)
  <2>1. CASE pc \in {"read_full", "read_drain"}
    <3>1. m <= r.rcvd /\ buf = Net!Run(r.rcvd - m + 1, r.rcvd)
      BY <2>1, NetFacts DEF Net!Buffered, ReadSoFar, Net!Reading
    <3>2. Net!Run(r.rcvd - m + 1, r.rcvd) = Piece(r.rcvd - m, m)  BY Zenon, <3>1, ReadMore
    <3>3. QED BY <3>1, <3>2
  <2>2. CASE buf = << >>
    <3>1. m = 0 /\ r.rcvd - 0 = r.rcvd  BY <2>2
    <3>2. QED BY <2>2, <3>1, PieceNone
  <2>3. QED BY <2>1, <2>2
<1>8. buf' = Piece(r.rcvd - m, m + k) /\ buf' \in Seq(Nat) /\ Len(buf') = m + k
  <2>1. Piece(r.rcvd - m, m) \o Net!Run(r.rcvd + 1, r.rcvd + k) = Piece(r.rcvd - m, m + k)
    <3>1. r.rcvd \in Nat /\ m \in Nat /\ k \in Nat /\ m <= r.rcvd  BY <1>3, <1>7
    <3>2. QED BY ONLY Zenon, <3>1, ReadMore
  <2>2. buf' = Piece(r.rcvd - m, m + k)  BY Zenon, <1>1, <1>7, <2>1
  <2>3. r.rcvd - m \in Nat /\ m + k \in Nat  BY <1>3, <1>7
  <2>4. QED BY Zenon, <2>2, <2>3, PieceIs
<1> HIDE DEF m
<1>9. CASE /\ pc \in {"read_full", "read_drain"} /\ pc' = pc
           /\ exercise \notin Net!Echoes \cup {"echo"}
  <2>1. pc' \notin Net!Writing \cup Net!Resting /\ pc' \in Net!Reading /\ pc' # "short" /\ pc' # "full"
    BY <1>9 DEF Net!Writing, Net!Resting, Net!Reading
  <2>2. buf' = Net!Run(conn'[loc].rcvd - Len(buf') + 1, conn'[loc].rcvd)
    <3>1. Net!Run((r.rcvd + k) - (m + k) + 1, r.rcvd + k) = Piece(r.rcvd - m, m + k)
      BY <1>3, <1>7, ReadMore DEF m
    <3>2. QED BY <1>5, <1>8, <3>1
  <2>3. Len(buf') <= conn'[loc].rcvd  BY <1>3, <1>5, <1>7, <1>8 DEF m
  <2>4. ReadSoFar' /\ Net!Buffered'  BY <2>1, <2>2, <2>3 DEF ReadSoFar, Net!Buffered
  <2>5. Echoed' /\ Net!ShortIsEnd'  BY <1>9, <2>1 DEF Echoed, Net!ShortIsEnd
  <2>6. Len(buf') <= MaxMsgs  BY <1>3, <1>7, <1>8 DEF m, Room1
  <2>7. QED BY <1>4, <1>6, <1>8, <2>4, <2>5, <2>6, NetFacts, NetAgain
<1>10. CASE /\ buf = << >> /\ pc' \in {"echo", "sendall"} /\ exercise \in Net!Echoes \cup {"echo"}
  <2>1. pc' \notin Net!Reading \cup Net!Resting /\ pc' # "short" /\ pc' # "full"
    BY <1>10 DEF Net!Resting, Net!Reading
  <2>2. m = 0 /\ Len(buf') = k /\ buf' = Piece(r.rcvd, k)
    <3>1. m = 0  BY <1>10 DEF m
    <3>2. m + k = k /\ r.rcvd - m = r.rcvd  BY <1>3, <3>1
    <3>3. QED BY <1>8, <3>1, <3>2
  <2> USE <2>2
  <2>3. Back(r, 0)
    <3>1. Back(r, m)  BY <1>10, NetFacts DEF Echoed, m
    <3>2. QED BY <3>1
  <2>4. Len(r.out) = r.rcvd  BY <2>3 DEF Back
  <2> USE <2>4
  <2>5. buf' = Net!Run(Len(conn'[loc].out) + 1, Len(conn'[loc].out) + Len(buf'))
    BY Zenon, <1>3, <1>5, RunPiece
  <2>6. Len(conn'[loc].out) + Len(buf') <= MaxMsgs /\ Len(buf') <= MaxMsgs
    BY <1>3, <1>5 DEF Room1
  <2>7. ReadSoFar' /\ Net!Buffered' /\ Net!ShortIsEnd'
    BY <2>1, <2>5, <2>6 DEF ReadSoFar, Net!Buffered, Net!ShortIsEnd
  <2>8. Echoed'
    <3>1. SUFFICES ASSUME NEW c \in Procs
                   PROVE  Back(conn'[c], IF c = loc THEN Len(buf') ELSE 0)
      BY DEF Echoed
    <3>2. CASE c = loc
      <4>1. Len(conn'[loc].out) + Len(buf') = conn'[loc].rcvd  BY <1>5
      <4>2. r.phase # "closed"  BY <1>3, <2>3 DEF Back
      <4>3. QED BY <1>5, <3>2, <4>1, <4>2 DEF Back
    <3>3. CASE c # loc  BY <1>4, <1>10, <3>3, NetFacts DEF Echoed
    <3>4. QED BY <3>2, <3>3
  <2>9. QED BY <1>4, <1>6, <1>8, <2>6, <2>7, <2>8, NetFacts, NetAgain
<1>11. QED BY <1>9, <1>10

\* A write takes the front of the buffer to the peer.
LEMMA NetWriteStep ==
  ASSUME Net!IInv, Room1, Net!WriteSome, UNCHANGED <<filled, m1, loc>>,
         m4' \subseteq Procs \cup {"listen", "stop"}, Net!Placed', pc \in Net!Writing,
         pc' = pc \/ (m2' = << >> /\ pc' \in Net!Resting)
  PROVE  Net!IInv'
<1> DEFINE exercise == m1  buf == m2  conn == m3
<1>1. PICK k \in 1..Net!Least(Len(buf), Net!Room(loc)) :
        /\ buf' = SubSeq(buf, k + 1, Len(buf))
        /\ conn' = [conn EXCEPT ![loc].out = @ \o SubSeq(buf, 1, k)]
  BY Zenon DEF Net!WriteSome
<1> DEFINE r == conn[loc]
           m == Len(buf)
           d == Len(r.out)
<1>2. /\ loc \in Procs /\ conn \in [Procs -> Net!Connections] /\ r \in Net!Connections /\ Sane(r)
      /\ m \in Nat /\ buf \in Seq(Nat) /\ r.out \in Seq(Nat) /\ d \in Nat
      /\ r.out = Piece(0, d)
  BY NetFacts DEF Sane
<1> USE <1>2
<1>3. /\ buf = Piece(d, m) /\ d + m <= MaxMsgs
  <2>1. buf = Net!Run(d + 1, d + m) /\ d + m <= MaxMsgs  BY NetFacts DEF Net!Buffered
  <2>2. QED BY Zenon, <2>1, RunPiece
<1>4. k \in Nat /\ k >= 1 /\ k \in 0..m /\ 1 - ((d + k) - r.taken) >= 0 /\ d + k \in Nat /\ m - k \in Nat
  <2>1. r.taken \in Nat /\ 1 \in Nat  BY DEF Net!Connections, Room1
  <2>2. k <= m /\ k <= 1 - (d - r.taken) /\ k \in Nat /\ k >= 1
    <3>1. Net!Room(loc) = 1 - (d - r.taken) /\ Net!Room(loc) \in Int /\ m \in Int
      BY <2>1 DEF Net!Room
    <3>2. QED BY Zenon, <1>1, <3>1, LeastIs
  <2>3. QED BY <2>1, <2>2
<1> USE <1>4
<1>5. buf' = Piece(d + k, m - k) /\ Len(buf') = m - k /\ buf' \in Seq(Nat)
  <2>1. SubSeq(Piece(d, m), k + 1, m) = Piece(d + k, m - k)  BY Zenon, PieceRest
  <2>2. buf' = Piece(d + k, m - k)  BY Zenon, <1>1, <1>3, <2>1
  <2>3. QED BY Zenon, <2>2, PieceIs
<1>6. r.out \o SubSeq(buf, 1, k) = Piece(0, d + k)
  <2>1. SubSeq(Piece(d, m), 1, k) = Piece(d, k)  BY Zenon, PieceFront
  <2>2. 0 + d = d /\ 0 \in Nat  OBVIOUS
  <2>3. Piece(0, d) \o Piece(0 + d, k) = Piece(0, d + k)  BY Zenon, <2>2, PieceJoin
  <2>4. QED BY Zenon, <1>3, <2>1, <2>2, <2>3
<1>7. Piece(0, d + k) \in Seq(Nat) /\ Len(Piece(0, d + k)) = d + k  BY Zenon, PieceIs
<1>8. /\ conn' \in [Procs -> Net!Connections] /\ conn'[loc] = [r EXCEPT !.out = Piece(0, d + k)]
      /\ \A c \in Procs \ {loc} : conn'[c] = conn[c]
  <2>1. [r EXCEPT !.out = Piece(0, d + k)] \in Net!Connections  BY Zenon, <1>7 DEF Net!Connections
  <2>2. conn' = [conn EXCEPT ![loc] = [r EXCEPT !.out = Piece(0, d + k)]]  BY Zenon, <1>1, <1>6
  <2>3. QED BY <2>1, <2>2
<1>9. /\ conn'[loc].out = Piece(0, d + k) /\ Len(conn'[loc].out) = d + k
      /\ conn'[loc].rcvd = r.rcvd /\ conn'[loc].sent = r.sent
      /\ conn'[loc].taken = r.taken /\ conn'[loc].phase = r.phase
  BY <1>7, <1>8 DEF Net!Connections
<1> HIDE DEF m, d
<1>10. \A c \in Procs : Sane(conn'[c])
  <2>1. Sane(conn'[loc])
    <3>1. r.taken \in 0..d /\ r.sent \in 0..MaxMsgs /\ r.rcvd \in 0..r.sent  BY DEF Sane, d
    <3>2. r.taken \in 0..(d + k) /\ d + k <= MaxMsgs  BY <1>3, <3>1 DEF Room1
    <3>3. QED BY <1>9, <3>1, <3>2 DEF Sane
  <2>2. QED BY Zenon, <1>8, <2>1, NetFacts
<1>11. pc' \notin Net!Reading /\ pc' # "short" /\ pc' # "full"
  BY DEF Net!Writing, Net!Reading, Net!Resting
<1>12. Net!Buffered'
  <2>1. pc' \in Net!Writing => /\ buf' = Net!Run((d + k) + 1, (d + k) + (m - k))
                               /\ (d + k) + (m - k) <= MaxMsgs
    BY <1>3, <1>5, RunPiece
  <2>2. pc' \in Net!Resting => buf' = << >>  BY DEF Net!Writing, Net!Resting
  <2>3. QED BY Zenon, <1>5, <1>9, <1>11, <2>1, <2>2 DEF Net!Buffered
<1>13. ReadSoFar' /\ Net!ShortIsEnd'  BY <1>11 DEF ReadSoFar, Net!ShortIsEnd
<1>14. Echoed'
  <2>1. SUFFICES ASSUME exercise \in Net!Echoes \cup {"echo"}, NEW c \in Procs
                 PROVE  Back(conn'[c], IF c = loc THEN Len(buf') ELSE 0)
    BY DEF Echoed
  <2>2. CASE c = loc
    <3>1. Back(r, m)  BY <2>1, <2>2, NetFacts DEF Echoed, m
    <3>2. (d + k) + (m - k) = d + m  OBVIOUS
    <3>3. QED BY Zenon, <1>5, <1>9, <2>2, <3>1, <3>2 DEF Back, d
  <2>3. CASE c # loc  BY <1>8, <2>1, <2>3, NetFacts DEF Echoed
  <2>4. QED BY <2>2, <2>3
<1>15. Len(buf') <= MaxMsgs  BY <1>3, <1>5 DEF Room1
<1>16. QED BY <1>5, <1>8, <1>10, <1>12, <1>13, <1>14, <1>15, NetFacts, NetAgain

LEMMA Changed ==
  ASSUME Net!IInv, NEW c \in Procs, NEW s, Keeps(m3[c], s), m3' = [m3 EXCEPT ![c] = s]
  PROVE  /\ m3' \in [Procs -> Net!Connections] /\ \A d \in Procs : Keeps(m3[d], m3'[d])
         /\ m3'[c] = s
<1> DEFINE conn == m3
<1>1. conn \in [Procs -> Net!Connections] /\ s \in Net!Connections  BY NetFacts DEF Keeps
<1>2. conn'[c] = s /\ \A d \in Procs \ {c} : conn'[d] = conn[d]  BY <1>1
<1>3. conn' \in [Procs -> Net!Connections]  BY <1>1
<1>4. QED BY <1>2, <1>3, KeepsSame

\* What the peer does leaves the program where it is.
LEMMA MovedHere ==
  ASSUME Net!IInv, Room1, UNCHANGED <<filled, m1, pc, loc, m2>>,
         m3' \in [Procs -> Net!Connections], \A c \in Procs : Keeps(m3[c], m3'[c]),
         m4' \subseteq Procs \cup {"listen", "stop"}
  PROVE  Net!IInv'
<1> DEFINE buf == m2  conn == m3
<1>1. Net!Placed'  BY NetFacts DEF Net!Placed
<1>2. pc \in Net!Resting => buf = << >>  BY NetFacts DEF Net!Buffered
<1>3. /\ pc = "short" => Net!Unread(loc) = 0 /\ conn[loc].shut
      /\ pc = "full" => Len(buf) = CAP
  BY NetFacts DEF Net!ShortIsEnd, Net!AtEof
<1>4. QED BY <1>1, <1>2, <1>3, NetFacts, Moved

LEMMA PeerStep == ASSUME Net!IInv, Room1, Net!Peer PROVE Net!IInv'
<1> DEFINE conn == m3  event == m4
<1>1. CASE Net!Stop
  <2>1. conn' = conn /\ event' \subseteq Procs \cup {"listen", "stop"}
    BY <1>1, NetFacts DEF Net!Stop
  <2>2. QED BY <2>1, KeepsSame, NetFacts, MovedHere DEF Net!Peer
<1>2. ASSUME NEW c \in Procs, Net!Connect(c) \/ Net!Send(c) \/ Net!Shut(c) \/ Net!Reset(c) PROVE Net!IInv'
  <2>1. /\ conn[c] \in Net!Connections /\ Sane(conn[c]) /\ Keeps(conn[c], conn[c])
        /\ conn[c].sent \in Nat /\ conn[c].sent <= MaxMsgs
    BY NetFacts, KeepsSame DEF Sane, Net!Connections
  <2>2. event' \subseteq Procs \cup {"listen", "stop"}
    BY <1>2, NetFacts DEF Net!Connect, Net!Send, Net!Shut, Net!Reset, Net!Registered,
       Net!Edge
  <2> USE <2>1
  <2>3. CASE Net!Connect(c)
    <3>1. Keeps(conn[c], [conn[c] EXCEPT !.phase = "backlog"])  BY DEF Keeps, Net!Connections
    <3>2. conn' = [conn EXCEPT ![c] = [conn[c] EXCEPT !.phase = "backlog"]]
      BY <2>3 DEF Net!Connect
    <3>3. QED BY Zenon, <2>2, <3>1, <3>2, Changed, MovedHere DEF Net!Peer
  <2>4. CASE Net!Send(c)
    <3>1. ~conn[c].shut /\ conn[c].phase # "closed" /\ conn[c].sent < MaxMsgs
      BY <2>4 DEF Net!Send, Net!Alive
    <3>2. /\ conn[c].sent + 1 \in Nat /\ MaxMsgs \in Nat
          /\ conn[c].sent + 1 \in conn[c].sent..MaxMsgs
      BY <3>1 DEF Room1
    <3>3. Keeps(conn[c], [conn[c] EXCEPT !.sent = conn[c].sent + 1])
      BY Zenon, <3>1, <3>2 DEF Keeps, Net!Connections
    <3>4. conn' = [conn EXCEPT ![c] = [conn[c] EXCEPT !.sent = conn[c].sent + 1]]
      BY <2>4 DEF Net!Send
    <3>5. QED BY Zenon, <2>2, <3>3, <3>4, Changed, MovedHere DEF Net!Peer
  <2>5. CASE Net!Shut(c)
    <3>1. Keeps(conn[c], [conn[c] EXCEPT !.shut = TRUE])  BY Zenon DEF Keeps, Net!Connections
    <3>2. conn' = [conn EXCEPT ![c] = [conn[c] EXCEPT !.shut = TRUE]]  BY <2>5 DEF Net!Shut
    <3>3. QED BY Zenon, <2>2, <3>1, <3>2, Changed, MovedHere DEF Net!Peer
  <2>6. CASE Net!Reset(c)
    <3>1. Keeps(conn[c], [conn[c] EXCEPT !.phase = "reset"])  BY DEF Keeps, Net!Connections
    <3>2. conn' = [conn EXCEPT ![c] = [conn[c] EXCEPT !.phase = "reset"]]  BY <2>6 DEF Net!Reset
    <3>3. QED BY Zenon, <2>2, <3>1, <3>2, Changed, MovedHere DEF Net!Peer
  <2>7. QED BY <1>2, <2>3, <2>4, <2>5, <2>6
<1>3. QED BY <1>1, <1>2 DEF Net!Peer

LEMMA NetTakeStep == ASSUME Net!IInv, Room1, NEW c \in Procs, Net!Take(c) PROVE Net!IInv'
<1> DEFINE conn == m3
<1>1. /\ conn[c] \in Net!Connections /\ Keeps(conn[c], conn[c]) /\ Len(conn[c].out) \in Nat
      /\ conn[c].taken \in Nat /\ conn[c].taken < Len(conn[c].out)
  BY NetFacts, KeepsSame DEF Net!Connections, Net!Take
<1>2. conn[c].taken + 1 \in Nat /\ conn[c].taken + 1 \in conn[c].taken..Len(conn[c].out)  BY <1>1
<1>3. Keeps(conn[c], [conn[c] EXCEPT !.taken = conn[c].taken + 1])
  BY Zenon, <1>1, <1>2 DEF Keeps, Net!Connections
<1>4. conn' = [conn EXCEPT ![c] = [conn[c] EXCEPT !.taken = conn[c].taken + 1]]  BY DEF Net!Take
<1>5. QED BY Zenon, <1>3, <1>4, NetFacts, Changed, MovedHere DEF Net!Take

-----------------------------------------------------------------------------
\* A step of the thread that leaves the connections alone.
LEMMA Still ==
  ASSUME Net!IInv, Room1, UNCHANGED <<filled, m1, loc, m2, m3, m4>>, Net!Placed',
         pc' \notin Net!Writing, pc' \in Net!Reading => pc \in Net!Reading, pc' \in Net!Resting => m2 = << >>,
         pc' = "short" => Net!AtEof, pc' = "full" => Len(m2) = CAP
  PROVE  Net!IInv'
<1> DEFINE conn == m3
<1>1. \A c \in Procs : Keeps(conn[c], conn'[c])  BY KeepsSame
<1>2. QED BY <1>1, NetFacts, Moved DEF Net!AtEof

\* What a caller of its own puts into the buffer.
LEMMA NetFilled ==
  ASSUME Net!IInv, UNCHANGED <<filled, m1, loc, m3, m4>>,
         m1 \notin Net!Echoes \cup {"echo"}, m2' \in Seq(Nat), Len(m2') <= MaxMsgs,
         Net!Placed', ReadSoFar', Net!Buffered', Net!ShortIsEnd'
  PROVE  Net!IInv'
<1>1. Echoed'  BY DEF Echoed
<1>2. QED BY <1>1, NetFacts, NetAgain

LEMMA NothingRead ==
  ASSUME NEW x \in Nat PROVE Net!Run(x - 0 + 1, x) = << >>
<1>1. Net!Run(x - 0 + 1, x) = Piece(x - 0, 0) /\ x - 0 = x
  <2>1. 0 \in Nat /\ 0 <= x  OBVIOUS
  <2>2. Net!Run(x - 0 + 1, x) = Piece(x - 0, 0)  BY <2>1, ReadMore
  <2>3. QED BY <2>2
<1>2. QED BY <1>1, PieceNone

LEMMA CallsStep ==
  ASSUME Net!IInv, Room1, Net!Calls PROVE Net!IInv'
<1> DEFINE exercise == m1  buf == m2  conn == m3  event == m4
<1> USE DEF Net!Writing, Net!Reading, Net!Resting, Net!Echoes, Net!Playground
<1>1. /\ UNCHANGED <<filled, exercise, loc, event>>
      /\ event' \subseteq Procs \cup {"listen", "stop"}
      /\ loc \in Procs /\ buf \in Seq(Nat) /\ Len(buf) \in Nat
      /\ conn[loc] \in Net!Connections /\ conn[loc].rcvd \in Nat /\ conn[loc].out \in Seq(Nat)
      /\ Len(conn[loc].out) \in Nat /\ Len(conn[loc].out) <= MaxMsgs
      /\ Net!Placed /\ Net!Buffered /\ CAP \in Nat /\ MaxMsgs \in Nat
  BY NetFacts DEF Net!Calls, Sane, Net!Connections, Room1
<1>2. CASE Net!Call
  <2>1. exercise \in {"f2_02", "f2_03", "c2_01"} /\ conn' = conn
    BY <1>1, <1>2 DEF Net!Call, Net!Placed
  <2>2. CASE pc' = "write"
    <3> DEFINE d == Len(conn[loc].out)
    <3>1. PICK n \in 0..Net!Least(CAP, MaxMsgs - d) : buf' = Net!Run(d + 1, d + n)
      BY <1>2, <2>2 DEF Net!Call
    <3>2. n \in Nat /\ d + n <= MaxMsgs /\ n <= MaxMsgs  BY <1>1, <3>1 DEF Net!Least
    <3>3. buf' = Piece(d, n)  BY Zenon, <1>1, <3>1, <3>2, RunPiece
    <3>4. buf' \in Seq(Nat) /\ Len(buf') = n  BY Zenon, <1>1, <3>2, <3>3, PieceIs
    <3>5. Net!Placed'  BY <1>1, <2>1, <2>2 DEF Net!Placed
    <3>6. Net!Buffered'  BY Zenon, <1>1, <2>1, <2>2, <3>1, <3>2, <3>4 DEF Net!Buffered
    <3>7. ReadSoFar' /\ Net!ShortIsEnd'  BY <2>2 DEF ReadSoFar, Net!ShortIsEnd
    <3>8. QED BY <1>1, <2>1, <3>2, <3>4, <3>5, <3>6, <3>7, NetFilled
  <2>3. CASE pc' \in {"read_full", "read_drain"} /\ buf' = << >>
    <3>1. Len(buf') = 0 /\ buf' \in Seq(Nat) /\ 0 <= MaxMsgs  BY <1>1, <2>3
    <3>2. Net!Placed'  BY <1>1, <2>1, <2>3 DEF Net!Placed
    <3>3. Net!Run(conn[loc].rcvd - 0 + 1, conn[loc].rcvd) = << >>  BY Zenon, <1>1, NothingRead
    <3>4. ReadSoFar'  BY <1>1, <2>1, <2>3, <3>1, <3>3 DEF ReadSoFar
    <3>5. Net!Buffered' /\ Net!ShortIsEnd'
      BY <1>1, <2>1, <2>3, <3>1 DEF Net!Buffered, Net!ShortIsEnd
    <3>6. QED BY <1>1, <2>1, <3>1, <3>2, <3>4, <3>5, NetFilled
  <2>4. QED BY <1>2, <2>2, <2>3 DEF Net!Call
<1>3. CASE Net!WriteAll
  <2>1. pc = "write" /\ exercise \in {"f2_02", "f2_03", "c2_01"}
    BY <1>1, <1>3, NetFacts DEF Net!WriteAll, Net!Placed
  <2>2. Net!Placed'  BY <1>1, <1>3, <2>1 DEF Net!WriteAll, Net!Placed
  <2>3. CASE Net!WriteSome /\ UNCHANGED pc  BY <1>1, <2>1, <2>2, <2>3, NetWriteStep
  <2>4. CASE pc' \in {"user", "failed"} /\ UNCHANGED <<buf, conn>>  BY <1>1, <2>2, <2>4, Still
  <2>5. QED BY <1>3, <2>3, <2>4 DEF Net!WriteAll
<1>4. CASE Net!ReadFull
  <2>1. pc = "read_full" /\ exercise \in {"f2_02", "f2_03", "c2_01"}
    BY <1>1, <1>4, NetFacts DEF Net!ReadFull, Net!Placed
  <2>2. Net!Placed'  BY <1>1, <1>4, <2>1 DEF Net!ReadFull, Net!Placed
  <2>3. CASE Net!ReadSome(CAP - Len(buf)) /\ UNCHANGED pc
    <3>1. CAP - Len(buf) \in Int  BY <1>1
    <3>2. QED BY <1>1, <2>1, <2>2, <2>3, <3>1, NetReadStep
  <2>4. CASE pc' = "full" /\ Len(buf) = CAP /\ UNCHANGED <<buf, conn>>
    BY <1>1, <2>1, <2>2, <2>4, Still
  <2>5. CASE pc' = "short" /\ Net!AtEof /\ UNCHANGED <<buf, conn>>
    BY <1>1, <2>1, <2>2, <2>5, Still
  <2>6. CASE pc' = "failed" /\ UNCHANGED <<buf, conn>>  BY <1>1, <2>2, <2>6, Still
  <2>7. QED BY <1>4, <2>3, <2>4, <2>5, <2>6 DEF Net!ReadFull
<1>5. CASE Net!ReadDrain
  <2>1. pc = "read_drain" /\ exercise \in {"f2_02", "f2_03", "c2_01"}
    BY <1>1, <1>5, NetFacts DEF Net!ReadDrain, Net!Placed
  <2>2. Net!Placed'  BY <1>1, <1>5, <2>1 DEF Net!ReadDrain, Net!Placed
  <2>3. CASE Net!ReadSome(CAP) /\ UNCHANGED pc
    <3>1. CAP \in Int  BY <1>1
    <3>2. QED BY <1>1, <2>1, <2>2, <2>3, <3>1, NetReadStep
  <2>4. CASE pc' \in {"drained", "failed"} /\ UNCHANGED <<buf, conn>>
    BY <1>1, <2>1, <2>2, <2>4, Still
  <2>5. QED BY <1>5, <2>3, <2>4 DEF Net!ReadDrain
<1>6. CASE Net!Return
  <2>1. /\ pc' = "user" /\ buf' = << >> /\ conn' = conn
        /\ exercise \in {"f2_02", "f2_03", "c2_01"}
    BY <1>1, <1>6, NetFacts DEF Net!Return, Net!Placed
  <2>2. Net!Placed' /\ ReadSoFar' /\ Net!Buffered' /\ Net!ShortIsEnd'
    BY <1>1, <2>1 DEF Net!Placed, ReadSoFar, Net!Buffered, Net!ShortIsEnd
  <2>3. Len(buf') <= MaxMsgs /\ buf' \in Seq(Nat)  BY <1>1, <2>1
  <2>4. QED BY <1>1, <2>1, <2>2, <2>3, NetFilled
<1>7. QED BY <1>2, <1>3, <1>4, <1>5, <1>6 DEF Net!Calls

-----------------------------------------------------------------------------
\* Closing the connection once everything came back.
LEMMA Closed ==
  ASSUME Net!IInv, Room1, UNCHANGED <<filled, m1, loc, m2>>,
         NEW f \in {"closed", "gone"}, m3' = [m3 EXCEPT ![loc].phase = f],
         f = "closed" => Net!Unread(loc) = 0 \/ m1 \notin Net!Echoes \cup {"echo"},
         m4' \subseteq Procs \cup {"listen", "stop"}, Net!Placed',
         pc' \notin Net!Writing \cup Net!Reading, pc' \in Net!Resting => m2 = << >>
  PROVE  Net!IInv'
<1> DEFINE exercise == m1  conn == m3
<1>1. /\ loc \in Procs /\ conn[loc] \in Net!Connections /\ Keeps(conn[loc], conn[loc])
      /\ conn[loc].sent \in Nat /\ conn[loc].rcvd \in Nat
  BY NetFacts, KeepsSame DEF Net!Connections
<1>2. f = "closed" => conn[loc].rcvd = conn[loc].sent \/ exercise \notin Net!Echoes \cup {"echo"}
  BY <1>1 DEF Net!Unread
<1>3. Keeps(conn[loc], [conn[loc] EXCEPT !.phase = f])
  BY Zenon, <1>1, <1>2 DEF Keeps, Net!Connections
<1>4. conn' = [conn EXCEPT ![loc] = [conn[loc] EXCEPT !.phase = f]]  OBVIOUS
<1>5. conn' \in [Procs -> Net!Connections] /\ \A d \in Procs : Keeps(conn[d], conn'[d])
  BY Zenon, <1>1, <1>3, <1>4, Changed
<1>6. pc' # "short" /\ pc' # "full"  BY DEF Net!Reading
<1>7. QED BY <1>1, <1>5, <1>6, Moved

LEMMA ServerStep ==
  ASSUME Net!IInv, Room1, UNCHANGED <<filled, m1>>, m1 \in Net!Echoes,
         Net!EpollWait \/ Net!Accept \/ Net!ReadConn \/ Net!Echo
  PROVE  Net!IInv'
<1> DEFINE buf == m2  conn == m3  event == m4
<1> USE DEF Net!Writing, Net!Reading, Net!Resting
<1>1. /\ event \subseteq Procs \cup {"listen", "stop"} /\ loc \in Procs /\ CAP \in Int
      /\ pc \in {"epoll_wait", "accept", "read", "echo", "returned"}
      /\ pc \in Net!Resting => buf = << >>
      /\ conn \in [Procs -> Net!Connections] /\ \A c \in Procs : Keeps(conn[c], conn[c])
  BY NetFacts, KeepsSame DEF Net!Placed, Net!Buffered, Room1
<1>2. pc' \in {"epoll_wait", "accept", "read", "echo", "returned"} => Net!Placed'
  BY DEF Net!Placed, Net!Echoes, Net!Playground
<1> USE <1>1
<1>3. CASE Net!EpollWait
  <2>1. /\ UNCHANGED <<buf, conn>> /\ pc = "epoll_wait"
        /\ pc' \in {"returned", "accept", "read"} /\ loc' \in Procs
        /\ event' \subseteq Procs \cup {"listen", "stop"}
    BY <1>3 DEF Net!EpollWait, Net!Reported
  <2> USE <2>1
  <2>2. buf = << >> /\ pc' \notin Net!Writing \cup Net!Reading /\ pc' # "short" /\ pc' # "full"
    OBVIOUS
  <2>3. Net!Placed'  BY <1>2
  <2>4. QED BY <2>2, <2>3, Moved
<1>4. CASE Net!Accept
  <2> USE <1>4
  <2>1. buf = << >> /\ UNCHANGED <<loc, buf>> /\ pc' \in {"accept", "epoll_wait"}
    BY DEF Net!Accept
  <2>2. /\ pc' \notin Net!Writing \cup Net!Reading /\ pc' # "short" /\ pc' # "full"
        /\ Net!Placed' /\ loc' \in Procs
    BY <1>2, <2>1
  <2>3. event' \subseteq Procs \cup {"listen", "stop"}  BY DEF Net!Accept, Net!Edge, Net!Backlog
  <2>4. conn' \in [Procs -> Net!Connections] /\ \A d \in Procs : Keeps(conn[d], conn'[d])
    <3>1. CASE UNCHANGED conn  BY <3>1
    <3>2. ASSUME NEW c \in Procs, conn' = [conn EXCEPT ![c].phase = "open"]
          PROVE  conn' \in [Procs -> Net!Connections] /\ \A d \in Procs : Keeps(conn[d], conn'[d])
      <4>1. Keeps(conn[c], [conn[c] EXCEPT !.phase = "open"])
        <5>1. conn[c] \in Net!Connections /\ Keeps(conn[c], conn[c])  OBVIOUS
        <5>2. QED BY Zenon, <5>1 DEF Keeps, Net!Connections
      <4>2. conn' = [conn EXCEPT ![c] = [conn[c] EXCEPT !.phase = "open"]]  BY <3>2
      <4>3. QED BY Zenon, <4>1, <4>2, Changed
    <3>3. QED BY <3>1, <3>2 DEF Net!Accept, Net!Backlog
  <2>5. QED BY <2>1, <2>2, <2>3, <2>4, Moved
<1>5. CASE Net!ReadConn
  <2>1. pc = "read" /\ buf = << >> /\ UNCHANGED loc  BY <1>5 DEF Net!ReadConn
  <2> USE <2>1
  <2>2. CASE Net!ReadSome(CAP) /\ pc' = "echo" /\ UNCHANGED event  BY <1>2, <2>2, NetReadStep
  <2>3. CASE /\ Net!AtEof /\ conn' = [conn EXCEPT ![loc].phase = "closed"]
             /\ event' = event \ {loc} /\ pc' = "epoll_wait" /\ UNCHANGED buf
    <3>1. event' \subseteq Procs \cup {"listen", "stop"} /\ pc' \notin Net!Writing \cup Net!Reading
          /\ Net!Placed' /\ Net!Unread(loc) = 0
      BY <1>2, <2>3 DEF Net!AtEof
    <3>2. QED BY <2>3, <3>1, Closed
  <2>4. CASE pc' = "epoll_wait" /\ UNCHANGED <<buf, conn, event>>  BY <1>2, <2>4, Still
  <2>5. QED BY <1>5, <2>2, <2>3, <2>4 DEF Net!ReadConn
<1>6. CASE Net!Echo
  <2> USE <1>6
  <2>1. pc = "echo" /\ Net!WriteSome /\ UNCHANGED <<loc, event>>  BY DEF Net!Echo
  <2>2. pc' = pc \/ (buf' = << >> /\ pc' \in {"read", "epoll_wait"})
    <3>1. CASE buf' # << >>  BY <3>1 DEF Net!Echo
    <3>2. CASE buf' = << >>  BY <3>2 DEF Net!Echo
    <3>3. QED BY <3>1, <3>2
  <2>3. Net!Placed'  BY <1>2, <2>1, <2>2
  <2>4. QED BY <2>1, <2>2, <2>3, NetWriteStep
<1>7. QED BY <1>3, <1>4, <1>5, <1>6

LEMMA FinallyStep ==
  ASSUME Net!IInv, Room1, Net!Finally, UNCHANGED <<filled, m1, loc, m4>>, m1 \in Net!Playground
  PROVE  Net!IInv'
<1> DEFINE exercise == m1  buf == m2  conn == m3  event == m4
<1>1. pc' = "returned" /\ UNCHANGED buf  BY DEF Net!Finally
<1> USE <1>1
<1>2. Net!Placed' /\ pc' \notin Net!Writing \cup Net!Reading \cup Net!Resting
  BY DEF Net!Placed, Net!Writing, Net!Reading, Net!Resting, Net!Playground, Net!Echoes
<1>3. event' \subseteq Procs \cup {"listen", "stop"}  BY NetFacts
<1>4. CASE Net!Close
  <2>1. Net!Unread(loc) = 0 \/ exercise \notin Net!Echoes \cup {"echo"}
    <3>1. CASE pc = "recv" /\ Net!AtEof  BY <3>1 DEF Net!AtEof
    <3>2. CASE pc = "send"  BY <3>2, NetFacts DEF Net!Placed, Net!Echoes
    <3>3. QED BY <1>4, <3>1, <3>2 DEF Net!Close
  <2>2. conn' = [conn EXCEPT ![loc].phase = "closed"]  BY <1>4 DEF Net!Close
  <2>3. QED BY <1>2, <1>3, <2>1, <2>2, Closed
<1>5. CASE Net!OSError
  <2>1. conn' = [conn EXCEPT ![loc].phase = "gone"]  BY <1>5 DEF Net!OSError
  <2>2. QED BY <1>2, <1>3, <2>1, Closed
<1>6. QED BY <1>4, <1>5 DEF Net!Finally

LEMMA EchoOneStep ==
  ASSUME Net!IInv, Room1, Net!EchoOne, UNCHANGED <<filled, m1, loc, m4>>
  PROVE  Net!IInv'
<1> DEFINE exercise == m1  buf == m2  event == m4
<1>1. exercise = "echo" /\ event' \subseteq Procs \cup {"listen", "stop"} /\ CAP \in Int
  BY NetFacts DEF Net!EchoOne, Room1
<1> USE <1>1
<1>2. pc' \in {"recv", "sendall"} => Net!Placed'  BY DEF Net!Placed, Net!Echoes
<1>3. CASE Net!Recv("sendall")
  <2>1. pc = "recv" /\ buf = << >>  BY <1>3, NetFacts DEF Net!Recv, Net!Buffered, Net!Resting
  <2>2. QED BY <1>2, <1>3, <2>1, NetReadStep DEF Net!Recv
<1>4. CASE pc = "sendall" /\ Net!WriteSome /\ pc' = IF buf' = << >> THEN "recv" ELSE "sendall"
  <2>1. pc \in Net!Writing /\ (pc' = pc \/ (buf' = << >> /\ pc' \in Net!Resting)) /\ Net!Placed'
    BY <1>2, <1>4 DEF Net!Writing, Net!Resting
  <2>2. QED BY <1>4, <2>1, NetWriteStep
<1>5. CASE Net!Finally  BY <1>5, FinallyStep DEF Net!Playground
<1>6. QED BY <1>3, <1>4, <1>5 DEF Net!EchoOne

LEMMA SinkOneStep ==
  ASSUME Net!IInv, Room1, Net!SinkOne, UNCHANGED <<filled, m1, loc, m4>>
  PROVE  Net!IInv'
<1> DEFINE exercise == m1  buf == m2  conn == m3
<1>1. CASE Net!Finally  BY <1>1, FinallyStep DEF Net!SinkOne, Net!Playground
<1>2. ASSUME NEW k \in 1..Net!Least(CAP, Net!Unread(loc)), conn' = [conn EXCEPT ![loc].rcvd = @ + k],
             UNCHANGED <<pc, buf>>
      PROVE  Net!IInv'
  <2> DEFINE r == conn[loc]
             s == [r EXCEPT !.rcvd = r.rcvd + k]
  <2>1. /\ exercise = "sink" /\ loc \in Procs /\ r \in Net!Connections /\ Sane(r) /\ CAP \in Int
        /\ r.rcvd \in Nat /\ r.sent \in Nat /\ r.out \in Seq(Nat)
        /\ conn \in [Procs -> Net!Connections]
    BY NetFacts DEF Net!SinkOne, Room1, Net!Connections
  <2> USE <2>1
  <2>2. k \in Nat /\ r.rcvd + k \in 0..r.sent
    <3>1. Net!Unread(loc) \in Int  BY DEF Net!Unread
    <3>2. k \in Nat /\ k <= Net!Unread(loc)  BY <3>1, LeastIs
    <3>3. QED BY <3>2 DEF Net!Unread
  <2>3. s \in Net!Connections /\ Sane(s)
    <3>0. r.rcvd + k \in Nat  BY <2>2
    <3>1. s \in Net!Connections  BY Zenon, <3>0 DEF Net!Connections
    <3>3. s.rcvd = r.rcvd + k /\ s.out = r.out /\ s.sent = r.sent /\ s.taken = r.taken
      BY DEF Net!Connections
    <3>4. /\ r.sent \in 0..MaxMsgs /\ r.taken \in 0..Len(r.out)
          /\ Len(r.out) <= MaxMsgs /\ 1 - (Len(r.out) - r.taken) >= 0
          /\ r.out = Piece(0, Len(r.out))
      BY DEF Sane
    <3> HIDE DEF s
    <3>2. QED BY <2>2, <3>1, <3>3, <3>4 DEF Sane
  <2>4. conn' = [conn EXCEPT ![loc] = s]  BY <1>2
  <2>5. conn' \in [Procs -> Net!Connections] /\ \A c \in Procs : Sane(conn'[c])
    BY Zenon, <2>3, <2>4, NetFacts
  <2>6. Echoed'  BY DEF Echoed, Net!Echoes
  <2>7. pc \in {"recv", "returned"} /\ (pc = "recv" => buf = << >>) /\ Net!Placed'
    BY <1>2, NetFacts DEF Net!Placed, Net!Buffered, Net!Resting
  <2>8. ReadSoFar' /\ Net!ShortIsEnd' /\ Net!Buffered'
    BY <1>2, <2>7 DEF ReadSoFar, Net!ShortIsEnd, Net!Buffered, Net!Writing,
       Net!Reading, Net!Resting
  <2>9. QED BY Zenon, <1>2, <2>5, <2>6, <2>7, <2>8, NetFacts, NetAgain
<1>3. QED BY <1>1, <1>2 DEF Net!SinkOne

LEMMA SourceOneStep ==
  ASSUME Net!IInv, Room1, Net!SourceOne, UNCHANGED <<filled, m1, loc, m4>>
  PROVE  Net!IInv'
<1> DEFINE exercise == m1  buf == m2  conn == m3
<1>1. CASE Net!Finally  BY <1>1, FinallyStep DEF Net!SourceOne, Net!Playground
<1>2. ASSUME pc = "send", UNCHANGED <<pc, buf>>,
             NEW k \in 1..Net!Least(Net!Least(CAP, MaxMsgs - Len(conn[loc].out)), Net!Room(loc)),
             conn' = [conn EXCEPT ![loc].out = Net!Run(1, Len(conn[loc].out) + k)]
      PROVE  Net!IInv'
  <2> DEFINE r == conn[loc]
             d == Len(r.out)
             s == [r EXCEPT !.out = Piece(0, d + k)]
  <2>1. /\ exercise = "source" /\ loc \in Procs /\ r \in Net!Connections /\ Sane(r)
        /\ CAP \in Nat /\ 1 \in Nat /\ MaxMsgs \in Nat /\ r.taken \in Nat /\ d \in Nat
        /\ d <= MaxMsgs /\ r.taken <= d /\ conn \in [Procs -> Net!Connections]
    BY NetFacts DEF Net!SourceOne, Room1, Net!Connections, Sane
  <2> USE <2>1
  <2>2. k \in Nat /\ d + k <= MaxMsgs /\ 1 - ((d + k) - r.taken) >= 0 /\ d + k \in Nat
    <3>1. Net!Room(loc) = 1 - (d - r.taken) /\ Net!Room(loc) \in Int  BY DEF Net!Room
    <3>2. Net!Least(CAP, MaxMsgs - d) \in Int /\ Net!Least(CAP, MaxMsgs - d) <= MaxMsgs - d
      <4>1. \A x, y \in Int : Net!Least(x, y) \in Int /\ Net!Least(x, y) <= y  BY DEF Net!Least
      <4>2. CAP \in Int /\ MaxMsgs - d \in Int  OBVIOUS
      <4>3. QED BY Zenon, <4>1, <4>2
    <3>3. k \in Nat /\ k <= Net!Least(CAP, MaxMsgs - d) /\ k <= Net!Room(loc)
      BY <3>1, <3>2, LeastIs
    <3>4. k \in Nat /\ d + k <= MaxMsgs /\ d + k \in Nat  BY <3>2, <3>3
    <3>5. 1 - ((d + k) - r.taken) >= 0  BY <3>1, <3>3
    <3>6. QED BY <3>4, <3>5
  <2> USE <2>2
  <2>3. Net!Run(1, d + k) = Piece(0, d + k)
    <3>1. 0 \in Nat /\ 0 + 1 = 1 /\ 0 + (d + k) = d + k  OBVIOUS
    <3>2. Net!Run(0 + 1, 0 + (d + k)) = Piece(0, d + k)  BY Zenon, <3>1, RunPiece
    <3>3. QED BY <3>1, <3>2
  <2>4. Piece(0, d + k) \in Seq(Nat) /\ Len(Piece(0, d + k)) = d + k  BY Zenon, PieceIs
  <2>5. conn' = [conn EXCEPT ![loc] = s]  BY Zenon, <1>2, <2>3
  <2> HIDE DEF d
  <2>6. s \in Net!Connections /\ s.out = Piece(0, d + k) /\ s.taken = r.taken
        /\ s.sent = r.sent /\ s.rcvd = r.rcvd
    BY Zenon, <2>4 DEF Net!Connections
  <2> HIDE DEF s
  <2>7. Sane(s)
    <3>1. r.taken \in 0..(d + k)  OBVIOUS
    <3>2. QED BY Zenon, <2>4, <2>6, <3>1 DEF Sane
  <2>8. conn' \in [Procs -> Net!Connections] /\ \A c \in Procs : Sane(conn'[c])
    BY <2>5, <2>6, <2>7, NetFacts
  <2>9. Echoed' /\ Net!Placed'  BY <1>2, NetFacts DEF Echoed, Net!Echoes, Net!Placed
  <2>10. ReadSoFar' /\ Net!ShortIsEnd' /\ Net!Buffered'
    BY <1>2 DEF ReadSoFar, Net!ShortIsEnd, Net!Buffered, Net!Writing, Net!Reading,
       Net!Resting
  <2>11. QED BY <1>2, <2>8, <2>9, <2>10, NetFacts, NetAgain
<1>3. QED BY <1>1, <1>2 DEF Net!SourceOne

LEMMA NetInitInv ==
  ASSUME Procs # {}, Room1, Net!Init
  PROVE  Net!IInv
<1> DEFINE exercise == m1  buf == m2  conn == m3  event == m4
<1>1. loc \in Procs  BY Zenon DEF Net!Init
<1>2. << >> \in Seq(Nat) /\ Len(<< >>) = 0 /\ 0 \in Nat /\ 0 \in 0..MaxMsgs /\ 0 \in 0..0
  BY DEF Room1
<1> USE <1>2
<1>3. conn \in [Procs -> Net!Connections]  BY Zenon DEF Net!Init, Net!Connections
<1>4. ASSUME NEW c \in Procs
      PROVE  /\ conn[c].sent = 0 /\ conn[c].rcvd = 0 /\ conn[c].taken = 0 /\ conn[c].out = << >>
             /\ conn[c].phase # "closed"
  BY DEF Net!Init
<1>5. Net!Run(1, 0) = << >>
  <2>1. Net!Run(0 - 0 + 1, 0) = << >> /\ 0 - 0 + 1 = 1  BY NothingRead
  <2>2. QED BY <2>1
<1> USE <1>4
<1>6. Net!TypeOK
  <2>1. /\ filled \in BOOLEAN /\ event \subseteq Procs \cup {"listen", "stop"}
        /\ exercise \in Net!Echoes \cup Net!Playground \cup {"f2_02", "f2_03", "c2_01"}
        /\ buf = << >>
    BY Zenon DEF Net!Init
  <2>2. \A c \in Procs : Net!Room(c) >= 0 /\ Len(conn[c].out) = 0
    <3>1. 1 \in Nat /\ 1 - (0 - 0) >= 0  BY DEF Room1
    <3>2. \A c \in Procs : Len(conn[c].out) = 0 /\ conn[c].taken = 0  BY Zenon
    <3>3. QED BY Zenon, <3>1, <3>2 DEF Net!Room
  <2>3. Len(buf) <= MaxMsgs /\ 0 <= MaxMsgs  BY <2>1
  <2>4. QED BY <1>1, <2>1, <2>2, <2>3 DEF Net!TypeOK
<1>7. Net!Placed /\ pc \notin Net!Reading /\ pc \notin Net!Writing
  BY Zenon DEF Net!Init, Net!Placed, Net!Echoes, Net!Playground, Net!Reading, Net!Writing
<1>8. buf = << >> /\ Net!Shaped  BY Zenon, <1>3 DEF Net!Init, Net!Shaped
<1> USE <1>7, <1>8
<1>9. Net!Buffered /\ Net!ShortIsEnd  BY DEF Net!Buffered, Net!ShortIsEnd, Net!Reading
<1>10. Net!InOrder
  <2>1. \A c \in Procs : conn[c].out = Net!Run(1, Len(conn[c].out))  BY Zenon, <1>5
  <2>2. \A c \in Procs :
           /\ Len(conn[c].out) + (IF c = loc THEN Len(buf) ELSE 0) = conn[c].rcvd
           /\ conn[c].phase = "closed" => conn[c].rcvd = conn[c].sent
    <3>1. Len(buf) = 0 /\ \A c \in Procs : Len(conn[c].out) = 0  OBVIOUS
    <3>2. SUFFICES ASSUME NEW c \in Procs
                   PROVE  Len(conn[c].out) + (IF c = loc THEN Len(buf) ELSE 0) = conn[c].rcvd
      BY Zenon
    <3>3. (IF c = loc THEN Len(buf) ELSE 0) = 0 /\ conn[c].rcvd = 0 /\ 0 + 0 = 0  BY <3>1
    <3>4. QED BY <3>1, <3>3
  <2>3. QED BY Zenon, <2>1, <2>2 DEF Net!InOrder, Net!Reading
<1>11. QED BY <1>6, <1>9, <1>10 DEF Net!IInv

LEMMA NetNextIInv ==
  ASSUME Room1, Net!IInv, [Net!Next]_Net!vars
  PROVE  Net!IInv'
<1> DEFINE exercise == m1  buf == m2  conn == m3  event == m4
<1>1. CASE UNCHANGED Net!vars
  <2>1. UNCHANGED <<filled, exercise, pc, loc, buf, conn, event>>  BY <1>1 DEF Net!vars
  <2>2. \A c \in Procs : Keeps(conn[c], conn'[c])  BY <2>1, KeepsSame
  <2>3. QED BY <2>1, <2>2, NetFacts, MovedHere
<1>2. CASE Net!Calls  BY <1>2, CallsStep
<1>3. CASE Net!Server
  <2>1. ASSUME Net!EchoServer \/ Net!EchoServerEt, UNCHANGED <<filled, exercise>> PROVE Net!IInv'
    BY <2>1, ServerStep DEF Net!EchoServer, Net!EchoServerEt, Net!Echoes
  <2>2. ASSUME Net!EchoOne \/ Net!SinkOne \/ Net!SourceOne, UNCHANGED <<filled, exercise, loc, event>>
        PROVE  Net!IInv'
    BY <2>2, EchoOneStep, SinkOneStep, SourceOneStep
  <2>3. QED BY <1>3, <2>1, <2>2 DEF Net!Server
<1>4. CASE Net!Peer  BY <1>4, PeerStep
<1>5. CASE \E c \in Procs : Net!Take(c)  BY <1>5, NetTakeStep
<1>6. QED BY <1>1, <1>2, <1>3, <1>4, <1>5 DEF Net!Next

-----------------------------------------------------------------------------
(* Shutdown: the last connections. *)

LEMMA SrvInitInv == ASSUME MaxActive \in Nat, MaxReloads \in Nat, Srv!Init PROVE Srv!IInv
<1>1. 0 \in 0..MaxActive /\ 0 \in 0..MaxReloads  OBVIOUS
<1>2. Srv!TypeOK  BY Zenon, <1>1 DEF Srv!Init, Srv!TypeOK
<1>3. Srv!NoneCutOff  BY DEF Srv!Init, Srv!NoneCutOff, Srv!RUNNING, Srv!DRAINING, Srv!STOPPED
<1>4. QED BY <1>2, <1>3 DEF Srv!IInv

LEMMA SrvNextIInv ==
  ASSUME MaxActive \in Nat, MaxReloads \in Nat, Srv!IInv, [Srv!Next]_Srv!vars PROVE Srv!IInv'
<1> DEFINE exercise == m1
<1> USE DEF Srv!IInv, Srv!TypeOK, Srv!NoneCutOff, Srv!RUNNING, Srv!DRAINING, Srv!STOPPED
<1>1. CASE UNCHANGED Srv!vars  BY <1>1 DEF Srv!vars
<1>2. CASE Srv!On /\ UNCHANGED <<filled, exercise>>  BY <1>2 DEF Srv!On
<1>3. CASE Srv!Admit /\ UNCHANGED <<filled, exercise>>  BY <1>3 DEF Srv!Admit
<1>4. CASE Srv!Finish /\ UNCHANGED <<filled, exercise>>  BY <1>4 DEF Srv!Finish
<1>5. CASE Srv!BeginShutdown /\ UNCHANGED <<filled, exercise>>  BY <1>5 DEF Srv!BeginShutdown
<1>6. CASE Srv!Timeout /\ UNCHANGED <<filled, exercise>>  BY <1>6 DEF Srv!Timeout
<1>7. QED BY <1>1, <1>2, <1>3, <1>4, <1>5, <1>6 DEF Srv!Next

-----------------------------------------------------------------------------
(* SpiFlash: the flash. *)

LEMMA SpiInitInv == ASSUME Spi!Init PROVE Spi!IInv
BY Zenon DEF Spi!Init, Spi!IInv, Spi!TypeOK, Spi!Kept, Spi!Erased, Spi!Bytes

\* Programming takes bits away, wherever it wraps around.
LEMMA AndBytes ==
  ASSUME NEW f \in [Spi!Addr -> Spi!Bytes], NEW addr, NEW buf, NEW len
  PROVE  Spi!And(f, addr, buf, len) \in [Spi!Addr -> Spi!Bytes]
<1>1. \A a \in Spi!Addr : \A b : f[a] \in Spi!Bytes /\ (f[a] \cap b) \in Spi!Bytes
  BY DEF Spi!Bytes
<1>2. QED BY Zenon, <1>1 DEF Spi!And

LEMMA SpiNextIInv == ASSUME Spi!IInv, [Spi!Next]_Spi!vars PROVE Spi!IInv'
<1> DEFINE flash == m1  wel == m2  promised == m3  enabled == m4
<1>0. Spi!TypeOK /\ Spi!Kept /\ flash \in [Spi!Addr -> Spi!Bytes] /\ wel \in BOOLEAN
  BY DEF Spi!IInv, Spi!TypeOK
<1> USE <1>0
<1>1. CASE UNCHANGED Spi!vars  BY <1>1 DEF Spi!vars, Spi!IInv, Spi!TypeOK, Spi!Kept
<1>2. CASE Spi!FlashWriteEnable /\ UNCHANGED filled
  BY <1>2 DEF Spi!FlashWriteEnable, Spi!TransferWriteEn, Spi!IInv, Spi!TypeOK,
     Spi!Kept
<1>3. CASE Spi!FlashProgram /\ UNCHANGED filled
  <2>1. PICK addr \in Spi!Addr, buf \in [Spi!Addr -> Spi!Bytes], len \in 0..FLASH_SIZE :
          /\ flash' = IF wel THEN Spi!And(flash, addr, buf, len) ELSE flash
          /\ wel' = FALSE
          /\ promised' = IF enabled THEN Spi!And(promised, addr, buf, len) ELSE promised
          /\ enabled' = FALSE
    BY <1>3 DEF Spi!FlashProgram, Spi!TransferPageProg
  <2> USE <2>1
  <2>2. flash' \in [Spi!Addr -> Spi!Bytes]  BY AndBytes
  <2>3. flash' = promised'  BY DEF Spi!Kept
  <2>4. QED BY Zenon, <1>3, <2>2, <2>3 DEF Spi!IInv, Spi!TypeOK, Spi!Kept
<1>4. CASE Spi!FlashChipErase /\ UNCHANGED filled
  BY Zenon, <1>4 DEF Spi!FlashChipErase, Spi!TransferChipErase, Spi!IInv,
     Spi!TypeOK, Spi!Kept, Spi!Erased, Spi!Bytes
<1>5. QED BY <1>1, <1>2, <1>3, <1>4 DEF Spi!Next

-----------------------------------------------------------------------------
(* I2cSensor: the sensor's registers. *)

LEMMA I2cInitInv == ASSUME I2c!Init PROVE I2c!IInv
BY Zenon DEF I2c!Init, I2c!IInv, I2c!TypeOK, I2c!OthersKept

\* A register that is written changes only in the bits of the mask.
LEMMA Updated ==
  ASSUME I2c!IInv, NEW reg \in I2c!Registers, NEW mask, NEW value \in SUBSET I2c!BitNos, value \subseteq mask,
         m2' = [m2 EXCEPT ![reg] = (@ \ mask) \cup value]
  PROVE  /\ m2' \in [I2c!Registers -> SUBSET I2c!BitNos] /\ m2'[reg] \ mask = m2[reg] \ mask
         /\ \A r \in I2c!Registers \ {reg} : m2'[r] = m2[r]
BY DEF I2c!IInv, I2c!TypeOK

LEMMA I2cNextIInv == ASSUME I2c!IInv, [I2c!Next]_I2c!vars PROVE I2c!IInv'
<1> DEFINE initialized == m1  regs == m2
<1>0. I2c!TypeOK /\ I2c!OthersKept /\ regs \in [I2c!Registers -> SUBSET I2c!BitNos]
      /\ I2c!Registers = {"CONFIG", "SCALE", "STATUS"} /\ \A n \in 0..7 : n \in I2c!BitNos
  BY DEF I2c!IInv, I2c!TypeOK, I2c!Registers, I2c!BitNos
<1> USE <1>0
<1>1. CASE UNCHANGED I2c!vars  BY <1>1 DEF I2c!vars, I2c!IInv, I2c!TypeOK, I2c!OthersKept
<1>2. CASE I2c!SimDeviceInit /\ UNCHANGED filled
  <2>1. I2c!Reset \in [I2c!Registers -> SUBSET I2c!BitNos]  BY DEF I2c!Reset, I2c!BitNos
  <2>2. QED BY <1>2, <2>1 DEF I2c!SimDeviceInit, I2c!IInv, I2c!TypeOK, I2c!OthersKept
<1>3. CASE I2c!SimSetDataReady /\ UNCHANGED filled
  <2>1. /\ initialized /\ initialized' /\ "STATUS" \in I2c!Registers
        /\ regs' = [regs EXCEPT !["STATUS"] = @ \cup {0}]
    BY <1>3 DEF I2c!SimSetDataReady
  <2>2. /\ regs' \in [I2c!Registers -> SUBSET I2c!BitNos]
        /\ regs'["STATUS"] \ {0} = regs["STATUS"] \ {0}
        /\ regs'["CONFIG"] = regs["CONFIG"] /\ regs'["SCALE"] = regs["SCALE"]
    BY <2>1
  <2>3. QED BY <1>3, <2>1, <2>2 DEF I2c!SimSetDataReady, I2c!IInv, I2c!TypeOK, I2c!OthersKept
<1>4. ASSUME (I2c!DeviceEnable \/ I2c!DeviceDisable) /\ UNCHANGED filled PROVE I2c!IInv'
  <2>1. PICK value \in {{}, {0}} : I2c!Update("CONFIG", {0}, value)
    BY <1>4 DEF I2c!DeviceEnable, I2c!DeviceDisable
  <2>2. initialized /\ initialized' /\ regs' = [regs EXCEPT !["CONFIG"] = (@ \ {0}) \cup value]
    BY <2>1 DEF I2c!Update
  <2>3. value \in SUBSET I2c!BitNos /\ value \subseteq {0} /\ "CONFIG" \in I2c!Registers  OBVIOUS
  <2>4. /\ regs' \in [I2c!Registers -> SUBSET I2c!BitNos]
        /\ regs'["CONFIG"] \ {0} = regs["CONFIG"] \ {0}
        /\ regs'["STATUS"] = regs["STATUS"] /\ regs'["SCALE"] = regs["SCALE"]
    BY Zenon, <2>2, <2>3, Updated
  <2>5. QED BY <1>4, <2>1, <2>2, <2>4 DEF I2c!Update, I2c!IInv, I2c!TypeOK, I2c!OthersKept
<1>5. ASSUME I2c!DeviceSetScale /\ UNCHANGED filled PROVE I2c!IInv'
  <2>1. PICK scale \in SUBSET {4, 5} : I2c!Update("SCALE", {4, 5}, scale)
    BY <1>5 DEF I2c!DeviceSetScale
  <2>2. initialized /\ initialized' /\ regs' = [regs EXCEPT !["SCALE"] = (@ \ {4, 5}) \cup scale]
    BY <2>1 DEF I2c!Update
  <2>3. scale \in SUBSET I2c!BitNos /\ scale \subseteq {4, 5} /\ "SCALE" \in I2c!Registers
    OBVIOUS
  <2>4. /\ regs' \in [I2c!Registers -> SUBSET I2c!BitNos]
        /\ regs'["SCALE"] \ {4, 5} = regs["SCALE"] \ {4, 5}
        /\ regs'["STATUS"] = regs["STATUS"] /\ regs'["CONFIG"] = regs["CONFIG"]
    BY Zenon, <2>2, <2>3, Updated
  <2>5. QED BY <1>5, <2>1, <2>2, <2>4 DEF I2c!Update, I2c!IInv, I2c!TypeOK, I2c!OthersKept
<1>6. QED BY <1>1, <1>2, <1>3, <1>4, <1>5 DEF I2c!Next

-----------------------------------------------------------------------------
(* The bench: the program on it keeps its invariant, and the others are not there. *)

IInv ==
    /\ part = "SpinStack" => Spin!IInv
    /\ part = "MaxTrack" => Track!IInv
    /\ part = "BlockQueue" => Block!IInv
    /\ part = "RcuConfig" => Rcu!IInv
    /\ part = "PerCpu" => Cpu!IInv
    /\ part = "Seqlock" => Sql!IInv
    /\ part = "SeqPair" => Pair!IInv
    /\ part = "Latency" => Lat!IInv
    /\ part = "WorkQueue" => Wq!IInv
    /\ part = "DelayedWork" => Dw!IInv
    /\ part = "TimerSource" => Timer!IInv
    /\ part = "Wakeup" => Waitq!IInv
    /\ part = "BufferDevice" => Buf!IInv
    /\ part = "ListDevice" => List!IInv
    /\ part = "PacketHook" => Nf!IInv
    /\ part = "ModuleLoad" => Load!IInv
    /\ part = "SpscRing" => Ring!IInv
    /\ part = "SemQueue" => Sem!IInv
    /\ part = "CondQueue" => Cond!IInv
    /\ part = "TreiberStack" => Lfs!IInv
    /\ part = "McsLock" => Mcs!IInv
    /\ part = "LockWord" => Word!IInv
    /\ part = "TimeoutManager" => Heap!IInv
    /\ part = "Pacing" => Pace!IInv
    /\ part = "ByteStream" => Net!IInv
    /\ part = "Shutdown" => Srv!IInv
    /\ part = "SpiFlash" => Spi!IInv
    /\ part = "I2cSensor" => I2c!IInv

LEMMA InitIInv == ASSUME Init PROVE IInv
<1> USE Constants DEF Init
<1>1. ASSUME part = "SpinStack" PROVE Spin!IInv  BY <1>1, SpinInitInv
<1>2. ASSUME part = "MaxTrack" PROVE Track!IInv  BY <1>2, TrackInitInv
<1>3. ASSUME part = "BlockQueue" PROVE Block!IInv  BY <1>3, BlockInitInv DEF Block!Messages
<1>4. ASSUME part = "RcuConfig" PROVE Rcu!IInv  BY <1>4, RcuInitInv
<1>5. ASSUME part = "PerCpu" PROVE Cpu!IInv  BY <1>5, CpuInitInv DEF CpuSizes
<1>6. ASSUME part = "Seqlock" PROVE Sql!IInv  BY <1>6, SqlInitInv
<1>7. ASSUME part = "SeqPair" PROVE Pair!IInv  BY <1>7, PairInitInv
<1>8. ASSUME part = "Latency" PROVE Lat!IInv  BY <1>8, LatInitInv
<1>9. ASSUME part = "WorkQueue" PROVE Wq!IInv  BY <1>9, WqInitInv
<1>10. ASSUME part = "DelayedWork" PROVE Dw!IInv  BY <1>10, DwInitInv
<1>11. ASSUME part = "TimerSource" PROVE Timer!IInv  BY <1>11, TimerInitInv
<1>12. ASSUME part = "Wakeup" PROVE Waitq!IInv  BY <1>12, WaitqInitInv
<1>13. ASSUME part = "BufferDevice" PROVE Buf!IInv  BY <1>13, BufInitInv DEF BufSizes
<1>14. ASSUME part = "ListDevice" PROVE List!IInv  BY <1>14, ListInitInv
<1>15. ASSUME part = "PacketHook" PROVE Nf!IInv  BY <1>15, NfInitInv
<1>16. ASSUME part = "ModuleLoad" PROVE Load!IInv  BY <1>16, LoadInitInv DEF Roles
<1>17. ASSUME part = "SpscRing" PROVE Ring!IInv  BY <1>17, RingInitInv DEF RingSizes
<1>18. ASSUME part = "SemQueue" PROVE Sem!IInv  BY <1>18, SemInitInv
<1>19. ASSUME part = "CondQueue" PROVE Cond!IInv  BY <1>19, CondInitInv
<1>20. ASSUME part = "TreiberStack" PROVE Lfs!IInv  BY <1>20, LfsInitInv
<1>21. ASSUME part = "McsLock" PROVE Mcs!IInv  BY <1>21, McsInitInv
<1>22. ASSUME part = "LockWord" PROVE Word!IInv  BY <1>22, WordInitInv
<1>23. ASSUME part = "TimeoutManager" PROVE Heap!IInv  BY <1>23, HeapInitInv
<1>24. ASSUME part = "Pacing" PROVE Pace!IInv  BY <1>24, PaceInitInv DEF Rates
<1>25. ASSUME part = "ByteStream" PROVE Net!IInv  BY <1>25, NetInitInv DEF Room1
<1>26. ASSUME part = "Shutdown" PROVE Srv!IInv  BY <1>26, SrvInitInv
<1>27. ASSUME part = "SpiFlash" PROVE Spi!IInv  BY <1>27, SpiInitInv
<1>28. ASSUME part = "I2cSensor" PROVE I2c!IInv  BY <1>28, I2cInitInv
<1>29. QED BY <1>1, <1>2, <1>3, <1>4, <1>5, <1>6, <1>7, <1>8, <1>9, <1>10, <1>11, <1>12, <1>13,
   <1>14, <1>15, <1>16, <1>17, <1>18, <1>19, <1>20, <1>21, <1>22, <1>23, <1>24, <1>25, <1>26,
   <1>27, <1>28 DEF IInv

\* A step of the bench is a step of the program on it.
LEMMA NextIInv == ASSUME IInv, [Next]_vars PROVE IInv'
<1> USE Constants
<1>0. part' = part  BY DEF Next, vars
<1>1. ASSUME part = "SpinStack" PROVE Spin!IInv'
  <2>1. Spin!IInv /\ [Spin!Next]_Spin!vars  BY <1>1 DEF IInv, Next, vars, Spin!vars
  <2>2. QED BY <2>1, SpinNextIInv
<1>2. ASSUME part = "MaxTrack" PROVE Track!IInv'
  <2>1. Track!IInv /\ [Track!Next]_Track!vars  BY <1>2 DEF IInv, Next, vars, Track!vars
  <2>2. QED BY <2>1, TrackNextIInv
<1>3. ASSUME part = "BlockQueue" PROVE Block!IInv'
  <2>1. Block!IInv /\ [Block!Next]_Block!vars  BY <1>3 DEF IInv, Next, vars, Block!vars, Block!ring
  <2>2. QED BY <2>1, BlockNextIInv DEF Block!Messages
<1>4. ASSUME part = "RcuConfig" PROVE Rcu!IInv'
  <2>1. Rcu!IInv /\ [Rcu!Next]_Rcu!vars  BY <1>4 DEF IInv, Next, vars, Rcu!vars
  <2>2. QED BY <2>1, RcuNextIInv
<1>5. ASSUME part = "PerCpu" PROVE Cpu!IInv'
  <2>1. Cpu!IInv /\ [Cpu!Next]_Cpu!vars  BY <1>5 DEF IInv, Next, vars, Cpu!vars
  <2>2. QED BY <2>1, CpuNextIInv DEF CpuSizes
<1>6. ASSUME part = "Seqlock" PROVE Sql!IInv'
  <2>1. Sql!IInv /\ [Sql!Next]_Sql!vars  BY <1>6 DEF IInv, Next, vars, Sql!vars
  <2>2. QED BY <2>1, SqlNextIInv
<1>7. ASSUME part = "SeqPair" PROVE Pair!IInv'
  <2>1. Pair!IInv /\ [Pair!Next]_Pair!vars  BY <1>7 DEF IInv, Next, vars, Pair!vars, Pair!L!vars
  <2>2. QED BY <2>1, PairNextIInv
<1>8. ASSUME part = "Latency" PROVE Lat!IInv'
  <2>1. Lat!IInv /\ [Lat!Next]_Lat!vars  BY <1>8 DEF IInv, Next, vars, Lat!vars
  <2>2. QED BY <2>1, LatNextIInv
<1>9. ASSUME part = "WorkQueue" PROVE Wq!IInv'
  <2>1. Wq!IInv /\ [Wq!Next]_Wq!vars  BY <1>9 DEF IInv, Next, vars, Wq!vars, Wq!buffers
  <2>2. QED BY <2>1, WqNextIInv
<1>10. ASSUME part = "DelayedWork" PROVE Dw!IInv'
  <2>1. Dw!IInv /\ [Dw!Next]_Dw!vars  BY <1>10 DEF IInv, Next, vars, Dw!vars, Dw!buffers
  <2>2. QED BY <2>1, DwNextIInv
<1>11. ASSUME part = "TimerSource" PROVE Timer!IInv'
  <2>1. Timer!IInv /\ [Timer!Next]_Timer!vars  BY <1>11 DEF IInv, Next, vars, Timer!vars
  <2>2. QED BY <2>1, TimerNextIInv
<1>12. ASSUME part = "Wakeup" PROVE Waitq!IInv'
  <2>1. Waitq!IInv /\ [Waitq!Next]_Waitq!vars  BY <1>12 DEF IInv, Next, vars, Waitq!vars
  <2>2. QED BY <2>1, WaitqNextIInv
<1>13. ASSUME part = "BufferDevice" PROVE Buf!IInv'
  <2>1. Buf!IInv /\ [Buf!Next]_Buf!vars  BY <1>13 DEF IInv, Next, vars, Buf!vars, Buf!device, Buf!reader
  <2>2. QED BY <2>1, BufNextIInv DEF BufSizes
<1>14. ASSUME part = "ListDevice" PROVE List!IInv'
  <2>1. List!IInv /\ [List!Next]_List!vars  BY <1>14 DEF IInv, Next, vars, List!vars
  <2>2. QED BY <2>1, ListNextIInv
<1>15. ASSUME part = "PacketHook" PROVE Nf!IInv'
  <2>1. Nf!IInv /\ [Nf!Next]_Nf!vars  BY <1>15 DEF IInv, Next, vars, Nf!vars
  <2>2. QED BY <2>1, NfNextIInv
<1>16. ASSUME part = "ModuleLoad" PROVE Load!IInv'
  <2>1. Load!IInv /\ [Load!Next]_Load!vars  BY <1>16 DEF IInv, Next, vars, Load!vars
  <2>2. QED BY <2>1, LoadNextIInv DEF Roles
<1>17. ASSUME part = "SpscRing" PROVE Ring!IInv'
  <2>1. Ring!IInv /\ [Ring!Next]_Ring!vars  BY <1>17 DEF IInv, Next, vars, Ring!vars
  <2>2. QED BY <2>1, RingNextIInv DEF RingSizes
<1>18. ASSUME part = "SemQueue" PROVE Sem!IInv'
  <2>1. Sem!IInv /\ [Sem!Next]_Sem!vars  BY <1>18 DEF IInv, Next, vars, Sem!vars, Sem!ring
  <2>2. QED BY <2>1, SemNextIInv
<1>19. ASSUME part = "CondQueue" PROVE Cond!IInv'
  <2>1. Cond!IInv /\ [Cond!Next]_Cond!vars  BY <1>19 DEF IInv, Next, vars, Cond!vars, Cond!ring
  <2>2. QED BY <2>1, CondNextIInv
<1>20. ASSUME part = "TreiberStack" PROVE Lfs!IInv'
  <2>1. Lfs!IInv /\ [Lfs!Next]_Lfs!vars  BY <1>20 DEF IInv, Next, vars, Lfs!vars, Lfs!fields
  <2>2. QED BY <2>1, LfsNextIInv
<1>21. ASSUME part = "McsLock" PROVE Mcs!IInv'
  <2>1. Mcs!IInv /\ [Mcs!Next]_Mcs!vars  BY <1>21 DEF IInv, Next, vars, Mcs!vars
  <2>2. QED BY <2>1, McsNextIInv
<1>22. ASSUME part = "LockWord" PROVE Word!IInv'
  <2>1. Word!IInv /\ [Word!Next]_Word!vars  BY <1>22 DEF IInv, Next, vars, Word!vars
  <2>2. QED BY <2>1, WordNextIInv
<1>23. ASSUME part = "TimeoutManager" PROVE Heap!IInv'
  <2>1. Heap!IInv /\ [Heap!Next]_Heap!vars  BY <1>23 DEF IInv, Next, vars, Heap!vars
  <2>2. QED BY <2>1, HeapNextIInv
<1>24. ASSUME part = "Pacing" PROVE Pace!IInv'
  <2>1. Pace!IInv /\ [Pace!Next]_Pace!vars  BY <1>24 DEF IInv, Next, vars, Pace!vars
  <2>2. QED BY <2>1, PaceNextIInv DEF Rates
<1>25. ASSUME part = "ByteStream" PROVE Net!IInv'
  <2>1. Net!IInv /\ [Net!Next]_Net!vars  BY <1>25 DEF IInv, Next, vars, Net!vars
  <2>2. QED BY <2>1, NetNextIInv DEF Room1
<1>26. ASSUME part = "Shutdown" PROVE Srv!IInv'
  <2>1. Srv!IInv /\ [Srv!Next]_Srv!vars  BY <1>26 DEF IInv, Next, vars, Srv!vars
  <2>2. QED BY <2>1, SrvNextIInv
<1>27. ASSUME part = "SpiFlash" PROVE Spi!IInv'
  <2>1. Spi!IInv /\ [Spi!Next]_Spi!vars  BY <1>27 DEF IInv, Next, vars, Spi!vars
  <2>2. QED BY <2>1, SpiNextIInv
<1>28. ASSUME part = "I2cSensor" PROVE I2c!IInv'
  <2>1. I2c!IInv /\ [I2c!Next]_I2c!vars  BY <1>28 DEF IInv, Next, vars, I2c!vars
  <2>2. QED BY <2>1, I2cNextIInv
<1>29. QED BY <1>0, <1>1, <1>2, <1>3, <1>4, <1>5, <1>6, <1>7, <1>8, <1>9, <1>10, <1>11, <1>12,
   <1>13, <1>14, <1>15, <1>16, <1>17, <1>18, <1>19, <1>20, <1>21, <1>22, <1>23, <1>24, <1>25,
   <1>26, <1>27, <1>28 DEF IInv

\* Whatever a program of the exercises does, its invariant holds.
THEOREM InvariantKept == Spec => []IInv
BY InitIInv, NextIInv, PTL DEF Spec

\* The types of the state of every exercise program, whatever callers, callbacks,
\* interrupts and clients do.
THEOREM TypeCorrect == Spec => []TypeOK
<1>1. IInv => TypeOK
  <2>1. part = "SeqPair" /\ IInv => Pair!L!TypeOK /\ lock \in Procs \cup {Nil}
    BY DEF IInv, Pair!IInv, Pair!L!IInv
  <2>2. QED BY <2>1 DEF IInv, TypeOK, Spin!IInv, Track!IInv, Block!IInv, Rcu!IInv, Cpu!IInv,
     Sql!IInv, Lat!IInv, Wq!IInv, Dw!IInv, Timer!IInv, Waitq!IInv, Buf!IInv, List!IInv, Nf!IInv,
     Load!IInv, Ring!IInv, Sem!IInv, Cond!IInv, Lfs!IInv, Mcs!IInv, Word!IInv, Heap!IInv,
     Pace!IInv, Net!IInv, Srv!IInv, Spi!IInv, I2c!IInv
<1>2. QED BY <1>1, InvariantKept, PTL

\* Memory and registrations of the exercises: nothing is used after it was freed or
\* removed, freed twice or handed to two owners, and nothing is left behind.
THEOREM MemorySafeCorrect == Spec => []MemorySafe
<1>1. IInv => MemorySafe
  <2>1. part = "SpinStack" /\ Spin!IInv => Spin!MemorySafe  BY SpinSafe, Constants
  <2>2. part = "RcuConfig" /\ Rcu!IInv => Rcu!MemorySafe  BY RcuSafe, Constants
  <2>3. part = "BufferDevice" /\ Buf!IInv => Buf!MemorySafe  BY DEF Buf!IInv
  <2>4. part = "ListDevice" /\ List!IInv => List!MemorySafe  BY ListSafe, Constants
  <2>5. part = "PacketHook" /\ Nf!IInv => Nf!MemorySafe  BY DEF Nf!IInv
  <2>6. part = "TreiberStack" /\ Lfs!IInv => Lfs!MemorySafe  BY DEF Lfs!IInv
  <2>7. part = "ModuleLoad" /\ Load!IInv => Load!NoUseAfterRelease /\ Load!NothingLeft
    BY LoadSafe, Constants DEF Roles
  <2>8. QED BY <2>1, <2>2, <2>3, <2>4, <2>5, <2>6, <2>7 DEF IInv, MemorySafe
<1>2. QED BY <1>1, InvariantKept, PTL

\* What the exercises tell a caller was true: one state and not a mixture, nothing
\* older than what had returned before, and a device holds what it was told to.
THEOREM ReadsTrueCorrect == Spec => []ReadsTrue
<1>1. IInv => ReadsTrue
  <2>1. part = "SpinStack" /\ Spin!IInv => Spin!ReadsSnapshot  BY SpinSafe, Constants
  <2>2. part = "RcuConfig" /\ Rcu!IInv => Rcu!Untorn  BY RcuSafe, Constants
  <2>3. part = "Seqlock" /\ Sql!IInv => Sql!Untorn  BY DEF Sql!IInv
  <2>4. part = "SeqPair" /\ Pair!IInv => Pair!Untorn  BY DEF Pair!IInv, Pair!L!IInv, Pair!Untorn
  <2>5. part = "MaxTrack" /\ Track!IInv => Track!MaxKept /\ Track!PrintedMax  BY DEF Track!IInv
  <2>6. part = "PerCpu" /\ Cpu!IInv => Cpu!ReadInWindow  BY DEF Cpu!IInv
  <2>7. part = "Latency" /\ Lat!IInv => Lat!MaxReal  BY DEF Lat!IInv
  <2>8. part = "WorkQueue" /\ Wq!IInv => Wq!FlushedRead  BY DEF Wq!IInv
  <2>9. part = "DelayedWork" /\ Dw!IInv => Dw!FlushedRead  BY DEF Dw!IInv
  <2>10. part = "TimerSource" /\ Timer!IInv => Timer!NeverAhead  BY DEF Timer!IInv
  <2>11. part = "BufferDevice" /\ Buf!IInv => Buf!OneText  BY DEF Buf!IInv
  <2>12. part = "PacketHook" /\ Nf!IInv => Nf!Verdicts  BY DEF Nf!IInv
  <2>13. part = "SpiFlash" /\ Spi!IInv => Spi!Kept  BY DEF Spi!IInv
  <2>14. part = "I2cSensor" /\ I2c!IInv => I2c!OthersKept  BY DEF I2c!IInv
  <2>15. part = "ByteStream" /\ Net!IInv => Net!ShortIsEnd  BY DEF Net!IInv
  <2>16. QED BY <2>1, <2>2, <2>3, <2>4, <2>5, <2>6, <2>7, <2>8, <2>9, <2>10, <2>11, <2>12, <2>13,
     <2>14, <2>15 DEF IInv, ReadsTrue
<1>2. QED BY <1>1, InvariantKept, PTL

\* Locks of the exercises: one holder at a time, in the order of the queue of
\* a queue lock, and no sleeper forgotten on a free one.
THEOREM ExclusiveCorrect == Spec => []Exclusive
<1>1. IInv => Exclusive
  <2>1. part = "Seqlock" /\ Sql!IInv => Sql!OddWhileWriting  BY DEF Sql!IInv
  <2>2. part = "SeqPair" /\ Pair!IInv => Pair!OneWriter  BY DEF Pair!IInv
  <2>3. part = "McsLock" /\ Mcs!IInv => Mcs!InOrder  BY McsPlaces DEF Mcs!InOrder, Mcs!Holds
  <2>4. part = "LockWord" /\ Word!IInv => Word!Exclusive /\ Word!NoneForgotten  BY DEF Word!IInv
  <2>5. QED BY <2>1, <2>2, <2>3, <2>4 DEF IInv, Exclusive
<1>2. QED BY <1>1, InvariantKept, PTL

\* Queues, timers, connections and rates of the exercises: what was accepted is
\* delivered, once and in order, to somebody who is awake.
THEOREM NothingLostCorrect == Spec => []NothingLost
<1>1. IInv => NothingLost
  <2>1. part = "BlockQueue" /\ Block!IInv => Block!Fifo  BY DEF Block!IInv
  <2>2. part = "ListDevice" /\ List!IInv => List!InOrder  BY Constants, ListSafe
  <2>3. part = "Wakeup" /\ Waitq!IInv => Waitq!Delivered  BY WaitqSafe
  <2>4. part = "SpscRing" /\ Ring!IInv => Ring!InOrder  BY Constants, RingSafe DEF RingSizes
  <2>5. part = "SemQueue" /\ Sem!IInv => Sem!InOrder  BY Constants, SemSafe
  <2>6. part = "CondQueue" /\ Cond!IInv => Cond!InOrder /\ Cond!SleepersServed  BY DEF Cond!IInv
  <2>7. part = "TimeoutManager" /\ Heap!IInv => Heap!LiveKept  BY DEF Heap!IInv
  <2>8. part = "Shutdown" /\ Srv!IInv => Srv!NoneCutOff  BY DEF Srv!IInv
  <2>9. part = "ByteStream" /\ Net!IInv => Net!InOrder  BY DEF Net!IInv
  <2>10. part = "Pacing" /\ Pace!IInv => Pace!RateHeld /\ Pace!NeverLate
    BY Constants, PaceSafe DEF Rates
  <2>11. QED BY <2>1, <2>2, <2>3, <2>4, <2>5, <2>6, <2>7, <2>8, <2>9, <2>10 DEF IInv, NothingLost
<1>2. QED BY <1>1, InvariantKept, PTL

=============================================================================
