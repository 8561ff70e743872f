------------------------ MODULE MentorHistoryProofs ------------------------
(***************************************************************************)
(* Proofs about MentorHistory, for every set of modules and panels, every  *)
(* limit and every number of questions.  A list of messages is InOrder if  *)
(* its answers stand behind their questions, and IsOf module m if the      *)
(* questions of all its messages were asked in m.  The storage has both    *)
(* properties because every copy in a panel has them, and because the      *)
(* question a panel waits for is the last message of its copy, or the copy *)
(* was cleared since.  Taking the last messages of a list keeps both.      *)
(* For a learner who waits (calm) two more invariants follow: nothing      *)
(* older than the last clearing is kept anywhere, and the storage is the   *)
(* end of the one copy in use, which makes it a ChatLog.                   *)
(***************************************************************************)
EXTENDS MentorHistory, SequenceTheorems, TLAPS

InOrder(s) == \A i \in 2 .. Len(s) :
                s[i].role = "assistant" => s[i - 1] = [role |-> "user", q |-> s[i].q]

IsOf(s, m, in) == \A i \in 1 .. Len(s) : s[i].q <= Len(in) /\ in[s[i].q] = m

\* What the storage holds, under the list `in' of the modules asked in.
StoredOK(in) == \A m \in Modules : InOrder(stored[m]) /\ IsOf(stored[m], m, in)

CopiesOK == \A p \in Panels : InOrder(msgs[p]) /\ IsOf(msgs[p], mod[p], askedIn)

WaitsOK == \A p \in Panels : waits[p] # 0 =>
             /\ waits[p] <= asked /\ askedIn[waits[p]] = mod[p]
             /\ Len(msgs[p]) > 0 =>
                  msgs[p][Len(msgs[p])] = [role |-> "user", q |-> waits[p]]

FreeIdle == \A p \in Panels : where[p] = "free" => waits[p] = 0

IInv == TypeOK /\ KeepBound /\ StoredOK(askedIn) /\ CopiesOK /\ WaitsOK /\ FreeIdle

USE KeepAssumption, MaxAskedAssumption

-----------------------------------------------------------------------------
\* What slice(-n) returns: at most n messages, ...
LEMMA SuffixType ==
  ASSUME NEW s \in Seq(Message), NEW n \in Nat \ {0}
  PROVE  Suffix(s, n) \in Seq(Message) /\ Len(Suffix(s, n)) <= n
<1>1. CASE Len(s) <= n
  BY <1>1 DEF Suffix
<1>2. CASE ~(Len(s) <= n)
  <2>1. Suffix(s, n) = SubSeq(s, Len(s) - n + 1, Len(s))
    BY <1>2 DEF Suffix
  <2>2. QED
    BY <1>2, <2>1
<1>3. QED
  BY <1>1, <1>2

\* ... the last ones, in their order.
LEMMA SuffixShift ==
  ASSUME NEW s \in Seq(Message), NEW n \in Nat \ {0}
  PROVE  \E d \in Nat : /\ Len(Suffix(s, n)) + d = Len(s)
                        /\ \A i \in 1 .. Len(Suffix(s, n)) : Suffix(s, n)[i] = s[i + d]
<1>1. CASE Len(s) <= n
  <2>1. Suffix(s, n) = s
    BY <1>1 DEF Suffix
  <2>2. Len(s) + 0 = Len(s) /\ \A i \in 1 .. Len(s) : s[i] = s[i + 0]
    OBVIOUS
  <2>3. QED
    BY <2>1, <2>2
<1>2. CASE ~(Len(s) <= n)
  <2> DEFINE d == Len(s) - n
  <2>1. Suffix(s, n) = SubSeq(s, d + 1, Len(s))
    BY <1>2 DEF Suffix
  <2>2. d \in Nat /\ d + 1 <= Len(s)
    BY <1>2
  <2>3. /\ Len(SubSeq(s, d + 1, Len(s))) + d = Len(s)
        /\ \A i \in 1 .. Len(SubSeq(s, d + 1, Len(s))) :
              SubSeq(s, d + 1, Len(s))[i] = s[i + d]
    BY <2>2
  <2> HIDE DEF d
  <2>4. QED
    BY <2>1, <2>2, <2>3
<1>3. QED
  BY <1>1, <1>2

\* The last messages of an orderly list are an orderly list of the same module.
LEMMA SuffixKeeps ==
  ASSUME NEW s \in Seq(Message), NEW n \in Nat \ {0}, NEW m, NEW in,
         InOrder(s), IsOf(s, m, in)
  PROVE  InOrder(Suffix(s, n)) /\ IsOf(Suffix(s, n), m, in)
<1> DEFINE t == Suffix(s, n)
<1>1. t \in Seq(Message)
  BY SuffixType
<1>2. PICK d \in Nat : Len(t) + d = Len(s) /\ \A i \in 1 .. Len(t) : t[i] = s[i + d]
  BY SuffixShift
<1> HIDE DEF t
<1>3. InOrder(t)
  <2>1. SUFFICES ASSUME NEW i \in 2 .. Len(t), t[i].role = "assistant"
                 PROVE  t[i - 1] = [role |-> "user", q |-> t[i].q]
    BY DEF InOrder
  <2>2. t[i] = s[i + d] /\ t[i - 1] = s[(i + d) - 1]
    BY <1>1, <1>2
  <2>3. i + d \in 2 .. Len(s)
    BY <1>1, <1>2
  <2>4. QED
    BY <2>1, <2>2, <2>3 DEF InOrder
<1>4. IsOf(t, m, in)
  <2>1. SUFFICES ASSUME NEW i \in 1 .. Len(t)
                 PROVE  t[i].q <= Len(in) /\ in[t[i].q] = m
    BY DEF IsOf
  <2>2. t[i] = s[i + d] /\ i + d \in 1 .. Len(s)
    BY <1>1, <1>2
  <2>3. QED
    BY <2>2 DEF IsOf
<1>5. QED
  BY <1>3, <1>4 DEF t

\* Another question does not change the modules of the messages before it.
LEMMA LongerIn ==
  ASSUME NEW s \in Seq(Message), NEW m, NEW x \in Modules,
         NEW in \in Seq(Modules), IsOf(s, m, in)
  PROVE  IsOf(s, m, Append(in, x))
<1>1. SUFFICES ASSUME NEW i \in 1 .. Len(s)
               PROVE  s[i].q <= Len(Append(in, x)) /\ Append(in, x)[s[i].q] = m
  BY DEF IsOf
<1>2. s[i].q <= Len(in) /\ in[s[i].q] = m
  BY DEF IsOf
<1>3. s[i].q \in 1 .. MaxAsked
  <2>1. s[i] \in Message
    OBVIOUS
  <2>2. QED
    BY <2>1 DEF Message
<1>4. QED
  BY <1>2, <1>3

\* A question is added at the end.
LEMMA QuestionAdded ==
  ASSUME NEW s \in Seq(Message), NEW m \in Modules, NEW in \in Seq(Modules),
         InOrder(s), IsOf(s, m, in),
         NEW u \in Message, u.role = "user", u.q = Len(in) + 1
  PROVE  /\ InOrder(Append(s, u)) /\ IsOf(Append(s, u), m, Append(in, m))
<1> DEFINE t == Append(s, u)
<1>1. /\ t \in Seq(Message) /\ Len(t) = Len(s) + 1 /\ t[Len(t)] = u
      /\ \A i \in 1 .. Len(s) : t[i] = s[i]
  OBVIOUS
<1> HIDE DEF t
<1>2. InOrder(t)
  <2>1. SUFFICES ASSUME NEW i \in 2 .. Len(t), t[i].role = "assistant"
                 PROVE  t[i - 1] = [role |-> "user", q |-> t[i].q]
    BY DEF InOrder
  <2>2. i \in 2 .. Len(s)
    BY <1>1, <2>1
  <2>3. QED
    BY <1>1, <2>1, <2>2 DEF InOrder
<1>3. IsOf(t, m, Append(in, m))
  <2>1. IsOf(s, m, Append(in, m))
    BY LongerIn
  <2>2. u.q <= Len(Append(in, m)) /\ Append(in, m)[u.q] = m
    OBVIOUS
  <2>3. SUFFICES ASSUME NEW i \in 1 .. Len(t)
                 PROVE  t[i].q <= Len(Append(in, m)) /\ Append(in, m)[t[i].q] = m
    BY DEF IsOf
  <2>4. CASE i \in 1 .. Len(s)
    BY <1>1, <2>1, <2>4 DEF IsOf
  <2>5. CASE i = Len(t)
    BY <1>1, <2>2, <2>5
  <2>6. i \in 1 .. Len(s) \/ i = Len(t)
    BY <1>1
  <2>7. QED
    BY <2>4, <2>5, <2>6
<1>4. QED
  BY <1>2, <1>3 DEF t

\* An answer is added behind its question, or to an empty list.
LEMMA AnswerAdded ==
  ASSUME NEW s \in Seq(Message), NEW m, NEW in \in Seq(Modules),
         InOrder(s), IsOf(s, m, in),
         NEW u \in Message, u.q <= Len(in), in[u.q] = m,
         Len(s) > 0 => s[Len(s)] = [role |-> "user", q |-> u.q]
  PROVE  InOrder(Append(s, u)) /\ IsOf(Append(s, u), m, in)
<1> DEFINE t == Append(s, u)
<1>1. /\ t \in Seq(Message) /\ Len(t) = Len(s) + 1 /\ t[Len(t)] = u
      /\ \A i \in 1 .. Len(s) : t[i] = s[i]
  OBVIOUS
<1> HIDE DEF t
<1>2. InOrder(t)
  <2>1. SUFFICES ASSUME NEW i \in 2 .. Len(t), t[i].role = "assistant"
                 PROVE  t[i - 1] = [role |-> "user", q |-> t[i].q]
    BY DEF InOrder
  <2>2. CASE i \in 2 .. Len(s)
    BY <1>1, <2>1, <2>2 DEF InOrder
  <2>3. CASE i = Len(t)
    <3>1. t[i - 1] = s[Len(s)] /\ Len(s) > 0
      BY <1>1, <2>3
    <3>2. QED
      BY <1>1, <2>3, <3>1
  <2>4. QED
    BY <1>1, <2>2, <2>3
<1>3. IsOf(t, m, in)
  BY <1>1 DEF IsOf
<1>4. QED
  BY <1>2, <1>3 DEF t

-----------------------------------------------------------------------------
\* A panel that saves an orderly list of its module leaves the storage orderly.
LEMMA SaveStep ==
  ASSUME stored \in [Modules -> Seq(Message)], KeepBound,
         NEW in, StoredOK(in), NEW m \in Modules, NEW s \in Seq(Message),
         InOrder(s), IsOf(s, m, in), Save(m, s)
  PROVE  /\ stored' \in [Modules -> Seq(Message)] /\ KeepBound'
         /\ \A x \in Modules : InOrder(stored'[x]) /\ IsOf(stored'[x], x, in)
<1>1. CASE UNCHANGED stored
  BY <1>1 DEF KeepBound, StoredOK
<1>2. CASE stored' = [stored EXCEPT ![m] = Suffix(s, Keep)]
  <2>1. Suffix(s, Keep) \in Seq(Message) /\ Len(Suffix(s, Keep)) <= Keep
    BY SuffixType
  <2>2. InOrder(Suffix(s, Keep)) /\ IsOf(Suffix(s, Keep), m, in)
    BY SuffixKeeps
  <2>3. \A x \in Modules : stored'[x] = IF x = m THEN Suffix(s, Keep) ELSE stored[x]
    BY <1>2
  <2>4. stored' \in [Modules -> Seq(Message)]
    BY <1>2, <2>1
  <2>5. KeepBound'
    BY <2>1, <2>3 DEF KeepBound
  <2>6. QED
    BY <2>2, <2>3, <2>4, <2>5 DEF StoredOK
<1>3. QED
  BY <1>1, <1>2 DEF Save

\* The empty list, with which a module or a panel starts.
LEMMA EmptyOK ==
  ASSUME NEW m, NEW in
  PROVE  <<>> \in Seq(Message) /\ InOrder(<<>>) /\ IsOf(<<>>, m, in)
BY DEF InOrder, IsOf

LEMMA InitIInv == Init => IInv
<1> SUFFICES ASSUME Init PROVE IInv
  OBVIOUS
<1>1. /\ \A m \in Modules : stored[m] = <<>>
      /\ \A p \in Panels : msgs[p] = <<>> /\ waits[p] = 0
  BY DEF Init
<1>2. TypeOK
  BY DEF Init, TypeOK
<1>3. KeepBound
  <2>1. Len(<<>>) <= Keep
    OBVIOUS
  <2>2. QED
    BY <1>1, <2>1 DEF KeepBound
<1>4. StoredOK(askedIn) /\ CopiesOK
  BY <1>1, EmptyOK DEF StoredOK, CopiesOK
<1>5. WaitsOK /\ FreeIdle
  BY <1>1 DEF WaitsOK, FreeIdle
<1>6. QED
  BY <1>2, <1>3, <1>4, <1>5 DEF IInv

LEMMA RenderStep ==
  ASSUME IInv, NEW p \in Panels, NEW m \in Modules, Render(p, m)
  PROVE  IInv'
<1> USE DEF Render
<1>1. TypeOK /\ KeepBound /\ StoredOK(askedIn) /\ CopiesOK /\ WaitsOK /\ FreeIdle
  BY DEF IInv
<1>2. TypeOK'
  BY <1>1 DEF TypeOK
<1>3. KeepBound' /\ StoredOK(askedIn)'
  BY <1>1 DEF KeepBound, StoredOK
<1>4. \A x \in Panels : /\ msgs'[x] = IF x = p THEN stored[m] ELSE msgs[x]
                        /\ mod'[x] = IF x = p THEN m ELSE mod[x]
  BY <1>1 DEF TypeOK
<1>5. CopiesOK'
  BY <1>1, <1>4 DEF CopiesOK, StoredOK
<1>6. waits[p] = 0
  BY <1>1 DEF FreeIdle
<1>7. WaitsOK'
  BY <1>1, <1>4, <1>6 DEF WaitsOK
<1>8. FreeIdle'
  BY <1>1, <1>6 DEF FreeIdle, TypeOK
<1>9. QED
  BY <1>2, <1>3, <1>5, <1>7, <1>8 DEF IInv

LEMMA AskStep ==
  ASSUME IInv, NEW p \in Panels, Ask(p)
  PROVE  IInv'
<1> DEFINE q == asked + 1
           t == Append(msgs[p], [role |-> "user", q |-> q])
<1>1. TypeOK /\ KeepBound /\ StoredOK(askedIn) /\ CopiesOK /\ WaitsOK /\ FreeIdle
  BY DEF IInv
<1>2. /\ msgs[p] \in Seq(Message) /\ mod[p] \in Modules /\ askedIn \in Seq(Modules)
      /\ Len(askedIn) = asked /\ asked < MaxAsked /\ asked \in Nat
  BY <1>1 DEF TypeOK, Ask
<1>3. InOrder(msgs[p]) /\ IsOf(msgs[p], mod[p], askedIn)
  BY <1>1 DEF CopiesOK
<1>4. /\ t \in Seq(Message) /\ InOrder(t) /\ IsOf(t, mod[p], Append(askedIn, mod[p]))
      /\ t[Len(t)] = [role |-> "user", q |-> q]
  <2> DEFINE u == [role |-> "user", q |-> q]
  <2>1. u \in Message /\ u.role = "user" /\ u.q = Len(askedIn) + 1
    BY <1>2 DEF Message
  <2>2. InOrder(Append(msgs[p], u))
        /\ IsOf(Append(msgs[p], u), mod[p], Append(askedIn, mod[p]))
    <3> HIDE DEF u
    <3>1. QED
      BY <1>2, <1>3, <2>1, QuestionAdded
  <2>3. Append(msgs[p], u) \in Seq(Message)
        /\ Append(msgs[p], u)[Len(Append(msgs[p], u))] = u
    <3> HIDE DEF u
    <3>1. QED
      BY <1>2, <2>1
  <2>4. QED
    BY <2>2, <2>3
<1>5. /\ asked' = q /\ askedIn' = Append(askedIn, mod[p])
      /\ waits' = [waits EXCEPT ![p] = q] /\ msgs' = [msgs EXCEPT ![p] = t]
      /\ UNCHANGED <<calm, where, mod, clearedAt>> /\ where[p] = "visible"
  BY DEF Ask
<1>6. msgs'[p] = t /\ \A x \in Panels \ {p} : msgs'[x] = msgs[x]
  BY <1>1, <1>5 DEF TypeOK
<1>7. waits'[p] = q /\ \A x \in Panels \ {p} : waits'[x] = waits[x]
  BY <1>1, <1>5 DEF TypeOK
<1>8. Save(mod[p], t)
  BY <1>6 DEF Ask
<1> HIDE DEF t
<1>9. StoredOK(askedIn')
  BY <1>1, <1>2, <1>5, LongerIn DEF StoredOK, TypeOK
<1>10. /\ stored' \in [Modules -> Seq(Message)] /\ KeepBound'
       /\ \A x \in Modules : InOrder(stored'[x]) /\ IsOf(stored'[x], x, askedIn')
  BY <1>1, <1>2, <1>4, <1>5, <1>8, <1>9, SaveStep DEF TypeOK
<1>11. TypeOK'
  <2>1. msgs' \in [Panels -> Seq(Message)]
    BY <1>1, <1>4, <1>5 DEF TypeOK
  <2>2. waits' \in [Panels -> 0 .. MaxAsked] /\ asked' \in 0 .. MaxAsked
    BY <1>1, <1>2, <1>5 DEF TypeOK
  <2>3. askedIn' \in Seq(Modules) /\ Len(askedIn') = asked'
    BY <1>2, <1>5
  <2>4. QED
    BY <1>1, <1>5, <1>10, <2>1, <2>2, <2>3 DEF TypeOK
<1>12. CopiesOK'
  <2>1. SUFFICES ASSUME NEW x \in Panels
                 PROVE  InOrder(msgs'[x]) /\ IsOf(msgs'[x], mod[x], askedIn')
    BY <1>5 DEF CopiesOK
  <2>2. CASE x = p
    BY <1>4, <1>5, <1>6, <2>2
  <2>3. CASE x # p
    <3>1. msgs[x] \in Seq(Message) /\ InOrder(msgs[x]) /\ IsOf(msgs[x], mod[x], askedIn)
      BY <1>1 DEF TypeOK, CopiesOK
    <3>2. QED
      BY <1>2, <1>5, <1>6, <2>3, <3>1, LongerIn
  <2>4. QED
    BY <2>2, <2>3
<1>13. WaitsOK'
  <2>1. SUFFICES ASSUME NEW x \in Panels, waits'[x] # 0
                 PROVE  /\ waits'[x] <= asked' /\ askedIn'[waits'[x]] = mod[x]
                        /\ Len(msgs'[x]) > 0 =>
                             msgs'[x][Len(msgs'[x])] = [role |-> "user", q |-> waits'[x]]
    BY <1>5 DEF WaitsOK
  <2>2. CASE x = p
    <3>1. askedIn'[q] = mod[p]
      BY <1>2, <1>5
    <3>2. QED
      BY <1>2, <1>4, <1>5, <1>6, <1>7, <2>2, <3>1
  <2>3. CASE x # p
    <3>1. waits'[x] = waits[x] /\ msgs'[x] = msgs[x]
      BY <1>6, <1>7, <2>3
    <3>2. /\ waits[x] \in 1 .. asked /\ askedIn[waits[x]] = mod[x]
          /\ Len(msgs[x]) > 0 =>
               msgs[x][Len(msgs[x])] = [role |-> "user", q |-> waits[x]]
      <4>1. waits[x] \in Nat
        BY <1>1 DEF TypeOK
      <4>2. QED
        BY <1>1, <2>1, <3>1, <4>1 DEF WaitsOK
    <3>3. askedIn'[waits[x]] = askedIn[waits[x]]
      BY <1>2, <1>5, <3>2
    <3>4. QED
      BY <1>2, <1>5, <3>1, <3>2, <3>3
  <2>4. QED
    BY <2>2, <2>3
<1>14. FreeIdle'
  BY <1>1, <1>5, <1>7 DEF FreeIdle
<1>15. QED
  BY <1>5, <1>10, <1>11, <1>12, <1>13, <1>14 DEF IInv, StoredOK

LEMMA AnswerStep ==
  ASSUME IInv, NEW p \in Panels, Answer(p)
  PROVE  IInv'
<1> DEFINE u == [role |-> "assistant", q |-> waits[p]]
           t == Append(msgs[p], u)
<1>1. TypeOK /\ KeepBound /\ StoredOK(askedIn) /\ CopiesOK /\ WaitsOK /\ FreeIdle
  BY DEF IInv
<1>2. /\ msgs[p] \in Seq(Message) /\ mod[p] \in Modules /\ askedIn \in Seq(Modules)
      /\ Len(askedIn) = asked /\ waits[p] \in 1 .. MaxAsked
  BY <1>1 DEF TypeOK, Answer
<1>3. /\ InOrder(msgs[p]) /\ IsOf(msgs[p], mod[p], askedIn)
      /\ waits[p] <= Len(askedIn) /\ askedIn[waits[p]] = mod[p]
      /\ Len(msgs[p]) > 0 => msgs[p][Len(msgs[p])] = [role |-> "user", q |-> waits[p]]
  BY <1>1, <1>2 DEF CopiesOK, WaitsOK
<1>4. t \in Seq(Message) /\ InOrder(t) /\ IsOf(t, mod[p], askedIn)
  <2>1. u \in Message /\ u.q = waits[p]
    BY <1>2 DEF Message
  <2> HIDE DEF u
  <2>2. QED
    BY <1>2, <1>3, <2>1, AnswerAdded
<1>5. /\ msgs' = [msgs EXCEPT ![p] = IF where[p] = "detached" THEN <<>> ELSE t]
      /\ waits' = [waits EXCEPT ![p] = 0] /\ where' = Released(p)
      /\ Save(mod[p], t) /\ UNCHANGED <<calm, mod, asked, askedIn, clearedAt>>
  BY DEF Answer
<1> HIDE DEF t, u
<1>6. /\ msgs'[p] \in {<<>>, t} /\ waits'[p] = 0
      /\ \A x \in Panels \ {p} :
           msgs'[x] = msgs[x] /\ waits'[x] = waits[x] /\ where'[x] = where[x]
  BY <1>1, <1>5 DEF TypeOK, Released
<1>7. /\ stored' \in [Modules -> Seq(Message)] /\ KeepBound'
      /\ \A x \in Modules : InOrder(stored'[x]) /\ IsOf(stored'[x], x, askedIn)
  BY <1>1, <1>2, <1>4, <1>5, SaveStep DEF TypeOK
<1>8. TypeOK'
  <2>1. msgs' \in [Panels -> Seq(Message)]
    BY <1>1, <1>4, <1>5, EmptyOK DEF TypeOK
  <2>2. waits' \in [Panels -> 0 .. MaxAsked]
    BY <1>1, <1>5 DEF TypeOK
  <2>3. where' \in [Panels -> {"free", "visible", "detached"}]
    BY <1>1, <1>5 DEF TypeOK, Released
  <2>4. QED
    BY <1>1, <1>5, <1>7, <2>1, <2>2, <2>3 DEF TypeOK
<1>9. CopiesOK'
  BY <1>1, <1>4, <1>5, <1>6, EmptyOK DEF CopiesOK
<1>10. WaitsOK'
  BY <1>1, <1>5, <1>6 DEF WaitsOK
<1>11. FreeIdle'
  BY <1>1, <1>6 DEF FreeIdle
<1>12. QED
  BY <1>5, <1>7, <1>8, <1>9, <1>10, <1>11 DEF IInv, StoredOK

LEMMA NoAnswerStep ==
  ASSUME IInv, NEW p \in Panels, NoAnswer(p)
  PROVE  IInv'
<1>1. TypeOK /\ KeepBound /\ StoredOK(askedIn) /\ CopiesOK /\ WaitsOK /\ FreeIdle
  BY DEF IInv
<1>2. /\ msgs' = [msgs EXCEPT ![p] = IF where[p] = "detached" THEN <<>> ELSE @]
      /\ waits' = [waits EXCEPT ![p] = 0] /\ where' = Released(p)
      /\ UNCHANGED <<calm, stored, mod, asked, askedIn, clearedAt>>
  BY DEF NoAnswer
<1>3. /\ msgs'[p] \in {<<>>, msgs[p]} /\ waits'[p] = 0
      /\ \A x \in Panels \ {p} :
           msgs'[x] = msgs[x] /\ waits'[x] = waits[x] /\ where'[x] = where[x]
  BY <1>1, <1>2 DEF TypeOK, Released
<1>4. TypeOK'
  BY <1>1, <1>2, EmptyOK DEF TypeOK, Released
<1>5. KeepBound' /\ StoredOK(askedIn)'
  BY <1>1, <1>2 DEF KeepBound, StoredOK
<1>6. CopiesOK'
  BY <1>1, <1>2, <1>3, EmptyOK DEF CopiesOK
<1>7. WaitsOK'
  BY <1>1, <1>2, <1>3 DEF WaitsOK
<1>8. FreeIdle'
  BY <1>1, <1>3 DEF FreeIdle
<1>9. QED
  BY <1>4, <1>5, <1>6, <1>7, <1>8 DEF IInv

LEMMA ClearStep ==
  ASSUME IInv, NEW p \in Panels, Clear(p)
  PROVE  IInv'
<1>1. TypeOK /\ KeepBound /\ StoredOK(askedIn) /\ CopiesOK /\ WaitsOK /\ FreeIdle
  BY DEF IInv
<1>2. /\ msgs' = [msgs EXCEPT ![p] = <<>>] /\ Save(mod[p], <<>>)
      /\ clearedAt' = [clearedAt EXCEPT ![mod[p]] = asked]
      /\ UNCHANGED <<calm, where, mod, waits, asked, askedIn>>
  BY DEF Clear
<1>3. msgs'[p] = <<>> /\ \A x \in Panels \ {p} : msgs'[x] = msgs[x]
  BY <1>1, <1>2 DEF TypeOK
<1>4. mod[p] \in Modules
  BY <1>1 DEF TypeOK
<1>5. /\ stored' \in [Modules -> Seq(Message)] /\ KeepBound'
      /\ \A x \in Modules : InOrder(stored'[x]) /\ IsOf(stored'[x], x, askedIn)
  BY <1>1, <1>2, <1>4, EmptyOK, SaveStep DEF TypeOK
<1>6. TypeOK'
  BY <1>1, <1>2, <1>5, EmptyOK DEF TypeOK
<1>7. CopiesOK'
  BY <1>1, <1>2, <1>3, EmptyOK DEF CopiesOK
<1>8. WaitsOK'
  BY <1>1, <1>2, <1>3 DEF WaitsOK
<1>9. FreeIdle'
  BY <1>1, <1>2 DEF FreeIdle
<1>10. QED
  BY <1>2, <1>5, <1>6, <1>7, <1>8, <1>9 DEF IInv, StoredOK

\* Leaving the module and reloading the page: panels go, the storage stays.
LEMMA PanelsGoStep ==
  ASSUME IInv, Leave \/ Reload
  PROVE  IInv'
<1>1. TypeOK /\ KeepBound /\ StoredOK(askedIn) /\ CopiesOK /\ WaitsOK /\ FreeIdle
  BY DEF IInv
<1>2. UNCHANGED <<calm, stored, mod, asked, askedIn, clearedAt>>
  BY DEF Leave, Reload
<1>3. \A x \in Panels : /\ msgs'[x] \in {<<>>, msgs[x]}
                        /\ waits'[x] # 0 => waits'[x] = waits[x] /\ msgs'[x] = msgs[x]
  <2>1. CASE Leave
    BY <2>1 DEF Leave
  <2>2. CASE Reload
    BY <2>2 DEF Reload
  <2>3. QED
    BY <2>1, <2>2
<1>4. TypeOK'
  <2>1. CASE Leave
    BY <1>1, <1>2, <2>1, EmptyOK DEF TypeOK, Leave
  <2>2. CASE Reload
    BY <1>1, <1>2, <2>2, EmptyOK DEF TypeOK, Reload
  <2>3. QED
    BY <2>1, <2>2
<1>5. KeepBound' /\ StoredOK(askedIn)'
  BY <1>1, <1>2 DEF KeepBound, StoredOK
<1>6. CopiesOK'
  BY <1>1, <1>2, <1>3, EmptyOK DEF CopiesOK
<1>7. WaitsOK'
  BY <1>1, <1>2, <1>3 DEF WaitsOK
<1>8. FreeIdle'
  BY <1>1 DEF FreeIdle, Leave, Reload
<1>9. QED
  BY <1>4, <1>5, <1>6, <1>7, <1>8 DEF IInv

LEMMA NextIInv == IInv /\ [Next]_vars => IInv'
<1> SUFFICES ASSUME IInv, [Next]_vars PROVE IInv'
  OBVIOUS
<1>1. ASSUME NEW p \in Panels, Ask(p) PROVE IInv'
  BY <1>1, AskStep
<1>2. ASSUME NEW p \in Panels, Answer(p) PROVE IInv'
  BY <1>2, AnswerStep
<1>3. ASSUME NEW p \in Panels, NoAnswer(p) PROVE IInv'
  BY <1>3, NoAnswerStep
<1>4. ASSUME NEW p \in Panels, Clear(p) PROVE IInv'
  BY <1>4, ClearStep
<1>5. ASSUME NEW p \in Panels, NEW m \in Modules, Render(p, m) PROVE IInv'
  BY <1>5, RenderStep
<1>6. CASE Leave \/ Reload
  BY <1>6, PanelsGoStep
<1>7. CASE UNCHANGED vars
  BY <1>7 DEF vars, IInv, TypeOK, KeepBound, StoredOK, CopiesOK, WaitsOK, FreeIdle
<1>8. QED
  BY <1>1, <1>2, <1>3, <1>4, <1>5, <1>6, <1>7 DEF Next

-----------------------------------------------------------------------------
\* The strengthening is an invariant: storage and copies are orderly lists.
THEOREM Inductive == Spec => []IInv
<1>1. QED
  BY InitIInv, NextIInv, PTL DEF Spec

\* Types: whatever panels come, go and save.
THEOREM TypeCorrect == Spec => []TypeOK
<1>1. IInv => TypeOK
  BY DEF IInv
<1>2. QED
  BY <1>1, Inductive, PTL

\* aiSaveHistory never lets a module grow beyond the limit.
THEOREM KeepBoundCorrect == Spec => []KeepBound
<1>1. IInv => KeepBound
  BY DEF IInv
<1>2. QED
  BY <1>1, Inductive, PTL

\* send() of a detached panel saves under its own module only.
THEOREM NoCrossTalkCorrect == Spec => []NoCrossTalk
<1>1. IInv => NoCrossTalk
  BY DEF IInv, TypeOK, StoredOK, IsOf, NoCrossTalk
<1>2. QED
  BY <1>1, Inductive, PTL

\* Restoring a history never shows an answer under another question.
THEOREM AnswerFollowsQuestionCorrect == Spec => []AnswerFollowsQuestion
<1>1. IInv => AnswerFollowsQuestion
  BY DEF IInv, StoredOK, InOrder, AnswerFollowsQuestion
<1>2. QED
  BY <1>1, Inductive, PTL

-----------------------------------------------------------------------------
(* A learner who waits.  At most one panel is in use, so nobody keeps an     *)
(* older copy: storage and copies hold only what was asked after the last    *)
(* clearing of their module, and so is the question that is waited for.      *)
After(s, c) == \A i \in 1 .. Len(s) : s[i].q > c

OnePanel == \A x, y \in Panels : where[x] # "free" /\ where[y] # "free" => x = y

FreeEmpty == \A x \in Panels : where[x] = "free" => msgs[x] = <<>>

StoredAfter == \A m \in Modules : After(stored[m], clearedAt[m]) /\ clearedAt[m] <= asked

CopiesAfter == \A x \in Panels : /\ After(msgs[x], clearedAt[mod[x]])
                                 /\ waits[x] # 0 => waits[x] > clearedAt[mod[x]]

CalmOK == calm => OnePanel /\ FreeEmpty /\ StoredAfter /\ CopiesAfter

\* Taking the last messages and adding a later one keep a list After c.
LEMMA SuffixAfter ==
  ASSUME NEW s \in Seq(Message), NEW n \in Nat \ {0}, NEW c, After(s, c)
  PROVE  After(Suffix(s, n), c)
<1> DEFINE t == Suffix(s, n)
<1>1. t \in Seq(Message)
  BY SuffixType
<1>2. PICK d \in Nat : Len(t) + d = Len(s) /\ \A i \in 1 .. Len(t) : t[i] = s[i + d]
  BY SuffixShift
<1> HIDE DEF t
<1>3. SUFFICES ASSUME NEW i \in 1 .. Len(t) PROVE t[i].q > c
  BY DEF After, t
<1>4. t[i] = s[i + d] /\ i + d \in 1 .. Len(s)
  BY <1>1, <1>2
<1>5. QED
  BY <1>4 DEF After

LEMMA AppendAfter ==
  ASSUME NEW s \in Seq(Message), NEW c, After(s, c), NEW u \in Message, u.q > c
  PROVE  After(Append(s, u), c)
BY DEF After

LEMMA CalmSave ==
  ASSUME calm, TypeOK, StoredAfter, NEW m \in Modules, NEW s \in Seq(Message),
         NEW c, After(s, c), Save(m, s)
  PROVE  /\ After(stored'[m], c)
         /\ \A x \in Modules \ {m} : stored'[x] = stored[x]
<1>1. stored' = [stored EXCEPT ![m] = Suffix(s, Keep)]
  BY DEF Save
<1>2. QED
  BY <1>1, SuffixAfter DEF TypeOK

LEMMA CalmRender ==
  ASSUME IInv, CalmOK, calm, NEW p \in Panels, NEW m \in Modules, Render(p, m)
  PROVE  CalmOK'
<1> USE DEF Render
<1>1. TypeOK /\ FreeIdle /\ OnePanel /\ FreeEmpty /\ StoredAfter /\ CopiesAfter
  BY DEF IInv, CalmOK
<1>2. \A x \in Panels : where[x] = "free" /\ waits[x] = 0
  BY <1>1 DEF FreeIdle
<1>3. \A x \in Panels : /\ msgs'[x] = IF x = p THEN stored[m] ELSE msgs[x]
                        /\ mod'[x] = IF x = p THEN m ELSE mod[x]
                        /\ where'[x] = IF x = p THEN "visible" ELSE "free"
  BY <1>1, <1>2 DEF TypeOK
<1>4. OnePanel' /\ FreeEmpty'
  BY <1>1, <1>2, <1>3 DEF OnePanel, FreeEmpty
<1>5. StoredAfter'
  BY <1>1 DEF StoredAfter
<1>6. CopiesAfter'
  BY <1>1, <1>2, <1>3 DEF CopiesAfter, StoredAfter
<1>7. QED
  BY <1>4, <1>5, <1>6 DEF CalmOK

LEMMA CalmAsk ==
  ASSUME IInv, CalmOK, calm, NEW p \in Panels, Ask(p)
  PROVE  CalmOK'
<1> DEFINE q == asked + 1
           u == [role |-> "user", q |-> q]
           t == Append(msgs[p], u)
<1>1. TypeOK /\ FreeIdle /\ OnePanel /\ FreeEmpty /\ StoredAfter /\ CopiesAfter
  BY DEF IInv, CalmOK
<1>2. /\ msgs[p] \in Seq(Message) /\ mod[p] \in Modules
      /\ asked \in Nat /\ asked < MaxAsked /\ where[p] = "visible"
      /\ clearedAt[mod[p]] \in Nat /\ clearedAt[mod[p]] <= asked
  BY <1>1 DEF TypeOK, Ask, StoredAfter
<1>3. u \in Message /\ u.q > clearedAt[mod[p]]
  BY <1>2 DEF Message
<1>4. /\ asked' = q /\ waits' = [waits EXCEPT ![p] = q] /\ msgs' = [msgs EXCEPT ![p] = t]
      /\ UNCHANGED <<calm, where, mod, clearedAt>>
  BY DEF Ask
<1>5. /\ msgs'[p] = t /\ waits'[p] = q
      /\ \A x \in Panels \ {p} : msgs'[x] = msgs[x] /\ waits'[x] = waits[x]
  BY <1>1, <1>4 DEF TypeOK
<1>6. Save(mod[p], t)
  BY <1>5 DEF Ask
<1> HIDE DEF u
<1>7. t \in Seq(Message) /\ After(t, clearedAt[mod[p]])
  BY <1>1, <1>2, <1>3, AppendAfter DEF CopiesAfter
<1> HIDE DEF t
<1>8. /\ After(stored'[mod[p]], clearedAt[mod[p]])
      /\ \A x \in Modules \ {mod[p]} : stored'[x] = stored[x]
  BY <1>1, <1>2, <1>6, <1>7, CalmSave
<1>9. OnePanel' /\ FreeEmpty'
  BY <1>1, <1>2, <1>4, <1>5 DEF OnePanel, FreeEmpty
<1>10. StoredAfter'
  <2>1. \A m \in Modules : clearedAt[m] \in Nat /\ clearedAt[m] <= asked'
    BY <1>1, <1>2, <1>4 DEF TypeOK, StoredAfter
  <2>2. QED
    BY <1>1, <1>4, <1>8, <2>1 DEF StoredAfter
<1>11. CopiesAfter'
  BY <1>1, <1>2, <1>4, <1>5, <1>7 DEF CopiesAfter
<1>12. QED
  BY <1>9, <1>10, <1>11 DEF CalmOK

LEMMA CalmAnswer ==
  ASSUME IInv, CalmOK, calm, NEW p \in Panels, Answer(p) \/ NoAnswer(p)
  PROVE  CalmOK'
<1> DEFINE u == [role |-> "assistant", q |-> waits[p]]
           t == Append(msgs[p], u)
<1>1. TypeOK /\ FreeIdle /\ OnePanel /\ FreeEmpty /\ StoredAfter /\ CopiesAfter
  BY DEF IInv, CalmOK
<1>2. /\ msgs[p] \in Seq(Message) /\ mod[p] \in Modules /\ waits[p] \in 1 .. MaxAsked
      /\ waits[p] > clearedAt[mod[p]]
  <2>1. waits[p] # 0
    BY DEF Answer, NoAnswer
  <2>2. QED
    BY <1>1, <2>1 DEF TypeOK, CopiesAfter
<1>3. u \in Message /\ u.q > clearedAt[mod[p]]
  BY <1>2 DEF Message
<1>4. /\ waits' = [waits EXCEPT ![p] = 0] /\ where' = Released(p)
      /\ UNCHANGED <<calm, mod, asked, clearedAt>>
      /\ \/ msgs' = [msgs EXCEPT ![p] = IF where[p] = "detached" THEN <<>> ELSE t]
            /\ Save(mod[p], t)
         \/ msgs' = [msgs EXCEPT ![p] = IF where[p] = "detached" THEN <<>> ELSE @]
            /\ stored' = stored
  BY DEF Answer, NoAnswer
<1> HIDE DEF u
<1>5. t \in Seq(Message) /\ After(t, clearedAt[mod[p]])
  BY <1>1, <1>2, <1>3, AppendAfter DEF CopiesAfter
<1> HIDE DEF t
<1>6. /\ waits'[p] = 0 /\ msgs'[p] \in {<<>>, msgs[p], t}
      /\ where[p] = "detached" => msgs'[p] = <<>>
      /\ where'[p] = IF where[p] = "detached" THEN "free" ELSE where[p]
      /\ \A x \in Panels \ {p} : /\ msgs'[x] = msgs[x] /\ waits'[x] = waits[x]
                                 /\ where'[x] = where[x]
  BY <1>1, <1>4 DEF TypeOK, Released
<1>7. where[p] # "free"
  BY <1>1, <1>2 DEF FreeIdle
<1>8. OnePanel' /\ FreeEmpty'
  BY <1>1, <1>6, <1>7 DEF OnePanel, FreeEmpty
<1>9. StoredAfter'
  <2>1. \A m \in Modules : After(stored'[m], clearedAt[m])
    <3>1. CASE stored' = stored
      BY <1>1, <3>1 DEF StoredAfter
    <3>2. CASE Save(mod[p], t)
      BY <1>1, <1>2, <1>5, <3>2, CalmSave DEF StoredAfter
    <3>3. QED
      BY <1>4, <3>1, <3>2
  <2>2. QED
    BY <1>1, <1>4, <2>1 DEF StoredAfter
<1>10. CopiesAfter'
  <2>1. After(<<>>, clearedAt[mod[p]])
    BY DEF After
  <2>2. QED
    BY <1>1, <1>4, <1>5, <1>6, <2>1 DEF CopiesAfter
<1>11. QED
  BY <1>8, <1>9, <1>10 DEF CalmOK

LEMMA CalmClear ==
  ASSUME IInv, CalmOK, calm, NEW p \in Panels, Clear(p)
  PROVE  CalmOK'
<1>1. TypeOK /\ FreeIdle /\ OnePanel /\ FreeEmpty /\ StoredAfter /\ CopiesAfter
  BY DEF IInv, CalmOK
<1>2. /\ msgs' = [msgs EXCEPT ![p] = <<>>] /\ Save(mod[p], <<>>)
      /\ clearedAt' = [clearedAt EXCEPT ![mod[p]] = asked]
      /\ UNCHANGED <<calm, where, mod, waits, asked, askedIn>>
      /\ where[p] = "visible" /\ waits[p] = 0
  BY DEF Clear
<1>3. mod[p] \in Modules /\ asked \in Nat
  BY <1>1 DEF TypeOK
<1>4. \A x \in Panels : msgs'[x] = <<>> /\ waits'[x] = 0
  <2>1. \A x \in Panels \ {p} : where[x] = "free"
    BY <1>1, <1>2 DEF OnePanel
  <2>2. QED
    BY <1>1, <1>2, <2>1 DEF TypeOK, FreeEmpty, FreeIdle
<1>5. \A c : After(<<>>, c)
  BY DEF After
<1>6. OnePanel' /\ FreeEmpty'
  BY <1>1, <1>2, <1>4 DEF OnePanel, FreeEmpty
<1>7. StoredAfter'
  <2>1. /\ After(stored'[mod[p]], asked)
        /\ \A x \in Modules \ {mod[p]} : stored'[x] = stored[x]
    BY <1>1, <1>2, <1>3, <1>5, EmptyOK, CalmSave
  <2>2. /\ clearedAt'[mod[p]] = asked
        /\ \A x \in Modules \ {mod[p]} : clearedAt'[x] = clearedAt[x]
    BY <1>1, <1>2, <1>3 DEF TypeOK
  <2>3. QED
    BY <1>1, <1>2, <1>3, <2>1, <2>2 DEF StoredAfter
<1>8. CopiesAfter'
  BY <1>4, <1>5 DEF CopiesAfter
<1>9. QED
  BY <1>6, <1>7, <1>8 DEF CalmOK

LEMMA CalmPanelsGo ==
  ASSUME IInv, CalmOK, calm, Leave \/ Reload
  PROVE  CalmOK'
<1>1. TypeOK /\ FreeIdle /\ OnePanel /\ FreeEmpty /\ StoredAfter /\ CopiesAfter
  BY DEF IInv, CalmOK
<1>2. UNCHANGED <<calm, stored, mod, asked, clearedAt>>
  BY DEF Leave, Reload
<1>3. \A x \in Panels : msgs'[x] = <<>> /\ waits'[x] = 0 /\ (where[x] = "free" => where'[x] = "free")
  <2>1. CASE Leave
    BY <2>1 DEF Leave
  <2>2. CASE Reload
    BY <2>2 DEF Reload
  <2>3. QED
    BY <2>1, <2>2
<1>4. OnePanel' /\ FreeEmpty'
  BY <1>1, <1>3 DEF OnePanel, FreeEmpty
<1>5. StoredAfter'
  BY <1>1, <1>2 DEF StoredAfter
<1>6. CopiesAfter'
  <2>1. \A c : After(<<>>, c)
    BY DEF After
  <2>2. QED
    BY <1>3, <2>1 DEF CopiesAfter
<1>7. QED
  BY <1>4, <1>5, <1>6 DEF CalmOK

LEMMA InitCalmOK == Init => CalmOK
<1> SUFFICES ASSUME Init PROVE CalmOK
  OBVIOUS
<1>1. \A c : After(<<>>, c)
  BY DEF After
<1>2. /\ \A m \in Modules : stored[m] = <<>> /\ clearedAt[m] = 0
      /\ \A x \in Panels : msgs[x] = <<>> /\ waits[x] = 0 /\ where[x] = "free"
      /\ asked = 0
  BY DEF Init
<1>3. OnePanel /\ FreeEmpty /\ StoredAfter /\ CopiesAfter
  BY <1>1, <1>2 DEF OnePanel, FreeEmpty, StoredAfter, CopiesAfter
<1>4. QED
  BY <1>3 DEF CalmOK

LEMMA NextCalmOK == IInv /\ CalmOK /\ [Next]_vars => CalmOK'
<1> SUFFICES ASSUME IInv, CalmOK, [Next]_vars PROVE CalmOK'
  OBVIOUS
<1>1. CASE ~calm
  <2>1. calm' = calm
    BY DEF Next, Ask, Answer, NoAnswer, Clear, Render, Leave, Reload, vars
  <2>2. QED
    BY <1>1, <2>1 DEF CalmOK
<1>2. CASE calm
  <2>1. ASSUME NEW p \in Panels, Ask(p) PROVE CalmOK'
    BY <1>2, <2>1, CalmAsk
  <2>2. ASSUME NEW p \in Panels, Answer(p) \/ NoAnswer(p) PROVE CalmOK'
    BY <1>2, <2>2, CalmAnswer
  <2>3. ASSUME NEW p \in Panels, Clear(p) PROVE CalmOK'
    BY <1>2, <2>3, CalmClear
  <2>4. ASSUME NEW p \in Panels, NEW m \in Modules, Render(p, m) PROVE CalmOK'
    BY <1>2, <2>4, CalmRender
  <2>5. CASE Leave \/ Reload
    BY <1>2, <2>5, CalmPanelsGo
  <2>6. CASE UNCHANGED vars
    BY <2>6 DEF vars, CalmOK, OnePanel, FreeEmpty, StoredAfter, CopiesAfter
  <2>7. QED
    BY <2>1, <2>2, <2>3, <2>4, <2>5, <2>6 DEF Next
<1>3. QED
  BY <1>1, <1>2

\* For a learner who waits, a history that was cleared stays cleared.
THEOREM CalmClearedStaysClearCorrect == Spec => []CalmClearedStaysClear
<1>1. IInv /\ CalmOK => CalmClearedStaysClear
  BY DEF IInv, TypeOK, CalmOK, StoredAfter, After, CalmClearedStaysClear, ClearedStaysClear
<1>2. QED
  BY <1>1, InitIInv, NextIInv, InitCalmOK, NextCalmOK, PTL DEF Spec

-----------------------------------------------------------------------------
(* The refinement of ChatLog.  The one panel in use saved its copy after     *)
(* every change, so what is stored is the end of the copy, and a message     *)
(* added to the copy is added to the log.                                    *)
Agree == calm => \A x \in Panels :
           where[x] # "free" => stored[mod[x]] = Suffix(msgs[x], Keep)

\* Where the last messages of a list lie in it.
LEMMA SuffixIs ==
  ASSUME NEW s \in Seq(Message), NEW n \in Nat \ {0}
  PROVE  /\ Len(s) <= n => Suffix(s, n) = s
         /\ Len(s) > n => /\ Len(Suffix(s, n)) = n
                          /\ \A i \in 1 .. n : Suffix(s, n)[i] = s[i + (Len(s) - n)]
<1>1. Len(s) <= n => Suffix(s, n) = s
  BY DEF Suffix
<1>2. ASSUME Len(s) > n
      PROVE  /\ Len(Suffix(s, n)) = n
             /\ \A i \in 1 .. n : Suffix(s, n)[i] = s[i + (Len(s) - n)]
  <2>1. PICK d \in Nat : /\ Len(Suffix(s, n)) + d = Len(s)
                         /\ \A i \in 1 .. Len(Suffix(s, n)) : Suffix(s, n)[i] = s[i + d]
    BY SuffixShift
  <2>2. Suffix(s, n) = SubSeq(s, Len(s) - n + 1, Len(s))
    BY <1>2 DEF Suffix
  <2>3. Len(SubSeq(s, Len(s) - n + 1, Len(s))) = n
    BY <1>2
  <2>4. d = Len(s) - n
    BY <2>1, <2>2, <2>3
  <2>5. QED
    BY <2>1, <2>2, <2>3, <2>4
<1>3. QED
  BY <1>1, <1>2

\* A message more: the log has it at its end and may have lost its first.
LEMMA SuffixExtends ==
  ASSUME NEW s \in Seq(Message), NEW u \in Message
  PROVE  Log!Extends(Suffix(Append(s, u), Keep), Suffix(s, Keep))
<1> DEFINE t == Append(s, u)
<1>1. /\ t \in Seq(Message) /\ Len(t) = Len(s) + 1
      /\ \A i \in 1 .. Len(s) : t[i] = s[i]
  OBVIOUS
<1> HIDE DEF t
<1>2. CASE Len(s) < Keep
  <2>1. Suffix(s, Keep) = s /\ Suffix(t, Keep) = t
    BY <1>1, <1>2, SuffixIs
  <2>2. 0 \in 0 .. Len(s) /\ Len(s) - 0 <= Len(t)
        /\ \A i \in 1 .. Len(s) - 0 : t[i] = s[0 + i]
    BY <1>1
  <2>3. QED
    BY <2>1, <2>2 DEF Log!Extends, t
<1>3. CASE Len(s) >= Keep
  <2>1. /\ Len(Suffix(t, Keep)) = Keep
        /\ \A i \in 1 .. Keep : Suffix(t, Keep)[i] = t[i + (Len(s) + 1 - Keep)]
    <3>1. Len(t) > Keep
      BY <1>1, <1>3
    <3>2. /\ Len(Suffix(t, Keep)) = Keep
          /\ \A i \in 1 .. Keep : Suffix(t, Keep)[i] = t[i + (Len(t) - Keep)]
      BY <1>1, <3>1, SuffixIs
    <3>3. QED
      BY <1>1, <3>2
  <2>2. /\ Len(Suffix(s, Keep)) = Keep
        /\ \A i \in 1 .. Keep : Suffix(s, Keep)[i] = s[i + (Len(s) - Keep)]
    <3>1. CASE Len(s) = Keep
      <4>1. Suffix(s, Keep) = s
        BY <3>1, SuffixIs
      <4>2. \A i \in 1 .. Keep : s[i] = s[i + (Len(s) - Keep)]
        <5>1. TAKE i \in 1 .. Keep
        <5>2. i + (Len(s) - Keep) = i
          BY <3>1
        <5>3. QED
          BY <5>2
      <4>3. QED
        BY <3>1, <4>1, <4>2
    <3>2. CASE Len(s) > Keep
      BY <3>2, SuffixIs
    <3>3. QED
      BY <1>3, <3>1, <3>2
  <2>3. \A i \in 1 .. Keep - 1 : Suffix(t, Keep)[i] = Suffix(s, Keep)[1 + i]
    <3>1. TAKE i \in 1 .. Keep - 1
    <3>2. i + (Len(s) + 1 - Keep) = (1 + i) + (Len(s) - Keep)
          /\ (1 + i) + (Len(s) - Keep) \in 1 .. Len(s)
      BY <1>3
    <3>3. Suffix(t, Keep)[i] = s[(1 + i) + (Len(s) - Keep)]
      BY <1>1, <2>1, <3>2
    <3>4. 1 + i \in 1 .. Keep
      OBVIOUS
    <3>5. QED
      BY <2>2, <3>3, <3>4
  <2>4. 1 \in 0 .. Keep /\ Keep - 1 <= Keep
    OBVIOUS
  <2>5. QED
    BY <2>1, <2>2, <2>3, <2>4 DEF Log!Extends, t
<1>4. QED
  BY <1>2, <1>3

\* The panel that saves its longer copy.
LEMMA LogExtended ==
  ASSUME IInv, CalmOK, Agree, calm, calm', NEW p \in Panels, where[p] # "free",
         NEW u \in Message, stored' = [stored EXCEPT ![mod[p]] = Suffix(Append(msgs[p], u), Keep)]
  PROVE  Log!Next
<1>1. /\ mod[p] \in Modules /\ msgs[p] \in Seq(Message)
      /\ stored \in [Modules -> Seq(Message)]
  BY DEF IInv, TypeOK
<1>2. stored[mod[p]] = Suffix(msgs[p], Keep)
  BY DEF Agree
<1>3. Append(msgs[p], u) \in Seq(Message)
  BY <1>1
<1>4. /\ Suffix(Append(msgs[p], u), Keep) \in Seq(Message)
      /\ Len(Suffix(Append(msgs[p], u), Keep)) <= Keep
  BY <1>3, SuffixType
<1>5. /\ stored' \in [Modules -> Seq(Message)]
      /\ stored'[mod[p]] = Suffix(Append(msgs[p], u), Keep)
      /\ \A m \in Modules \ {mod[p]} : stored'[m] = stored[m]
  BY <1>1, <1>4
<1>6. Log!Extends(stored'[mod[p]], stored[mod[p]])
  BY <1>1, <1>2, <1>5, SuffixExtends
<1>7. Log!Extend(mod[p])
  BY <1>4, <1>5, <1>6 DEF Log!Extend
<1>8. QED
  BY <1>1, <1>7 DEF Log!Next

\* A step keeps the copy in use and the log together, and adds a message to
\* the log, empties it or leaves it alone.
LEMMA LogStep ==
  ASSUME IInv, CalmOK, Agree, [Next]_vars
  PROVE  Agree' /\ (Log!Next \/ UNCHANGED (IF calm THEN stored ELSE [m \in Modules |-> <<>>]))
<1>1. CASE ~calm
  <2>1. calm' = calm
    BY DEF Next, Ask, Answer, NoAnswer, Clear, Render, Leave, Reload, vars
  <2>2. QED
    BY <1>1, <2>1 DEF Agree
<1>2. CASE calm
  <2>1. /\ TypeOK /\ KeepBound /\ FreeIdle /\ OnePanel
        /\ \A x \in Panels : where[x] # "free" => stored[mod[x]] = Suffix(msgs[x], Keep)
    BY <1>2 DEF IInv, CalmOK, Agree
  <2>2. ASSUME NEW p \in Panels, NEW m \in Modules, Render(p, m)
        PROVE  Agree' /\ UNCHANGED <<calm, stored>>
    <3>1. UNCHANGED <<calm, stored>> /\ \A x \in Panels : where[x] = "free"
      BY <1>2, <2>2 DEF Render
    <3>2. \A x \in Panels : /\ where'[x] # "free" => x = p
                            /\ msgs'[p] = stored[m] /\ mod'[p] = m
      BY <2>1, <2>2, <3>1 DEF Render, TypeOK
    <3>3. Suffix(stored[m], Keep) = stored[m]
      BY <2>1, SuffixIs DEF TypeOK, KeepBound
    <3>4. QED
      BY <3>1, <3>2, <3>3 DEF Agree
  <2>3. ASSUME NEW p \in Panels, where[p] # "free", calm', NEW u \in Message,
               stored' = [stored EXCEPT ![mod[p]] = Suffix(Append(msgs[p], u), Keep)],
               where' = where \/ where'[p] = "free",
               \A x \in Panels \ {p} : where'[x] = where[x],
               mod' = mod, where'[p] # "free" => msgs'[p] = Append(msgs[p], u)
        PROVE  Agree' /\ Log!Next
    <3>1. \A x \in Panels : where'[x] # "free" => x = p
      BY <2>1, <2>3 DEF OnePanel
    <3>2. stored'[mod[p]] = Suffix(Append(msgs[p], u), Keep)
      BY <2>1, <2>3 DEF TypeOK
    <3>3. Agree'
      BY <2>3, <3>1, <3>2 DEF Agree
    <3>4. Log!Next
      BY <1>2, <2>3, LogExtended
    <3>5. QED
      BY <3>3, <3>4
  <2>4. ASSUME NEW p \in Panels, Ask(p) PROVE Agree' /\ Log!Next
    <3> DEFINE u == [role |-> "user", q |-> asked + 1]
    <3>1. /\ where[p] = "visible" /\ where' = where /\ mod' = mod /\ calm'
          /\ msgs' = [msgs EXCEPT ![p] = Append(@, u)] /\ Save(mod[p], msgs'[p])
      BY <1>2, <2>4 DEF Ask
    <3>2. u \in Message
      BY <2>1, <2>4 DEF TypeOK, Ask, Message
    <3> HIDE DEF u
    <3>3. msgs'[p] = Append(msgs[p], u)
      BY <2>1, <3>1 DEF TypeOK
    <3>4. stored' = [stored EXCEPT ![mod[p]] = Suffix(Append(msgs[p], u), Keep)]
      BY <1>2, <3>1, <3>3 DEF Save
    <3>5. QED
      BY <2>3, <3>1, <3>2, <3>3, <3>4
  <2>5. ASSUME NEW p \in Panels, Answer(p) PROVE Agree' /\ Log!Next
    <3> DEFINE u == [role |-> "assistant", q |-> waits[p]]
    <3>1. /\ where' = Released(p) /\ mod' = mod /\ calm' /\ waits[p] # 0
          /\ msgs' = [msgs EXCEPT ![p] = IF where[p] = "detached" THEN <<>>
                                         ELSE Append(msgs[p], u)]
          /\ Save(mod[p], Append(msgs[p], u))
      BY <1>2, <2>5 DEF Answer
    <3>2. u \in Message
      BY <2>1, <3>1 DEF TypeOK, Message
    <3> HIDE DEF u
    <3>3. where[p] # "free"
      BY <2>1, <3>1 DEF FreeIdle
    <3>4. /\ where'[p] = IF where[p] = "detached" THEN "free" ELSE where[p]
          /\ \A x \in Panels \ {p} : where'[x] = where[x]
          /\ where' = where \/ where'[p] = "free"
      BY <2>1, <3>1 DEF TypeOK, Released
    <3>5. where'[p] # "free" => msgs'[p] = Append(msgs[p], u)
      BY <2>1, <3>1, <3>4 DEF TypeOK
    <3>6. stored' = [stored EXCEPT ![mod[p]] = Suffix(Append(msgs[p], u), Keep)]
      BY <1>2, <3>1 DEF Save
    <3>7. QED
      BY <2>3, <3>1, <3>2, <3>3, <3>4, <3>5, <3>6
  <2>6. ASSUME NEW p \in Panels, NoAnswer(p) PROVE Agree' /\ UNCHANGED <<calm, stored>>
    <3>1. UNCHANGED <<calm, stored, mod>> /\ where' = Released(p)
          /\ msgs' = [msgs EXCEPT ![p] = IF where[p] = "detached" THEN <<>> ELSE @]
      BY <2>6 DEF NoAnswer
    <3>2. \A x \in Panels : where'[x] # "free" => where'[x] = where[x] /\ msgs'[x] = msgs[x]
      BY <2>1, <3>1 DEF TypeOK, Released
    <3>3. QED
      BY <2>1, <3>1, <3>2 DEF Agree
  <2>7. ASSUME NEW p \in Panels, Clear(p) PROVE Agree' /\ Log!Next
    <3>1. /\ where[p] = "visible" /\ where' = where /\ mod' = mod /\ calm'
          /\ msgs' = [msgs EXCEPT ![p] = <<>>] /\ Save(mod[p], <<>>)
      BY <1>2, <2>7 DEF Clear
    <3>2. Suffix(<<>>, Keep) = <<>>
      BY DEF Suffix
    <3>3. stored' = [stored EXCEPT ![mod[p]] = <<>>] /\ mod[p] \in Modules
      BY <1>2, <2>1, <3>1, <3>2 DEF Save, TypeOK
    <3>4. \A x \in Panels : where[x] # "free" => x = p
      BY <2>1, <3>1 DEF OnePanel
    <3>5. msgs'[p] = <<>> /\ stored'[mod[p]] = <<>>
      BY <2>1, <3>1, <3>3 DEF TypeOK
    <3>6. Agree'
      BY <3>1, <3>2, <3>4, <3>5 DEF Agree
    <3>7. Log!Clear(mod[p])
      BY <1>2, <3>1, <3>3 DEF Log!Clear
    <3>8. QED
      BY <3>3, <3>6, <3>7 DEF Log!Next
  <2>8. CASE Leave \/ Reload
    <3>1. UNCHANGED <<calm, stored, mod>>
      BY <2>8 DEF Leave, Reload
    <3>2. \A x \in Panels : where'[x] = "free"
      <4>1. CASE Leave
        <5>1. PICK p \in Panels : where[p] = "visible"
          BY <4>1 DEF Leave
        <5>2. \A x \in Panels : where[x] = "visible" \/ where[x] = "free"
          BY <2>1, <5>1 DEF OnePanel
        <5>3. QED
          BY <1>2, <4>1, <5>2 DEF Leave
      <4>2. CASE Reload
        BY <4>2 DEF Reload
      <4>3. QED
        BY <2>8, <4>1, <4>2
    <3>3. QED
      BY <3>1, <3>2 DEF Agree
  <2>9. CASE UNCHANGED vars
    BY <2>1, <2>9 DEF vars, Agree
  <2>10. QED
    BY <2>2, <2>4, <2>5, <2>6, <2>7, <2>8, <2>9 DEF Next
<1>3. QED
  BY <1>1, <1>2

(* What a learner who waits finds in the storage is a ChatLog: IsChatLog,    *)
(* the formula the runs check.                                               *)
THEOREM Refinement == Spec => IsChatLog
<1>1. Init => Log!Init /\ Agree
  BY DEF Init, Log!Init, Agree
<1>2. IInv /\ CalmOK /\ Agree /\ [Next]_vars
        => Agree' /\ [Log!Next]_(IF calm THEN stored ELSE [m \in Modules |-> <<>>])
  BY LogStep
<1>3. Spec => Log!Init /\ [][Log!Next]_(IF calm THEN stored ELSE [m \in Modules |-> <<>>])
  BY <1>1, <1>2, InitIInv, NextIInv, InitCalmOK, NextCalmOK, PTL DEF Spec
<1>4. QED
  BY <1>3 DEF IsChatLog, Log!Spec
=============================================================================
