--------------------------- MODULE MentorHistory ---------------------------
(***************************************************************************)
(* The history of the mentor chat: aiSaveHistory, aiLoadHistory and the    *)
(* panels that renderAIChatPanel of web/ai-chat.js makes, each a closure   *)
(* with its own copy of the messages of one module.  A panel that waits    *)
(* for an answer goes on after loadModule of web/app.js has emptied the    *)
(* page, and a panel that waited for /api/ai/status appears late, beside   *)
(* another one.  MentorStream shows how one answer arrives; here it is a   *)
(* single step.  A definition marked Slip is a mistake the code does not  *)
(* make; the invariants are tried against it.                              *)
(***************************************************************************)
EXTENDS Naturals, Sequences

CONSTANTS
  Modules,     \* the modules of the course
  Panels,      \* bound on the panels that exist at a time
  Keep,        \* the 40 of messages.slice(-40)
  MaxAsked,    \* bound on the questions asked
  Refusals     \* localStorage may refuse to save (it is full, or forbidden)

ASSUME KeepAssumption == Keep \in Nat \ {0}
ASSUME MaxAskedAssumption == MaxAsked \in Nat
ASSUME RefusalsAssumption == Refusals \in BOOLEAN

VARIABLES
  calm,        \* the learner waits for an answer before doing anything else,
               \* and localStorage never refuses to save
  stored,      \* localStorage: the messages of each module
  where,       \* a panel is free, visible, or detached (only its send() lives)
  mod,         \* moduleId of the panel
  msgs,        \* its variable messages
  waits,       \* the question it waits for (isStreaming), 0 if none
  asked,       \* how many questions were asked; they are numbered from 1
  askedIn,     \* the module question n was asked in
  clearedAt    \* asked, when the module's history was last cleared

vars == <<calm, stored, where, mod, msgs, waits, asked, askedIn, clearedAt>>

\* A message is known by its role and by the number of its question.
Message == [role : {"user", "assistant"}, q : 1 .. MaxAsked]

Suffix(s, n) == IF Len(s) <= n THEN s ELSE SubSeq(s, Len(s) - n + 1, Len(s))

Init == /\ calm \in BOOLEAN
        /\ stored = [m \in Modules |-> <<>>]
        /\ where = [p \in Panels |-> "free"]
        /\ mod \in [Panels -> Modules]
        /\ msgs = [p \in Panels |-> <<>>]
        /\ waits = [p \in Panels |-> 0]
        /\ asked = 0
        /\ askedIn = <<>>
        /\ clearedAt = [m \in Modules |-> 0]

\* Slips: slice(-40) is forgotten; the module on the page is saved to.
SaveAll(m, s) == stored' = [stored EXCEPT ![m] = s]
SaveUnderVisible(m, s) ==
  LET open == {mod[p] : p \in {x \in Panels : where[x] = "visible"}}
      to == IF open = {} THEN m ELSE CHOOSE x \in open : TRUE
  IN  stored' = [stored EXCEPT ![to] = Suffix(s, Keep)]

\* localStorage holds all modules under one key; the whole is read and written
\* in one go.  A full or forbidden storage raises and nothing is saved.
Save(m, s) == \/ stored' = [stored EXCEPT ![m] = Suffix(s, Keep)]
              \/ Refusals /\ ~calm /\ UNCHANGED stored

-----------------------------------------------------------------------------
\* Slip: the panel starts without the history.
RenderEmpty(p, m) ==
  /\ where[p] = "free"
  /\ calm => \A x \in Panels : where[x] = "free"
  /\ where' = [where EXCEPT ![p] = "visible"]
  /\ mod' = [mod EXCEPT ![p] = m]
  /\ UNCHANGED <<calm, stored, msgs, waits, asked, askedIn, clearedAt>>

\* The panel appears with what is stored at that moment.
Render(p, m) ==
  /\ where[p] = "free"
  /\ calm => \A x \in Panels : where[x] = "free"
  /\ where' = [where EXCEPT ![p] = "visible"]
  /\ mod' = [mod EXCEPT ![p] = m]
  /\ msgs' = [msgs EXCEPT ![p] = stored[m]]
  /\ UNCHANGED <<calm, stored, waits, asked, askedIn, clearedAt>>

\* Slip: the button is disabled, Ctrl+Enter does not look at isStreaming.
AskAnyTime(p) ==
  LET q == asked + 1
  IN  /\ where[p] = "visible" /\ asked < MaxAsked
      /\ asked' = q
      /\ askedIn' = Append(askedIn, mod[p])
      /\ waits' = [waits EXCEPT ![p] = IF @ = 0 THEN q ELSE @]
      /\ msgs' = [msgs EXCEPT ![p] = Append(@, [role |-> "user", q |-> q])]
      /\ Save(mod[p], msgs'[p])
      /\ UNCHANGED <<calm, where, mod, clearedAt>>

\* send() up to its first await.
Ask(p) ==
  LET q == asked + 1
  IN  /\ where[p] = "visible" /\ waits[p] = 0 /\ asked < MaxAsked
      /\ asked' = q
      /\ askedIn' = Append(askedIn, mod[p])
      /\ waits' = [waits EXCEPT ![p] = q]
      /\ msgs' = [msgs EXCEPT ![p] = Append(@, [role |-> "user", q |-> q])]
      /\ Save(mod[p], msgs'[p])
      /\ UNCHANGED <<calm, where, mod, clearedAt>>

\* When send() ends, a panel that is no longer on the page is gone.
Released(p) == [where EXCEPT ![p] = IF @ = "detached" THEN "free" ELSE @]

\* Slip: the end of a stream is handled when none is under way.
AnswerUnasked(p) ==
  LET s == Append(msgs[p], [role |-> "assistant", q |-> waits[p]])
  IN  /\ where[p] = "visible"
      /\ Save(mod[p], s)
      /\ msgs' = [msgs EXCEPT ![p] = s]
      /\ waits' = [waits EXCEPT ![p] = 0]
      /\ UNCHANGED <<calm, where, mod, asked, askedIn, clearedAt>>

\* The stream ends with some text.
Answer(p) ==
  LET s == Append(msgs[p], [role |-> "assistant", q |-> waits[p]])
  IN  /\ waits[p] # 0
      /\ Save(mod[p], s)
      /\ msgs' = [msgs EXCEPT ![p] = IF where[p] = "detached" THEN <<>> ELSE s]
      /\ waits' = [waits EXCEPT ![p] = 0]
      /\ where' = Released(p)
      /\ UNCHANGED <<calm, mod, asked, askedIn, clearedAt>>

\* The stream ends without text: the question stays without an answer.
NoAnswer(p) ==
  /\ waits[p] # 0
  /\ msgs' = [msgs EXCEPT ![p] = IF where[p] = "detached" THEN <<>> ELSE @]
  /\ waits' = [waits EXCEPT ![p] = 0]
  /\ where' = Released(p)
  /\ UNCHANGED <<calm, stored, mod, asked, askedIn, clearedAt>>

\* Slip: messages = [] is forgotten, only the storage is cleared.
ClearStorageOnly(p) ==
  /\ where[p] = "visible"
  /\ calm => waits[p] = 0
  /\ Save(mod[p], <<>>)
  /\ clearedAt' = [clearedAt EXCEPT ![mod[p]] = asked]
  /\ UNCHANGED <<calm, where, mod, msgs, waits, asked, askedIn>>

\* The clear button; it is not disabled while an answer streams.
Clear(p) ==
  /\ where[p] = "visible"
  /\ calm => waits[p] = 0
  /\ msgs' = [msgs EXCEPT ![p] = <<>>]
  /\ Save(mod[p], <<>>)
  /\ clearedAt' = [clearedAt EXCEPT ![mod[p]] = asked]
  /\ UNCHANGED <<calm, where, mod, waits, asked, askedIn>>

\* loadModule empties the panel: what is on the page goes, but for send().
Leave ==
  /\ \E p \in Panels : where[p] = "visible"
  /\ calm => \A p \in Panels : waits[p] = 0
  /\ where' = [p \in Panels |-> IF where[p] = "visible" /\ waits[p] = 0 THEN "free"
                               ELSE IF where[p] = "visible" THEN "detached"
                               ELSE where[p]]
  /\ msgs' = [p \in Panels |-> IF waits[p] = 0 THEN <<>> ELSE msgs[p]]
  /\ UNCHANGED <<calm, stored, mod, waits, asked, askedIn, clearedAt>>

\* The page is reloaded or closed: every panel goes, the storage stays.
Reload ==
  /\ where' = [p \in Panels |-> "free"]
  /\ msgs' = [p \in Panels |-> <<>>]
  /\ waits' = [p \in Panels |-> 0]
  /\ UNCHANGED <<calm, stored, mod, asked, askedIn, clearedAt>>

Next == \/ \E p \in Panels : \/ Ask(p) \/ Answer(p) \/ NoAnswer(p) \/ Clear(p)
                             \/ \E m \in Modules : Render(p, m)
        \/ Leave \/ Reload

Spec == Init /\ [][Next]_vars

-----------------------------------------------------------------------------
(* Types; the questions are numbered in the order they were asked. *)
TypeOK == /\ calm \in BOOLEAN
          /\ stored \in [Modules -> Seq(Message)]
          /\ where \in [Panels -> {"free", "visible", "detached"}]
          /\ mod \in [Panels -> Modules]
          /\ msgs \in [Panels -> Seq(Message)]
          /\ waits \in [Panels -> 0 .. MaxAsked]
          /\ asked \in 0 .. MaxAsked
          /\ askedIn \in Seq(Modules) /\ Len(askedIn) = asked
          /\ clearedAt \in [Modules -> 0 .. MaxAsked]

(* No module has more than Keep messages in the storage, whatever panels     *)
(* save and in whatever order.                                               *)
KeepBound == \A m \in Modules : Len(stored[m]) <= Keep

(* The storage of a module holds messages of that module only, although the  *)
(* answer of a detached panel is saved while another module is on the page.  *)
NoCrossTalk == \A m \in Modules : \A i \in DOMAIN stored[m] :
                 askedIn[stored[m][i].q] = m

(* In the stored history an answer stands right behind its question, or at   *)
(* the head when the limit or the clear button took the question: restoring  *)
(* never shows an answer under another question.                             *)
AnswerFollowsQuestion ==
  \A m \in Modules : \A i \in 2 .. Len(stored[m]) :
    stored[m][i].role = "assistant"
      => stored[m][i - 1] = [role |-> "user", q |-> stored[m][i].q]

(* A cleared history stays cleared: nothing of a question asked before the   *)
(* learner cleared the module is stored again.  Where the storage refuses,   *)
(* the clearing itself may be lost, so the property is meant without it.     *)
ClearedStaysClear ==
  \A m \in Modules : \A i \in DOMAIN stored[m] : stored[m][i].q > clearedAt[m]

(* It does for a learner who waits for the answer before clearing.           *)
CalmClearedStaysClear == calm => ClearedStaysClear

(* For a learner who waits the storage is a ChatLog: messages are added at   *)
(* the end, and only the limit or the clear button takes one away.  Another  *)
(* learner's storage is not looked at.                                       *)
Log == INSTANCE ChatLog
         WITH log <- IF calm THEN stored ELSE [m \in Modules |-> <<>>],
              Messages <- Message
IsChatLog == Log!Spec
=============================================================================
