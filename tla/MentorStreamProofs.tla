------------------------- MODULE MentorStreamProofs -------------------------
(***************************************************************************)
(* Proofs about MentorStream, for every length of the answer and every     *)
(* size of a batch.  The inductive invariant IInv ties the three places    *)
(* the answer is in: the lines the thread has written (Stream), the lines  *)
(* the page has taken (Taken), and what send() knows when it stops (Stop). *)
(***************************************************************************)
EXTENDS MentorStream, SequenceTheorems, TLAPS

Stream == /\ \A i \in 1 .. Len(frames) : frames[i] = "chunk" <=> i <= produced
          /\ produced <= Len(frames)
          /\ \A i \in 1 .. Len(frames) :
               frames[i] \in {"done", "error"} => i = produced + 1
          /\ \A i \in 1 .. Len(frames) :
               frames[i] = "sentinel" => i = Len(frames)
          /\ srv \in {"queued", "connect", "relay", "error"}
               => Len(frames) = produced
          /\ srv = "end" => /\ Len(frames) <= produced + 1
                            /\ \A i \in 1 .. Len(frames) : frames[i] # "sentinel"

Taken == /\ rcvd <= Len(frames)
         /\ \A k \in 1 .. Len(shown) : shown[k] = k
         /\ Len(shown) = IF rcvd <= produced THEN rcvd ELSE produced

Stop == /\ rcvd >= produced + 1 /\ frames[produced + 1] = "error" => failed
        /\ ui = "cancelled" => /\ rcvd = Len(frames) /\ rcvd > 0
                               /\ frames[rcvd] = "sentinel"

IInv == TypeOK /\ Stream /\ Taken /\ Stop

USE MaxChunksAssumption, MaxLinesAssumption

LEMMA InitIInv == Init => IInv
<1> SUFFICES ASSUME Init PROVE IInv
  OBVIOUS
<1>1. frames = <<>> /\ shown = <<>> /\ Len(frames) = 0 /\ Len(shown) = 0
  BY DEF Init
<1>2. TypeOK
  <2>1. frames \in Seq(Frame) /\ shown \in Seq(Nat)
    BY <1>1
  <2>2. produced \in 0 .. MaxChunks /\ rcvd \in Nat
    BY DEF Init
  <2>3. QED
    BY <2>1, <2>2 DEF Init, TypeOK, SrvState, UiState
<1>3. Stream
  BY <1>1 DEF Init, Stream
<1>4. Taken /\ Stop
  BY <1>1 DEF Init, Taken, Stop
<1>5. QED
  BY <1>2, <1>3, <1>4 DEF IInv

\* The steps of the thread that write nothing only move srv.
LEMMA QuietThreadStep ==
  ASSUME IInv,
         \/ Accept \/ OpenOllama \/ OllamaFails \/ OllamaEof
         \/ HandlerDies \/ ServerSeesEof \/ ServerStops \/ ServerStarts
  PROVE  IInv'
<1>1. UNCHANGED <<frames, produced, page>> /\ srv' \in SrvState
      /\ hdr' \in BOOLEAN /\ up' \in BOOLEAN
  BY DEF IInv, TypeOK, SrvState, Accept, OpenOllama, OllamaFails, OllamaEof,
         HandlerDies, ServerSeesEof, ServerStops, ServerStarts, page
<1>2. srv' = "end" => srv \in {"relay", "end"}
  BY DEF Accept, OpenOllama, OllamaFails, OllamaEof, HandlerDies,
         ServerSeesEof, ServerStops, ServerStarts
<1>3. srv' \in {"queued", "connect", "relay", "error"}
        => srv \in {"queued", "connect", "relay", "error"}
  BY DEF Accept, OpenOllama, OllamaFails, OllamaEof, HandlerDies,
         ServerSeesEof, ServerStops, ServerStarts
<1>4. TypeOK'
  BY <1>1 DEF IInv, TypeOK, page
<1>5. Stream'
  <2>1. srv' = "end" => Len(frames) <= produced + 1
                        /\ \A i \in 1 .. Len(frames) : frames[i] # "sentinel"
    BY <1>2 DEF IInv, TypeOK, Stream
  <2>2. QED
    BY <1>1, <1>3, <2>1 DEF IInv, Stream
<1>6. Taken' /\ Stop'
  BY <1>1 DEF IInv, Taken, Stop, page
<1>7. QED
  BY <1>4, <1>5, <1>6 DEF IInv

\* A step that appends a line leaves the lines before it as they are.
LEMMA AppendedLine ==
  ASSUME frames \in Seq(Frame), NEW f \in Frame, frames' = Append(frames, f)
  PROVE  /\ frames' \in Seq(Frame)
         /\ Len(frames') = Len(frames) + 1
         /\ frames'[Len(frames) + 1] = f
         /\ \A i \in 1 .. Len(frames) : frames'[i] = frames[i]
  OBVIOUS

LEMMA WritingThreadStep ==
  ASSUME IInv, RelayChunk \/ RelayDone \/ SendError \/ SendSentinel
  PROVE  IInv'
<1>0. PICK f \in Frame : frames' = Append(frames, f)
  BY DEF RelayChunk, RelayDone, SendError, SendSentinel, Frame
<1>1. /\ frames' \in Seq(Frame)
      /\ Len(frames') = Len(frames) + 1
      /\ frames'[Len(frames) + 1] = f
      /\ \A i \in 1 .. Len(frames) : frames'[i] = frames[i]
  BY <1>0, AppendedLine DEF IInv, TypeOK
<1>2. UNCHANGED <<ui, rcvd, part, shown, failed>>
  BY DEF RelayChunk, RelayDone, SendError, SendSentinel, page
<1>3. rcvd \in Nat /\ Len(frames) \in Nat /\ produced \in Nat /\ Len(shown) \in Nat
  BY DEF IInv, TypeOK
<1>4. ui # "cancelled"
  BY <1>3 DEF IInv, Stop, Stream, RelayChunk, RelayDone, SendError, SendSentinel
<1>5. CASE RelayChunk
  <2>1. f = "chunk" /\ srv = "relay" /\ srv' = "relay" /\ Len(frames) = produced
        /\ produced' = produced + 1
    BY <1>0, <1>1, <1>5 DEF RelayChunk, IInv, Stream, TypeOK
  <2>2. TypeOK'
    BY <1>1, <1>2, <1>5 DEF RelayChunk, IInv, TypeOK
  <2>3. Stream'
    BY <1>1, <1>3, <2>1 DEF IInv, Stream
  <2>4. Taken' /\ Stop'
    BY <1>1, <1>2, <1>3, <1>4, <2>1 DEF IInv, Taken, Stop
  <2>5. QED
    BY <2>2, <2>3, <2>4 DEF IInv
<1>6. CASE RelayDone \/ SendError
  <2>1. f \in {"done", "error"} /\ srv \in {"relay", "error"} /\ srv' = "end"
        /\ Len(frames) = produced /\ produced' = produced
    BY <1>0, <1>1, <1>6 DEF RelayDone, SendError, IInv, Stream, TypeOK
  <2>2. TypeOK'
    BY <1>1, <1>2, <1>6 DEF RelayDone, SendError, IInv, TypeOK, SrvState
  <2>3. Stream'
    BY <1>1, <1>3, <2>1 DEF IInv, Stream
  <2>4. Taken' /\ Stop'
    BY <1>1, <1>2, <1>3, <1>4, <2>1 DEF IInv, Taken, Stop
  <2>5. QED
    BY <2>2, <2>3, <2>4 DEF IInv
<1>7. CASE SendSentinel
  <2>1. f = "sentinel" /\ srv = "end" /\ srv' = "parked" /\ produced' = produced
    BY <1>0, <1>1, <1>7 DEF SendSentinel, IInv, TypeOK
  <2>2. TypeOK'
    BY <1>1, <1>2, <1>7 DEF SendSentinel, IInv, TypeOK, SrvState
  <2>3. Stream'
    BY <1>1, <1>3, <2>1 DEF IInv, Stream
  <2>4. Taken' /\ Stop'
    BY <1>1, <1>2, <1>3, <1>4, <2>1 DEF IInv, Taken, Stop
  <2>5. QED
    BY <2>2, <2>3, <2>4 DEF IInv
<1>8. QED
  BY <1>5, <1>6, <1>7

\* What the loop over one batch does: it shows the chunks it was given, and
\* stops at the first other line of them.
LEMMA ReadStep ==
  ASSUME IInv, NEW n \in 0 .. MaxLines, NEW tail \in BOOLEAN, Read(n, tail)
  PROVE  IInv'
<1>1. /\ frames \in Seq(Frame) /\ Len(frames) \in Nat /\ rcvd \in Nat
      /\ produced \in Nat /\ shown \in Seq(Nat) /\ Len(shown) \in Nat /\ n \in Nat
  BY DEF IInv, TypeOK
<1>2. PICK cut \in rcvd + 1 .. rcvd + n + 1 :
        /\ \A i \in rcvd + 1 .. cut - 1 : frames[i] = "chunk"
        /\ cut <= rcvd + n => frames[cut] # "chunk"
        /\ shown' = shown \o [k \in 1 .. cut - (rcvd + 1) |-> rcvd + 1 + k - 1]
        /\ ui' = IF cut <= rcvd + n /\ frames[cut] = "sentinel"
                 THEN "cancelled" ELSE "reading"
        /\ failed' = (failed \/ (cut <= rcvd + n /\ frames[cut] = "error"))
  BY DEF Read, Lines, FirstLine
<1>3. /\ UNCHANGED <<up, srv, hdr, frames, produced>>
      /\ rcvd' = rcvd + n /\ rcvd + n <= Len(frames) /\ part' \in BOOLEAN
      /\ ui = "reading"
  BY DEF Read, server
<1>4. Stream'
  BY <1>3 DEF IInv, Stream
<1> DEFINE new == [k \in 1 .. cut - (rcvd + 1) |-> rcvd + 1 + k - 1]
<1>5. /\ new \in Seq(Nat) /\ Len(new) = cut - (rcvd + 1)
      /\ \A k \in 1 .. Len(new) : new[k] = rcvd + k
  BY <1>1, <1>2
<1>6. /\ shown' \in Seq(Nat) /\ Len(shown') = Len(shown) + Len(new)
      /\ \A k \in 1 .. Len(shown) : shown'[k] = shown[k]
      /\ \A k \in 1 .. Len(new) : shown'[Len(shown) + k] = new[k]
  <2> HIDE DEF new
  <2>1. shown' = shown \o new
    BY <1>2 DEF new
  <2>2. /\ shown' \in Seq(Nat) /\ Len(shown') = Len(shown) + Len(new)
        /\ \A i \in 1 .. Len(shown) + Len(new) :
             shown'[i] = IF i <= Len(shown) THEN shown[i] ELSE new[i - Len(shown)]
    BY <1>1, <1>5, <2>1, ConcatProperties
  <2>3. Len(new) \in Nat
    BY <1>5
  <2>4. ASSUME NEW k \in 1 .. Len(new) PROVE shown'[Len(shown) + k] = new[k]
    <3>1. Len(shown) + k \in 1 .. Len(shown) + Len(new) /\ ~(Len(shown) + k <= Len(shown))
          /\ (Len(shown) + k) - Len(shown) = k
      BY <1>1, <2>3
    <3>2. QED
      BY <2>2, <3>1
  <2>5. QED
    BY <1>1, <2>2, <2>3, <2>4
<1>7. TypeOK'
  <2>1. ui' \in UiState
    BY <1>2 DEF UiState
  <2>2. failed' \in BOOLEAN
    BY <1>2 DEF IInv, TypeOK
  <2>3. rcvd' \in Nat
    BY <1>1, <1>3
  <2>4. QED
    BY <1>3, <1>6, <2>1, <2>2, <2>3 DEF IInv, TypeOK
\* Behind the chunks the batch holds nothing the page would show.
<1>8. IF rcvd <= produced
      THEN cut - 1 = IF rcvd + n <= produced THEN rcvd + n ELSE produced
      ELSE cut = rcvd + 1
  <2>1. \A i \in 1 .. Len(frames) : frames[i] = "chunk" <=> i <= produced
    BY DEF IInv, Stream
  <2>2. ASSUME cut - 1 > rcvd PROVE cut - 1 <= produced
    <3>1. cut - 1 \in rcvd + 1 .. cut - 1 /\ cut - 1 \in 1 .. Len(frames)
      BY <1>1, <1>2, <1>3, <2>2
    <3>2. frames[cut - 1] = "chunk"
      BY <1>2, <3>1
    <3>3. QED
      BY <2>1, <3>1, <3>2
  <2>3. cut <= rcvd + n => cut > produced
    BY <1>1, <1>2, <1>3, <2>1
  <2>4. QED
    BY <1>1, <1>2, <2>2, <2>3
<1>9. Taken'
  <2>1. Len(shown) = IF rcvd <= produced THEN rcvd ELSE produced
    BY DEF IInv, Taken
  <2>2. Len(shown') = IF rcvd' <= produced' THEN rcvd' ELSE produced'
    <3>1. Len(shown') = Len(shown) + (cut - (rcvd + 1))
      BY <1>5, <1>6
    <3>2. rcvd' = rcvd + n /\ produced' = produced
      BY <1>3
    <3>3. cut \in Nat
      BY <1>1, <1>2
    <3>4. QED
      BY <1>1, <1>8, <2>1, <3>1, <3>2, <3>3
  <2>3. ASSUME NEW k \in 1 .. Len(shown') PROVE shown'[k] = k
    <3>1. CASE k <= Len(shown)
      <4>1. k \in 1 .. Len(shown)
        BY <1>1, <3>1
      <4>2. QED
        BY <1>6, <4>1 DEF IInv, Taken
    <3>2. CASE k > Len(shown)
      <4>1. k - Len(shown) \in 1 .. Len(new)
        BY <1>1, <1>2, <1>5, <1>6, <3>2
      <4>2. shown'[k] = rcvd + (k - Len(shown))
        <5> HIDE DEF new
        <5>1. k = Len(shown) + (k - Len(shown))
          BY <1>1
        <5>2. QED
          BY <1>5, <1>6, <4>1, <5>1
      <4>3. Len(shown) = rcvd
        BY <1>1, <1>2, <1>5, <1>8, <2>1, <4>1
      <4>4. QED
        BY <1>1, <4>2, <4>3
    <3>3. QED
      BY <1>1, <1>6, <3>1, <3>2
  <2>4. QED
    BY <1>3, <2>2, <2>3 DEF Taken
<1>10. Stop'
  <2>1. ASSUME rcvd' >= produced' + 1, frames'[produced' + 1] = "error"
        PROVE  failed'
    <3>1. CASE rcvd >= produced + 1
      BY <1>1, <1>2, <1>3, <2>1, <3>1 DEF IInv, Stop
    <3>2. CASE rcvd < produced + 1
      <4>1. cut = produced + 1 /\ cut <= rcvd + n
        BY <1>1, <1>2, <1>3, <1>8, <2>1, <3>2
      <4>2. QED
        BY <1>2, <1>3, <2>1, <4>1
    <3>3. QED
      BY <1>1, <3>1, <3>2
  <2>2. ASSUME ui' = "cancelled"
        PROVE  rcvd' = Len(frames') /\ rcvd' > 0 /\ frames'[rcvd'] = "sentinel"
    <3>1. cut <= rcvd + n /\ frames[cut] = "sentinel"
      BY <1>2, <2>2
    <3>2. cut = Len(frames)
      BY <1>1, <1>2, <1>3, <3>1 DEF IInv, Stream
    <3>3. rcvd' = cut /\ frames' = frames /\ cut > 0
      BY <1>1, <1>2, <1>3, <3>1, <3>2
    <3>4. QED
      BY <3>1, <3>2, <3>3
  <2>3. QED
    BY <2>1, <2>2 DEF Stop
<1>11. QED
  BY <1>4, <1>7, <1>9, <1>10 DEF IInv

\* A new question and a reload start from an empty page; the other steps of
\* the page leave the lines and what it took of them as they are.
LEMMA PageStep ==
  ASSUME IInv,
         Send \/ Reload \/ FetchOk \/ Rejects \/ ReadEof \/ ReadCancelled
  PROVE  IInv'
<1>1. CASE Send
  <2>1. frames' = <<>> /\ shown' = <<>> /\ Len(frames') = 0 /\ Len(shown') = 0
        /\ produced' = 0 /\ rcvd' = 0 /\ ui' = "fetching"
    BY <1>1 DEF Send
  <2>2. frames' \in Seq(Frame) /\ shown' \in Seq(Nat)
    BY <2>1
  <2>3. srv' \in {"queued", "closed"} /\ up' \in BOOLEAN
    BY <1>1 DEF Send, IInv, TypeOK
  <2>4. TypeOK'
    <3>1. produced' \in 0 .. MaxChunks /\ rcvd' \in Nat /\ ui' \in UiState
      BY <2>1 DEF UiState
    <3>2. hdr' \in BOOLEAN /\ part' \in BOOLEAN /\ failed' \in BOOLEAN
      BY <1>1 DEF Send
    <3>3. QED
      BY <2>2, <2>3, <3>1, <3>2 DEF TypeOK, SrvState
  <2>5. Stream'
    BY <2>1, <2>3 DEF Stream
  <2>6. Taken' /\ Stop'
    BY <2>1 DEF Taken, Stop
  <2>7. QED
    BY <2>4, <2>5, <2>6 DEF IInv
<1>2. CASE Reload
  <2>1. UNCHANGED <<up, srv, hdr, frames, produced>> /\ shown' = <<>>
        /\ Len(shown') = 0 /\ rcvd' = 0 /\ ui' = "idle"
    BY <1>2 DEF Reload, server
  <2>2. shown' \in Seq(Nat)
    BY <2>1
  <2>3. TypeOK'
    <3>1. part' \in BOOLEAN /\ failed' \in BOOLEAN
      BY <1>2 DEF Reload
    <3>2. QED
      BY <2>1, <2>2, <3>1 DEF IInv, TypeOK, UiState
  <2>4. Stream'
    BY <2>1 DEF IInv, Stream
  <2>5. Taken' /\ Stop'
    BY <2>1 DEF IInv, TypeOK, Taken, Stop
  <2>6. QED
    BY <2>3, <2>4, <2>5 DEF IInv
<1>3. CASE FetchOk \/ Rejects \/ ReadEof \/ ReadCancelled
  <2>1. UNCHANGED <<up, srv, hdr, frames, produced, rcvd, part, shown>>
        /\ ui' \in {"reading", "idle"} /\ failed' \in BOOLEAN
        /\ (failed => failed')
    BY <1>3 DEF FetchOk, Rejects, ReadEof, ReadCancelled, server, IInv, TypeOK
  <2>2. TypeOK'
    BY <2>1 DEF IInv, TypeOK, UiState
  <2>3. Stream' /\ Taken' /\ Stop'
    BY <2>1 DEF IInv, Stream, Taken, Stop
  <2>4. QED
    BY <2>2, <2>3 DEF IInv
<1>4. QED
  BY <1>1, <1>2, <1>3

LEMMA NextIInv == IInv /\ [Next]_vars => IInv'
<1> SUFFICES ASSUME IInv, [Next]_vars PROVE IInv'
  OBVIOUS
<1>1. CASE Handler
  BY <1>1, QuietThreadStep, WritingThreadStep DEF Handler
<1>2. CASE Reader
  BY <1>2, PageStep, ReadStep DEF Reader
<1>3. CASE Environment
  BY <1>3, PageStep, QuietThreadStep DEF Environment
<1>4. CASE UNCHANGED vars
  BY <1>4 DEF vars, IInv, TypeOK, Stream, Taken, Stop
<1>5. QED
  BY <1>1, <1>2, <1>3, <1>4 DEF Next

(* The invariant holds in every state the program reaches. *)
THEOREM Inductive == Spec => []IInv
  BY InitIInv, NextIInv, PTL DEF Spec

(* Every variable of the exchange between page and server keeps its type. *)
THEOREM TypeCorrect == Spec => []TypeOK
<1>1. IInv => TypeOK
  BY DEF IInv
<1>2. QED
  BY <1>1, Inductive, PTL

(* send() shows the chunks of the answer in order, each once, for answers of *)
(* any length and batches of any size.                                       *)
THEOREM PrefixCorrect == Spec => []ShownIsPrefix
<1>1. IInv => ShownIsPrefix
  <2> SUFFICES ASSUME IInv PROVE ShownIsPrefix
    OBVIOUS
  <2>1. rcvd \in Nat /\ produced \in Nat /\ Len(shown) \in Nat
        /\ DOMAIN shown = 1 .. Len(shown)
    BY DEF IInv, TypeOK
  <2>2. QED
    BY <2>1 DEF IInv, Taken, ShownIsPrefix
<1>2. QED
  BY <1>1, Inductive, PTL

(* stream_ollama_chat writes chunks, then at most one done or error, and     *)
(* [DONE] as the last line, whichever way Ollama fails.                      *)
THEOREM StreamShapeCorrect == Spec => []StreamShape
<1>1. IInv => StreamShape
  BY DEF IInv, TypeOK, Stream, StreamShape
<1>2. QED
  BY <1>1, Inductive, PTL

(* Whenever send() gives the reader up, the page shows all of the answer and *)
(* the error line if there was one.                                          *)
THEOREM WholeOnCancelCorrect == Spec => []WholeOnCancel
<1>1. IInv => WholeOnCancel
  <2> SUFFICES ASSUME IInv, ui = "cancelled" PROVE WholeOnCancel
    BY DEF WholeOnCancel
  <2>1. rcvd \in Nat /\ produced \in Nat /\ Len(shown) \in Nat /\ Len(frames) \in Nat
        /\ DOMAIN frames = 1 .. Len(frames)
    BY DEF IInv, TypeOK
  <2>2. rcvd = Len(frames) /\ rcvd > 0 /\ frames[rcvd] = "sentinel"
    BY DEF IInv, Stop
  <2>3. rcvd >= produced + 1
    <3>1. rcvd \in 1 .. Len(frames) /\ frames[rcvd] # "chunk"
      BY <2>1, <2>2
    <3>2. ~(rcvd <= produced)
      BY <3>1 DEF IInv, Stream
    <3>3. QED
      BY <2>1, <3>2
  <2>4. Len(shown) = produced
    BY <2>1, <2>3 DEF IInv, Taken
  <2>5. ASSUME NEW i \in DOMAIN frames, frames[i] = "error" PROVE failed
    <3>1. i = produced + 1
      BY <2>1, <2>5 DEF IInv, Stream
    <3>2. QED
      BY <2>3, <2>5, <3>1 DEF IInv, Stop
  <2>6. QED
    BY <2>4, <2>5 DEF WholeOnCancel
<1>2. QED
  BY <1>1, Inductive, PTL

LEMMA ChannelInit == Init => Channel!Init
  BY DEF Init, Channel!Init

\* Each step of the exchange is a step of the channel or leaves it alone.
LEMMA ChannelNext == IInv /\ IInv' /\ [Next]_vars => [Channel!Next]_Channel!vars
<1> SUFFICES ASSUME IInv, IInv', [Next]_vars
             PROVE  Channel!Next \/ UNCHANGED Channel!vars
  OBVIOUS
<1> USE DEF Channel!Next, Channel!vars
<1>1. CASE RelayChunk
  BY <1>1 DEF RelayChunk, page, Channel!Write
<1>2. CASE Handler /\ ~RelayChunk
  BY <1>2 DEF Handler, Accept, OpenOllama, OllamaFails, RelayDone, OllamaEof,
              SendError, SendSentinel, HandlerDies, ServerSeesEof, page
<1>3. CASE Send
  BY <1>3 DEF Send, Channel!Ask
<1>4. CASE Reload
  BY <1>4 DEF Reload, server, Channel!Abandon
<1>5. CASE ServerStops \/ ServerStarts
  BY <1>5 DEF ServerStops, ServerStarts, page
<1>6. CASE FetchOk
  BY <1>6 DEF FetchOk, server
<1>7. CASE Rejects \/ ReadEof \/ ReadCancelled
  BY <1>7 DEF Rejects, ReadEof, ReadCancelled, server, Channel!Close
<1>8. ASSUME NEW n \in 0 .. MaxLines, NEW tail \in BOOLEAN, Read(n, tail)
      PROVE  Channel!Deliver
  <2>1. ui = "reading" /\ ui' \in {"reading", "cancelled"}
    BY <1>8 DEF Read, Lines, FirstLine
  <2>2. UNCHANGED produced /\ rcvd \in Nat /\ rcvd' = rcvd + n /\ n \in Nat
        /\ produced \in Nat /\ Len(shown) \in Nat /\ Len(shown') \in Nat
    BY <1>8 DEF Read, server, IInv, TypeOK
  <2>3. Len(shown') \in Len(shown) .. produced
    BY <2>2 DEF IInv, Taken
  <2>4. QED
    BY <2>1, <2>2, <2>3 DEF Channel!Deliver
<1>9. CASE UNCHANGED vars
  BY <1>9 DEF vars
<1>10. QED
  BY <1>1, <1>2, <1>3, <1>4, <1>5, <1>6, <1>7, <1>8, <1>9
     DEF Next, Reader, Environment

(* The page, the connection and the server together keep what AnswerChannel  *)
(* promises: IsAnswerChannel, the formula the runs check.                    *)
THEOREM Refinement == Spec => IsAnswerChannel
<1>1. Spec => Channel!Init /\ [][Channel!Next]_Channel!vars
  BY ChannelInit, ChannelNext, Inductive, PTL DEF Spec
<1>2. QED
  BY <1>1 DEF IsAnswerChannel, Channel!Spec
=============================================================================
