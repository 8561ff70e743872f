---------------------------- MODULE MentorStream ----------------------------
(***************************************************************************)
(* One question to the AI mentor, end to end: send() of web/ai-chat.js,    *)
(* the connection, and the server thread in do_POST and stream_ollama_chat *)
(* of server.py.  The server writes one line per event: the chunks of the  *)
(* answer, then {"done"} or {"error"} (or neither), then "[DONE]".  TCP    *)
(* hands the lines to reader.read() in batches that it cuts where it       *)
(* likes, in the middle of a line too.                                     *)
(*                                                                         *)
(* Chunk k is the k-th line of the stream, so that a line is known by its  *)
(* place.  The next question waits for the thread of the last one to end:  *)
(* two threads share nothing, so waiting hides no behaviour.  A definition *)
(* marked Slip is a mistake the code does not make, kept to try the        *)
(* properties against.                                                     *)
(***************************************************************************)
EXTENDS Naturals, Sequences

CONSTANTS
  MaxChunks,   \* bound on the pieces of one answer
  MaxLines     \* bound on the complete lines one read() returns

ASSUME MaxChunksAssumption == MaxChunks \in Nat
ASSUME MaxLinesAssumption  == MaxLines \in Nat \ {0}

VARIABLES
  up,         \* the server process runs
  srv,        \* where the request's server thread is
  hdr,        \* it has sent the response headers
  frames,     \* the lines it has written
  produced,   \* how many chunks the model has produced
  ui,         \* where send() is; "idle" is isStreaming = false
  rcvd,       \* complete lines taken out of the connection
  part,       \* buf holds the beginning of line rcvd + 1
  shown,      \* fullContent: the lines whose text the page has appended
  failed      \* setError was called for this question

server == <<up, srv, hdr, frames, produced>>
page   == <<ui, rcvd, part, shown, failed>>
vars   == <<up, srv, hdr, frames, produced, ui, rcvd, part, shown, failed>>

Frame == {"chunk", "done", "error", "sentinel"}
SrvState == {"closed", "queued", "connect", "relay", "error", "end", "parked"}
UiState == {"idle", "fetching", "reading", "cancelled"}

\* The page's end of the connection: reader.cancel() and leaving close it.
PeerOpen == ui \in {"fetching", "reading"}

Init == /\ up = TRUE /\ srv = "closed" /\ hdr = FALSE
        /\ frames = <<>> /\ produced = 0
        /\ ui = "idle" /\ rcvd = 0 /\ part = FALSE
        /\ shown = <<>> /\ failed = FALSE

-----------------------------------------------------------------------------
(* The server thread. *)

Accept == /\ srv = "queued"
          /\ srv' = "connect"
          /\ hdr' = TRUE
          /\ UNCHANGED <<up, frames, produced, page>>

OpenOllama == /\ srv = "connect"
              /\ srv' = "relay"
              /\ UNCHANGED <<up, hdr, frames, produced, page>>

\* URLError on connecting, or any exception or timeout while relaying.
OllamaFails == /\ srv \in {"connect", "relay"}
               /\ srv' = "error"
               /\ UNCHANGED <<up, hdr, frames, produced, page>>

RelayChunk == /\ srv = "relay"
              /\ produced < MaxChunks
              /\ produced' = produced + 1
              /\ frames' = Append(frames, "chunk")
              /\ UNCHANGED <<up, srv, hdr, page>>

\* Slip: the break behind send_event({"done": True}) is missing.
RelayDoneNoBreak == /\ srv = "relay"
                    /\ "done" \notin {frames[i] : i \in DOMAIN frames}
                    /\ frames' = Append(frames, "done")
                    /\ UNCHANGED <<up, srv, hdr, produced, page>>

RelayDone == /\ srv = "relay"
             /\ frames' = Append(frames, "done")
             /\ srv' = "end"
             /\ UNCHANGED <<up, hdr, produced, page>>

\* Ollama's response ends without a done line: the for loop just ends.
OllamaEof == /\ srv = "relay"
             /\ srv' = "end"
             /\ UNCHANGED <<up, hdr, frames, produced, page>>

\* Slip: the key of the event is not the one the page looks for.
SendErrorMisnamed == /\ srv = "error"
                     /\ frames' = Append(frames, "message")
                     /\ srv' = "end"
                     /\ UNCHANGED <<up, hdr, produced, page>>

SendError == /\ srv = "error"
             /\ frames' = Append(frames, "error")
             /\ srv' = "end"
             /\ UNCHANGED <<up, hdr, produced, page>>

\* Slip: [DONE] is written behind the done event only, not in a finally.
SendSentinelOnDone == /\ srv = "end"
                      /\ "done" \in {frames[i] : i \in DOMAIN frames}
                      /\ frames' = Append(frames, "sentinel")
                      /\ srv' = "parked"
                      /\ UNCHANGED <<up, hdr, produced, page>>

\* The finally clause; the keep-alive header then makes the thread wait for
\* another request on the connection instead of closing it.
SendSentinel == /\ srv = "end"
                /\ frames' = Append(frames, "sentinel")
                /\ srv' = "parked"
                /\ UNCHANGED <<up, hdr, produced, page>>

\* Writing to a page that has gone raises, in the except clause again too.
HandlerDies == /\ srv \in {"queued", "relay", "error"}
               /\ ~PeerOpen
               /\ srv' = "closed"
               /\ UNCHANGED <<up, hdr, frames, produced, page>>

\* Slip: the thread learns that the page has gone only from reader.cancel().
SeesEofOfReaderOnly == /\ srv = "parked"
                       /\ ui = "cancelled"
                       /\ srv' = "closed"
                       /\ UNCHANGED <<up, hdr, frames, produced, page>>

ServerSeesEof == /\ srv = "parked"
                 /\ ~PeerOpen
                 /\ srv' = "closed"
                 /\ UNCHANGED <<up, hdr, frames, produced, page>>

\* Ctrl+C: the threads are daemons and die with the process.
ServerStops == /\ up
               /\ up' = FALSE
               /\ srv' = "closed"
               /\ UNCHANGED <<hdr, frames, produced, page>>

ServerStarts == /\ ~up
                /\ up' = TRUE
                /\ UNCHANGED <<srv, hdr, frames, produced, page>>

-----------------------------------------------------------------------------
(* The page. *)

Send == /\ ui = "idle" /\ srv = "closed"
        /\ srv' = IF up THEN "queued" ELSE "closed"
        /\ hdr' = FALSE /\ frames' = <<>> /\ produced' = 0
        /\ ui' = "fetching" /\ rcvd' = 0 /\ part' = FALSE
        /\ shown' = <<>> /\ failed' = FALSE
        /\ UNCHANGED up

FetchOk == /\ ui = "fetching" /\ hdr
           /\ ui' = "reading"
           /\ UNCHANGED <<rcvd, part, shown, failed, server>>

\* fetch() or reader.read() rejects: the catch around both shows the error.
Rejects == /\ \/ ui = "fetching" /\ srv = "closed" /\ ~hdr
              \/ ui = "reading" /\ srv = "closed"
           /\ ui' = "idle"
           /\ failed' = TRUE
           /\ UNCHANGED <<rcvd, part, shown, server>>

\* buf carries the beginning of a cut line over, so the batch starts with the
\* line after the last complete one.  Slips: buf = "" loses the carried half
\* line, and leaving buf as it is parses everything again.
FirstLineLosingPart == IF part THEN rcvd + 2 ELSE rcvd + 1
FirstLineAgain == 1
FirstLine == rcvd + 1

\* What the loop over the lines does if it does not know [DONE].
LinesNoCancel(lo, hi) ==
  \E cut \in lo .. hi + 1 :
    /\ \A i \in lo .. cut - 1 : frames[i] = "chunk"
    /\ cut <= hi => frames[cut] # "chunk"
    /\ shown' = shown \o [k \in 1 .. cut - lo |-> lo + k - 1]
    /\ ui' = "reading"
    /\ failed' = (failed \/ (cut <= hi /\ frames[cut] = "error"))

\* Slip: [DONE] is looked for in the batch before its chunks are shown.
LinesLookAhead(lo, hi) ==
  IF \E i \in lo .. hi : frames[i] = "sentinel"
  THEN ui' = "cancelled" /\ UNCHANGED <<shown, failed>>
  ELSE LinesNoCancel(lo, hi)

\* Lines lo .. hi are the complete lines of the batch; the inner loop stops
\* at the first that is not a chunk (cut) and drops the ones behind it.
Lines(lo, hi) ==
  \E cut \in lo .. hi + 1 :
    /\ \A i \in lo .. cut - 1 : frames[i] = "chunk"
    /\ cut <= hi => frames[cut] # "chunk"
    /\ shown' = shown \o [k \in 1 .. cut - lo |-> lo + k - 1]
    /\ ui' = IF cut <= hi /\ frames[cut] = "sentinel"
             THEN "cancelled" ELSE "reading"
    /\ failed' = (failed \/ (cut <= hi /\ frames[cut] = "error"))

\* One reader.read(): n complete lines, and whether it ends inside a line.
Read(n, tail) ==
  /\ ui = "reading"
  /\ rcvd + n <= Len(frames)
  /\ tail => rcvd + n < Len(frames)
  /\ n = 0 => tail /\ ~part
  /\ rcvd' = rcvd + n
  /\ part' = tail
  /\ Lines(FirstLine, rcvd + n)
  /\ UNCHANGED server

\* The connection ended and everything in it was read.
ReadEof == /\ ui = "reading"
           /\ srv = "closed" /\ rcvd = Len(frames)
           /\ ui' = "idle"
           /\ UNCHANGED <<rcvd, part, shown, failed, server>>

\* After reader.cancel() the next read() reports the end.
ReadCancelled == /\ ui = "cancelled"
                 /\ ui' = "idle"
                 /\ UNCHANGED <<rcvd, part, shown, failed, server>>

\* The learner reloads or closes the page.
Reload == /\ ui' = "idle" /\ rcvd' = 0 /\ part' = FALSE
          /\ shown' = <<>> /\ failed' = FALSE
          /\ UNCHANGED server

-----------------------------------------------------------------------------
Handler == \/ Accept \/ OpenOllama \/ OllamaFails \/ RelayChunk \/ RelayDone
           \/ OllamaEof \/ SendError \/ SendSentinel \/ HandlerDies
           \/ ServerSeesEof

Reader == \/ FetchOk \/ Rejects \/ ReadEof \/ ReadCancelled
          \/ \E n \in 0 .. MaxLines, tail \in BOOLEAN : Read(n, tail)

Environment == Send \/ Reload \/ ServerStops \/ ServerStarts

Next == Handler \/ Reader \/ Environment

Spec == Init /\ [][Next]_vars

\* The thread and the page's loop go on by themselves; 120 s of silence from
\* Ollama end in OllamaFails.  Nobody has to ask, reload or stop the server.
FairSpec == Spec /\ WF_vars(Handler) /\ WF_vars(Reader)

-----------------------------------------------------------------------------
(* Types: every variable stays in its range, lines come from Frame. *)
TypeOK == /\ up \in BOOLEAN /\ srv \in SrvState /\ hdr \in BOOLEAN
          /\ frames \in Seq(Frame) /\ produced \in 0 .. MaxChunks
          /\ ui \in UiState /\ rcvd \in Nat /\ part \in BOOLEAN
          /\ shown \in Seq(Nat) /\ failed \in BOOLEAN

(* The page shows the chunks 1 .. k of the answer in order, none twice and   *)
(* none missing, however the connection cuts the lines into batches.         *)
ShownIsPrefix == /\ \A k \in DOMAIN shown : shown[k] = k
                 /\ Len(shown) <= produced

(* What the server writes: the chunks, at most one done or error after all   *)
(* of them, and [DONE] last of all, which the page takes as the end.         *)
StreamShape ==
  \A i \in DOMAIN frames :
    /\ frames[i] = "chunk" <=> i <= produced
    /\ frames[i] \in {"done", "error"} => i = produced + 1
    /\ frames[i] = "sentinel" => i = Len(frames)

(* The page calls reader.cancel() only after it has shown the whole of what  *)
(* the model wrote, and the error if the stream carried one.                 *)
WholeOnCancel ==
  ui = "cancelled" =>
    /\ Len(shown) = produced
    /\ (\E i \in DOMAIN frames : frames[i] = "error") => failed

(* A question the learner sends ends: send() gets to isStreaming = false and *)
(* the learner can ask again, without having to reload the page.             *)
SendReturns == (ui = "fetching") ~> (ui = "idle")

(* It ends whatever fails on the way, unless the page has read [DONE] behind *)
(* done or error in one batch and waits on a connection that stays open.     *)
Swallowed == ui = "reading" /\ srv = "parked" /\ rcvd = Len(frames)
SendReturnsUnlessSwallowed == (ui = "fetching") ~> (ui = "idle" \/ Swallowed)

(* A server thread whose page is gone ends; it does not stay in the process. *)
ThreadReleased == (ui = "idle" /\ srv # "closed") ~> (srv = "closed")

(* Seen from the learner the stream is an AnswerChannel. *)
Channel == INSTANCE AnswerChannel
             WITH made  <- produced,
                  text  <- Len(shown),
                  phase <- IF ui = "idle" THEN "quiet" ELSE "open"

IsAnswerChannel == Channel!Spec
=============================================================================
