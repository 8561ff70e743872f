----------------------------- MODULE ByteStream -----------------------------
(***************************************************************************)
(* Whole reads and writes on descriptors that move a part at a time, and   *)
(* the epoll servers made of them: write_all (f2/02, c2/01), read_full and *)
(* write_full (f2/03), read_drain (c2/01), the echo server, level-         *)
(* triggered (c2/02) and edge-triggered (c2/03), and the peer to try them  *)
(* with, io-playground.py: threads that echo, sink or feed, and clients.   *)
(* The bytes of either direction of a connection are numbered from 1.  A   *)
(* call interrupted by a signal (EINTR) is made again and changes nothing; *)
(* so is the epoll servers' write to a peer that is full (EAGAIN).  Only   *)
(* the playground's connections are reset.                                 *)
(***************************************************************************)
EXTENDS Naturals, Sequences

CONSTANTS Conns,      \* connections; the single calls use one of them
          BUF,        \* size of the caller's buffer
          CAP,        \* bytes on the way to the peer
          MaxBytes    \* bound: bytes in each direction

VARIABLES filled, exercise,   \* gaps filled in; whose code runs
          pc,         \* where the program's only thread is
          loc,        \* the connection it works on
          buf,        \* what it has read, or still has to write
          conn,       \* the connections, as the kernel keeps them
          event       \* edges epoll has to report; the stop eventfd

vars == <<filled, exercise, pc, loc, buf, conn, event>>

Echoes == {"c2_02", "c2_03"}
Playground == {"echo", "sink", "source"}
Run(a, b) == [i \in 1..(b + 1 - a) |-> a + i - 1]
Least(a, b) == IF a < b THEN a ELSE b

Unread(c) == conn[c].sent - conn[c].rcvd
Readable(c) == Unread(c) > 0 \/ conn[c].shut
Room(c) == CAP - (Len(conn[c].out) - conn[c].taken)
Backlog == {c \in Conns : conn[c].phase = "backlog"}
Edge(e) == event' = IF exercise = "c2_03" THEN event \cup {e} ELSE event

Init == /\ filled \in BOOLEAN
        /\ exercise \in Echoes \cup Playground \cup {"f2_02", "f2_03", "c2_01"}
        /\ pc = CASE exercise \in Echoes -> "epoll_wait"
                  [] exercise = "source" -> "send"
                  [] exercise \in {"echo", "sink"} -> "recv"
                  [] OTHER -> "user"
        /\ loc = CHOOSE c \in Conns : TRUE
        /\ buf = << >>
        /\ conn = [c \in Conns |->
             [phase |-> IF exercise \notin Echoes /\ c = loc THEN "open" ELSE "none",
              sent |-> 0, shut |-> FALSE, rcvd |-> 0, out |-> << >>, taken |-> 0]]
        /\ event = {}

-----------------------------------------------------------------------------
\* The peer connects, sends, shuts its side down and takes what came back;
\* what it does to a connection with EPOLLET is an edge.
Connect(c) == /\ exercise \in Echoes /\ conn[c].phase = "none"
              /\ conn' = [conn EXCEPT ![c].phase = "backlog"]
              /\ Edge("listen")
Alive(c) == conn[c].phase \in {"backlog", "open"} /\ ~conn[c].shut
Registered(c) == IF conn[c].phase = "open" THEN Edge(c) ELSE UNCHANGED event
Send(c) == /\ Alive(c) /\ conn[c].sent < MaxBytes
           /\ conn' = [conn EXCEPT ![c].sent = @ + 1]
           /\ Registered(c)
Shut(c) == /\ Alive(c)
           /\ conn' = [conn EXCEPT ![c].shut = TRUE]
           /\ Registered(c)
\* Half of the flaky clients do not say goodbye.
Reset(c) == /\ exercise \in Playground /\ conn[c].phase = "open"
            /\ conn' = [conn EXCEPT ![c].phase = "reset"]
            /\ UNCHANGED event
Take(c) == /\ conn[c].phase \in {"open", "closed"} /\ conn[c].taken < Len(conn[c].out)
           /\ conn' = [conn EXCEPT ![c].taken = @ + 1]
           /\ UNCHANGED <<filled, exercise, pc, loc, buf, event>>
Stop == exercise \in Echoes /\ event' = event \cup {"stop"} /\ UNCHANGED conn
Peer == /\ Stop \/ \E c \in Conns : Connect(c) \/ Send(c) \/ Shut(c) \/ Reset(c)
        /\ UNCHANGED <<filled, exercise, pc, loc, buf>>

-----------------------------------------------------------------------------
\* read() of at most n bytes, appended to the buffer; write() of its front.
ReadSome(n) == \E k \in 1..Least(n, Unread(loc)) :
    /\ buf' = buf \o Run(conn[loc].rcvd + 1, conn[loc].rcvd + k)
    /\ conn' = [conn EXCEPT ![loc].rcvd = @ + k]
WriteSome == \E k \in 1..Least(Len(buf), Room(loc)) :
    /\ buf' = SubSeq(buf, k + 1, Len(buf))
    /\ conn' = [conn EXCEPT ![loc].out = @ \o SubSeq(buf, 1, k)]
AtEof == Unread(loc) = 0 /\ conn[loc].shut

Call == /\ filled /\ pc = "user"
        /\ \/ /\ exercise \in {"f2_02", "f2_03", "c2_01"}
              /\ pc' = "write"
              /\ LET done == Len(conn[loc].out)
                 IN \E n \in 0..Least(BUF, MaxBytes - done) : buf' = Run(done + 1, done + n)
           \/ exercise = "f2_03" /\ pc' = "read_full" /\ buf' = << >>
           \/ exercise = "c2_01" /\ pc' = "read_drain" /\ buf' = << >>
        /\ UNCHANGED conn

\* Until all is written, or an error ends it with the rest unwritten; after an
\* error the caller gives the descriptor up.
WriteAll == /\ pc = "write"
            /\ \/ WriteSome /\ UNCHANGED pc
               \/ buf = << >> /\ pc' = "user" /\ UNCHANGED <<buf, conn>>
               \/ buf # << >> /\ pc' = "failed" /\ UNCHANGED <<buf, conn>>

\* Until the buffer is full, the peer has shut down, or an error.
ReadFull == /\ pc = "read_full"
            /\ \/ ReadSome(BUF - Len(buf)) /\ UNCHANGED pc
               \/ Len(buf) = BUF /\ pc' = "full" /\ UNCHANGED <<buf, conn>>
               \/ Len(buf) < BUF /\ AtEof /\ pc' = "short" /\ UNCHANGED <<buf, conn>>
               \/ Len(buf) < BUF /\ pc' = "failed" /\ UNCHANGED <<buf, conn>>

\* Until EAGAIN or the end, however much there is.
ReadDrain == /\ pc = "read_drain"
             /\ \/ ReadSome(BUF) /\ UNCHANGED pc
                \/ Unread(loc) = 0 /\ pc' = "drained" /\ UNCHANGED <<buf, conn>>
                \/ pc' = "failed" /\ UNCHANGED <<buf, conn>>

Return == /\ pc \in {"full", "short", "drained"}
          /\ pc' = "user" /\ buf' = << >>
          /\ UNCHANGED conn

Calls == (Call \/ WriteAll \/ ReadFull \/ ReadDrain \/ Return)
         /\ UNCHANGED <<filled, exercise, loc, event>>

-----------------------------------------------------------------------------
\* The next event: the stop, a waiting connection, a readable one.  An edge
\* is reported once, a level as long as it lasts.
Reported(e, level) == /\ IF exercise = "c2_03" THEN e \in event ELSE level
                      /\ event' = event \ {e}
EpollWait ==
    /\ pc = "epoll_wait"
    /\ \/ "stop" \in event /\ pc' = "returned" /\ UNCHANGED <<loc, event>>
       \/ Reported("listen", Backlog # {}) /\ pc' = "accept" /\ UNCHANGED loc
       \/ \E c \in Conns : /\ conn[c].phase = "open" /\ Reported(c, Readable(c))
                           /\ pc' = "read" /\ loc' = c
    /\ UNCHANGED <<buf, conn>>

\* accept4 until EAGAIN.  A connection that has something to read when it is
\* added is an edge too.
Accept ==
    /\ pc = "accept"
    /\ \/ \E c \in Backlog : /\ conn' = [conn EXCEPT ![c].phase = "open"]
                             /\ IF Readable(c) THEN Edge(c) ELSE UNCHANGED event
                             /\ UNCHANGED pc
       \/ Backlog = {} /\ pc' = "epoll_wait" /\ UNCHANGED <<conn, event>>
    /\ UNCHANGED <<loc, buf>>

\* What was read goes back at once; the end takes the connection off epoll
\* and closes it; EAGAIN ends the loop of the edge-triggered server.
ReadConn ==
    /\ pc = "read"
    /\ \/ ReadSome(BUF) /\ pc' = "echo" /\ UNCHANGED event
       \/ /\ AtEof
          /\ conn' = [conn EXCEPT ![loc].phase = "closed"]
          /\ event' = event \ {loc}
          /\ pc' = "epoll_wait" /\ UNCHANGED buf
       \/ Unread(loc) = 0 /\ ~conn[loc].shut
          /\ pc' = "epoll_wait" /\ UNCHANGED <<buf, conn, event>>
    /\ UNCHANGED loc

\* The level-triggered server reads once for an event, the edge-triggered one
\* until there is nothing left.
Echo ==
    /\ pc = "echo"
    /\ WriteSome
    /\ pc' = IF buf' # << >> THEN "echo"
             ELSE IF exercise = "c2_03" THEN "read" ELSE "epoll_wait"
    /\ UNCHANGED <<loc, event>>

EchoServer == exercise = "c2_02" /\ (EpollWait \/ Accept \/ ReadConn \/ Echo)
EchoServerEt == exercise = "c2_03" /\ (EpollWait \/ Accept \/ ReadConn \/ Echo)

-----------------------------------------------------------------------------
\* A thread of the playground: its calls block, an OSError ends it like the
\* end of the data, and in either case it closes the connection.
Recv(next) == pc = "recv" /\ ReadSome(BUF) /\ pc' = next
Close == /\ \/ pc = "recv" /\ AtEof
            \/ pc = "send" /\ Len(conn[loc].out) = MaxBytes
         /\ conn' = [conn EXCEPT ![loc].phase = "closed"]
OSError == /\ pc \in {"recv", "send", "sendall"} /\ conn[loc].phase = "reset"
           /\ conn' = [conn EXCEPT ![loc].phase = "gone"]
Finally == (Close \/ OSError) /\ pc' = "returned" /\ UNCHANGED buf
Open == conn[loc].phase = "open"

EchoOne == /\ exercise = "echo"
           /\ \/ Open /\ Recv("sendall")
              \/ Open /\ pc = "sendall" /\ WriteSome
                 /\ pc' = IF buf' = << >> THEN "recv" ELSE "sendall"
              \/ Finally
SinkOne == /\ exercise = "sink"
           /\ \/ /\ Open /\ Unread(loc) > 0
                 /\ \E k \in 1..Least(BUF, Unread(loc)) : conn' = [conn EXCEPT ![loc].rcvd = @ + k]
                 /\ UNCHANGED <<pc, buf>>
              \/ Finally
SourceOne == /\ exercise = "source"
             /\ \/ /\ Open /\ pc = "send"
                   /\ LET done == Len(conn[loc].out)
                      IN \E k \in 1..Least(Least(BUF, MaxBytes - done), Room(loc)) :
                           conn' = [conn EXCEPT ![loc].out = Run(1, done + k)]
                   /\ UNCHANGED <<pc, buf>>
                \/ Finally

Server == \/ filled /\ (EchoServer \/ EchoServerEt) /\ UNCHANGED <<filled, exercise>>
          \/ (EchoOne \/ SinkOne \/ SourceOne) /\ UNCHANGED <<filled, exercise, loc, event>>

Next == Calls \/ Server \/ Peer \/ \E c \in Conns : Take(c)
Spec == Init /\ [][Next]_vars /\ WF_vars(Server) /\ \A c \in Conns : WF_vars(Take(c))

-----------------------------------------------------------------------------
TypeOK == /\ filled \in BOOLEAN
          /\ exercise \in Echoes \cup Playground \cup {"f2_02", "f2_03", "c2_01"}
          /\ loc \in Conns
          /\ Len(buf) <= MaxBytes
          /\ \A c \in Conns : /\ conn[c].sent \in 0..MaxBytes
                              /\ conn[c].rcvd \in 0..conn[c].sent
                              /\ conn[c].taken \in 0..Len(conn[c].out)
                              /\ Len(conn[c].out) <= MaxBytes /\ Room(c) >= 0
          /\ event \subseteq Conns \cup {"listen", "stop"}

\* However the kernel cuts it, what is written is the bytes in order, each
\* once, and what is read lies in the buffer in order; an echo is what came
\* in, and a connection is closed only when all of it went back.
InOrder ==
    /\ \A c \in Conns : conn[c].out = Run(1, Len(conn[c].out))
    /\ pc \in {"read_full", "read_drain", "full", "short", "drained"} =>
         buf = Run(conn[loc].rcvd - Len(buf) + 1, conn[loc].rcvd)
    /\ exercise \in Echoes \cup {"echo"} => \A c \in Conns :
         /\ Len(conn[c].out) + (IF c = loc THEN Len(buf) ELSE 0) = conn[c].rcvd
         /\ conn[c].phase = "closed" => conn[c].rcvd = conn[c].sent

\* A short read means the end of the data, and nothing else does.
ShortIsEnd == /\ pc = "short" => AtEof
              /\ pc = "full" => Len(buf) = BUF

\* A client whose bytes have not come back, while nobody stops the server; a
\* peer that has left while the thread still holds the connection.
Waits(c) ==
    \/ /\ filled /\ exercise \in Echoes /\ "stop" \notin event
       /\ Len(conn[c].out) < conn[c].sent
    \/ /\ exercise = "echo" /\ conn[c].phase = "open"
       /\ Len(conn[c].out) < conn[c].sent
    \/ /\ exercise \in Playground
       /\ conn[c].phase = "reset" \/ (conn[c].phase = "open" /\ conn[c].shut)

-----------------------------------------------------------------------------
(***************************************************************************)
(* Why InOrder and ShortIsEnd hold: what is in the buffer while it is      *)
(* written comes right after what went out, whoever filled it, and there   *)
(* is nothing in it when the next bytes of a connection are read.          *)
(***************************************************************************)
Writing == {"write", "echo", "sendall"}
Reading == {"read_full", "read_drain", "full", "short", "drained"}
Resting == {"epoll_wait", "accept", "read", "recv"}
Connections == [phase : {"none", "backlog", "open", "closed", "reset", "gone"}, sent : Nat,
                shut : BOOLEAN, rcvd : Nat, out : Seq(Nat), taken : Nat]

Shaped == buf \in Seq(Nat) /\ conn \in [Conns -> Connections]
Placed == /\ exercise \in Echoes => pc \in {"epoll_wait", "accept", "read", "echo", "returned"}
          /\ exercise = "echo" => pc \in {"recv", "sendall", "returned"}
          /\ exercise = "sink" => pc \in {"recv", "returned"}
          /\ exercise = "source" => pc \in {"send", "returned"}
          /\ exercise \in {"f2_02", "f2_03", "c2_01"} =>
               pc \in {"user", "write", "failed"} \cup Reading
Buffered ==
    LET done == Len(conn[loc].out)
    IN /\ pc \in Writing => /\ buf = Run(done + 1, done + Len(buf))
                            /\ done + Len(buf) <= MaxBytes
       /\ pc \in Reading => Len(buf) <= conn[loc].rcvd
       /\ pc \in Resting => buf = << >>

IInv == TypeOK /\ Shaped /\ Placed /\ Buffered /\ InOrder /\ ShortIsEnd
=============================================================================
