------------------------------ MODULE Workbench ------------------------------
(***************************************************************************)
(* All exercise programs on one bench: a behaviour takes one of them,      *)
(* which the course keeps apart too, and runs it to the end.  Every        *)
(* program keeps its own variables; the bench lends them a few of its own  *)
(* (m1 to m7 are free places) and leaves the rest alone.  The properties   *)
(* put together what the programs promise, by the kind of the promise.     *)
(***************************************************************************)
EXTENDS Naturals, FiniteSets

CONSTANTS Procs, Crowd,             \* callers; more of them, for the queues and locks
          Producer, Consumer,       \* the two ends of a queue, both in Procs
          Actors, Kworker, Softirq, Worker,
          Nodes, Nil                \* addresses; nobody, nothing

CONSTANTS W, Deltas, QCAP, MaxMsgs, Values, Boot, MaxSeq, NCpu, MaxAdds,        \* k2, k7
          Durations, MaxActive, MaxCalls, MaxWrites, MaxTicks,                  \* k3, k7
          CAP, Texts, Ports, MaxTtl,                                            \* k1, k4, k6
          Width, M, Ids, Deadlines, Max, Capacity, Rate, Scale, Usec, MaxReloads,
          FLASH_SIZE, Bits                                                      \* el5

ASSUME Constants ==
    /\ Producer \in Procs /\ Consumer \in Procs /\ Producer # Consumer
    /\ IsFiniteSet(Procs) /\ IsFiniteSet(Crowd) /\ Nodes # {}
    /\ Nil \notin Procs /\ Nil \notin Crowd /\ Nil \notin Nodes /\ Nil \notin 1..MaxMsgs
    /\ Kworker \notin Actors /\ Softirq \notin Actors /\ Kworker # Softirq /\ Worker # Nil
    /\ 0 \in Values /\ Boot \in Values /\ 0 \in Ports /\ 0 \notin Texts
    /\ W \in Nat \ {0} /\ QCAP \in Nat \ {0} /\ CAP \in Nat \ {0} /\ M \in Nat \ {0}
    /\ Width \in Nat /\ CAP < Width /\ Width % CAP = 0
    /\ Deltas \subseteq Nat /\ Durations \subseteq Nat
    /\ MaxMsgs \in Nat /\ MaxSeq \in Nat /\ MaxWrites \in Nat /\ MaxTicks \in Nat
    /\ NCpu \in Nat /\ MaxAdds \in Nat /\ MaxCalls \in Nat /\ MaxTtl \in Nat
    /\ MaxActive \in Nat /\ MaxReloads \in Nat
    /\ Capacity \in Nat /\ Scale \in Nat /\ Rate \in Nat \ {0} /\ Usec \in Nat /\ Usec >= 2

VARIABLES part,                     \* the program on the bench
          filled, pc, loc, lock, heap,
          m1, m2, m3, m4, m5, m6, m7

vars == <<part, filled, pc, loc, lock, heap, m1, m2, m3, m4, m5, m6, m7>>

Spin == INSTANCE SpinStack WITH stack <- m1, seen <- m2
Track == INSTANCE MaxTrack WITH old <- m1, counter <- m2, high <- m3, peak <- m4
Block == INSTANCE BlockQueue WITH Procs <- Crowd, slot <- m1, head <- m2,
    tail <- m3, count <- m4, accepted <- m5, taken <- m6
Rcu == INSTANCE RcuConfig WITH current <- m1, name <- m2, value <- m3,
    waits <- m4, copy <- m5
Cpu == INSTANCE PerCpu WITH exercise <- m1, cell <- m2, at <- m3, total <- m4,
    low <- m5, high <- m6
Sql == INSTANCE Seqlock WITH Writers <- {Producer}, seq <- m1, pair <- m2,
    copy <- m3, loop <- m4
Pair == INSTANCE SeqPair WITH seq <- m1, pair <- m2, copy <- m3
Lat == INSTANCE Latency WITH Procs <- Crowd, count <- m1, last <- m2, max <- m3,
    longest <- m4, overlap <- m5
Wq == INSTANCE WorkQueue WITH work <- m1, input <- m2, result <- m3,
    waits <- m4, copy <- m5, sent <- m6
Dw == INSTANCE DelayedWork WITH work <- m1, input <- m2, result <- m3,
    waits <- m4, sent <- m5, delayed <- m6, runs <- m7
Timer == INSTANCE TimerSource WITH seen <- m1, work <- m2, ticks <- m3,
    processed <- m4, softirq <- m5
Waitq == INSTANCE Wakeup WITH work <- m1, input <- m2, result <- m3, ready <- m4,
    waking <- m5, delivered <- m6
Buf == INSTANCE BufferDevice WITH exercise <- m1, cur <- m2, content <- m3,
    len <- m4, got <- m5, pos <- m6, faulted <- m7
List == INSTANCE ListDevice WITH exercise <- m1, list <- m2, got <- m3
Nf == INSTANCE PacketHook WITH exercise <- m1, packet <- m2, skb <- m3,
    clone <- m4, ttl <- m5, port <- m6, verdict <- m7
Load == INSTANCE ModuleLoad WITH held <- heap, exercise <- m1, phase <- m2,
    at <- m3, inside <- m4, queued <- m5
Ring == INSTANCE SpscRing WITH exercise <- m1, slot <- m2, head <- m3, tail <- m4,
    sent <- m5, taken <- m6, got <- m7
Sem == INSTANCE SemQueue WITH empty <- m1, full <- m2, slot <- m3, head <- m4,
    tail <- m5, sent <- m6, taken <- m7
Cond == INSTANCE CondQueue WITH Procs <- Crowd, slot <- m1, head <- m2,
    tail <- m3, count <- m4, sent <- m5, taken <- m6
Lfs == INSTANCE TreiberStack WITH ahead <- m1, next <- m2, rnext <- m3,
    head <- m4, retired <- m5
Mcs == INSTANCE McsLock WITH Procs <- Crowd, next <- m1, locked <- m2, tail <- m3,
    order <- m4
Word == INSTANCE LockWord WITH Procs <- Crowd, exercise <- m1, word <- m2
Heap == INSTANCE TimeoutManager WITH now <- m1, cancelled <- m2, live <- m3
Pace == INSTANCE Pacing WITH exercise <- m1, since <- m2, tokens <- m3,
    pinged <- m4, enabled <- m5, excess <- m6, idle <- m7
Net == INSTANCE ByteStream WITH Conns <- Procs, BUF <- CAP, CAP <- 1, MaxBytes <- MaxMsgs,
    exercise <- m1, buf <- m2, conn <- m3, event <- m4
Srv == INSTANCE Shutdown WITH exercise <- m1, state <- m2, active <- m3,
    reloads <- m4, forced <- m5
Spi == INSTANCE SpiFlash WITH flash <- m1, wel <- m2, promised <- m3,
    enabled <- m4
I2c == INSTANCE I2cSensor WITH initialized <- m1, regs <- m2

-----------------------------------------------------------------------------
\* Places a program does not use hold Nil.
Free7 == m7 = Nil
Free6 == m6 = Nil /\ Free7
Free5 == m5 = Nil /\ Free6
Free4 == m4 = Nil /\ Free5
Free3 == m3 = Nil /\ Free4
Free2 == m2 = Nil /\ Free3
from3 == <<m3, m4, m5, m6, m7>>
from4 == <<m4, m5, m6, m7>>
from5 == <<m5, m6, m7>>
from6 == <<m6, m7>>

Init ==
    \/ part = "SpinStack" /\ Spin!Init
         /\ Free3
    \/ part = "MaxTrack" /\ Track!Init
         /\ lock = Nil /\ heap = Nil /\ Free5
    \/ part = "BlockQueue" /\ Block!Init
         /\ heap = Nil /\ Free7
    \/ part = "RcuConfig" /\ Rcu!Init
         /\ Free6
    \/ part = "PerCpu" /\ Cpu!Init
         /\ pc = Nil /\ loc = Nil /\ lock = Nil /\ heap = Nil /\ Free7
    \/ part = "Seqlock" /\ Sql!Init
         /\ lock = Nil /\ heap = Nil /\ Free5
    \/ part = "SeqPair" /\ Pair!Init
         /\ heap = Nil /\ Free4
    \/ part = "Latency" /\ Lat!Init
         /\ lock = Nil /\ heap = Nil /\ Free6
    \/ part = "WorkQueue" /\ Wq!Init
         /\ filled = TRUE /\ heap = Nil /\ Free7
    \/ part = "DelayedWork" /\ Dw!Init
         /\ filled = TRUE /\ lock = Nil /\ heap = Nil
    \/ part = "TimerSource" /\ Timer!Init
         /\ filled = TRUE /\ lock = Nil /\ heap = Nil /\ Free6
    \/ part = "Wakeup" /\ Waitq!Init
         /\ filled = TRUE /\ loc = Nil /\ lock = Nil /\ heap = Nil /\ Free7
    \/ part = "BufferDevice" /\ Buf!Init
         /\ filled = TRUE
    \/ part = "ListDevice" /\ List!Init
         /\ Free4
    \/ part = "PacketHook" /\ Nf!Init
         /\ lock = Nil /\ heap = Nil
    \/ part = "ModuleLoad" /\ Load!Init
         /\ pc = Nil /\ loc = Nil /\ lock = Nil /\ Free6
    \/ part = "SpscRing" /\ Ring!Init
         /\ lock = Nil /\ heap = Nil
    \/ part = "SemQueue" /\ Sem!Init
         /\ loc = Nil /\ lock = Nil /\ heap = Nil
    \/ part = "CondQueue" /\ Cond!Init
         /\ loc = Nil /\ heap = Nil /\ Free7
    \/ part = "TreiberStack" /\ Lfs!Init
         /\ lock = Nil /\ Free6
    \/ part = "McsLock" /\ Mcs!Init
         /\ lock = Nil /\ heap = Nil /\ Free5
    \/ part = "LockWord" /\ Word!Init
         /\ loc = Nil /\ lock = Nil /\ heap = Nil /\ Free3
    \/ part = "TimeoutManager" /\ Heap!Init
         /\ pc = Nil /\ loc = Nil /\ lock = Nil /\ Free4
    \/ part = "Pacing" /\ Pace!Init
         /\ pc = Nil /\ loc = Nil /\ lock = Nil /\ heap = Nil
    \/ part = "ByteStream" /\ Net!Init
         /\ lock = Nil /\ heap = Nil /\ Free5
    \/ part = "Shutdown" /\ Srv!Init
         /\ pc = Nil /\ loc = Nil /\ lock = Nil /\ heap = Nil /\ Free6
    \/ part = "SpiFlash" /\ Spi!Init
         /\ pc = Nil /\ loc = Nil /\ lock = Nil /\ heap = Nil /\ Free5
    \/ part = "I2cSensor" /\ I2c!Init
         /\ pc = Nil /\ loc = Nil /\ lock = Nil /\ heap = Nil /\ Free3

Next ==
    \/ part = "SpinStack" /\ Spin!Next /\ UNCHANGED <<part, from3>>
    \/ part = "MaxTrack" /\ Track!Next /\ UNCHANGED <<part, lock, heap, from5>>
    \/ part = "BlockQueue" /\ Block!Next /\ UNCHANGED <<part, heap, m7>>
    \/ part = "RcuConfig" /\ Rcu!Next /\ UNCHANGED <<part, from6>>
    \/ part = "PerCpu" /\ Cpu!Next /\ UNCHANGED <<part, pc, loc, lock, heap, m7>>
    \/ part = "Seqlock" /\ Sql!Next /\ UNCHANGED <<part, lock, heap, from5>>
    \/ part = "SeqPair" /\ Pair!Next /\ UNCHANGED <<part, heap, from4>>
    \/ part = "Latency" /\ Lat!Next /\ UNCHANGED <<part, lock, heap, from6>>
    \/ part = "WorkQueue" /\ Wq!Next /\ UNCHANGED <<part, filled, heap, m7>>
    \/ part = "DelayedWork" /\ Dw!Next /\ UNCHANGED <<part, filled, lock, heap>>
    \/ part = "TimerSource" /\ Timer!Next /\ UNCHANGED <<part, filled, lock, heap, from6>>
    \/ part = "Wakeup" /\ Waitq!Next /\ UNCHANGED <<part, filled, loc, lock, heap, m7>>
    \/ part = "BufferDevice" /\ Buf!Next /\ UNCHANGED <<part, filled>>
    \/ part = "ListDevice" /\ List!Next /\ UNCHANGED <<part, from4>>
    \/ part = "PacketHook" /\ Nf!Next /\ UNCHANGED <<part, lock, heap>>
    \/ part = "ModuleLoad" /\ Load!Next /\ UNCHANGED <<part, pc, loc, lock, from6>>
    \/ part = "SpscRing" /\ Ring!Next /\ UNCHANGED <<part, lock, heap>>
    \/ part = "SemQueue" /\ Sem!Next /\ UNCHANGED <<part, loc, lock, heap>>
    \/ part = "CondQueue" /\ Cond!Next /\ UNCHANGED <<part, loc, heap, m7>>
    \/ part = "TreiberStack" /\ Lfs!Next /\ UNCHANGED <<part, lock, from6>>
    \/ part = "McsLock" /\ Mcs!Next /\ UNCHANGED <<part, lock, heap, from5>>
    \/ part = "LockWord" /\ Word!Next /\ UNCHANGED <<part, loc, lock, heap, from3>>
    \/ part = "TimeoutManager" /\ Heap!Next /\ UNCHANGED <<part, pc, loc, lock, from4>>
    \/ part = "Pacing" /\ Pace!Next /\ UNCHANGED <<part, pc, loc, lock, heap>>
    \/ part = "ByteStream" /\ Net!Next /\ UNCHANGED <<part, lock, heap, from5>>
    \/ part = "Shutdown" /\ Srv!Next /\ UNCHANGED <<part, pc, loc, lock, heap, from6>>
    \/ part = "SpiFlash" /\ Spi!Next /\ UNCHANGED <<part, pc, loc, lock, heap, from5>>
    \/ part = "I2cSensor" /\ I2c!Next /\ UNCHANGED <<part, pc, loc, lock, heap, from3>>

\* The scheduler lets every caller inside a call go on, the kernel's worker,
\* its timers and its softirqs run, and so does the echo server; its clients
\* read what it sends.
Step(p) ==
    /\ \/ part = "BlockQueue" /\ Block!Step(p)
       \/ part = "RcuConfig" /\ p \in Procs /\ Rcu!Step(p)
       \/ part = "WorkQueue" /\ p \in Procs /\ Wq!Step(p)
       \/ part = "DelayedWork" /\ p \in Procs /\ Dw!Step(p)
       \/ part = "Wakeup" /\ p \in Procs /\ Waitq!Step(p)
       \/ part = "SemQueue" /\ p \in Procs /\ Sem!Step(p)
       \/ part = "McsLock" /\ Mcs!Step(p)
       \/ part = "LockWord" /\ Word!Step(p)
       \/ part = "ByteStream" /\ p \in Procs /\ Net!Take(p)
    /\ Next
Kernel ==
    /\ \/ part = "WorkQueue" /\ Wq!WorkFn
       \/ part = "DelayedWork" /\ Dw!Kernel
       \/ part = "TimerSource" /\ Timer!Kernel
       \/ part = "Wakeup" /\ Waitq!WorkFn
       \/ part = "ByteStream" /\ Net!Server
    /\ Next
Spec == Init /\ [][Next]_vars /\ WF_vars(Kernel) /\ \A p \in Crowd : WF_vars(Step(p))

-----------------------------------------------------------------------------
\* The types of every program's state.
TypeOK ==
    /\ part = "SpinStack" => Spin!TypeOK
    /\ part = "MaxTrack" => Track!TypeOK
    /\ part = "BlockQueue" => Block!TypeOK
    /\ part = "RcuConfig" => Rcu!TypeOK
    /\ part = "PerCpu" => Cpu!TypeOK
    /\ part = "Seqlock" => Sql!TypeOK
    /\ part = "Latency" => Lat!TypeOK
    /\ part = "WorkQueue" => Wq!TypeOK
    /\ part = "DelayedWork" => Dw!TypeOK
    /\ part = "TimerSource" => Timer!TypeOK
    /\ part = "Wakeup" => Waitq!TypeOK
    /\ part = "BufferDevice" => Buf!TypeOK
    /\ part = "ListDevice" => List!TypeOK
    /\ part = "PacketHook" => Nf!TypeOK
    /\ part = "ModuleLoad" => Load!TypeOK
    /\ part = "SpscRing" => Ring!TypeOK
    /\ part = "SemQueue" => Sem!TypeOK
    /\ part = "CondQueue" => Cond!TypeOK
    /\ part = "TreiberStack" => Lfs!TypeOK
    /\ part = "McsLock" => Mcs!TypeOK
    /\ part = "LockWord" => Word!TypeOK
    /\ part = "TimeoutManager" => Heap!TypeOK
    /\ part = "Pacing" => Pace!TypeOK
    /\ part = "Shutdown" => Srv!TypeOK
    /\ part = "ByteStream" => Net!TypeOK
    /\ part = "SpiFlash" => Spi!TypeOK
    /\ part = "I2cSensor" => I2c!TypeOK
    /\ part = "SeqPair" => Pair!L!TypeOK /\ lock \in Procs \cup {Nil}

\* Memory and registrations: nothing is used after it was freed or removed,
\* freed twice or handed to two owners, and what the program took is given
\* back, whatever the callers, callbacks and the unloading do at once.
MemorySafe ==
    /\ part = "SpinStack" => Spin!MemorySafe
    /\ part = "RcuConfig" => Rcu!MemorySafe
    /\ part = "BufferDevice" => Buf!MemorySafe
    /\ part = "ListDevice" => List!MemorySafe
    /\ part = "PacketHook" => Nf!MemorySafe
    /\ part = "TreiberStack" => Lfs!MemorySafe
    /\ part = "ModuleLoad" => Load!NoUseAfterRelease /\ Load!NothingLeft

\* What a caller is told was true: a read shows one state, not a mixture, and
\* none older than what had returned before the call; the maximum, the sums
\* over the CPUs and the verdicts on packets come out right; a device holds
\* what it was told to hold.
ReadsTrue ==
    /\ part = "SpinStack" => Spin!ReadsSnapshot
    /\ part = "RcuConfig" => Rcu!Untorn
    /\ part = "Seqlock" => Sql!Untorn
    /\ part = "SeqPair" => Pair!Untorn
    /\ part = "MaxTrack" => Track!MaxKept /\ Track!PrintedMax
    /\ part = "PerCpu" => Cpu!ReadInWindow
    /\ part = "Latency" => Lat!MaxReal
    /\ part = "WorkQueue" => Wq!FlushedRead
    /\ part = "DelayedWork" => Dw!FlushedRead
    /\ part = "TimerSource" => Timer!NeverAhead
    /\ part = "BufferDevice" => Buf!OneText
    /\ part = "PacketHook" => Nf!Verdicts
    /\ part = "SpiFlash" => Spi!Kept
    /\ part = "I2cSensor" => I2c!OthersKept
    /\ part = "ByteStream" => Net!ShortIsEnd

\* What was accepted is delivered: once, in order, and to somebody who is
\* awake; no timer, request or rate that was granted is lost or doubled.
NothingLost ==
    /\ part = "BlockQueue" => Block!Fifo
    /\ part = "ListDevice" => List!InOrder
    /\ part = "Wakeup" => Waitq!Delivered
    /\ part = "SpscRing" => Ring!InOrder
    /\ part = "SemQueue" => Sem!InOrder
    /\ part = "CondQueue" => Cond!InOrder /\ Cond!SleepersServed
    /\ part = "TimeoutManager" => Heap!LiveKept
    /\ part = "Shutdown" => Srv!NoneCutOff
    /\ part = "ByteStream" => Net!InOrder
    /\ part = "Pacing" => Pace!RateHeld /\ Pace!NeverLate

\* Locks: one holder at a time, in the order of a fair lock where the lock is
\* fair, and no sleeper forgotten on a free one.
Exclusive ==
    /\ part = "Seqlock" => Sql!OddWhileWriting
    /\ part = "SeqPair" => Pair!OneWriter
    /\ part = "McsLock" => Mcs!InOrder
    /\ part = "LockWord" => Word!Exclusive /\ Word!NoneForgotten

Waits(p) ==
    \/ part = "BlockQueue" /\ Block!Waits(p)
    \/ part = "RcuConfig" /\ p \in Procs /\ Rcu!Waits(p)
    \/ part = "WorkQueue" /\ p \in Procs /\ Wq!Waits(p)
    \/ part = "DelayedWork" /\ p \in Procs /\ Dw!Waits(p)
    \/ part = "Wakeup" /\ p \in Procs /\ Waitq!Waits(p)
    \/ part = "SemQueue" /\ p \in Procs /\ Sem!Waits(p)
    \/ part = "McsLock" /\ Mcs!Waits(p)
    \/ part = "LockWord" /\ Word!Waits(p)
    \/ part = "ByteStream" /\ p \in Procs /\ Net!Waits(p)
Lags(n) ==
    \/ part = "DelayedWork" /\ n <= MaxWrites /\ Dw!Lags(n)
    \/ part = "TimerSource" /\ Timer!Lags(n)

\* No wakeup, flush, grace period, turn at a lock or deferred run is lost: who
\* waits for what is there, or sure to come, does not wait for ever.
EveryWaitEnds == /\ \A p \in Crowd : Waits(p) ~> ~Waits(p)
                 /\ \A n \in 1..MaxTicks : Lags(n) ~> ~Lags(n)
=============================================================================
