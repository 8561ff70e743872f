# TLA+ specifications of the course platform

This directory models the two kinds of program in the repository: the platform,
that is the local course server (`server.py`), the page in the browser
(`web/*.js`) and the scripts (`scripts/`), and the exercise programs under
`content/exercises`, kernel modules and C and C++ programs whose subject is
concurrency, devices and failure. Course texts and quizzes are data.

    tlc -config MentorStream.cfg MentorStream.tla          # model-check
    tlc -config Workbench.cfg Workbench.tla                # all exercise programs
    tlapm WorkbenchProofs.tla                              # check the proofs of one module

## 1. The system

| Component | State | Operations | Talks to |
|---|---|---|---|
| HTTP server (`server.py`: `ThreadingServer`, `Handler`) | one daemon thread per request, nothing shared | `do_GET`, `do_POST`, status endpoints, static files | the page; Ollama; gcc/g++; the QEMU script |
| Exercise runner (`run_exercise`) | a temporary directory, a child process | compile (30 s), run (10 s wall, 10 s CPU), reply | gcc/g++ and the program, which may leave processes behind |
| Kernel module runner (`run_lkm`, `qemu-run-lkm.sh`) | five temporary files, make, qemu | check, mktemp, build, pack, boot (45 s), verdict; 60 s limit of the server | make, QEMU and the guest's serial output |
| Mentor relay (`stream_ollama_chat`) | a connection to Ollama, one to the page | relay chunks as SSE lines, error, `[DONE]` | Ollama, `send()` |
| Mentor panel (`web/ai-chat.js`) | `messages`, `isStreaming` per panel; `track.ai.history.v1` in localStorage | render and restore, send, clear | relay; other panels through localStorage |
| Practice panel (`web/editor.js`) | `prog` per panel; `track.exercises.v1` | render, open an exercise, run, display and mark | both runners; other panels through localStorage |
| Quiz panel (`web/quiz.js`) | the widgets, 600 ms timers; `track.quiz.v1` | load, choose, self-grade, reset | the quiz files; the page |
| Course page (`web/app.js`) | address, toolbar, four panels; `track.progress.v1` | load a module, switch tab, mark as passed | makes the panels above, empties them when a module is left |
| Tools (`qemu-setup.sh`, `.qemu/build-module.sh`, `io-playground.py`) | files in `.qemu`; sockets | set-up; a network peer for module C2 | – |
| Kernel exercises (`k1`–`k7`) | buffers, lists, rings, counters and the locks on them; works, timers, hooks, probes | insmod/rmmod; open, read, write, poll; callbacks of the kernel | callers, kworker, softirqs, the packet path |
| Native exercises (`f1`–`f4`, `el1`, `el2`, `el7`) | the queue of f3/03; else none that outlives a call | put, get; whole reads and writes | threads; pipes |
| C++ exercises (`c1`–`c6`) | atomics, rings in shared memory, heaps, tokens, states | lock-free and locking structures, timers, limits, shutdown, servers | threads, processes, sockets |
| Simulators (`el5`) | flash and sensor registers | bus transfers; the drivers on them | one caller |

What makes it hard:

* **Asynchronous closures.** Everything in the page is a closure that goes on
  after an `await`, and `loadModule` empties panels without stopping the
  closures in them. Late answers, late files, late timers and late panels meet
  a page that has changed. All of them share localStorage, and several write
  back a copy they read long before.
* **A stream cut anywhere.** The relay writes lines; `reader.read()` returns
  whatever batch of them TCP has, half lines included.
* **Time limits around processes.** `subprocess.run` waits for the pipe as well
  as for the child, kills only the child, and kills it with SIGKILL; the script
  has a trap, its own limit and `|| true`.
* **Failure.** Ollama, the server, the page, make, the guest, mktemp and the
  storage fail in the middle of what they do, or never answer.
* **Callers and callbacks at once** (exercises). Readers and writers of a device
  meet the kernel's worker, its timers, packets on another CPU and rmmod; threads
  meet on atomics; a copy from the user stops in the middle; a wakeup comes
  between the look at a condition and the sleep; indices and counters wrap.

What makes each component correct: the page shows a prefix of the answer and the
question ends; histories are bounded, unmixed and in order; only runs that ended
with 0 pass and no run outlives its request; only what the server certified or
the learner earned is stored; what the page shows belongs to one module; no program
of the exercises uses freed memory, loses or doubles what it accepted, tells its
caller a mixture of two states, or leaves somebody asleep who should be woken. The
hazards are listed at their lines in `PROJECT.json`, each with the properties
that watch it.

## 2. The modules

| Module | Models | Its state in the code |
|---|---|---|
| `AnswerChannel` | what the mentor promises for one question (abstract) | pieces written, pieces shown, question open |
| `MentorStream` | `do_POST` for `/api/ai/chat`, `stream_ollama_chat`, `send()` | `srv` place of the thread, `frames` lines written, `rcvd`/`part` what was read and `buf`, `shown` = `fullContent`, `ui` = `isStreaming` and the reader |
| `MentorStreamProofs` | its theorems | – |
| `ChatLog` | what a learner expects of a stored history (abstract) | the log of each module |
| `MentorHistory` (`MCMentorHistory`) | `aiSaveHistory`, `aiLoadHistory`, all panels | `stored` = localStorage, `msgs` = `messages`, `waits` = `isStreaming`; ghosts: `askedIn`, `clearedAt` |
| `MentorHistoryProofs` | its theorems | – |
| `ExerciseRun` | `run_exercise` and `subprocess.run` | `stage` place of the thread, `result`, `tmp`, `job` the child, `heirs` (processes of the program), `wall`; ghosts: `compiled`, `finished` |
| `LkmRun` (`LkmRunProofs`) | `run_lkm`, `check_qemu_status`, `qemu-run-lkm.sh` | `reply` (`raised`: an exception, no answer), `pc`, `trapped`, `files`, `child`, `serial` (what `grep` sees), clocks |
| `Requests` | two threads of `ThreadingServer`, one in each runner | both of the above |
| `Practice` | `renderPracticePanel`, `openExercise`, `displayResult` | `done` = localStorage, `prog`, `editor`, `runs`; ghost: `certified` |
| `QuizPanel` | `renderQuizPanel`, the widgets, the timer, reset | `stored` = localStorage, `opened` = data-loaded, `dom`/`labels`/`answered` = the elements, `timers`, `loads`; ghost: `earned` |
| `CoursePage` (`CoursePageProofs`) | `loadModule`, `switchTab`, `switchToTab`, toolbar, address, with the quiz panel of `QuizPanel` in it | `hash`, `crumbs`, `marked`, `lectures`, `inner` = the module the other lazy tabs were made for, `tab`, `fetches` |

`CoursePage` extends `QuizPanel`: emptying the quiz panel, opening it and its files
and timers are the quiz's own actions, called by the page's where the code calls
them. A quiz link (`Link`) goes through `switchToTab`, which makes the practice panel
again for the module of the *quiz*, and that may be a module already left.

The exercise programs; most of them share one shape: `pc` is the place of each
caller inside its call (`user` outside), `loc` its local variable, `lock` who
holds the mutex or spinlock, `heap` the allocated addresses.

| Module | Models |
|---|---|
| `ModuleLoad` | `module_init` and `module_exit` of all 30 kernel exercises as rows of a table: what is taken, in which order, what a failing step gives back, through which doors callers and callbacks enter, the order of the taking down |
| `BufferDevice` | k1/01, k1/02, k4/02, k4/03: a device that keeps the last text |
| `ListDevice` | k4/01, k5/02: a list of messages, a slab cache, `seq_file` |
| `MaxTrack`, `SpinStack`, `BlockQueue`, `RcuConfig`, `PerCpu`, `SeqPair` | k2/01 to k2/06; `PerCpu` also k4/04, k6/03, k7/01, k7/04 |
| `WorkItem` | a `work_struct` (external); used by the next four |
| `WorkQueue`, `DelayedWork`, `TimerSource`, `Wakeup` | k3/01 to k3/04 |
| `PacketHook`, `Latency` | k6/01, k6/02, k6/04; k7/02 |
| `SpscRing`, `SemQueue`, `CondQueue` | c1/01 and c3/03; c3/06; f3/03 |
| `LockWord`, `Seqlock`, `TreiberStack`, `McsLock` | c1/02 and c3/04; c1/03; c1/05; c1/06 |
| `TimeoutManager`, `Pacing`, `Shutdown` | c4/01; c4/03 and c5/03; c4/04 and c5/04 |
| `ByteStream` | f2/02, f2/03, c2/01 whole reads and writes; c2/02, c2/03 epoll echo servers; `io-playground.py` echo, sink, source and its clients |
| `SpiFlash`, `I2cSensor` | el5/02, el5/01: the simulated device and the driver on it |
| `Workbench` | composes all of them for checking |
| `WorkbenchProofs` | the theorems about all of them |

**Filled or not.** A starter has gaps for the learner. `filled` is chosen in the
initial state: FALSE is the starter as shipped (often a stub that returns
`-ENOSYS` or registers nothing), TRUE the starter with its gaps done as the TODO
comment in it and the `problem.md` beside it prescribe. Both are checked. The two
texts differ in two places:

* c1/03: the starter's reader is a `do`-`while` whose `continue` goes to the test of
  `s1` against the `s2` of the turn before; `problem.md` has a `for (;;)`. `Seqlock`
  has both (`loop`). Only the `for (;;)` reads true, and `Untorn` is claimed for it
  alone; run `seqlock_starter` shows what the other returns.
* c1/06: `problem.md` resets the node's `next` at the head of `lock()`, the sketch in
  the starter leaves it out. `McsLock` has the reset; without it (`LockNoReset`)
  `Exclusive` is violated, since `unlock()` finds the successor of the round before.

**The bench.** The exercises do not interact: the course builds, loads and
tests each by itself. `Workbench` therefore chooses one program per behaviour
(`part`), lends it its variables (`m1` to `m7` are places with a different meaning
for each) and keeps the places it does not use unchanged. Its instances have short
names, since the proofs say them often: `Spin` is `SpinStack`, `Cpu` is `PerCpu`,
`Nf` is `PacketHook` (netfilter), `Net` is `ByteStream`, `Lfs` is the lock-free
`TreiberStack`, and so on in the order of the declarations. Its properties put
together what the programs promise by the kind of the promise:

| Property | Parts |
|---|---|
| `TypeOK` | all |
| `MemorySafe` | no use after free, double free or leak: `SpinStack`, `RcuConfig`, `TreiberStack`, `BufferDevice`, `ListDevice`, `PacketHook` (a write to shared packet bytes), `ModuleLoad` (`NoUseAfterRelease`, `NothingLeft`) |
| `ReadsTrue` | one state, not a mixture, and not older than the call: `SpinStack`, `RcuConfig`, `Seqlock`, `SeqPair`, `BufferDevice`, `WorkQueue`, `DelayedWork`, `TimerSource`; sums and maxima: `MaxTrack`, `PerCpu`, `Latency`; `PacketHook!Verdicts`, `SpiFlash!Kept`, `I2cSensor!OthersKept`, `ByteStream!ShortIsEnd` |
| `NothingLost` | once, in order: the queues, rings and lists, `ByteStream`; `TimeoutManager!LiveKept`, `Shutdown!NoneCutOff`, `Pacing` (`RateHeld`, `NeverLate`), `CondQueue!SleepersServed` |
| `Exclusive` | one holder: `LockWord`, `McsLock` (in order), `Seqlock`, `SeqPair` |
| `EveryWaitEnds` | every wait for a wakeup, flush, grace period or lock and every deferred run |

JavaScript runs a handler to its next `await` without interruption, so one action
is one such stretch; a Python thread is cut where it reads, writes or waits.
`MentorHistory` takes the arrival of an answer as one step, which `MentorStream`
unfolds; `Practice` takes the server's answer as one step, which `ExerciseRun` and
`LkmRun` unfold. In the exercises an action is what lies between two accesses to
shared memory, or a whole stretch under a lock that every access takes;
`copy_to_user` and `copy_from_user` may fault after a part. Memory is sequentially
consistent: what acquire, release and fences add on weaker machines is out.

Definitions marked *Slip* are plausible mistakes that the code does not make (of
`McsLock!LockNoReset`: that `problem.md` does not make). No specification uses them: each property is tried against one of them
(`PROJECT.json`, "mutants") to see that it would be noticed.

Abstractions: a chunk, a message, an exercise is its number or name; the text
of an answer is the list of its chunks' numbers, so that loss, repetition and
order stay visible; time is counted in ticks and only where a limit is compared.

## 3. The runs

Passing runs:

| Run | Bounds | Shows |
|---|---|---|
| `stream` | 3 chunks, reads of up to 3 lines | `ShownIsPrefix`, `StreamShape`, `WholeOnCancel`, `ThreadReleased`; a question ends unless the page swallowed `[DONE]`; the stream implements `AnswerChannel` |
| `history` | 2 modules, 2 panels, limit 3, 3 questions, the storage may refuse | `KeepBound`, `NoCrossTalk`, `AnswerFollowsQuestion`; for a calm learner `CalmClearedStaysClear` and the refinement of `ChatLog` |
| `requests` | in `LkmRun` a tick is 15 s: 60 s are 4, 45 s are 3; in `ExerciseRun` limits of 2 and 1 ticks | `PassMeansZero`, `TrapCleansUp`, `NoEarlyTimeout`, `RunLkmEnds`, `QemuStops` of `LkmRun`; `PassedMeansZero`, `NothingLeft`, `RequestEnds` of `ExerciseRun` |
| `practice` | 2 native and 1 kernel exercise, 2 panels, 2 runs at a time | `DoneIsCertified`; for a patient learner `DoneSticks` |
| `page` | a module with a lecture, a quiz-only and a planned one; a question of each type; 1 lecture and 1 quiz file per module under way | for everybody `StoredIsEarned`, `RightIsLabelled`, `OtherMarksStay`, the tabs' part of `InnerIsOfToolbar`; for a patient learner the rest of it, `LabelIsStored`, `OneModule` |
| `workbench` | per program: 2 callers, 3 at queues and locks, 2 or 3 cells, 2 or 3 messages or texts, counters of 3 or 4 values | `MemorySafe`, `ReadsTrue`, `NothingLost`, `Exclusive`, `EveryWaitEnds` |

Runs that find a disagreement (`PROJECT.json`, "findings"):

| Run | What TLC finds |
|---|---|
| `stream_hang` | `{done}` and `[DONE]` in one read: the inner `break` drops the sentinel, the connection is kept alive, `send()` waits for ever and the answer is not saved |
| `history_cleared` | an answer under way is saved behind the clearing: a history that was cleared holds an answer of before (`Refusals` is FALSE, so that the storage has no part in it) |
| `exercise_heirs` | a program that ended with 0 is a timeout if its child keeps the output open |
| `practice_lkm` | the page does not say which kernel exercise it runs: always `not_found` |
| `module_init` | k3/03: `misc_register` fails after `mod_timer`; the timer goes off in a module whose init has failed |
| `seqlock_starter` | c1/03, the starter's `do`-`while`: a torn pair is returned |

**Calm, patient.** `calm` (`MentorHistory`) and `patient` (`Practice`, `QuizPanel`
with `CoursePage`) are chosen in the initial state and never change. They are
assumptions about the learner (and, for `calm`, the storage), not about the code:
they separate what the code does for somebody who waits for it, and must be right,
from what it does to somebody who does not. A patient learner of the page waits for
the lecture before leaving a module, and for the quiz files under way and the 600 ms
of a label before leaving it or resetting its quiz. Every run has both kinds. A
property claimed for those who wait says nothing of the hazards of the others; this
is what TLC finds when it is stated for everybody:

* `IsChatLog`: panels of one module that wait at the same time overwrite each
  other's messages in localStorage;
* `DoneSticks`: a result that arrives in a panel the learner has left writes an
  old `prog` back and takes away marks made since;
* `LabelIsStored`: after a reset within 600 ms of a right choice the timer labels
  a question of the fresh quiz; a quick change of module does the same, and so does
  the quiz file of a module left long before that arrives within the 600 ms;
* `InnerIsOfToolbar`: the quiz file of a left module fills the panel beside the next
  module's toolbar, and its link opens the left module's exercises;
* `OneModule`: the late lecture stands in the next module's page.

Facts the models contain without a property of their own, because nothing in the
repository promises otherwise:

* with a kernel image but no QEMU installed the script ends with 1 ("test
  failed"), although its header keeps 3 for "QEMU not available" (`|| true` at
  `qemu-run-lkm.sh:115`);
* a `mktemp` that fails (`MktempFails`) ends the script before its trap is set: the
  earlier files stay;
* k2/04, k4/01, k4/03 and k4/04 keep the memory they allocated when the
  registration after it fails, and nothing else (`NothingLeft` says so); k3/03 keeps
  its timer armed, which is the finding of `module_init`: `NothingLeft` leaves out
  this one module after a failed init;
* `run_lkm` catches the time limit only: output that is no UTF-8, a script that may
  not be executed or a text that cannot be written as `module.c` break the
  connection without an answer (`reply` is `raised`; `RunLkmEnds` is about the end
  of the request, with an answer or without);
* k3/01 copies its result without the mutex, so that a read may mix two runs when
  a write comes in between (`FlushedRead` excludes that); in k7/02 return handlers
  that overlap on two CPUs may keep the smaller maximum (`MaxReal`);
* k6/02 reads `block_port` twice per packet; k4/03 reports the whole length of a
  text of which it kept a page; a faulting copy leaves half a new text in the
  devices with one buffer, and several short `read()`s may show two texts
  (`OneText` is about one call with one uninterrupted copy);
* in c4/01 a mark left by cancelling an id that had already fired swallows the
  next timer with this id (outside of the model: the starter rules out a second `add`
  of the id, and so does `Add`); c1/02 lets a thread lose the race for the word again
  and again: it promises exclusion, not that everybody gets the lock.

**The bounds.** Three chunks and reads of three lines contain every way the code
can meet a cut: none, before, inside and behind a line, and a batch with both
closing lines. Two panels and two modules are the least for a stale copy and for
a mix-up, and a third would only repeat what the second does; a limit of 3 is
odd, so that it separates an answer from its question, and three questions with
their answers exceed it. The ratio of ticks in `LkmRun` is that of the code
(60 : 45). Bounds of the models themselves: `MaxChunks`, `MaxLines`, `MaxAsked`,
`MaxRuns`, `MaxLoads`, `MaxFetches`, the size of `Panels`. One file per module under
way is enough for a late one: the file of a module left meets the panel of the next. On the bench: two
callers give each pair of calls in every interleaving; the queues and locks have
three, since with two nobody waits behind a waiter (a lost wakeup of the condition
variable, a successor of a successor in the MCS lock). Three addresses make freed
ones come back while a reader or a grace period still waits. Indices are counted
modulo 3 or 4 with queues of two cells, so that they wrap while the queue is in
use. `CAP` is 2 bytes and a socket holds 1, so that every transfer is partial.
`MaxMsgs`, `MaxSeq`, `MaxAdds`, `MaxCalls`, `MaxWrites`, `MaxTicks`, `MaxReloads`
bound how long callers go on. The theorems of section 4 hold without these values.

**Symmetry** (of modules and panels) is used for the history only, where all
properties are safety properties.

**Fairness.** `MentorStream`: the thread and the page's read loop go on (a
thread is scheduled, a promise is resolved), and 120 s of silence end in
`OllamaFails`; nobody has to ask, reload or stop. `LkmRun`: the script's own
steps, the waiting server and time go on, and `timeout 45` kills QEMU when it is
due; make and the guest may hang for ever. `ExerciseRun`: the thread and time go
on; the tested program has no fairness. `Requests` has both together: each request
ends whatever the other does. `QuizPanel`: timers fire and files
arrive or fail (`CoursePage` takes this over and adds none). `Workbench`: a caller inside a call goes on (a process in the
kernel or a thread at work is scheduled; nobody has to *make* a call), the
kernel's worker, timers and softirqs run, and of `ByteStream` the echo server runs
and its clients read what it sends: the test bench of c2/03 sends and receives at
the same time for this reason (without a reader an echo and its peer wait for each
other, the hazard at `io-playground.py:76`). Fairness is weak
throughout: no lock of the models is fair to somebody who finds it free only now
and then, so `EveryWaitEnds` does not speak of the spinlock of c1/02. The other
modules have no liveness property and no fairness.

**Deadlock.** Runs whose system may stop (a request that was answered, a learner
who leaves, a module that was unloaded, callers that have made their bounded number
of calls) say `CHECK_DEADLOCK FALSE`; a wait that never ends is what the liveness
properties look for.

## 4. The proofs

All proofs are for every value of the constants; the `ASSUME`s on them (a limit
is positive, a bound is a natural number) are evaluated by
TLC in the runs.

**`MentorStreamProofs`** (any number of chunks, reads of any size).
`ShownIsPrefix` is not inductive: it says nothing of the lines that are still in
the connection. `IInv` adds, besides types,

* `Stream`: the lines written are chunks `1 .. produced`, then a closing line
  only in the places of the thread behind it – this is `StreamShape` tied to `srv`;
* `Taken`: the page has taken `rcvd` of these lines, and what it shows are
  exactly the chunks among them;
* `Stop`: when the reader is cancelled, all lines have been taken.

One lemma per group of actions (quiet steps of the thread, steps that append a
line, reads, other steps of the page) proves `IInv` inductive. `TypeCorrect`,
`PrefixCorrect`, `StreamShapeCorrect` and `WholeOnCancelCorrect` follow;
`Refinement` shows with the same invariant that each step is a step of
`AnswerChannel` or stutters.

**`MentorHistoryProofs`** (any modules, panels, limit, number of questions,
storage that may refuse, learner who does not wait). The storage is only as
orderly as the copies that panels save, so `IInv` says of storage *and* copies
that they are `InOrder` (an answer stands behind its question) and `IsOf` their
module, and of each waiting panel (`WaitsOK`) that the question it waits for was
asked in its module and is the last message of its copy, unless the copy was
cleared. `SuffixKeeps` shows that `slice(-40)` keeps both, `QuestionAdded` and
`AnswerAdded` that `push` does, `SaveStep` lifts this to the storage; one lemma
per action follows. `TypeCorrect`, `KeepBoundCorrect`, `NoCrossTalkCorrect` and
`AnswerFollowsQuestionCorrect` are its consequences.

Two more invariants carry what a calm learner gets. `CalmOK` (at most one panel is in use, free ones hold nothing, and after a clearing
neither the storage nor a copy holds anything older) gives `CalmClearedStaysClearCorrect`.
`Agree` (what is stored is the end of the panel's copy, as long as the limit
allows) makes every step one of `ChatLog`: theorem `Refinement`.

**`ExerciseRun`** (any limits). `PassedMeansZero` becomes inductive with
`NoReplyYet`, `StatusOfProgram` (what `subprocess.run` has collected is the
program's own exit status) and `NothingRuns` (no child outlives its place in the
code).

**`LkmRunProofs`** (any limits with 45 s not above 60 s). `Places` says which files
and traps belong to which place of the script; `Clocks` that the time spent is at
most that of the build and the guest, from which `NoEarlyTimeout` follows.

**`Practice`**, **`CoursePageProofs`** (any exercises, modules, panels and bounds).
What is marked was certified because the answers under way were
(`AnswersCertified`); a patient learner's panel knows all marks (`Patience`). Every
step of the page is a step of `QuizPanel` or leaves the quiz alone (`PageIsQuiz`),
so that the quiz's invariant `QuizInv` is shown for the quiz's own steps and holds in
the page. What the quiz labels for a patient learner is stored since one load is under way
(`OneLoad`) and timers run for stored questions only (`TimersOK`); the lecture shown
is the toolbar's since one fetch is under way (`OneFetch`), and a quiz link opens
the toolbar's module since the quiz shown is the toolbar's. Without patience the
theorems promise what holds for everybody: what is stored was earned, and the tabs
made at the page's own clicks are the toolbar's.

**`WorkbenchProofs`** (any number of callers, addresses, texts, ports, ids, any
capacity of a queue, any bound on how long callers go on; no memory model).
Each exercise module ends with its own invariant `IInv` and the reason why its
properties hold; TLC checked each of them before it was proved. The
proofs are about the instances on the bench, so the places `m1` to `m7` get the
names they have in the program at the head of a proof (`DEFINE stack == m1`).
Every program has a lemma `...InitInv`, a lemma `...NextIInv`, which splits `Next` by
its steps, and where a property does not stand in `IInv` itself a lemma `...Safe`.
`IInv` of `WorkbenchProofs` says that the program on the bench keeps its
invariant; theorem `InvariantKept` puts the 28 pairs together. `TypeCorrect`,
`MemorySafeCorrect`, `ReadsTrueCorrect`, `ExclusiveCorrect` and
`NothingLostCorrect` follow: all safety properties of the run `workbench`.

What the invariants add to the properties, by the argument that carries them:

| Argument | Programs |
|---|---|
| A node has one owner: the hand of one caller or one place of the list | `SpinStack`, `ListDevice`, `BufferDevice` (a whole text before it is swapped in; a reader's copy follows the buffer under the mutex) |
| A version is current, or its writer still waits for the readers that hold it (`Grace`); versions do not change while they are in use (`Whole`) | `RcuConfig` |
| What a popping thread looks at is never pushed again, so that its `next` is the one it read (`Looked`: this is the argument against ABA) | `TreiberStack` |
| Whoever is inside holds a door, a door holds what its handlers need (`Standing`, `Through`), and the exit has yet to release what is there (`Leaving`). The rows of the table enter the proof only by what they have in common (`Sound`: init takes a thing after what it is built on, exit releases it before), shown for each row. A failed init is on its way back (`Undoing`) or has left at most silent memory; `TimerDev` (k3/03) is excepted by name | `ModuleLoad` |
| An index that is remembered may be old, but an old head only makes the ring look fuller and an old tail emptier (`Producing`, `Consuming`); every slot is counted once (`Counted`, `Placed`, `Filled`) | `SpscRing`, `SemQueue`, `CondQueue`, `BlockQueue` |
| The first thread of the queue holds the lock or is about to see its flag cleared (`First`); every other has a predecessor that does not know of it until it has linked itself, and spins on a flag that is set (`Others`); the last is in `tail` (`Last`); nobody is there twice (`Once`) | `McsLock` |
| The word is away from 0 while a thread is inside (`Taken`) | `LockWord` |
| The counter is odd while the pair is between two values; a reader that finds the counter it began with has seen no write between (`Seen`) | `Seqlock`, `SeqPair` (whose spinlock lets one writer in) |
| A run that ends has seen all texts that were scheduled, and the work is idle only when none came after that (`Ordered`, `Holds`, `Underway`) | `WorkQueue`, `DelayedWork`, `Wakeup` |
| Nobody has in hand more than has happened | `MaxTrack`, `PerCpu` (the sum over the CPUs lies between the least and the most it has been), `Latency`, `TimerSource` |
| The buffer holds what comes right after what went out (`Buffered`) | `ByteStream` |
| Until its TTL is taken down a packet has the one it came with, wherever its bytes lie (`Intact`) | `PacketHook` |
| An id is in the heap once (`Unique`); what was granted and what is left are never more than the bucket (`Paced`) | `TimeoutManager`, `Pacing` |
| The property keeps itself | `Shutdown`, `SpiFlash`, `I2cSensor` |

The assumption `Constants` of `Workbench` is what these proofs need: callers are
finitely many (`DelayedWork` counts them, a `Cardinality`), `Nil` is
no caller, address or message, a queue has a cell, the indices of `SpscRing` count
modulo a multiple of its capacity that is greater than it (as `unsigned` does with
the power of two the code has), `WATCHDOG_USEC` is not below 2, and the bounds are numbers. The sums
of `PerCpu`, a recursive function, are unfolded and compared by the least CPU for
which they would differ (lemma `Least`, from the library's theorem that a well-founded
relation has minimal elements): induction without an operator as a parameter.

**Only model-checked:** liveness (`SendReturnsUnlessSwallowed`, `ThreadReleased`,
`RunLkmEnds`, `QemuStops`, `RequestEnds`, `RightIsLabelled`, `EveryWaitEnds`),
which the prover does not handle. Every other property of a passing run is proved.

## 5. What is not modelled

* The text of prompts, pages and messages, highlighting, counters, layout, the
  code in the editor and its reset button: no state that a property reads.
* `do_GET`, `do_OPTIONS`, the status endpoints and static files: they keep no
  state; `load_module_text` and `build_system_prompt` format a text.
* Ollama, the compilers, make, the kernel and QEMU: external, they do anything
  they may do (answer, fail, hang). `qemu-setup.sh`: downloads and packing; only
  its effect on `LkmRun` is modelled.
* The highlighted tab button and the scroll position of the page; a full storage
  outside the mentor (the other writers let the exception through).
* Kernel exercises: the handlers that only format a text (k1/03, k1/04, k5/01,
  k5/03, k5/04, k7/03; their loading and unloading is in `ModuleLoad`), and the
  guest's test scripts.
* k4/01's cut of a message at 512 bytes: a message is one value and fits.
* C++ exercises: thin wrappers of one system call (c2/04, c2/05, c2/06, c3/01,
  c3/02, c3/05, c4/05, c4/06, c5/01, c5/02), `Debouncer` (c4/02: one time and one flag of one caller), layouts and
  loops measured for speed (c1/04, c6). c2/06 ignores the result of
  `io_uring_enter`; its ring is the kernel's.
* The epoll servers' reset connections and SIGPIPE: their tests close in order.
* Native exercises: pure functions and tests of one thread (f1, f4, el1, el2, el7,
  f2/01, f2/04 to f2/07, f3/01, f3/04); f3/02 counts under a mutex.
* Weak memory: see section 2.
* Course texts, `MODULE_REVIEW.md`, `web/style.css`, `docker/`: no behaviour.

## 6. Plan

The order was that of importance: the mentor and the runners first, since what
goes wrong there is lost work and hanging pages, then the panels, the exercise
programs and the proofs. What is left:

1. The page has its quiz panel in it; the mentor and the practice panel are left,
   so that `Leave` of these panels is `loadModule` of the page too.
2. Theorems that the actions of the bench refine simpler promises: the queues a
   FIFO, the two stacks a set of owned nodes, the locks a mutex.
3. Acquire and release as views of memory, for `Seqlock` and `SpscRing`.
