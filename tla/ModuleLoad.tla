----------------------------- MODULE ModuleLoad -----------------------------
(***************************************************************************)
(* insmod and rmmod of every kernel exercise (k1 to k7): what module_init  *)
(* takes, in which order, what it gives back when a step fails, through    *)
(* which doors callers and callbacks then enter the module, and in which   *)
(* order module_exit takes it all down.  An exercise is a row of a table:  *)
(*   init   the resources taken, in order;   exit   released, in order;    *)
(*   gap    those only a filled gap takes or releases;                     *)
(*   undo   a failing step releases the earlier ones;                      *)
(*   makes  what a call through a door leaves in the module;               *)
(*   needs  what the callers and callbacks touch.                          *)
(***************************************************************************)
EXTENDS Naturals, Sequences, FiniteSets

CONSTANTS Actors,   \* processes that open the files, packets, probed calls
          Kworker,  \* the worker of the system workqueue
          Softirq   \* the timer interrupt

VARIABLES exercise, \* the module that is loaded
          filled,   \* its gaps are filled in
          phase,    \* init, undo, failed, live, exit, gone
          at,       \* steps of init or exit already done
          held,     \* what the module owns or has registered
          inside,   \* the door through which an actor entered, or "out"
          queued    \* the work item waits for the worker

vars == <<exercise, filled, phase, at, held, inside, queued>>

Row(init, gap, undo, exit, makes, needs) ==
    [init |-> init, gap |-> gap, undo |-> undo, exit |-> exit,
     makes |-> makes, needs |-> needs]

\* A module whose init is misc_register and whose exit is misc_deregister.
Misc(gap) == Row(<<"misc">>, gap, TRUE, <<"misc">>, {}, {})

CharDev == LET steps == <<"buffer", "region", "cdev", "class", "device">>
           IN  Row(steps, {"buffer", "region", "cdev", "class", "device"}, TRUE,
                   <<"device", "class", "cdev", "region", "buffer">>, {}, {"buffer"})
MiscUpper == Misc({"misc"})
InfoDev == Misc({"misc"})
OpenCount == Misc({"misc"})

MaxTrack == Misc({})
Stack == Row(<<"misc">>, {"nodes"}, TRUE, <<"misc", "nodes">>, {"nodes"}, {})
Queue == Misc({})
Config == Row(<<"cfg", "misc">>, {}, FALSE, <<"misc", "cfg">>, {}, {"cfg"})
PerCpuStatic == Misc({})
SeqPairDev == Misc({})

Work == Row(<<"misc">>, {"misc", "work"}, TRUE, <<"misc", "work">>, {"work"}, {})
Delayed == Row(<<"misc">>, {"misc", "work"}, TRUE, <<"misc", "work">>, {"work"}, {})
\* Slip: the work is waited for while the timer can still queue it again.
TimerDevWorkFirst == Row(<<"timer", "misc">>, {"timer", "misc", "work"}, FALSE,
                         <<"work", "timer", "misc">>, {}, {})
TimerDev == Row(<<"timer", "misc">>, {"timer", "misc", "work"}, FALSE,
                <<"timer", "work", "misc">>, {}, {})
Wake == Row(<<"misc">>, {"misc", "work"}, TRUE, <<"misc", "work">>, {"work"}, {})

Slab == Row(<<"cache", "misc">>, {"cache", "objects"}, FALSE,
            <<"misc", "objects", "cache">>, {"objects"}, {"cache"})
KvBuffer == Row(<<"misc">>, {"kvbuf"}, TRUE, <<"misc", "kvbuf">>, {"kvbuf"}, {})
Page == Row(<<"page", "misc">>, {"page"}, FALSE, <<"misc", "page">>, {}, {"page"})
PerCpuAlloc == Row(<<"percpu", "misc">>, {"percpu"}, FALSE, <<"misc", "percpu">>,
                   {}, {"percpu"})

DebugFs == Row(<<"dir", "counter", "status">>, {"dir", "counter", "status"}, TRUE,
               <<"status", "counter", "dir">>, {}, {})
ProcFs == Row(<<"proc">>, {"nodes"}, TRUE, <<"proc", "nodes">>, {"nodes"}, {})
SysFs == Row(<<"kobject", "attr">>, {}, TRUE, <<"attr", "kobject">>, {}, {"kobject"})
RamFs == Row(<<"fs">>, {}, TRUE, <<"fs">>, {}, {})

Hook == Row(<<"hook">>, {}, TRUE, <<"hook">>, {}, {})
NfDrop == Hook
NfPort == Hook
NfStats == Row(<<"proc", "hook">>, {}, TRUE, <<"hook", "proc">>, {}, {})
NfTtl == Hook

Kprobe == Row(<<"proc", "probe">>, {}, TRUE, <<"probe", "proc">>, {}, {})
KprobeCount == Kprobe
Kretprobe == Kprobe
TracePrintk == Row(<<"proc">>, {}, TRUE, <<"proc">>, {}, {})
KprobeArg == Kprobe

Exercises == {"k1/01", "k1/02", "k1/03", "k1/04", "k2/01", "k2/02", "k2/03", "k2/04",
              "k2/05", "k2/06", "k3/01", "k3/02", "k3/03", "k3/04", "k4/01", "k4/02",
              "k4/03", "k4/04", "k5/01", "k5/02", "k5/03", "k5/04", "k6/01", "k6/02",
              "k6/03", "k6/04", "k7/01", "k7/02", "k7/03", "k7/04"}

Module(e) ==
    CASE e = "k1/01" -> CharDev      [] e = "k1/02" -> MiscUpper
      [] e = "k1/03" -> InfoDev      [] e = "k1/04" -> OpenCount
      [] e = "k2/01" -> MaxTrack     [] e = "k2/02" -> Stack
      [] e = "k2/03" -> Queue        [] e = "k2/04" -> Config
      [] e = "k2/05" -> PerCpuStatic [] e = "k2/06" -> SeqPairDev
      [] e = "k3/01" -> Work         [] e = "k3/02" -> Delayed
      [] e = "k3/03" -> TimerDev     [] e = "k3/04" -> Wake
      [] e = "k4/01" -> Slab         [] e = "k4/02" -> KvBuffer
      [] e = "k4/03" -> Page         [] e = "k4/04" -> PerCpuAlloc
      [] e = "k5/01" -> DebugFs      [] e = "k5/02" -> ProcFs
      [] e = "k5/03" -> SysFs        [] e = "k5/04" -> RamFs
      [] e = "k6/01" -> NfDrop       [] e = "k6/02" -> NfPort
      [] e = "k6/03" -> NfStats      [] e = "k6/04" -> NfTtl
      [] e = "k7/01" -> KprobeCount  [] e = "k7/02" -> Kretprobe
      [] e = "k7/03" -> TracePrintk  [] e = "k7/04" -> KprobeArg

This == Module(exercise)
Stub(r) == ~filled /\ r \in This.gap   \* the step is not there
Needs == IF filled THEN This.needs ELSE This.needs \ This.gap

-----------------------------------------------------------------------------
(* The kernel: a file with .owner = THIS_MODULE, or a mount, pins the      *)
(* module; removing the others waits until nobody is inside.               *)
Pinning == {"device", "misc", "status", "fs"}
Waiting == {"proc", "counter", "attr", "hook", "probe", "timer", "work"}
Doors == Pinning \cup Waiting
Everyone == Actors \cup {Kworker, Softirq}
Inside(r) == {a \in Everyone : inside[a] = r}

Init == /\ exercise \in Exercises
        /\ filled \in BOOLEAN
        /\ phase = "init"
        /\ at = 0
        /\ held = {}
        /\ inside = [a \in Everyone |-> "out"]
        /\ queued = FALSE

\* Only the directory of debugfs is checked: its files may be missing.
Optional == {"counter", "status"}
CannotFail == {"timer"}

Take == /\ phase = "init" /\ at < Len(This.init)
        /\ LET r == This.init[at + 1]
           IN  \/ ~Stub(r) /\ held' = held \cup {r} /\ at' = at + 1 /\ UNCHANGED phase
               \/ /\ Stub(r) \/ r \in Optional
                  /\ at' = at + 1 /\ UNCHANGED <<held, phase>>
               \/ /\ ~Stub(r) /\ r \notin Optional \cup CannotFail
                  /\ phase' = IF This.undo THEN "undo" ELSE "failed"
                  /\ UNCHANGED <<held, at>>
        /\ UNCHANGED <<exercise, filled, inside, queued>>

Ready == /\ phase = "init" /\ at = Len(This.init)
         /\ phase' = "live"
         /\ UNCHANGED <<exercise, filled, at, held, inside, queued>>

\* Removing r: a waiting one returns when nobody is inside, and takes the
\* pending timer or work with it.
Release(r) == \/ Stub(r) /\ UNCHANGED <<held, queued>>
              \/ /\ ~Stub(r) /\ (r \in Waiting => Inside(r) = {})
                 /\ held' = held \ {r}
                 /\ queued' = (queued /\ r # "work")

Undo == /\ phase = "undo"
        /\ IF at = 0 THEN phase' = "failed" /\ UNCHANGED <<at, held, queued>>
                     ELSE Release(This.init[at]) /\ at' = at - 1 /\ UNCHANGED phase
        /\ UNCHANGED <<exercise, filled, inside>>

\* delete_module refuses while a file or a mount pins the module.
Rmmod == /\ phase = "live"
         /\ \A r \in Pinning : Inside(r) = {}
         /\ phase' = "exit" /\ at' = 0
         /\ UNCHANGED <<exercise, filled, held, inside, queued>>

Exit == /\ phase = "exit"
        /\ IF at = Len(This.exit)
           THEN phase' = "gone" /\ UNCHANGED <<at, held, queued>>
           ELSE Release(This.exit[at + 1]) /\ at' = at + 1 /\ UNCHANGED phase
        /\ UNCHANGED <<exercise, filled, inside>>

\* A caller comes in through a door that is open; an unloading module can no
\* longer be pinned.
Enter(a) == /\ inside[a] = "out"
            /\ \E d \in held \cap (Doors \ {"timer", "work"}) :
                  /\ d \in Pinning => phase \in {"init", "live"}
                  /\ inside' = [inside EXCEPT ![a] = d]
            /\ UNCHANGED <<exercise, filled, phase, at, held, queued>>

\* It may leave a node, a buffer or an object behind, or queue the work.
Leave(a) == /\ inside[a] # "out"
            /\ inside' = [inside EXCEPT ![a] = "out"]
            /\ \E made \in IF filled THEN SUBSET This.makes ELSE {{}} :
                  /\ held' = held \cup (made \ {"work"})
                  /\ queued' = (queued \/ "work" \in made)
            /\ UNCHANGED <<exercise, filled, phase, at>>

\* The armed timer fires: it queues the work and arms itself again.
TimerFires == /\ "timer" \in held /\ inside[Softirq] = "out"
              /\ inside' = [inside EXCEPT ![Softirq] = "timer"]
              /\ UNCHANGED <<exercise, filled, phase, at, held, queued>>
TimerEnds == /\ inside[Softirq] = "timer"
             /\ inside' = [inside EXCEPT ![Softirq] = "out"]
             /\ queued' = TRUE
             /\ UNCHANGED <<exercise, filled, phase, at, held>>

WorkStarts == /\ queued /\ inside[Kworker] = "out"
              /\ queued' = FALSE
              /\ inside' = [inside EXCEPT ![Kworker] = "work"]
              /\ UNCHANGED <<exercise, filled, phase, at, held>>
WorkEnds == /\ inside[Kworker] = "work"
            /\ inside' = [inside EXCEPT ![Kworker] = "out"]
            /\ UNCHANGED <<exercise, filled, phase, at, held, queued>>

Loader == Take \/ Ready \/ Undo \/ Exit
Runs == TimerEnds \/ WorkStarts \/ WorkEnds \/ \E a \in Actors : Leave(a)
Next == Loader \/ Runs \/ Rmmod \/ TimerFires \/ \E a \in Actors : Enter(a)
Spec == Init /\ [][Next]_vars

-----------------------------------------------------------------------------
Resources == {"buffer", "region", "cdev", "class", "device", "misc", "nodes", "cfg",
              "timer", "cache", "objects", "kvbuf", "page", "percpu", "dir", "counter",
              "status", "proc", "kobject", "attr", "fs", "hook", "probe"}
Final == {"failed", "gone"}

TypeOK == /\ exercise \in Exercises /\ filled \in BOOLEAN
          /\ phase \in {"init", "undo", "live", "exit"} \cup Final
          /\ at \in 0..5
          /\ held \subseteq Resources
          /\ inside \in [Everyone -> Doors \cup {"out"}]
          /\ queued \in BOOLEAN

\* What a resource is built on must outlive it, and whoever is inside needs
\* the door and what the handlers touch.
BuiltOn(r) == CASE r = "device" -> {"class", "cdev", "region", "buffer"}
                [] r \in {"objects"} -> {"cache"}
                [] r \in {"counter", "status"} -> {"dir"}
                [] r = "attr" -> {"kobject"}
                [] OTHER -> {}
NoUseAfterRelease ==
    /\ \A r \in held : BuiltOn(r) \subseteq held
    /\ \A a \in Everyone \ {Kworker} :
          inside[a] # "out" => {inside[a]} \cup Needs \subseteq held

\* Nothing of an unloaded module runs, waits or stays allocated.  Of one whose
\* init failed nothing runs or waits, and an init that does not roll back leaves
\* memory at most; the exception is TimerDev (k3/03), see FailedRunsNothing.
Silent == ~queued /\ \A a \in Everyone : inside[a] = "out"
Memory == {"cfg", "cache", "page", "percpu"}
NothingLeft ==
    /\ phase = "gone" => held = {} /\ Silent
    /\ phase = "failed" /\ This # TimerDev =>
          held \subseteq (IF This.undo THEN {} ELSE Memory) /\ Silent

\* A module whose init failed runs no more: the course asks init to roll back in
\* reverse order.  k3/03 breaks it: misc_register fails after mod_timer, and the
\* timer goes off in a module that is being freed.
FailedRunsNothing == phase = "failed" => Silent

-----------------------------------------------------------------------------
\* Why they hold: whoever is inside holds a door, a door holds what its handlers
\* need, and the exit has yet to release what is still there or may still come.
Before(s, n) == {s[i] : i \in 1..n}
After(s, n) == {s[i] : i \in (n + 1)..Len(s)}
Runner == queued \/ inside[Kworker] # "out"      \* the work waits or runs
Standing == /\ \A r \in held : BuiltOn(r) \subseteq held
            /\ \A d \in held \cap Doors : Needs \subseteq held
            /\ \A r \in held : ~Stub(r)
Through == \A a \in Everyone : inside[a] # "out" =>
    IF inside[a] = "work" THEN a = Kworker
    ELSE inside[a] \in held /\ a # Kworker /\ (inside[a] = "timer" => a = Softirq)
Known == /\ held \subseteq Before(This.init, Len(This.init)) \cup This.makes
         /\ Runner => filled /\ "work" \in Before(This.exit, Len(This.exit))
Loading == phase \in {"init", "undo"} =>
    /\ at <= Len(This.init)
    /\ \A i \in 1..at : Stub(This.init[i]) \/ This.init[i] \in Optional \cup held
    /\ held \subseteq Before(This.init, at) \cup This.makes
Undoing == /\ phase = "undo" => This.undo /\ at < Len(This.init)
           /\ This # TimerDev /\ (phase = "undo" \/ (phase = "init" /\ at < Len(This.init))) =>
                held \subseteq Before(This.init, at) /\ ~Runner
Leaving == /\ phase \in {"exit", "gone"} => \A a \in Everyone : inside[a] \notin Pinning
           /\ phase = "exit" => /\ at <= Len(This.exit)
                                /\ held \subseteq After(This.exit, at)
                                /\ Runner => "work" \in After(This.exit, at)

IInv == TypeOK /\ Standing /\ Through /\ Known /\ Loading /\ Undoing /\ Leaving /\ NothingLeft
=============================================================================
