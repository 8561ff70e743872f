------------------------------- MODULE LkmRun -------------------------------
(***************************************************************************)
(* One test of a kernel module: scripts/qemu-run-lkm.sh builds it, boots   *)
(* QEMU with it and reads the verdict off the serial output.  The script   *)
(* is started by run_lkm of server.py, which kills it with SIGKILL after   *)
(* ServerLimit, or from a shell.  SIGKILL reaches the script only: its     *)
(* trap does not run, and the make or qemu it was waiting for goes on.     *)
(* A definition marked Slip is a mistake the code does not make.           *)
(***************************************************************************)
EXTENDS Naturals, Sequences

CONSTANTS
  ServerLimit,   \* timeout=60 of run_lkm, in ticks
  QemuLimit      \* the timeout 45 of the script, in ticks

ASSUME LimitsAssumption == ServerLimit \in Nat /\ QemuLimit \in 1 .. ServerLimit

VARIABLES
  caller,     \* who started the script: "nobody" yet, the "server", a "shell"
  reply,      \* what run_lkm returned: "none" while it has not; "raised" stands
              \* for an exception, which ends do_POST without an answer
  binary,     \* qemu-system-x86_64 is installed
  kernel,     \* bzImage and initrd.img are in .qemu
  pc,         \* where the script is
  code,       \* its exit code, once it has exited
  trapped,    \* the EXIT trap is set
  files,      \* its temporary files and directories that exist
  child,      \* the program it started that still runs
  serial,     \* the exit code of the test, as QEMU_OUT shows it
  spent,      \* ticks since the script was started
  built,      \* ticks that had passed when make ended
  guest       \* ticks since qemu was started

call   == <<caller, reply>>
qemu   == <<binary, kernel>>
clocks == <<spent, built, guest>>
vars   == <<caller, reply, binary, kernel, pc, code, trapped, files, child,
            serial, spent, built, guest>>

\* The five mktemp calls; "cpio" and "img" are the names with a suffix added.
Mktemps == <<"build_dir", "extra_dir", "out", "cpio_mktemp", "img_mktemp">>
Placeholders == {"cpio_mktemp", "img_mktemp"}
Temps == {Mktemps[i] : i \in DOMAIN Mktemps} \cup {"cpio", "img"}

Replies == {"none", "qemu_unavailable", "not_found", "timeout", "passed", "failed",
            "raised"}
ScriptPc == {"off", "check", "mktemp", "build", "pack", "boot", "verdict",
             "exited", "killed"}

Init == /\ caller = "nobody" /\ reply = "none"
        /\ binary \in BOOLEAN /\ kernel \in BOOLEAN
        /\ pc = "off" /\ code = 0 /\ trapped = FALSE /\ files = {}
        /\ child = "none" /\ serial = "none"
        /\ spent = 0 /\ built = 0 /\ guest = 0

-----------------------------------------------------------------------------
(* Who starts the script. *)

\* check_qemu_status and the test for qemu_test.sh come first.
ServerRefuses == /\ caller = "nobody"
                 /\ caller' = "server"
                 /\ reply' = IF binary /\ kernel THEN "not_found" ELSE "qemu_unavailable"
                 /\ UNCHANGED <<qemu, pc, code, trapped, files, child, serial, clocks>>

ServerStarts == /\ caller = "nobody"
                /\ binary /\ kernel
                /\ caller' = "server"
                /\ pc' = "check"
                /\ UNCHANGED <<reply, qemu, code, trapped, files, child, serial, clocks>>

\* The text cannot be written as module.c, or the script is not executable:
\* the exception leaves the with block, run_lkm and do_POST.
ServerCannotStart == /\ caller = "nobody"
                     /\ binary /\ kernel
                     /\ caller' = "server"
                     /\ reply' = "raised"
                     /\ UNCHANGED <<qemu, pc, code, trapped, files, child, serial, clocks>>

ShellStarts == /\ caller = "nobody"
               /\ caller' = "shell"
               /\ pc' = "check"
               /\ UNCHANGED <<reply, qemu, code, trapped, files, child, serial, clocks>>

\* The run before this one is over; its leftovers are not this one's.
NextRun == /\ pc \in {"off", "exited", "killed"} /\ child = "none"
           /\ caller = "server" => reply # "none"
           /\ caller # "nobody"
           /\ caller' = "nobody" /\ reply' = "none"
           /\ pc' = "off" /\ code' = 0 /\ trapped' = FALSE /\ files' = {}
           /\ serial' = "none" /\ spent' = 0 /\ built' = 0 /\ guest' = 0
           /\ UNCHANGED <<qemu, child>>

\* qemu-setup.sh is run, or QEMU is removed, at any moment.
Reinstall == /\ binary' \in BOOLEAN /\ kernel' \in BOOLEAN
             /\ qemu' # qemu
             /\ UNCHANGED <<call, pc, code, trapped, files, child, serial, clocks>>

-----------------------------------------------------------------------------
(* The script. *)

\* Leaving the script runs the trap if it is set; the trap names the files
\* with their suffixes, not the ones mktemp made to get the names.
Exit(c) == /\ pc' = "exited"
           /\ code' = c
           /\ files' = IF trapped THEN files \ (Temps \ Placeholders) ELSE files

NoArguments == /\ pc = "check" /\ caller = "shell"
               /\ Exit(1)
               /\ UNCHANGED <<call, qemu, trapped, child, serial, clocks>>

NoKernel == /\ pc = "check" /\ ~kernel
            /\ Exit(3)
            /\ UNCHANGED <<call, qemu, trapped, child, serial, clocks>>

Check == /\ pc = "check" /\ kernel
         /\ pc' = "mktemp"
         /\ UNCHANGED <<call, qemu, code, trapped, files, child, serial, clocks>>

\* Slip: the trap is set after the build.
MktempNoTrap == /\ pc = "mktemp"
                /\ files' = {Mktemps[i] : i \in DOMAIN Mktemps}
                /\ pc' = "build" /\ child' = "make"
                /\ UNCHANGED <<call, qemu, code, trapped, serial, clocks>>

Mktemp == /\ pc = "mktemp"
          /\ files' = {Mktemps[i] : i \in DOMAIN Mktemps}
          /\ trapped' = TRUE
          /\ pc' = "build" /\ child' = "make"
          /\ UNCHANGED <<call, qemu, code, serial, clocks>>

\* set -e ends the script at the mktemp that fails, before the trap.
MktempFails == /\ pc = "mktemp"
               /\ \E n \in DOMAIN Mktemps :
                    /\ files' = {Mktemps[i] : i \in 1 .. n - 1}
                    /\ pc' = "exited" /\ code' = 1
               /\ UNCHANGED <<call, qemu, trapped, child, serial, clocks>>

\* The module's source is not there: cp fails, and the trap runs.
CopyFails == /\ pc = "mktemp"
             /\ files' = Placeholders
             /\ trapped' = TRUE
             /\ pc' = "exited" /\ code' = 1
             /\ UNCHANGED <<call, qemu, child, serial, clocks>>

MakeOk == /\ pc = "build" /\ child = "make"
          /\ child' = "none" /\ built' = spent
          /\ pc' = "pack"
          /\ UNCHANGED <<call, qemu, code, trapped, files, serial, spent, guest>>

\* make fails, or leaves no cppmod.ko.
MakeFails == /\ pc = "build" /\ child = "make"
             /\ child' = "none" /\ built' = spent
             /\ Exit(2)
             /\ UNCHANGED <<call, qemu, trapped, serial, spent, guest>>

\* The second initramfs and its concatenation, then qemu under timeout.
Pack == /\ pc = "pack"
        /\ files' = files \cup {"cpio", "img"}
        /\ pc' = "boot"
        /\ child' = IF binary THEN "qemu" ELSE "none"
        /\ guest' = 0
        /\ UNCHANGED <<call, qemu, code, trapped, serial, spent, built>>

PackFails == /\ pc = "pack"
             /\ Exit(1)
             /\ UNCHANGED <<call, qemu, trapped, child, serial, clocks>>

\* The line __TEST_EXIT_CODE__ of the guest's /init.
GuestPrints == /\ child = "qemu" /\ serial = "none"
               /\ serial' \in {"zero", "nonzero"}
               /\ UNCHANGED <<call, qemu, pc, code, trapped, files, child, clocks>>

\* poweroff, a crash of QEMU, or no start; timeout 45 allows no more ticks.
QemuEnds == /\ child = "qemu"
            /\ child' = "none"
            /\ UNCHANGED <<call, qemu, pc, code, trapped, files, serial, clocks>>

\* || true: whatever qemu returned.
AfterQemu == /\ pc = "boot" /\ child = "none"
             /\ pc' = "verdict"
             /\ UNCHANGED <<call, qemu, code, trapped, files, child, serial, clocks>>

\* Slips: the script ends with the code of the guest; grep looks for the
\* marker, not for its code.
VerdictOfGuest == /\ pc = "verdict"
                  /\ Exit(IF serial = "zero" THEN 0 ELSE 127)
                  /\ UNCHANGED <<call, qemu, trapped, child, serial, clocks>>
VerdictAnyCode == /\ pc = "verdict"
                  /\ Exit(IF serial # "none" THEN 0 ELSE 1)
                  /\ UNCHANGED <<call, qemu, trapped, child, serial, clocks>>

Verdict == /\ pc = "verdict"
           /\ Exit(IF serial = "zero" THEN 0 ELSE 1)
           /\ UNCHANGED <<call, qemu, trapped, child, serial, clocks>>

\* A make that its script no longer waits for.
OrphanMakeEnds == /\ pc = "killed" /\ child = "make"
                  /\ child' = "none"
                  /\ UNCHANGED <<call, qemu, pc, code, trapped, files, serial, clocks>>

-----------------------------------------------------------------------------
(* The server waits, and time passes. *)

ServerReaps == /\ caller = "server" /\ reply = "none" /\ pc = "exited"
               /\ reply' = IF code = 0 THEN "passed" ELSE "failed"
               /\ UNCHANGED <<caller, qemu, pc, code, trapped, files, child, serial, clocks>>

\* text=True: what make or the guest printed is no UTF-8.  Whatever the code of
\* the script, the exception takes the place of the answer.
ServerCannotDecode ==
  /\ caller = "server" /\ reply = "none" /\ pc = "exited" /\ trapped
  /\ reply' = "raised"
  /\ UNCHANGED <<caller, qemu, pc, code, trapped, files, child, serial, clocks>>

Running == pc \notin {"off", "exited", "killed"}

\* Slip: the limit covers qemu only.
ServerTimeoutGuestOnly ==
  /\ caller = "server" /\ reply = "none"
  /\ spent = ServerLimit /\ pc = "boot"
  /\ reply' = "timeout"
  /\ pc' = "killed"
  /\ UNCHANGED <<caller, qemu, code, trapped, files, child, serial, clocks>>

ServerTimeout == /\ caller = "server" /\ reply = "none"
                 /\ spent = ServerLimit /\ Running
                 /\ reply' = "timeout"
                 /\ pc' = "killed"
                 /\ UNCHANGED <<caller, qemu, code, trapped, files, child, serial, clocks>>

\* Slips: the script allows qemu a tick more; it runs qemu without timeout.
QemuDueLate == child = "qemu" /\ guest > QemuLimit
NeverDue == FALSE

QemuDue == child = "qemu" /\ guest = QemuLimit
ServerDue == caller = "server" /\ reply = "none" /\ spent = ServerLimit

\* A tick of time waits for a timeout that is due, and for the script's own
\* short steps; make and the guest may take as long as they like.
Tick == /\ pc \in {"build", "boot", "killed"} /\ child # "none"
        /\ ~QemuDue /\ ~ServerDue
        /\ spent' = IF spent < ServerLimit THEN spent + 1 ELSE spent
        /\ guest' = IF child = "qemu" /\ guest <= QemuLimit THEN guest + 1 ELSE guest
        /\ UNCHANGED <<call, qemu, pc, code, trapped, files, child, serial, built>>

-----------------------------------------------------------------------------
Script == \/ Check \/ NoArguments \/ NoKernel
          \/ Mktemp \/ MktempFails \/ CopyFails \/ Pack \/ PackFails
          \/ AfterQemu \/ Verdict

Server == ServerReaps \/ ServerCannotDecode \/ ServerTimeout

Next == \/ ServerRefuses \/ ServerStarts \/ ServerCannotStart \/ ShellStarts
        \/ NextRun \/ Reinstall
        \/ Script \/ MakeOk \/ MakeFails \/ OrphanMakeEnds
        \/ GuestPrints \/ QemuEnds \/ Server \/ Tick

Spec == Init /\ [][Next]_vars

\* Time, the script and the server go on, and timeout 45 ends qemu when its
\* time is up.  Nothing makes make or the guest finish earlier, or at all.
Fairness == /\ WF_vars(Script) /\ WF_vars(Server) /\ WF_vars(Tick)
            /\ WF_vars(QemuDue /\ QemuEnds)

-----------------------------------------------------------------------------
(* Types. *)
TypeOK == /\ caller \in {"nobody", "server", "shell"} /\ reply \in Replies
          /\ binary \in BOOLEAN /\ kernel \in BOOLEAN
          /\ pc \in ScriptPc /\ code \in 0 .. 3 /\ trapped \in BOOLEAN
          /\ files \subseteq Temps /\ child \in {"none", "make", "qemu"}
          /\ serial \in {"none", "zero", "nonzero"}
          /\ spent \in 0 .. ServerLimit /\ built \in 0 .. ServerLimit
          /\ guest \in 0 .. QemuLimit + 1

(* A run counts as passed only if the test itself ended with 0 in the guest: *)
(* no failure of the build, of QEMU or of a timeout turns into a pass.       *)
PassMeansZero == (pc = "exited" /\ code = 0) \/ reply = "passed" => serial = "zero"

(* However the script ends once it made its last temporary file, the build   *)
(* tree and the two images go; all that stays is the pair of files mktemp    *)
(* made for the names of the images.                                         *)
TrapCleansUp == pc = "exited" /\ "img_mktemp" \in files => files = Placeholders

(* The two limits fit together: the server's limit strikes a run whose guest *)
(* has started only if the build took the time the limits leave for it.      *)
NoEarlyTimeout == reply = "timeout" /\ "img" \in files
                    => built >= ServerLimit - QemuLimit

(* run_lkm ends, with an answer or with an exception that breaks the         *)
(* connection, even when make or the guest hangs.                            *)
RunLkmEnds == (caller = "server") ~> (caller = "server" => reply # "none")

(* A guest is stopped, also the one of a script that was killed. *)
QemuStops == (child = "qemu") ~> (child # "qemu")
=============================================================================
