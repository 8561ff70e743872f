---------------------------- MODULE LkmRunProofs ----------------------------
(***************************************************************************)
(* Proofs about LkmRun, for any two limits of which the script's is not    *)
(* the larger.  Places ties the temporary files to where the script is:    *)
(* from the last mktemp on the trap is set and the two placeholders exist, *)
(* and there is no image before the packing.  Clocks ties the script's     *)
(* time to that of its parts: behind make, all of it went into the guest,  *)
(* and timeout 45 allows the guest no more than its limit.                 *)
(***************************************************************************)
EXTENDS LkmRun, TLAPS

Places == /\ caller = "nobody" => pc = "off" /\ reply = "none"
          /\ pc \in {"off", "check", "mktemp"} => files = {}
          /\ pc \in {"build", "pack"} => "img" \notin files
          /\ pc \in {"build", "pack", "boot", "verdict"} =>
               trapped /\ Placeholders \subseteq files
          /\ reply = "timeout" => pc = "killed"

Clocks == /\ guest <= QemuLimit
          /\ pc = "pack" => spent = built
          /\ pc = "boot" => child # "make"
          /\ pc \in {"boot", "verdict"} => spent <= built + guest

IInv == /\ TypeOK /\ PassMeansZero /\ TrapCleansUp /\ NoEarlyTimeout
        /\ Places /\ Clocks

USE LimitsAssumption

-----------------------------------------------------------------------------
\* The names that mktemp makes, one after the other.
LEMMA MktempNames ==
  /\ DOMAIN Mktemps = 1 .. 5
  /\ {Mktemps[i] : i \in DOMAIN Mktemps} =
       {"build_dir", "extra_dir", "out", "cpio_mktemp", "img_mktemp"}
  /\ \A n \in 1 .. 5 : {Mktemps[i] : i \in 1 .. n - 1} \subseteq
       {"build_dir", "extra_dir", "out", "cpio_mktemp"}
<1>1. DOMAIN Mktemps = 1 .. 5
  BY DEF Mktemps
<1>2. /\ Mktemps[1] = "build_dir" /\ Mktemps[2] = "extra_dir" /\ Mktemps[3] = "out"
      /\ Mktemps[4] = "cpio_mktemp" /\ Mktemps[5] = "img_mktemp"
  BY DEF Mktemps
<1>3. \A i \in 1 .. 5 : i = 1 \/ i = 2 \/ i = 3 \/ i = 4 \/ i = 5
  OBVIOUS
<1>4. {Mktemps[i] : i \in 1 .. 5} =
        {"build_dir", "extra_dir", "out", "cpio_mktemp", "img_mktemp"}
  BY <1>2, <1>3
<1>5. ASSUME NEW n \in 1 .. 5, NEW i \in 1 .. n - 1
      PROVE  Mktemps[i] \in {"build_dir", "extra_dir", "out", "cpio_mktemp"}
  <2>1. i = 1 \/ i = 2 \/ i = 3 \/ i = 4
    OBVIOUS
  <2>2. QED
    BY <1>2, <2>1
<1>6. QED
  BY <1>1, <1>4, <1>5

LEMMA TempNames ==
  Temps = {"build_dir", "extra_dir", "out", "cpio_mktemp", "img_mktemp", "cpio", "img"}
BY MktempNames DEF Temps

LEMMA InitIInv == Init => IInv
<1> SUFFICES ASSUME Init PROVE IInv
  OBVIOUS
<1>1. 0 \in 0 .. ServerLimit /\ 0 \in 0 .. QemuLimit + 1 /\ 0 \in 0 .. 3 /\ 0 <= QemuLimit
  OBVIOUS
<1>2. TypeOK
  BY <1>1, Zenon DEF Init, TypeOK, Replies, ScriptPc
<1>3. PassMeansZero /\ TrapCleansUp /\ NoEarlyTimeout /\ Places
  BY DEF Init, PassMeansZero, TrapCleansUp, NoEarlyTimeout, Places
<1>4. Clocks
  BY <1>1 DEF Init, Clocks
<1>5. QED
  BY <1>2, <1>3, <1>4 DEF IInv

-----------------------------------------------------------------------------
\* The callers, and the reinstallation of QEMU.
LEMMA CallerStep ==
  ASSUME IInv, \/ ServerRefuses \/ ServerStarts \/ ServerCannotStart
               \/ ShellStarts \/ Reinstall
  PROVE  IInv'
<1> USE DEF IInv, call, qemu, clocks
<1>1. TypeOK'
  BY Zenon DEF TypeOK, Replies, ScriptPc, ServerRefuses, ServerStarts,
               ServerCannotStart, ShellStarts, Reinstall
<1>2. PassMeansZero' /\ TrapCleansUp'
  BY DEF PassMeansZero, TrapCleansUp, Places, ServerRefuses, ServerStarts,
         ServerCannotStart, ShellStarts, Reinstall
<1>3. NoEarlyTimeout' /\ Places'
  BY DEF NoEarlyTimeout, Places, ServerRefuses, ServerStarts, ServerCannotStart,
         ShellStarts, Reinstall
<1>4. Clocks'
  BY DEF Clocks, Places, ServerRefuses, ServerStarts, ServerCannotStart, ShellStarts,
         Reinstall
<1>5. QED
  BY <1>1, <1>2, <1>3, <1>4

LEMMA NextRunStep == ASSUME IInv, NextRun PROVE IInv'
<1> USE DEF IInv, qemu
<1>1. 0 \in 0 .. ServerLimit /\ 0 \in 0 .. QemuLimit + 1 /\ 0 \in 0 .. 3 /\ 0 <= QemuLimit
  OBVIOUS
<1>2. TypeOK'
  BY <1>1, Zenon DEF TypeOK, Replies, ScriptPc, NextRun
<1>3. PassMeansZero' /\ TrapCleansUp' /\ NoEarlyTimeout' /\ Places'
  BY DEF PassMeansZero, TrapCleansUp, NoEarlyTimeout, Places, NextRun
<1>4. Clocks'
  BY <1>1 DEF Clocks, NextRun
<1>5. QED
  BY <1>2, <1>3, <1>4

\* Leaving the script, with the trap set or before there was any file; a code
\* of 0 means that the guest's test ended with 0.
LEMMA ExitStep ==
  ASSUME IInv, NEW c \in 0 .. 3, Exit(c), Running, c = 0 => serial = "zero",
         UNCHANGED <<caller, reply, binary, kernel, trapped, serial, spent, built, guest>>,
         child' \in {child, "none"}, built' \in 0 .. ServerLimit
  PROVE  IInv'
<1> USE DEF IInv
<1>1. pc' = "exited" /\ code' = c /\ files' \subseteq files
      /\ (trapped => files' = files \ (Temps \ Placeholders))
  BY DEF Exit
<1>2. reply # "timeout" /\ caller # "nobody"
  BY DEF Running, Places
<1>3. TypeOK'
  BY <1>1, Zenon DEF TypeOK, ScriptPc
<1>4. PassMeansZero' /\ NoEarlyTimeout'
  BY <1>1, <1>2 DEF PassMeansZero, NoEarlyTimeout
<1>5. TrapCleansUp'
  <2>1. CASE pc \in {"check", "mktemp"}
    BY <1>1, <2>1 DEF TrapCleansUp, Places
  <2>2. CASE pc \in {"build", "pack", "boot", "verdict"}
    <3>1. trapped /\ Placeholders \subseteq files /\ files \subseteq Temps
      BY <2>2 DEF Places, TypeOK
    <3>2. files' = Placeholders
      BY <1>1, <3>1
    <3>3. QED
      BY <3>2 DEF TrapCleansUp
  <2>3. QED
    BY <2>1, <2>2 DEF TypeOK, ScriptPc, Running
<1>6. Places' /\ Clocks'
  BY <1>1, <1>2 DEF Places, Clocks
<1>7. QED
  BY <1>3, <1>4, <1>5, <1>6

\* The steps of the script that end in Exit.
LEMMA LeavingStep ==
  ASSUME IInv, NoArguments \/ NoKernel \/ MakeFails \/ PackFails \/ Verdict
  PROVE  IInv'
<1> USE DEF call, qemu, clocks, Running
<1>1. CASE NoArguments
  BY <1>1, ExitStep DEF NoArguments, IInv, TypeOK
<1>2. CASE NoKernel
  BY <1>2, ExitStep DEF NoKernel, IInv, TypeOK
<1>3. CASE PackFails
  BY <1>3, ExitStep DEF PackFails, IInv, TypeOK
<1>4. CASE Verdict
  BY <1>4, ExitStep DEF Verdict, IInv, TypeOK
<1>5. CASE MakeFails
  <2>1. pc' = "exited" /\ code' = 2 /\ pc = "build"
        /\ UNCHANGED <<caller, reply, binary, kernel, trapped, serial, spent, guest>>
        /\ built' = spent /\ child' = "none" /\ files' \subseteq files
        /\ (trapped => files' = files \ (Temps \ Placeholders))
    BY <1>5 DEF MakeFails, Exit
  <2>2. trapped /\ Placeholders \subseteq files /\ files \subseteq Temps
        /\ reply # "timeout" /\ caller # "nobody"
    BY <2>1 DEF IInv, Places, TypeOK
  <2>3. files' = Placeholders
    BY <2>1, <2>2
  <2>4. TypeOK'
    <3>1. 2 \in 0 .. 3
      OBVIOUS
    <3>2. QED
      BY <2>1, <3>1, Zenon DEF IInv, TypeOK, ScriptPc
  <2>5. QED
    BY <2>1, <2>2, <2>3, <2>4 DEF IInv, PassMeansZero, TrapCleansUp, NoEarlyTimeout,
                                  Places, Clocks
<1>6. QED
  BY <1>1, <1>2, <1>3, <1>4, <1>5

\* The three ways through the calls of mktemp, and the test for the kernel.
LEMMA MktempStep ==
  ASSUME IInv, Check \/ Mktemp \/ MktempFails \/ CopyFails
  PROVE  IInv'
<1> USE DEF IInv, call, qemu, clocks
<1>1. CASE Check
  BY <1>1 DEF Check, TypeOK, ScriptPc, PassMeansZero, TrapCleansUp, NoEarlyTimeout,
              Places, Clocks
<1>2. CASE Mktemp
  <2>1. files' = {"build_dir", "extra_dir", "out", "cpio_mktemp", "img_mktemp"}
        /\ pc' = "build" /\ trapped' = TRUE /\ child' = "make" /\ pc = "mktemp"
        /\ UNCHANGED <<caller, reply, binary, kernel, code, serial, spent, built, guest>>
    BY <1>2, MktempNames DEF Mktemp
  <2>2. TypeOK'
    BY <2>1, TempNames DEF TypeOK, ScriptPc
  <2>3. QED
    BY <2>1, <2>2 DEF PassMeansZero, TrapCleansUp, NoEarlyTimeout, Places, Clocks,
                      Placeholders
<1>3. CASE MktempFails
  <2>1. files' \subseteq {"build_dir", "extra_dir", "out", "cpio_mktemp"}
        /\ pc' = "exited" /\ code' = 1 /\ pc = "mktemp"
        /\ UNCHANGED <<caller, reply, binary, kernel, trapped, child, serial, spent,
                       built, guest>>
    BY <1>3, MktempNames DEF MktempFails
  <2>2. TypeOK'
    BY <2>1, TempNames DEF TypeOK, ScriptPc
  <2>3. QED
    BY <2>1, <2>2 DEF PassMeansZero, TrapCleansUp, NoEarlyTimeout, Places, Clocks
<1>4. CASE CopyFails
  <2>1. files' = Placeholders /\ trapped' = TRUE
        /\ pc' = "exited" /\ code' = 1 /\ pc = "mktemp"
        /\ UNCHANGED <<caller, reply, binary, kernel, child, serial, spent, built, guest>>
    BY <1>4 DEF CopyFails
  <2>2. TypeOK'
    BY <2>1, TempNames DEF TypeOK, ScriptPc, Placeholders
  <2>3. QED
    BY <2>1, <2>2 DEF PassMeansZero, TrapCleansUp, NoEarlyTimeout, Places, Clocks,
                      Placeholders
<1>5. QED
  BY <1>1, <1>2, <1>3, <1>4

\* make, the packing and the guest.
LEMMA ChildStep ==
  ASSUME IInv, MakeOk \/ OrphanMakeEnds \/ Pack \/ GuestPrints \/ QemuEnds \/ AfterQemu
  PROVE  IInv'
<1> USE DEF IInv, call, qemu, clocks
<1>1. CASE MakeOk
  BY <1>1 DEF MakeOk, TypeOK, ScriptPc, PassMeansZero, TrapCleansUp, NoEarlyTimeout,
              Places, Clocks
<1>2. CASE OrphanMakeEnds
  BY <1>2 DEF OrphanMakeEnds, TypeOK, PassMeansZero, TrapCleansUp, NoEarlyTimeout,
              Places, Clocks
<1>3. CASE Pack
  <2>1. TypeOK'
    BY <1>3, TempNames DEF Pack, TypeOK, ScriptPc
  <2>2. PassMeansZero' /\ TrapCleansUp' /\ NoEarlyTimeout' /\ Places'
    BY <1>3 DEF Pack, PassMeansZero, TrapCleansUp, NoEarlyTimeout, Places
  <2>3. Clocks'
    BY <1>3 DEF Pack, Clocks, TypeOK
  <2>4. QED
    BY <2>1, <2>2, <2>3
<1>4. CASE GuestPrints
  BY <1>4 DEF GuestPrints, TypeOK, PassMeansZero, TrapCleansUp, NoEarlyTimeout,
              Places, Clocks
<1>5. CASE QemuEnds
  BY <1>5 DEF QemuEnds, TypeOK, PassMeansZero, TrapCleansUp, NoEarlyTimeout,
              Places, Clocks
<1>6. CASE AfterQemu
  BY <1>6 DEF AfterQemu, TypeOK, ScriptPc, PassMeansZero, TrapCleansUp,
              NoEarlyTimeout, Places, Clocks
<1>7. QED
  BY <1>1, <1>2, <1>3, <1>4, <1>5, <1>6

\* The server: when its limit strikes a script with an image, the guest has
\* had no more than its own limit, so the rest of the time went into make.
LEMMA ServerStep == ASSUME IInv, Server PROVE IInv'
<1> USE DEF IInv, qemu, clocks
<1>1. CASE ServerReaps
  BY <1>1 DEF ServerReaps, TypeOK, Replies, PassMeansZero, TrapCleansUp,
              NoEarlyTimeout, Places, Clocks
<1>2. CASE ServerTimeout
  <2>1. /\ UNCHANGED <<caller, binary, kernel, code, trapped, files, child, serial,
                       spent, built, guest>>
        /\ caller = "server" /\ reply' = "timeout" /\ pc' = "killed"
        /\ spent = ServerLimit /\ Running
    BY <1>2 DEF ServerTimeout
  <2>2. TypeOK'
    BY <2>1, Zenon DEF TypeOK, Replies, ScriptPc
  <2>3. PassMeansZero' /\ TrapCleansUp' /\ Places' /\ Clocks'
    BY <2>1 DEF PassMeansZero, TrapCleansUp, Places, Clocks
  <2>4. "img" \in files => pc \in {"boot", "verdict"}
    BY <2>1 DEF Running, Places, TypeOK, ScriptPc
  <2>5. NoEarlyTimeout'
    BY <2>1, <2>4 DEF NoEarlyTimeout, Clocks, TypeOK
  <2>6. QED
    BY <2>2, <2>3, <2>5
<1>3. CASE ServerCannotDecode
  BY <1>3 DEF ServerCannotDecode, TypeOK, Replies, PassMeansZero, TrapCleansUp,
              NoEarlyTimeout, Places, Clocks
<1>4. QED
  BY <1>1, <1>2, <1>3 DEF Server

LEMMA TickStep == ASSUME IInv, Tick PROVE IInv'
<1> USE DEF IInv, call, qemu
<1>1. /\ UNCHANGED <<caller, reply, binary, kernel, pc, code, trapped, files, child,
                     serial, built>>
      /\ pc \in {"build", "boot", "killed"} /\ child # "none"
      /\ spent' = IF spent < ServerLimit THEN spent + 1 ELSE spent
      /\ guest' = IF child = "qemu" /\ guest <= QemuLimit THEN guest + 1 ELSE guest
      /\ ~(child = "qemu" /\ guest = QemuLimit)
  BY DEF Tick, QemuDue
<1>2. /\ spent \in Nat /\ guest \in Nat /\ built \in Nat /\ spent <= ServerLimit
      /\ guest <= QemuLimit
  BY DEF TypeOK, Clocks
<1>3. /\ spent' \in 0 .. ServerLimit /\ guest' \in 0 .. QemuLimit + 1
      /\ guest' <= QemuLimit /\ spent' <= spent + 1
      /\ (child = "qemu" => guest' = guest + 1)
  BY <1>1, <1>2
<1>4. TypeOK'
  BY <1>1, <1>3, Zenon DEF TypeOK
<1>5. PassMeansZero' /\ TrapCleansUp' /\ NoEarlyTimeout' /\ Places'
  BY <1>1 DEF PassMeansZero, TrapCleansUp, NoEarlyTimeout, Places
<1>6. Clocks'
  <2>1. CASE pc = "boot"
    <3>1. child = "qemu" /\ spent <= built + guest
      BY <1>1, <2>1 DEF Clocks, TypeOK
    <3>2. spent' <= built + guest'
      BY <1>2, <1>3, <3>1
    <3>3. QED
      BY <1>1, <1>3, <2>1, <3>1, <3>2 DEF Clocks
  <2>2. CASE pc # "boot"
    BY <1>1, <1>3, <2>2 DEF Clocks
  <2>3. QED
    BY <2>1, <2>2
<1>7. QED
  BY <1>4, <1>5, <1>6

LEMMA NextIInv == IInv /\ [Next]_vars => IInv'
<1>1. ASSUME IInv, UNCHANGED vars PROVE IInv'
  BY <1>1 DEF vars, IInv, TypeOK, PassMeansZero, TrapCleansUp, NoEarlyTimeout, Places,
              Clocks
<1>2. QED
  BY <1>1, CallerStep, NextRunStep, LeavingStep, MktempStep, ChildStep, ServerStep,
     TickStep DEF Next, Script

-----------------------------------------------------------------------------
\* Types, with any limits.
THEOREM TypeCorrect == Spec => []TypeOK
<1>1. IInv => TypeOK
  BY DEF IInv
<1>2. QED
  BY <1>1, InitIInv, NextIInv, PTL DEF Spec

\* No failure of make, QEMU or a limit becomes a pass, whatever the limits.
THEOREM PassMeansZeroCorrect == Spec => []PassMeansZero
<1>1. IInv => PassMeansZero
  BY DEF IInv
<1>2. QED
  BY <1>1, InitIInv, NextIInv, PTL DEF Spec

\* On every way out behind the last mktemp the trap leaves the placeholders only.
THEOREM TrapCleansUpCorrect == Spec => []TrapCleansUp
<1>1. IInv => TrapCleansUp
  BY DEF IInv
<1>2. QED
  BY <1>1, InitIInv, NextIInv, PTL DEF Spec

\* Whatever the two limits are, the server's strikes a run with a guest only
\* if make took at least the difference.
THEOREM NoEarlyTimeoutCorrect == Spec => []NoEarlyTimeout
<1>1. IInv => NoEarlyTimeout
  BY DEF IInv
<1>2. QED
  BY <1>1, InitIInv, NextIInv, PTL DEF Spec
=============================================================================
