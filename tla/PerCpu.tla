------------------------------- MODULE PerCpu -------------------------------
(***************************************************************************)
(* Counters with a copy per CPU: k2/05 and k4/04 (write() adds a signed    *)
(* number), k6/03 (a packet hook counts by protocol), k7/01 and k7/04 (a   *)
(* kprobe counts calls).  Adding touches only the copy of the own CPU, in  *)
(* one step that nothing interrupts; reading walks over all CPUs while the *)
(* others go on adding.                                                    *)
(***************************************************************************)
EXTENDS Integers

CONSTANTS NCpu,     \* the possible CPUs are 1 .. NCpu
          MaxAdds   \* bound: of one copy, and of what is added during a read

VARIABLES exercise, filled,
          cell,         \* the copies: cell[c][f]
          at,           \* the next CPU of the reader, 0 while nobody reads
          total,        \* what the reader has summed
          low, high     \* the least and the most this read may return

vars == <<exercise, filled, cell, at, total, low, high>>

Cpus == 1..NCpu
Exercises == {"k2/05", "k4/04", "k6/03", "k7/01", "k7/04"}
Fields == {"a", "b"}    \* two protocols stand for the four; the others use a
None == [f \in Fields |-> 0]
\* What a function of the CPUs adds up to from the first CPU on; what is left
\* to be summed of a counter from a CPU on.
Upto(g) == LET sum[n \in 0..NCpu] == IF n = 0 THEN 0 ELSE sum[n - 1] + g[n] IN sum
Copies(f) == [c \in Cpus |-> cell[c][f]]
Sum(f, from) == Upto(Copies(f))[NCpu] - Upto(Copies(f))[from - 1]

Init == /\ exercise \in Exercises
        /\ filled \in BOOLEAN
        /\ cell = [c \in Cpus |-> None]
        /\ at = 0
        /\ total = None /\ low = None /\ high = None

\* this_cpu_add(copy, n) on whatever CPU the caller runs.
Add(f, n) == \E c \in Cpus :
    /\ cell[c][f] + n \in -MaxAdds..MaxAdds
    /\ cell' = [cell EXCEPT ![c][f] = @ + n]
    /\ IF at = 0 THEN UNCHANGED <<low, high>>
       ELSE /\ high[f] - low[f] < MaxAdds
            /\ IF n < 0 THEN low' = [low EXCEPT ![f] = @ + n] /\ UNCHANGED high
                        ELSE high' = [high EXCEPT ![f] = @ + n] /\ UNCHANGED low
    /\ UNCHANGED <<exercise, filled, at, total>>

\* The handlers; the stubs add nothing.
PcWrite == exercise = "k2/05" /\ filled /\ \E n \in {-1, 1} : Add("a", n)
PcWriteAlloc == exercise = "k4/04" /\ filled /\ \E n \in {-1, 1} : Add("a", n)
CountHook == exercise = "k6/03" /\ filled /\ \E f \in Fields : Add(f, 1)
PreCount == exercise = "k7/01" /\ filled /\ Add("a", 1)
\* k7/04 counts only the calls whose first argument is AT_FDCWD.
PreArg == /\ exercise = "k7/04" /\ filled
          /\ \E dfd \in {"AT_FDCWD", "other"} : dfd = "AT_FDCWD" /\ Add("a", 1)

\* for_each_possible_cpu: one CPU after the other, no lock.
Open == /\ at = 0
        /\ at' = 1
        /\ total' = None
        /\ low' = [f \in Fields |-> Sum(f, 1)]
        /\ high' = low'
        /\ UNCHANGED <<exercise, filled, cell>>
Walk == /\ at \in Cpus
        /\ total' = [f \in Fields |-> total[f] + cell[at][f]]
        /\ at' = at + 1
        /\ UNCHANGED <<exercise, filled, cell, low, high>>
PrintSum == /\ at > NCpu
         /\ at' = 0
         /\ total' = None /\ low' = None /\ high' = None
         /\ UNCHANGED <<exercise, filled, cell>>
Scan == Open \/ Walk \/ PrintSum

\* In the starters k2/05 and k4/04 the loop over the CPUs is part of the gap:
\* they print 0.
PcRead == exercise = "k2/05" /\ filled /\ Scan
PcReadAlloc == exercise = "k4/04" /\ filled /\ Scan
K6Show == exercise = "k6/03" /\ Scan
ShowHits == exercise = "k7/01" /\ Scan
ShowArg == exercise = "k7/04" /\ Scan

Writes == PcWrite \/ PcWriteAlloc \/ CountHook \/ PreCount \/ PreArg
Reads == PcRead \/ PcReadAlloc \/ K6Show \/ ShowHits \/ ShowArg
Next == Writes \/ Reads
Spec == Init /\ [][Next]_vars

-----------------------------------------------------------------------------
TypeOK == /\ exercise \in Exercises /\ filled \in BOOLEAN
          /\ cell \in [Cpus -> [Fields -> -MaxAdds..MaxAdds]]
          /\ at \in 0..NCpu + 1
          /\ \A v \in {total, low, high} : v \in [Fields -> Int]

\* A read may miss what is added behind it and see what is added before it,
\* but never more: with what is still to be summed it stays between the sum
\* at its start and what was added or taken meanwhile.  A read that nobody
\* disturbs is exact, and a count never runs backwards.
ReadInWindow == \A f \in Fields :
    at # 0 => LET seen == total[f] + Sum(f, at)
              IN  low[f] <= seen /\ seen <= high[f]

-----------------------------------------------------------------------------
\* Why a read stays in its window: the least and the most move with every copy
\* that is still to be read.
IInv == TypeOK /\ ReadInWindow
=============================================================================
