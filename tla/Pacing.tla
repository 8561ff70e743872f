------------------------------- MODULE Pacing -------------------------------
(***************************************************************************)
(* Two objects asked "now?" with the time as an argument: the rate limiter *)
(* of c4/03 (TokenBucket, allow) and the watchdog of c5/03 (Wd,            *)
(* wd_should_ping).  Only time differences count.  Tokens are counted in   *)
(* units of 1/Scale; the rounding of double is left out.                   *)
(***************************************************************************)
EXTENDS Naturals

CONSTANTS Capacity, Rate, Scale,    \* of the bucket: Rate units flow in every ms
          Usec                      \* WATCHDOG_USEC

VARIABLES filled, exercise,
          since,        \* now - last_ms_, or now - last
          tokens,       \* tokens_
          pinged, enabled,
          excess,       \* what allow() granted, less Rate for every ms, at least 0
          idle          \* time since the daemon last asked wd_should_ping

vars == <<filled, exercise, since, tokens, pinged, enabled, excess, idle>>
Full == Capacity * Scale
Least(a, b) == IF a < b THEN a ELSE b
interval == Usec \div 2
\* How long the daemon may leave wd_should_ping alone.
Patience == Usec + 1 - interval

Init == /\ filled \in BOOLEAN
        /\ exercise \in {"c4_03", "c5_03"}
        /\ enabled \in BOOLEAN          \* wd_create: a period, and our pid
        /\ since = 0 /\ tokens = Full /\ excess = 0
        /\ pinged = FALSE /\ idle = 0

\* Beyond Full/Rate + 1 the bucket is full whatever the time; a daemon that
\* asks too late is not the pacer's concern.
Tick == /\ \/ /\ exercise = "c4_03"
              /\ since' = Least(since + 1, Full \div Rate + 1)
              /\ UNCHANGED idle
           \/ /\ exercise = "c5_03" /\ enabled /\ filled /\ idle < Patience
              /\ since' = since + 1 /\ idle' = idle + 1
        /\ excess' = IF excess > Rate THEN excess - Rate ELSE 0
        /\ UNCHANGED <<tokens, pinged>>

Allow == LET refilled == Least(Full, tokens + since * Rate) IN
    /\ filled /\ exercise = "c4_03"
    /\ since' = 0
    /\ IF refilled >= Scale
       THEN tokens' = refilled - Scale /\ excess' = excess + Scale
       ELSE tokens' = refilled /\ UNCHANGED excess
    /\ UNCHANGED <<pinged, idle>>

WdShouldPing ==
    /\ filled /\ exercise = "c5_03" /\ enabled
    /\ idle' = 0
    /\ IF ~pinged \/ since >= interval
       THEN pinged' = TRUE /\ since' = 0
       ELSE UNCHANGED <<pinged, since>>
    /\ UNCHANGED <<tokens, excess>>

Next == (Tick \/ Allow \/ WdShouldPing) /\ UNCHANGED <<filled, exercise, enabled>>
Spec == Init /\ [][Next]_vars

-----------------------------------------------------------------------------
TypeOK == /\ filled \in BOOLEAN /\ pinged \in BOOLEAN /\ enabled \in BOOLEAN
          /\ exercise \in {"c4_03", "c5_03"}
          /\ since \in Nat /\ tokens \in 0..Full /\ excess \in Nat /\ idle \in 0..Patience

\* Over any stretch of time the bucket grants at most a burst of its capacity
\* and the rate: lazily refilled, it never gives more than a bucket filled all
\* the time.
RateHeld == excess <= Full

\* A daemon that asks often enough, if irregularly, is never restarted: every
\* ping comes within WATCHDOG_USEC of the one before.
NeverLate == since <= Usec \/ exercise = "c4_03"

-----------------------------------------------------------------------------
\* Why RateHeld and NeverLate hold: what was granted and what a call would now
\* find in the bucket are together never more than the bucket; the last call
\* of wd_should_ping that did not ping was before half the period.
Available == Least(Full, tokens + since * Rate)
Paced == /\ exercise = "c4_03" => excess + Available <= Full
         /\ exercise = "c5_03" => excess = 0 /\ since < idle + interval

IInv == TypeOK /\ Paced
=============================================================================
