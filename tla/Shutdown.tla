------------------------------ MODULE Shutdown ------------------------------
(***************************************************************************)
(* The end of a service: the automaton of c4/04 (Daemon.on) and the count  *)
(* of requests under way of c5/04 (Drain).  Both go RUNNING, DRAINING,     *)
(* STOPPING, and never back.                                               *)
(***************************************************************************)
EXTENDS Naturals

CONSTANTS MaxActive,    \* bound: requests under way
          MaxReloads    \* bound: reloads

VARIABLES filled, exercise,
          state,
          active,       \* requests admitted and not finished
          reloads,
          forced        \* the deadline expired

vars == <<filled, exercise, state, active, reloads, forced>>
RUNNING == 0
DRAINING == 1
STOPPED == 2

Init == /\ filled \in BOOLEAN
        /\ exercise \in {"c4_04", "c5_04"}
        /\ state = RUNNING /\ active = 0 /\ reloads = 0 /\ forced = FALSE

\* Daemon.on: a second SIGTERM stops at once, and an event that means nothing
\* in a state is ignored.
On == /\ filled /\ exercise = "c4_04"
      /\ \/ state = RUNNING /\ state' = DRAINING /\ UNCHANGED <<reloads, forced>>  \* SIGTERM
         \/ /\ state = RUNNING /\ reloads < MaxReloads                             \* SIGHUP
            /\ reloads' = reloads + 1
            /\ UNCHANGED <<state, forced>>
         \/ /\ state = DRAINING /\ state' = STOPPED          \* DRAINED, TIMEOUT, SIGTERM
            /\ forced' \in BOOLEAN
            /\ UNCHANGED reloads
      /\ UNCHANGED active

Admit == /\ filled /\ exercise = "c5_04"
         /\ state = RUNNING /\ active < MaxActive
         /\ active' = active + 1
         /\ UNCHANGED <<state, reloads, forced>>
Finish == /\ filled /\ exercise = "c5_04" /\ active > 0
          /\ active' = active - 1
          /\ state' = IF state = DRAINING /\ active' = 0 THEN STOPPED ELSE state
          /\ UNCHANGED <<reloads, forced>>
BeginShutdown == /\ filled /\ exercise = "c5_04" /\ state = RUNNING
                 /\ state' = IF active = 0 THEN STOPPED ELSE DRAINING
                 /\ UNCHANGED <<active, reloads, forced>>
Timeout == /\ filled /\ exercise = "c5_04"
           /\ state' = STOPPED
           /\ forced' = TRUE
           /\ UNCHANGED <<active, reloads>>

Next == (On \/ Admit \/ Finish \/ BeginShutdown \/ Timeout) /\ UNCHANGED <<filled, exercise>>
Spec == Init /\ [][Next]_vars

-----------------------------------------------------------------------------
TypeOK == /\ filled \in BOOLEAN /\ forced \in BOOLEAN
          /\ exercise \in {"c4_04", "c5_04"}
          /\ state \in {RUNNING, DRAINING, STOPPED}
          /\ active \in 0..MaxActive /\ reloads \in 0..MaxReloads

\* Only the deadline cuts a request off, and a drained service does not wait
\* for nothing: it is DRAINING exactly while requests are under way.
NoneCutOff == exercise = "c5_04" => /\ state = STOPPED /\ ~forced => active = 0
                                    /\ state = DRAINING => active > 0

-----------------------------------------------------------------------------
\* NoneCutOff keeps itself.
IInv == TypeOK /\ NoneCutOff
=============================================================================
