------------------------------ MODULE WorkItem ------------------------------
(***************************************************************************)
(* A work_struct of the kernel, as k3 uses it: scheduling one that is      *)
(* already pending changes nothing, the pending mark is gone when the      *)
(* function starts, and the function does not run twice at a time.         *)
(***************************************************************************)
EXTENDS Naturals

VARIABLE work   \* idle, queued, running, requeued: running and queued again

States == {"idle", "queued", "running", "requeued"}
Running == work \in {"running", "requeued"}

Schedule == work' = CASE work = "idle" -> "queued"
                      [] work = "running" -> "requeued"
                      [] OTHER -> work
Start == work = "queued" /\ work' = "running"
End == Running /\ work' = IF work = "running" THEN "idle" ELSE "queued"

\* flush_work: how many ends of the function a caller has to wait for.
Flushes == CASE work = "idle" -> 0
             [] work = "requeued" -> 2
             [] OTHER -> 1
=============================================================================
