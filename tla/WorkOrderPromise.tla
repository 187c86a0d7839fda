--------------------------- MODULE WorkOrderPromise ---------------------------
(***************************************************************************)
(* What the workorder pipeline promises a publisher, one occurrence key at *)
(* a time: an accepted order waits, runs and ends; a failed attempt may be *)
(* followed by another one, never by more than the budget; a key that is   *)
(* accepted once for good is never accepted again.  How rows, claims,      *)
(* crashes and boot recovery bring this about is WorkOrderConsumer.        *)
(***************************************************************************)
EXTENDS Naturals

CONSTANTS
  Keys,       \* occurrence keys
  Once,       \* keys that are accepted at most once
  Budget      \* [Keys -> attempts an acceptance may spend]

VARIABLE job  \* job[k]: the phase of k and the attempt it is at

Phases == {"none", "waiting", "running", "done", "failed"}

Init == job = [k \in Keys |-> [phase |-> "none", attempt |-> 0]]

IsOpen(j)  == j.phase \in {"waiting", "running"}
IsEnded(j) == j.phase \in {"done", "failed"}

Accept(k, before, after) ==
  /\ before.phase = "none" \/ (IsEnded(before) /\ k \notin Once)
  /\ after = [phase |-> "waiting", attempt |-> 1]

Start(k, before, after) ==
  /\ before.phase = "waiting"
  /\ after = [before EXCEPT !.phase = "running"]

(* An order may fail before it ran (no brief), hence from either phase.     *)
Retry(k, before, after) ==
  /\ IsOpen(before)
  /\ before.attempt < Budget[k]
  /\ after = [phase |-> "waiting", attempt |-> before.attempt + 1]

End(k, before, after) ==
  /\ IsOpen(before)
  /\ \E phase \in {"done", "failed"} : after = [before EXCEPT !.phase = phase]

(* One key moves at a time.                                                 *)
Next ==
  \E k \in Keys :
    /\ \A l \in Keys \ {k} : job'[l] = job[l]
    /\ \/ Accept(k, job[k], job'[k])
       \/ Start(k, job[k], job'[k])
       \/ Retry(k, job[k], job'[k])
       \/ End(k, job[k], job'[k])

Spec == Init /\ [][Next]_job
===============================================================================
