----------------------------- MODULE MCWorkOrders -----------------------------
(***************************************************************************)
(* Small instances of the workorder consumer for TLC, and the refinement   *)
(* of WorkOrderPromise: the job of a key is its latest row.                *)
(***************************************************************************)
EXTENDS WorkOrderConsumer

RowsOf(o) == {i \in DOMAIN rows : rows[i].occ = o}
Latest(o) == rows[CHOOSE i \in RowsOf(o) : \A j \in RowsOf(o) : j <= i]

PhaseOf == [status \in Open \cup Terminal |->
              CASE status = "pending"     -> "waiting"
                [] status = "in_progress" -> "running"
                [] OTHER                  -> status]

JobOf(o) ==
  IF RowsOf(o) = {}
  THEN [phase |-> "none", attempt |-> 0]
  ELSE [phase |-> PhaseOf[Latest(o).status], attempt |-> Latest(o).attempts]

Promise == INSTANCE WorkOrderPromise
  WITH Keys   <- Occ,
       Once   <- OwnerEventOcc,
       Budget <- [o \in Occ |-> IF o \in WikiOcc \cup CandidateOcc THEN 2 ELSE 1],
       job    <- [o \in Occ |-> JobOf(o)]

(***************************************************************************)
(* Rows, claims, crashes, deferred arbitrations and boot recovery together *)
(* implement the per-key promise: an accepted key waits, runs and ends, an *)
(* attempt is followed by the next one or by nothing, never past the       *)
(* budget, and an owner-event key is accepted once.                        *)
(***************************************************************************)
KeepsPromise == Promise!Spec
===============================================================================
