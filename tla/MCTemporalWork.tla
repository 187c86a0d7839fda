--------------------------- MODULE MCTemporalWork ---------------------------
(***************************************************************************)
(* Small instances of the temporal daemon for TLC, and the refinement of   *)
(* TemporalPromise: a check is a generation, its tries those of its latest *)
(* attempt.                                                                *)
(***************************************************************************)
EXTENDS TemporalWork

CheckOf(k) ==
  IF db.gens[k].disp = "none"
  THEN [phase |-> "none", tries |-> 0]
  ELSE [phase |-> db.gens[k].disp, tries |-> db.rows[db.gens[k].last].tries]

OneOccurrence(j, k) == j.task = k.task /\ j.epoch = k.epoch

Promise == INSTANCE TemporalPromise
  WITH Checks  <- Keys,
       SameOcc <- OneOccurrence,
       Budget  <- MaxTries,
       check   <- [k \in Keys |-> CheckOf(k)]

(***************************************************************************)
(* Scans, edits, effects, failures, pauses and boots together implement    *)
(* the promise per check: it begins once, is retried within its budget and *)
(* ends once, and checks of one occurrence follow only upon a deferral.    *)
(***************************************************************************)
KeepsPromise == Promise!Spec
=============================================================================
