----------------------------- MODULE MCOwnerEvents -----------------------------
(***************************************************************************)
(* Small instances of the owner-event turn for TLC.  Events, tool calls    *)
(* and payloads of one sort are interchangeable.                           *)
(***************************************************************************)
EXTENDS OwnerEvents, TLC

Interchangeable ==
  Permutations(Events) \cup Permutations(Calls) \cup Permutations(Texts)
===============================================================================
