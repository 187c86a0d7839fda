-------------------------- MODULE WorkOrderLedger --------------------------
(***************************************************************************)
(* The durable workorder table of the operator database                    *)
(* (packages/standalone/src/operator/task-ledger.ts, kind = 'system').     *)
(*                                                                         *)
(* A row is one attempt at one occurrence of system work.  The operators   *)
(* below are the ledger's transactions: each is a function from the table  *)
(* before to the table after, so that a caller which runs two of them in   *)
(* one synchronous block composes them, and so that a crash falls between  *)
(* transactions and never inside one.                                      *)
(*                                                                         *)
(* Temporal rows have a life cycle of their own (generations, attempts)    *)
(* and are outside this module.                                            *)
(***************************************************************************)
EXTENDS Naturals, Sequences, FiniteSets

CONSTANTS
  BoardOcc,       \* occurrence keys of board orders
  WikiOcc,        \* occurrence keys of wiki orders
  CurationOcc,    \* occurrence keys of memory-curation orders
  OwnerEventOcc,  \* the keys that start with 'owner-event:'
  CandidateOcc,   \* board reconcile keys whose payload carries candidates
  Candidates,     \* the candidates such a payload carries
  Ranks           \* priorities in use: 0 = high, 1 = normal, 2 = low

Occ == BoardOcc \cup WikiOcc \cup CurationOcc

ASSUME OccurrenceAssumption ==
  /\ BoardOcc \cap WikiOcc = {}
  /\ CurationOcc \cap (BoardOcc \cup WikiOcc) = {}
  /\ OwnerEventOcc \subseteq Occ
  /\ CandidateOcc \subseteq BoardOcc \ OwnerEventOcc
  /\ Candidates # {}
  /\ Ranks # {} /\ Ranks \subseteq 0..2

VARIABLES
  rows,      \* the table: rows[i] is the row with id i
  receipts   \* durable candidate decisions: pairs <<occurrence, candidate>>

ledgerVars == <<rows, receipts>>

Open     == {"pending", "in_progress"}
Terminal == {"done", "failed"}
Reasons  == {"none", "failure", "pre-run", "ambiguous", "receipts"}

Row == [occ : Occ, rank : Ranks, attempts : Nat \ {0},
        status : Open \cup Terminal, reason : Reasons]

LedgerTypeOK ==
  /\ rows \in Seq(Row)
  /\ receipts \subseteq CandidateOcc \X Candidates

LedgerInit == rows = <<>> /\ receipts = {}

WithStatus(rs, status) == {i \in DOMAIN rs : rs[i].status = status}

----------------------------------------------------------------------------
(***************************************************************************)
(* insertWorkOrder: the rows an insert finds already holding its slot.  An *)
(* ordinary key is freed by a terminal row; an owner-event key never is.   *)
(***************************************************************************)
\* Fault: the owner-event exception is forgotten.
HoldersOpenOnly(rs, o) ==
  {i \in DOMAIN rs : rs[i].occ = o /\ rs[i].status \in Open}

Holders(rs, o) ==
  {i \in DOMAIN rs : rs[i].occ = o /\ (o \in OwnerEventOcc \/ rs[i].status \in Open)}

Inserted(rs, o, rank, attempts) ==
  IF Holders(rs, o) # {}
  THEN rs
  ELSE Append(rs, [occ |-> o, rank |-> rank, attempts |-> attempts,
                   status |-> "pending", reason |-> "none"])

(* transitionWorkOrder throws unless the row is in_progress; callers below *)
(* invoke it only on such a row, which the invariants check.               *)
Completed(rs, i)   == [rs EXCEPT ![i].status = "done"]
FailedRow(rs, i, why) == [rs EXCEPT ![i].status = "failed", ![i].reason = why]

(* requeueWorkOrder: fail the claimed row and insert its replacement in    *)
(* one transaction.                                                        *)
\* Fault: the replacement is inserted before its slot is freed.
RequeuedBeforeFail(rs, i, why) ==
  FailedRow(Inserted(rs, rs[i].occ, rs[i].rank, rs[i].attempts + 1), i, why)

\* Fault: the replacement starts over at the attempt that failed.
RequeuedSameAttempt(rs, i, why) ==
  Inserted(FailedRow(rs, i, why), rs[i].occ, rs[i].rank, rs[i].attempts)

Requeued(rs, i, why) ==
  Inserted(FailedRow(rs, i, why), rs[i].occ, rs[i].rank, rs[i].attempts + 1)

(* claimNextWorkOrder: priority first, then id.                            *)
Before(rs, i, j) ==
  \/ rs[i].rank < rs[j].rank
  \/ rs[i].rank = rs[j].rank /\ i <= j

NextPending(rs, i) ==
  /\ i \in WithStatus(rs, "pending")
  /\ \A j \in WithStatus(rs, "pending") : Before(rs, i, j)

Claimed(rs, i) == [rs EXCEPT ![i].status = "in_progress"]

----------------------------------------------------------------------------
(***************************************************************************)
(* inspectBoardCandidateAttempt.  Receipts are keyed by candidate, not by  *)
(* attempt: a replacement attempt sees the decisions of its predecessor.   *)
(***************************************************************************)
Decided(o) == {c \in Candidates : <<o, c>> \in receipts}

Disposition(o) ==
  IF o \notin CandidateOcc THEN "none"
  ELSE CASE Decided(o) = Candidates -> "complete"
         [] Decided(o) = {}         -> "zero"
         [] OTHER                   -> "partial"
=============================================================================
