-------------------------- MODULE OwnerEventInbox --------------------------
(***************************************************************************)
(* The durable owner-event inbox and its intake                            *)
(* (packages/standalone/src/operator/owner-event-inbox.ts, and the drain,  *)
(* enqueue, commit sequence of operator-trigger-loop.ts over the cursor of *)
(* connector-delta-repo.ts).                                               *)
(*                                                                         *)
(* A batch is a set of connector events.  Claims are leases: `due' says of *)
(* a claimed batch that its lease has run out, and of a pending one that   *)
(* its back-off has.                                                       *)
(***************************************************************************)
EXTENDS Naturals, Sequences, FiniteSets

CONSTANTS
  Events,       \* connector events
  MaxAttempts,  \* MAX_ATTEMPTS: attempts after which a batch is parked dead
  MaxBatches    \* the intake stops at this many batches

ASSUME InboxAssumption ==
  /\ MaxAttempts \in Nat \ {0}
  /\ MaxBatches \in Nat

VARIABLES
  batches,  \* the table: batches[b] is the row with id b
  seen,     \* owner_event_inbox_events: events some batch already holds
  cursor,   \* events the delta cursor has been committed past
  handed    \* events enqueued by the drain in progress, not yet committed

inboxVars == <<batches, seen, cursor, handed>>

Ids == 1..MaxBatches

Batch == [events : SUBSET Events, status : {"pending", "claimed", "acked", "dead"},
          attempts : Nat, due : BOOLEAN]

InboxTypeOK ==
  /\ batches \in Seq(Batch)
  /\ seen \subseteq Events /\ cursor \subseteq Events /\ handed \subseteq Events

InboxInit == batches = <<>> /\ seen = {} /\ cursor = {} /\ handed = {}

WithStatus(status) == {b \in DOMAIN batches : batches[b].status = status}

----------------------------------------------------------------------------
(* enqueue: one channel of the drain, deduplicated event by event, the     *)
(* batch and its event ids in one transaction.                             *)
\* Fault: the batch is deduplicated as a whole.
FreshAsAWhole(es) == IF es \subseteq seen THEN {} ELSE es

Fresh(es) == es \ seen

NewBatch(es) == [events |-> es, status |-> "pending", attempts |-> 0, due |-> TRUE]

Deliver(es) ==
  /\ es # {} /\ es \subseteq Events \ (cursor \cup handed)
  /\ IF Fresh(es) = {}
     THEN UNCHANGED <<batches, seen>>
     ELSE /\ Len(batches) < MaxBatches
          /\ batches' = Append(batches, NewBatch(Fresh(es)))
          /\ seen' = seen \cup Fresh(es)
  /\ handed' = handed \cup es
  /\ UNCHANGED cursor

(* delta.commit, after every channel's batch was enqueued.                 *)
Commit ==
  /\ handed # {}
  /\ cursor' = cursor \cup handed
  /\ handed' = {}
  /\ UNCHANGED <<batches, seen>>

(* A later enqueue, or the cursor write, throws: the drain starts over.    *)
DrainFails ==
  /\ handed # {}
  /\ handed' = {}
  /\ UNCHANGED <<batches, seen, cursor>>

----------------------------------------------------------------------------
(* claimNext: the oldest pending batch whose back-off is over.             *)
Claimable(b) ==
  /\ b \in WithStatus("pending") /\ batches[b].due
  /\ \A a \in WithStatus("pending") : batches[a].due => b <= a

ClaimedBatch(b) == [batches EXCEPT ![b].status = "claimed", ![b].due = FALSE]

Acked(b) == [batches EXCEPT ![b].status = "acked"]

(* retry and replayStale: one more attempt, or dead at the cap.            *)
\* Fault: the cap is passed before it is noticed.
RetriedPastCap(r) ==
  [r EXCEPT !.status   = IF r.attempts >= MaxAttempts THEN "dead" ELSE "pending",
            !.attempts = r.attempts + 1,
            !.due      = FALSE]

Retried(r) ==
  [r EXCEPT !.status   = IF r.attempts + 1 >= MaxAttempts THEN "dead" ELSE "pending",
            !.attempts = r.attempts + 1,
            !.due      = FALSE]

RetriedBatch(b) == [batches EXCEPT ![b] = Retried(batches[b])]

(* replayStaleDetailed: pending batches older than the retention (those up *)
(* to id n) are parked dead, then claims whose lease ran out are retried;  *)
(* two statements, no transaction.                                         *)
\* Fault: a claim on its last attempt is not replayed.
StaleBelowCap ==
  {b \in WithStatus("claimed") : batches[b].due /\ batches[b].attempts + 1 < MaxAttempts}

Stale == {b \in WithStatus("claimed") : batches[b].due}

Expired(n) == {b \in WithStatus("pending") : b <= n}

Parked(n) ==
  [b \in DOMAIN batches |->
     IF b \in Expired(n) THEN [batches[b] EXCEPT !.status = "dead"] ELSE batches[b]]

Replayed(n) ==
  [b \in DOMAIN batches |->
     IF b \in Stale THEN Retried(batches[b])
     ELSE IF b \in Expired(n) THEN [batches[b] EXCEPT !.status = "dead"]
     ELSE batches[b]]

\* Fault: only leases are reported, not batches that grew too old.
NewlyDeadByLease(n) == {b \in Stale : batches[b].attempts + 1 >= MaxAttempts}

NewlyDead(n) ==
  Expired(n) \cup {b \in Stale : batches[b].attempts + 1 >= MaxAttempts}

(* The clock: a lease or a back-off runs out.                              *)
Elapse(b) ==
  /\ batches[b].status \in {"pending", "claimed"} /\ ~batches[b].due
  /\ batches' = [batches EXCEPT ![b].due = TRUE]
  /\ UNCHANGED <<seen, cursor, handed>>
=============================================================================
