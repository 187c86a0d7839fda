--------------------------- MODULE TemporalLedger ---------------------------
(***************************************************************************)
(* The temporal part of the operator database                              *)
(* (packages/standalone/src/operator/task-ledger.ts): owner tasks with a   *)
(* due time, the generations that check them, the workorder rows that are  *)
(* attempts at a generation, and the receipts of effects.                  *)
(*                                                                         *)
(* A database is one value; each transaction of the ledger is an operator  *)
(* from the database before to the database after.  A transaction that may *)
(* throw has a predicate that says when it does not; one that throws       *)
(* leaves the database as it was.                                          *)
(*                                                                         *)
(* A due time stands for an exact due_at or for the first instant of a     *)
(* deadline's day.  An occurrence is a task in one epoch, since every      *)
(* change of the due time begins another epoch.                            *)
(***************************************************************************)
EXTENDS Naturals, Sequences, FiniteSets

CONSTANTS
  Tasks,      \* ids of owner tasks
  MaxTime,    \* the last instant of the model's clock
  MaxEpoch,   \* epochs of a task are 1..MaxEpoch
  MaxTries,   \* TEMPORAL_WORKORDER_MAX_ATTEMPTS
  MaxOpen,    \* DEFAULT_MAX_OPEN: open temporal rows the scan may fill up to
  ScanLimit   \* DEFAULT_EXACT_LIMIT: candidates one scan may take

ASSUME TemporalAssumption ==
  /\ Tasks \subseteq Nat /\ IsFiniteSet(Tasks)
  /\ MaxTime \in Nat /\ MaxEpoch \in Nat \ {0}
  /\ MaxTries \in Nat \ {0} /\ MaxOpen \in Nat \ {0} /\ ScanLimit \in Nat \ {0}

Times == 0..MaxTime
Never == MaxTime + 1          \* a NULL due time or next check

Keys == [task : Tasks, epoch : 1..MaxEpoch, at : Times]

Ends     == {"resolved", "final_no_update", "deferred", "superseded", "exhausted"}
Statuses == {"pending", "in_progress", "done", "failed", "cancelled"}

Task == [open : BOOLEAN, due : Times \cup {Never}, epoch : 1..MaxEpoch, rev : Nat,
         reconciled : 0..MaxEpoch, next : Times \cup {Never}, last : Nat]
Gen  == [disp : Ends \cup {"none", "active"}, last : Nat]
Row  == [key : Keys, tries : 1..MaxTries, status : Statuses]

NewTask(due) == [open |-> TRUE, due |-> due, epoch |-> 1, rev |-> 0,
                 reconciled |-> 0, next |-> Never, last |-> 0]
NoGen == [disp |-> "none", last |-> 0]

(* effects: the receipt of attempt i is the element of d.effects for i.    *)
Effect == [attempt : Nat, outcome : {"resolved", "final_no_update", "deferred"},
           before : Nat, next : Times \cup {Never}]

IsOpen(row) == row.status \in {"pending", "in_progress"}
OpenRows(d) == {i \in DOMAIN d.rows : IsOpen(d.rows[i])}
Actives(d)  == {k \in Keys : d.gens[k].disp = "active"}
ActivesOf(d, t) == {k \in Actives(d) : k.task = t}
ReceiptsOf(d, i) == {e \in d.effects : e.attempt = i}

(* candidates are taken by time, then by task                              *)
Sooner(k, j) == k.at < j.at \/ (k.at = j.at /\ k.task < j.task)
Place(k, K)  == Cardinality({j \in K : Sooner(j, k)}) + 1
First(n, K)  == {k \in K : Place(k, K) <= n}

----------------------------------------------------------------------------
NewRow(k, tries) == [key |-> k, tries |-> tries, status |-> "pending"]

(* insertWorkOrder with the attempt number, and the generation's new owner *)
WithAttempt(d, k, tries) ==
  [d EXCEPT !.rows = Append(@, NewRow(k, tries)),
            !.gens[k] = [disp |-> "active", last |-> Len(d.rows) + 1]]

(* WithAttempt for the generations of K, one after the other               *)
WithAttempts(d, K, tries) ==
  LET At(i) == CHOOSE k \in K : Place(k, K) = i IN
  [d EXCEPT !.rows = @ \o [i \in 1..Cardinality(K) |-> NewRow(At(i), tries[At(i)])],
            !.gens = [k \in Keys |->
                        IF k \in K
                        THEN [disp |-> "active", last |-> Len(d.rows) + Place(k, K)]
                        ELSE @[k]]]

(* supersedeTemporalGenerationsInTransaction and ...AllActive...           *)
\* Fault: the generation is superseded and its open attempt is not cancelled.
SupersededOnly(d, K) ==
  [d EXCEPT !.gens = [k \in Keys |->
                        IF k \in K THEN [@[k] EXCEPT !.disp = "superseded"] ELSE @[k]]]

Superseded(d, K) ==
  [d EXCEPT
    !.rows = [i \in DOMAIN @ |->
                IF IsOpen(@[i]) /\ \E k \in K : d.gens[k].last = i
                THEN [@[i] EXCEPT !.status = "cancelled"] ELSE @[i]],
    !.gens = [k \in Keys |->
                IF k \in K THEN [@[k] EXCEPT !.disp = "superseded"] ELSE @[k]]]

OlderThan(d, t, epoch) == {k \in ActivesOf(d, t) : k.epoch < epoch}

----------------------------------------------------------------------------
(***************************************************************************)
(* transitionOwnerTaskRowInTransaction: the owner gives the task a status, *)
(* a due time, or touches a field that is neither.                         *)
(***************************************************************************)
Moves(tk, open, due) == due # tk.due \/ (open /\ ~tk.open)

Edited(d, t, open, due, touched) ==
  LET tk    == d.task[t]
      moved == Moves(tk, open, due)
      new   == IF moved
               THEN [tk EXCEPT !.open = open, !.due = due, !.rev = @ + 1, !.epoch = @ + 1,
                               !.reconciled = 0, !.next = Never, !.last = 0]
               ELSE [tk EXCEPT !.open = open, !.rev = @ + 1]
      saved == [d EXCEPT !.task[t] = new]
  IN  CASE moved               -> Superseded(saved, OlderThan(d, t, new.epoch))
        [] ~moved /\ tk.open /\ ~open -> Superseded(saved, ActivesOf(d, t))
        [] OTHER               -> IF touched \/ open # tk.open THEN saved ELSE d

----------------------------------------------------------------------------
(***************************************************************************)
(* candidateForTask and one scan of TemporalReconcileScheduler.tick.       *)
(***************************************************************************)
CheckAt(tk) == IF tk.next # Never THEN tk.next ELSE tk.due
KeyOf(d, t) == [task |-> t, epoch |-> d.task[t].epoch, at |-> CheckAt(d.task[t])]

IsDue(tk, now) ==
  /\ tk.open
  /\ tk.due # Never
  /\ tk.reconciled # tk.epoch
  /\ CheckAt(tk) <= now

Candidates(d, now) ==
  {KeyOf(d, t) : t \in {u \in Tasks : IsDue(d.task[u], now) /\ d.gens[KeyOf(d, u)].disp = "none"}}

Room(d) == IF Cardinality(OpenRows(d)) >= MaxOpen
           THEN 0 ELSE MaxOpen - Cardinality(OpenRows(d))

\* Fault: a scan takes its own limit, whatever is open already.
TakenPastTheCap(d, now) == First(ScanLimit, Candidates(d, now))

Taken(d, now) == First(Room(d), First(ScanLimit, Candidates(d, now)))

(* enqueueTemporalGeneration for every candidate taken.                    *)
Scanned(d, now) == WithAttempts(d, Taken(d, now), [k \in Keys |-> 1])

----------------------------------------------------------------------------
(***************************************************************************)
(* loadTemporalWorkContext succeeds for the attempt its generation points  *)
(* at, in progress, for the occurrence its open task still has.            *)
(***************************************************************************)
Owned(d, i) ==
  LET k == d.rows[i].key IN
  /\ d.rows[i].status = "in_progress"
  /\ d.gens[k] = [disp |-> "active", last |-> i]
  /\ d.task[k.task].open
  /\ d.task[k.task].epoch = k.epoch

ContextOf(d, i) == [attempt |-> i, rev |-> d.task[d.rows[i].key.task].rev]

\* Fault: the revision the run was given is not compared.
ContextHoldsAnyRevision(d, c) == Owned(d, c.attempt)

(* assertTemporalWorkContextActive                                         *)
ContextHolds(d, c) == Owned(d, c.attempt) /\ ContextOf(d, c.attempt) = c

(***************************************************************************)
(* applyTemporalEffect: the answers a run may give, and the transaction    *)
(* that commits one.                                                       *)
(***************************************************************************)
Answer == [outcome : {"resolved", "final_no_update", "deferred"}, open : BOOLEAN,
           due : Times \cup {Never}, next : Times \cup {Never}]

Answers(d, i, now) ==
  LET tk == d.task[d.rows[i].key.task] IN
  {a \in Answer :
     \/ /\ a.outcome = "resolved" /\ a.next = Never
        /\ a.due = tk.due \/ tk.epoch < MaxEpoch
     \/ /\ a.outcome = "final_no_update" /\ a.next = Never
        /\ a.open /\ a.due = tk.due
     \/ /\ a.outcome = "deferred" /\ a.next # Never /\ a.next > now
        /\ a.open /\ a.due = tk.due}

Applied(d, i, a) ==
  LET k     == d.rows[i].key
      tk    == d.task[k.task]
      moved == a.due # tk.due
      new   == [tk EXCEPT !.open = a.open, !.due = a.due, !.rev = @ + 1,
                          !.epoch = IF moved THEN @ + 1 ELSE @,
                          !.reconciled = IF a.outcome = "deferred" THEN @ ELSE k.epoch,
                          !.next = a.next, !.last = i]
      saved == [d EXCEPT !.task[k.task] = new]
      older == IF moved
               THEN Superseded(saved, OlderThan(saved, k.task, new.epoch) \ {k})
               ELSE saved
      own   == [older EXCEPT !.gens[k].disp = a.outcome,
                             !.rows[i].status = "done",
                             !.effects = @ \cup {[attempt |-> i, outcome |-> a.outcome,
                                                  before |-> tk.rev, next |-> a.next]}]
  IN  IF a.open THEN own ELSE Superseded(own, ActivesOf(own, k.task))

----------------------------------------------------------------------------
(***************************************************************************)
(* inspectTemporalAttempt: what it asserts of row, generation, receipt and *)
(* task before it answers.                                                 *)
(***************************************************************************)
MarkersAgree(d, i, e) ==
  LET k  == d.rows[i].key
      tk == d.task[k.task] IN
  /\ tk.rev > e.before
  /\ tk.rev = e.before + 1 =>
       /\ tk.last = i
       /\ IF e.outcome = "deferred" THEN tk.next = e.next
          ELSE tk.reconciled = k.epoch /\ tk.next = Never

Coherent(d, i) ==
  LET r == d.rows[i]
      g == d.gens[r.key] IN
  /\ r.status = "done" <=> ReceiptsOf(d, i) # {}
  /\ \A e \in ReceiptsOf(d, i) :
       g = [disp |-> e.outcome, last |-> i] /\ MarkersAgree(d, i, e)
  /\ r.status = "in_progress" => g = [disp |-> "active", last |-> i]
  /\ r.status = "cancelled" => g.disp = "superseded" \/ g = [disp |-> "active", last |-> i]
  /\ r.status = "failed" /\ g.disp = "active" /\ g.last # i => IsOpen(d.rows[g.last])
  /\ g.disp = "superseded" => r.status \in {"cancelled", "failed"}

----------------------------------------------------------------------------
(***************************************************************************)
(* failTemporalWorkOrder: a closed owner supersedes, a retry takes the     *)
(* generation over, the last try exhausts it; else it throws.              *)
(***************************************************************************)
ClosedOwner(d, i) ==
  LET k == d.rows[i].key IN
  /\ d.gens[k] = [disp |-> "active", last |-> i] /\ IsOpen(d.rows[i])
  /\ ~d.task[k.task].open

FailAccepted(d, i) == ClosedOwner(d, i) \/ Owned(d, i)

WithFailed(d, i) == [d EXCEPT !.rows[i].status = "failed"]

\* Fault: the replacement is inserted and the generation not handed to it.
FailedWorkKeepsOwner(d, i, retry) ==
  LET r == d.rows[i] IN
  IF ClosedOwner(d, i) THEN Superseded(d, ActivesOf(d, r.key.task))
  ELSE IF retry /\ r.tries < MaxTries
  THEN [WithAttempt(WithFailed(d, i), r.key, r.tries + 1) EXCEPT !.gens = d.gens]
  ELSE [WithFailed(d, i) EXCEPT !.gens[r.key].disp = "exhausted"]

\* Fault: the last try fails and its generation stays active.
FailedWorkLeavesActive(d, i, retry) ==
  LET r == d.rows[i] IN
  IF ClosedOwner(d, i) THEN Superseded(d, ActivesOf(d, r.key.task))
  ELSE IF retry /\ r.tries < MaxTries THEN WithAttempt(WithFailed(d, i), r.key, r.tries + 1)
  ELSE WithFailed(d, i)

FailedWork(d, i, retry) ==
  LET r == d.rows[i] IN
  IF ClosedOwner(d, i) THEN Superseded(d, ActivesOf(d, r.key.task))
  ELSE IF retry /\ r.tries < MaxTries THEN WithAttempt(WithFailed(d, i), r.key, r.tries + 1)
  ELSE [WithFailed(d, i) EXCEPT !.gens[r.key].disp = "exhausted"]

(* claimNextWorkOrder, for any pending row: priorities are left open.      *)
ClaimedRow(d, i) == [d EXCEPT !.rows[i].status = "in_progress"]

----------------------------------------------------------------------------
(* repairClosedTemporalGenerations, pauseActiveTemporalWork                *)
Repaired(d) == Superseded(d, {k \in Actives(d) : ~d.task[k.task].open})

Paused(d) == [d EXCEPT !.rows = [i \in DOMAIN @ |->
                IF IsOpen(@[i]) THEN [@[i] EXCEPT !.status = "cancelled"] ELSE @[i]]]

(***************************************************************************)
(* resumePausedTemporalWork: every active generation without an open row   *)
(* gets one with the tries of its last, which must be a cancelled one.     *)
(***************************************************************************)
ToResume(d) == {k \in Actives(d) : \A i \in OpenRows(d) : d.rows[i].key # k}

CanResume(d) == \A k \in ToResume(d) : d.rows[d.gens[k].last].status = "cancelled"

LastTries(d, k) == d.rows[d.gens[k].last].tries

\* Fault: the resumed attempt counts as another try.
ResumedAsRetry(d) ==
  WithAttempts(d, ToResume(d),
               [k \in ToResume(d) |->
                  IF LastTries(d, k) < MaxTries THEN LastTries(d, k) + 1 ELSE MaxTries])

Resumed(d) == WithAttempts(d, ToResume(d), [k \in ToResume(d) |-> LastTries(d, k)])
=============================================================================
