---------------------------- MODULE TemporalWork ----------------------------
(***************************************************************************)
(* Time-sensitive owner tasks and the daemon that reconciles them:         *)
(* temporal-reconcile.ts (the scan), temporal-runtime.ts (boot, pause,     *)
(* resume), workorder-consumer.ts (one attempt at a time, and the          *)
(* arbitration of its outcome) and the task_temporal_reconcile tool of     *)
(* gateway-tool-executor.ts, over the transactions of TemporalLedger.      *)
(*                                                                         *)
(* The process is single threaded and the database synchronous: an action  *)
(* is what happens between two awaits.  The owner edits tasks while an     *)
(* attempt awaits its hook, its model or the lookup of its evidence.       *)
(* The tick of the consumer is the serial drain that WorkOrderConsumer     *)
(* models; here its claims are taken one by one.                           *)
(***************************************************************************)
EXTENDS TemporalLedger

CONSTANTS
  MaxRows,      \* bound: a scan takes nothing more once this many rows exist
  MaxEdits,     \* bound: edits by the owner
  MaxRestarts,  \* bound: deaths and graceful stops of the process
  MaxFaults     \* bound: arbitrations that meet an unavailable database

ASSUME TemporalBoundAssumption ==
  MaxRows \in Nat /\ MaxEdits \in Nat /\ MaxRestarts \in Nat /\ MaxFaults \in Nat

VARIABLES
  db,        \* the operator database
  now,       \* the clock
  phase,     \* the process: down, recovering stale claims, up, stopping
  enabled,   \* the temporal reconciliation flag of this process
  cur,       \* the attempt runOne is working on, 0 for none
  step,      \* where runOne is
  ctx,       \* the host context of the run: none, or one context
  late,      \* contexts of cut-off runs whose calls may still be accepted
  deferred,  \* unresolvedTemporalEffects
  edits, restarts, faults

boundVars == <<edits, restarts, faults>>
runVars   == <<cur, step, ctx, late>>
vars == <<db, now, phase, enabled, runVars, deferred, boundVars>>

Context == [attempt : Nat \ {0}, rev : Nat]

TypeOK ==
  /\ db.task \in [Tasks -> Task] /\ db.gens \in [Keys -> Gen]
  /\ db.rows \in Seq(Row) /\ db.effects \subseteq Effect
  /\ now \in Times
  /\ phase \in {"down", "recover", "up", "stopping"} /\ enabled \in BOOLEAN
  /\ cur \in {0} \cup DOMAIN db.rows
  /\ step \in {"idle", "prep", "run"} /\ (step = "idle" <=> cur = 0)
  /\ ctx \subseteq Context /\ Cardinality(ctx) <= 1 /\ (ctx # {} => step = "run")
  /\ late \subseteq Context
  /\ deferred \subseteq [attempt : DOMAIN db.rows, retry : BOOLEAN]
  /\ edits \in 0..MaxEdits /\ restarts \in 0..MaxRestarts /\ faults \in 0..MaxFaults

(***************************************************************************)
(* A database before the repair of closed owners existed may hold a closed *)
(* task whose generation is still active and its attempt pending.          *)
(***************************************************************************)
Fresh(due) == [task |-> [t \in Tasks |-> NewTask(due[t])],
               gens |-> [k \in Keys |-> NoGen], rows |-> <<>>, effects |-> {}]

ClosedBeforeRepair(d, t) ==
  LET x == WithAttempt(d, KeyOf(d, t), 1) IN [x EXCEPT !.task[t].open = FALSE]

Init ==
  /\ \E due \in [Tasks -> {0}] :
       \/ db = Fresh(due)
       \/ \E t \in Tasks : db = ClosedBeforeRepair(Fresh(due), t)
  /\ now = 0 /\ phase = "down" /\ enabled = FALSE
  /\ cur = 0 /\ step = "idle" /\ ctx = {} /\ late = {} /\ deferred = {}
  /\ edits = 0 /\ restarts = 0 /\ faults = 0

Running == phase \in {"up", "stopping"}

----------------------------------------------------------------------------
(***************************************************************************)
(* The owner, the clock and the scheduler.                                 *)
(***************************************************************************)
OwnerEdits(t, open, due, touched) ==
  /\ Running /\ edits < MaxEdits
  /\ Moves(db.task[t], open, due) => db.task[t].epoch < MaxEpoch
  /\ db' = Edited(db, t, open, due, touched)
  /\ edits' = edits + 1
  /\ UNCHANGED <<now, phase, enabled, runVars, deferred, restarts, faults>>

Clock ==
  /\ now < MaxTime
  /\ now' = now + 1
  /\ UNCHANGED <<db, phase, enabled, runVars, deferred, boundVars>>

AfterScan == IF Len(db.rows) < MaxRows THEN Scanned(db, now) ELSE db

Scan ==
  /\ phase = "up" /\ enabled
  /\ db' = AfterScan
  /\ UNCHANGED <<now, phase, enabled, runVars, deferred, boundVars>>

----------------------------------------------------------------------------
(***************************************************************************)
(* arbitrateTemporalAttempt: the durable state decides.  What cannot be    *)
(* read, or makes no sense, is deferred and bars the next claim.           *)
(***************************************************************************)
Forget(i) == {x \in deferred : x.attempt # i}

OutcomeIsDurable(i) ==
  LET r == db.rows[i]
      g == db.gens[r.key] IN
  \/ r.status = "done" /\ ReceiptsOf(db, i) # {}
  \/ g.disp = "superseded"
  \/ r.status = "failed" /\ g.disp = "active" /\ g.last # i
  \/ r.status = "failed" /\ g.disp = "exhausted" /\ g.last = i

\* Fault: the receipt is not read, a reported failure is taken at its word.
ArbitrateAtItsWord(i, retry) ==
  /\ faults' = faults
  /\ db' = FailedWork(db, i, retry)
  /\ deferred' = Forget(i)

Arbitrate(i, retry) ==
  \/ /\ faults < MaxFaults
     /\ faults' = faults + 1
     /\ deferred' = Forget(i) \cup {[attempt |-> i, retry |-> retry]}
     /\ UNCHANGED db
  \/ /\ faults' = faults
     /\ IF ~Coherent(db, i)
        THEN deferred' = Forget(i) \cup {[attempt |-> i, retry |-> retry]} /\ db' = db
        ELSE IF OutcomeIsDurable(i)
        THEN deferred' = Forget(i) /\ db' = db
        ELSE IF FailAccepted(db, i)
        THEN deferred' = Forget(i) /\ db' = FailedWork(db, i, retry)
        ELSE deferred' = Forget(i) \cup {[attempt |-> i, retry |-> retry]} /\ db' = db

Recheck ==
  /\ phase = "up" /\ step = "idle"
  /\ \E x \in deferred : Arbitrate(x.attempt, x.retry)
  /\ UNCHANGED <<now, phase, enabled, runVars, edits, restarts>>

----------------------------------------------------------------------------
(***************************************************************************)
(* runOne for a temporal row: claim; before-hook and run options, which    *)
(* load the context; the run; the arbitration.                             *)
(***************************************************************************)
Claim ==
  /\ phase = "up" /\ step = "idle" /\ deferred = {}
  /\ \E i \in DOMAIN db.rows :
       /\ db.rows[i].status = "pending"
       /\ db' = ClaimedRow(db, i)
       /\ cur' = i
  /\ step' = "prep"
  /\ UNCHANGED <<now, phase, enabled, ctx, late, deferred, boundVars>>

\* Fault: runOne returns and the attempt stays the current one.
RunOneReturnsHolding == cur' = cur /\ step' = "idle" /\ ctx' = {}

RunOneReturns == cur' = 0 /\ step' = "idle" /\ ctx' = {}

PrepDone ==
  /\ step = "prep" /\ Owned(db, cur)
  /\ step' = "run" /\ ctx' = {ContextOf(db, cur)}
  /\ UNCHANGED <<db, now, phase, enabled, cur, late, deferred, boundVars>>

(* a missing brief, a hook or run options that throw; a lost context       *)
PrepFails ==
  /\ step = "prep"
  /\ Arbitrate(cur, TRUE)
  /\ RunOneReturns
  /\ UNCHANGED <<now, phase, enabled, late, edits, restarts>>

(* task_temporal_reconcile, by the run or by a call that outlived its run. *)
Reconcile(c) ==
  /\ Running /\ c \in ctx \cup late
  /\ ContextHolds(db, c)
  /\ \E a \in Answers(db, c.attempt, now) : db' = Applied(db, c.attempt, a)
  /\ UNCHANGED <<now, phase, enabled, runVars, deferred, boundVars>>

(* the worker answered: with an API error, an effect or none, a verdict    *)
RunReturns ==
  /\ step = "run"
  /\ Arbitrate(cur, TRUE)
  /\ RunOneReturns
  /\ UNCHANGED <<now, phase, enabled, late, edits, restarts>>

(* The run was cut off; an ambiguous mutation suppresses the retry.  A call *)
(* it leaves behind keeps its context; a row that has left in_progress      *)
(* never comes back to it, so only contexts of such a row are remembered.   *)
LeftBehind == late' = {c \in late \cup ctx : db'.rows[c.attempt].status = "in_progress"}

RunThrows ==
  /\ step = "run" /\ phase = "up"
  /\ \E retry \in BOOLEAN : Arbitrate(cur, retry)
  /\ LeftBehind
  /\ RunOneReturns
  /\ UNCHANGED <<now, phase, enabled, edits, restarts>>

RunThrowsWhileStopping ==
  /\ step = "run" /\ phase = "stopping"
  /\ UNCHANGED db
  /\ LeftBehind
  /\ RunOneReturns
  /\ UNCHANGED <<now, phase, enabled, deferred, boundVars>>

----------------------------------------------------------------------------
(***************************************************************************)
(* TemporalRuntime: boot and stop, and the death of the process.           *)
(***************************************************************************)
\* Fault: what was paused is resumed by the first scan only after the boot.
StartWithoutResume ==
  /\ phase = "down"
  /\ \E flag \in BOOLEAN :
       /\ enabled' = flag
       /\ db' = IF flag THEN Repaired(db) ELSE Paused(Repaired(db))
  /\ phase' = "recover"
  /\ UNCHANGED <<now, runVars, deferred, boundVars>>

Start ==
  /\ phase = "down"
  /\ \E flag \in BOOLEAN :
       /\ flag => CanResume(Repaired(db))
       /\ enabled' = flag
       /\ db' = IF flag THEN Resumed(Repaired(db)) ELSE Paused(Repaired(db))
  /\ phase' = "recover"
  /\ UNCHANGED <<now, runVars, deferred, boundVars>>

Stale == {i \in DOMAIN db.rows : db.rows[i].status = "in_progress"}

RecoverStale ==
  /\ phase = "recover" /\ deferred = {}
  /\ \E i \in Stale : Arbitrate(i, TRUE)
  /\ UNCHANGED <<now, phase, enabled, runVars, edits, restarts>>

BootDone ==
  /\ phase = "recover"
  /\ Stale = {} \/ deferred # {}
  /\ db' = IF enabled THEN AfterScan ELSE db
  /\ phase' = "up"
  /\ UNCHANGED <<now, enabled, runVars, deferred, boundVars>>

\* Fault: the open attempts are not paused before the worker drains.
StopWithoutPause ==
  /\ phase = "up" /\ restarts < MaxRestarts
  /\ phase' = "stopping"
  /\ restarts' = restarts + 1
  /\ UNCHANGED <<db, now, enabled, runVars, deferred, edits, faults>>

Stop ==
  /\ phase = "up" /\ restarts < MaxRestarts
  /\ phase' = "stopping"
  /\ db' = IF enabled THEN Paused(db) ELSE db
  /\ restarts' = restarts + 1
  /\ UNCHANGED <<now, enabled, runVars, deferred, edits, faults>>

Gone ==
  /\ phase' = "down" /\ enabled' = FALSE
  /\ cur' = 0 /\ step' = "idle" /\ ctx' = {} /\ late' = {} /\ deferred' = {}

Exit ==
  /\ phase = "stopping" /\ step = "idle"
  /\ Gone
  /\ UNCHANGED <<db, now, boundVars>>

Crash ==
  /\ phase # "down"
  /\ restarts < MaxRestarts \/ phase = "stopping"
  /\ restarts' = IF phase = "stopping" THEN restarts ELSE restarts + 1
  /\ Gone
  /\ UNCHANGED <<db, now, edits, faults>>

----------------------------------------------------------------------------
Prep == PrepDone \/ PrepFails
RunEnds == RunReturns \/ RunThrows \/ RunThrowsWhileStopping

Next ==
  \/ \E t \in Tasks, open, touched \in BOOLEAN, due \in Times \cup {Never} :
       OwnerEdits(t, open, due, touched)
  \/ Clock \/ Scan \/ Recheck
  \/ Claim \/ Prep \/ RunEnds
  \/ \E c \in ctx \cup late : Reconcile(c)
  \/ Start \/ RecoverStale \/ BootDone \/ Stop \/ Exit \/ Crash

Spec == Init /\ [][Next]_vars

(***************************************************************************)
(* Timers fire (the scan, the tick), awaits of the consumer end (runs are  *)
(* timed out), boot and exit go on.  Nothing makes the owner edit, the     *)
(* clock advance within the model's bound, or a model call its tool.       *)
(***************************************************************************)
Fairness ==
  /\ WF_vars(Start) /\ WF_vars(RecoverStale) /\ WF_vars(BootDone) /\ WF_vars(Exit)
  /\ WF_vars(Scan) /\ WF_vars(Recheck) /\ WF_vars(Claim)
  /\ WF_vars(Prep) /\ WF_vars(RunEnds)

FairSpec == Spec /\ Fairness
----------------------------------------------------------------------------
(***************************************************************************)
(* Properties.                                                             *)
(***************************************************************************)
AttemptsOf(k) == {i \in DOMAIN db.rows : db.rows[i].key = k}

(***************************************************************************)
(* An open attempt is the one its generation points at, and the generation *)
(* is active; once the daemon has booted with the flag on, every active    *)
(* generation has such an attempt until the daemon stops.  Edits, retries, *)
(* supersession, pause, resume and repair all move this ownership.         *)
(***************************************************************************)
OneOpenAttempt ==
  /\ phase # "down" =>
       \A i \in OpenRows(db) : db.gens[db.rows[i].key] = [disp |-> "active", last |-> i]
  /\ phase \in {"recover", "up"} /\ enabled =>
       \A k \in Actives(db) : IsOpen(db.rows[db.gens[k].last])

(***************************************************************************)
(* inspectTemporalAttempt never throws on an attempt whose outcome is      *)
(* still to be arbitrated: the one being run, a deferred one, a stale      *)
(* claim.  Were it to, the attempt would be deferred for good and bar all  *)
(* further work.                                                           *)
(***************************************************************************)
ToArbitrate == ({cur} \ {0}) \cup {x.attempt : x \in deferred} \cup Stale

InspectionAnswers == phase # "down" => \A i \in ToArbitrate : Coherent(db, i)

(***************************************************************************)
(* The tries of a generation are counted by its failed attempts and by     *)
(* nothing else: a pause, a resume, a supersession or an effect spends     *)
(* none, and a retry is neither skipped nor repeated.                      *)
(***************************************************************************)
FailuresAreCounted ==
  \A k \in Keys : db.gens[k].disp # "none" =>
    LET last   == db.gens[k].last
        failed == {i \in AttemptsOf(k) : db.rows[i].status = "failed"} IN
    /\ \A i \in AttemptsOf(k) : i <= last
    /\ Cardinality(failed \ {last}) = db.rows[last].tries - 1
    /\ db.gens[k].disp = "exhausted" => last \in failed

(***************************************************************************)
(* At most MaxOpen attempts are open, over retries, pauses and resumes,    *)
(* and a task is never checked by two active generations at once.          *)
(***************************************************************************)
OpenIsBounded ==
  /\ Cardinality(OpenRows(db)) <= MaxOpen
  /\ phase # "down" => \A t \in Tasks : Cardinality(ActivesOf(db, t)) <= 1

(***************************************************************************)
(* A boot with the flag on never meets an active generation it cannot      *)
(* resume, which would abort the start of the daemon.                      *)
(***************************************************************************)
BootCanResume == phase = "down" => CanResume(Repaired(db))

(***************************************************************************)
(* Once the daemon stops with the flag on, no attempt has an effect any    *)
(* more: neither the run that drains nor a late call of an earlier one.    *)
(***************************************************************************)
StopFencesEffects == [][phase = "stopping" /\ enabled => db'.effects = db.effects]_vars

(***************************************************************************)
(* An effect is never built on a task the owner has edited since the run   *)
(* read it: from the load of the context to the commit the task stays the  *)
(* same, whatever awaits lie between and whichever run makes the call.     *)
(***************************************************************************)
NoLostEdit ==
  [][\A e \in db'.effects \ db.effects :
       [attempt |-> e.attempt, rev |-> db.task[db.rows[e.attempt].key.task].rev]
         \in ctx \cup late]_vars

(***************************************************************************)
(* Under the daemon's scheduling, as long as the flag is on again and      *)
(* again, a task does not stay owed a check for ever: its due occurrence   *)
(* is taken up although others fill the cap, and its generation is         *)
(* settled, deferred, superseded or exhausted.                             *)
(***************************************************************************)
Owed(t) == \/ ActivesOf(db, t) # {}
           \/ KeyOf(db, t) \in Candidates(db, now) /\ Len(db.rows) < MaxRows

EveryCheckEnds == ([]<>enabled) => \A t \in Tasks : Owed(t) ~> ~Owed(t)
=============================================================================
