# MAMA standalone operator: a TLA+ verification project

This directory holds TLA+ models of the *operator* of MAMA standalone, the TLC
configurations that check them, and TLAPS proofs about them. All paths below are
relative to `packages/standalone/src/` unless they say otherwise; `operator/…`
is the directory `packages/standalone/src/operator/`.

The operator is the part of MAMA that acts on its own: it turns connector events
into model turns, turns scheduled and delegated work into orders, runs them with
a language model, sends messages and uploads files on the owner's behalf, and has
to do all this across crashes, restarts, lost answers and retries. This is where
the repository's own logic is concurrent, durable and hard to test, and it is
what the project models.

## 1. The system

The daemon is one Node process. JavaScript runs to the next `await` without
interruption and SQLite calls (better-sqlite3) are synchronous, so the atomic
steps are the synchronous blocks between two awaits, and what interleaves are the
timers, ticks, runs and tool calls suspended on an `await`. A crash (SIGKILL,
power loss, the 5 s forced exit of `cli/runtime/shutdown.ts`) falls between two
transactions. SQLite and JSON stores survive it, memory does not.

### Components

| Component | State it keeps | Operations | What makes it correct |
|---|---|---|---|
| Workorder ledger, `operator/task-ledger.ts` (kind `system`) | table `operator_tasks`, candidate receipts | enqueue with dedupe, claim, complete, fail, requeue, inspect receipts | one open row per key, an owner-event key accepted once, no retry lost, no budget exceeded |
| Workorder consumer, `operator/workorder-consumer.ts`, `worker-run.ts` | tick in flight, order held, `unresolvedBoardCandidateEffects`, `stopping` | boot recovery, tick, runOne, failure policy, candidate arbitration, stop | one claim at a time, a barrier while an outcome is unknown, every order settles, stop returns |
| Workorder publishers, `operator/workorder-publishers.ts`, `cli/commands/start.ts` | none | scheduled, owner-requested and delegated enqueues | their keys name occurrences |
| Connector intake, `operator/operator-trigger-loop.ts`, `connector-delta-repo.ts` | delta cursor | drain, enqueue per channel, commit | no event lost between the batch write and the cursor write |
| Owner-event inbox, `operator/owner-event-inbox.ts` | `owner_event_inbox`, `owner_event_inbox_events` | enqueue, claim with lease, ack, retry, replay, expire | an event in one batch only, every batch ends, a dead one has one alert |
| Owner-event loop, `operator/owner-event-loop.ts`, `owner-event-outcome.ts` | tick in flight, batch of the turn | replay, alert, claim, run, classify, ack or retry | acked only with a durable outcome, turns bounded |
| Owner-event effects, `operator/owner-event-effects.ts`, `agent/gateway-tool-executor.ts`, `agent/drive-tools.ts` | `owner_event_effects` | begin, inspect, confirm, markUnknown; `drive_upload`, `telegram_send` | an effect transmitted once, or known to be doubtful |
| Telegram outbound, `gateways/telegram.ts`, `telegram-message-ledger.ts` | JSON outbound ledger, chat queues | claim, progress per piece, mark delivered | no piece lost, none repeated without need |
| Temporal reconciliation, `operator/temporal-*.ts`, `task-temporal.ts`, `task-ledger.ts` | due times and epochs of owner tasks, temporal generations, their attempts, effect receipts | scan, claim, load context, accept an effect, supersede, exhaust, pause, resume, repair | effects only from the attempt a generation points at, tries counted by failures, no owner edit overwritten, boot always possible |
| Board refresh gate, `operator/board-refresh-gate.ts`, `board-reconcile.ts`, `workorder-hooks.ts`, `cli/runtime/api-routes-init.ts` | dirt per channel and per boot, pending lines, debounce and retry timers, hourly budget | mark, post, fire, defer, order, force, judge | dirt marked during a refresh survives it, lines are in one place, repair catches up |
| Lane manager, `concurrency/lane-manager.ts` | lanes, queues, limits | enqueue in a session lane, then in a global one | limits kept, order kept per session |
| Report pipeline, `operator/operator-trigger-loop.ts`, `report-delivery-coordinator.ts`, `pending-report-store.ts`, `gateways/telegram-report-context-store.ts` | pending file (window, prepared report, request), report-context rows with leases, outbound entries with pins, schedule file | drain, compose, reserve, lease, pin, send, mark, release, cancel, reactivate, reconcile | no known message repeated, recorded outcomes true, no committed event forgotten, every report ends |
| Trigger registry, authoring, review, `operator/trigger-*.ts` | trigger rows and counters | match, fire, author, review | mostly text and model calls |
| Owner tasks and external lifecycle, `operator/external-*.ts` | bindings of tasks to external items | match, decide | here only as candidate receipts |
| Agent loop, sessions, CLI runner, `agent/*` | sessions, child processes | run a model turn | an interval between two steps here |
| Scheduler, heartbeat, job lock, `scheduler/*` | timers, locks | fire | here as fairness |
| Gateways, connectors, HTTP API, envelopes, multi-agent, MAMA core, MCP server, plugins | own stores | I/O, ranking, formatting | outside this project |

### How they interact

```
connectors -> trigger loop --enqueue--> owner-event inbox --claim--> owner-event loop
                  |  commit                  ^  ack/retry               | model turn
             delta cursor                    +--------------------------+
                                                                        | tool calls
                     +----------------------+---------------------------+
                     |                      |                           |
               telegram_send           drive_upload             workorder request
                     |                      |                           | enqueue
            effect ledger + outbound   effect ledger             workorder table <- publishers
              ledger -> Telegram         -> Drive                       | claim
                                                                 consumer -> model run
                                                                 (board, wiki, curation)
```

An owner event that is delegated becomes a workorder whose key starts with
`owner-event:`; that acceptance is one of the three durable receipts that let the
inbox ack the batch (with a confirmed effect and an exact no-update note). A
delegated order is therefore a key of `OwnerEventOcc` in the workorder model and
a member of `accepted` in the owner-event model, and what the one assumes (the key
is taken once for good, so accepting it again changes nothing) the other checks
(`SlotHeldOnce`).

Three more exchanges matter below:

```
owner edits -> owner tasks --scan--> temporal generations --attempts--> workorder table
                   ^                                                        | claim
                   +--- task_temporal_reconcile (context of one run) --- consumer run

posts, owner-event requests, 30-minute timer, manual refresh
        | mark dirt                                  | order
   refresh gate  <------ verdict on a run ------  workorder table

drain -> window --compose--> pending report --reserve--> context row --pin--> outbound entry -> Telegram
             ^ reset                ^ forget                  | outcome             | pin released
             +----------------------+-------------------------+---------------------+
```

### What is hard

* Two-write sequences with a crash between them: batch then cursor, effect then
  ack, piece then progress then effect, alert after the dead mark; a report is
  kept in three stores that are written one after the other.
* Effects that arrive from a run that was cut off, stopped, superseded, or whose
  task the owner has changed in the meantime.
* Dirt, windows and timers that something else changes between the moment a run
  captures them and the moment its end clears them.
* State read before an await and used after it: the receipt before a turn, the
  Drive lookup before the reservation.
* Calls that overlap, or outlive the turn that made them.
* Receipts that belong to an occurrence while retries belong to attempts.
* Budgets that several code paths count: retry, lease replay, age, boot recovery.
* A ledger that cannot be read or written at the moment an outcome must be stored.

`PROJECT.json` lists each hazard at its line, with the properties aimed at it, or
with the reason no property covers it yet.

## 2. The modules

| Module | Models | Kind |
|---|---|---|
| `WorkOrderLedger` | rows of `operator_tasks`; the ledger's transactions as functions from tables to tables | state and operators |
| `WorkOrderConsumer` | the daemon process around it: publishers, boot recovery, tick, runOne await by await, failure policy, arbitration, stop, exit, crash | state machine |
| `WorkOrderPromise` | what a publisher is promised, one key at a time | abstract specification |
| `MCWorkOrders` | the refinement mapping to `WorkOrderPromise` | model checking |
| `WorkOrderProofs` | TLAPS proofs about `WorkOrderConsumer` | proofs |
| `WorkOrderPromiseProofs` | TLAPS proof that it implements `WorkOrderPromise` | proofs |
| `TemporalLedger` | owner tasks with due times, generations, attempts, receipts; the transactions as functions from databases to databases | state and operators |
| `TemporalWork` | the daemon around it: scan, boot, pause, resume, runs, arbitration, owner's edits, crash | state machine |
| `TemporalPromise` | what the daemon promises about one check of a task | abstract specification |
| `MCTemporalWork` | the refinement mapping to `TemporalPromise` | model checking |
| `TemporalLedgerProofs` | TLAPS lemmas about the transactions of `TemporalLedger` | proofs |
| `TemporalWorkProofs` | TLAPS proofs about `TemporalWork`, and that it implements `TemporalPromise` | proofs |
| `BoardRefresh` | gate, reconcile scheduler, board publishers, completion hook | state machine |
| `BoardRefreshProofs` | TLAPS proofs about `BoardRefresh` | proofs |
| `OwnerReports` | loop, composition and delivery of reports over their three stores | state machine |
| `OwnerReportProofs` | TLAPS proofs about `OwnerReports` | proofs |
| `OwnerEventInbox` | the inbox table, the drain and its cursor | state and operators |
| `OwnerEvents` | the owner-event loop, turns, tool calls, effect ledger, outbound ledger, Drive and Telegram | state machine |
| `MCOwnerEvents` | TLC instances and their symmetry | model checking |
| `OwnerEventProofs` | TLAPS proofs about the inbox and the loop of `OwnerEvents` | proofs |
| `OwnerEffectProofs` | TLAPS proofs about its ledgers, tool calls and effects | proofs |

Operators under a comment that begins with *Fault:* are variants of the definition
after them with a plausible bug in it. No specification uses them; put in place of
that definition, each one breaks the property `PROJECT.json` pairs it with.

### Workorders: state and actions

`rows` is the table in id order; a row keeps its key, priority, attempt number and
status. `reason` is a coarse form of `last_error`: why a row failed. `receipts`
are the durable candidate decisions of board orders; as in the code they are keyed by
occurrence and candidate, not by attempt. `proc`, `stopping`, `step`, `cur`,
`remaining` and `unresolved` are the fields and locals of the process and of the
consumer; `step` names the await the consumer is suspended on:

| `step` | the consumer is | leaves by |
|---|---|---|
| `idle` | between ticks | `TickStart`, `Recheck`, `RecheckWriteFails` |
| `loop` | in tick(), about to claim | `Claim`, `ClaimWithoutBrief`, `EndTick` |
| `prep` | awaiting before-hook or run options | `PrepDone`, `PrepFails` |
| `run` | awaiting the worker | `Decide` (stays), `RunReturns`, `RunAnswersApiError`, `RunThrows` |
| `after` | awaiting the after-hook | `AfterDone` |

`HandleFailure`, `OrdinaryFailure`, `ArbitratedRows` and `Arbitrate` are the failure
policy; every action that fails an order runs the whole of it. `SettleWriteFails` and
`RecheckWriteFails` are the paths on which a ledger write throws out of `tick()`.

Data left out: payloads, briefs, timestamps, token counts, error texts, events emitted
for the viewer. Temporal orders share the table but have their own life cycle, which
`TemporalWork` models; `cancelOpenWorkOrders` has no caller.

### Owner events: state and actions

`batches`, `seen`, `cursor`, `handed` are the inbox, its per-event dedupe table, the
delta cursor and the events of the drain in progress. From the first enqueue of a drain
to its commit the code does not await, so nothing but a crash happens in between: the
conjunct `Waiting` (`handed = {}`) in the other actions of the daemon says so.
`DrainFails` is a throw of a later enqueue or of the cursor write. `due` abstracts
time: a lease, or a back-off, has run out. `Expired(n)` lets the age limit take any prefix
of the pending batches, since ages follow ids.

`step`, `cur`, `processed`, `dying`, `done` are the tick in flight; `done` is what the
turn's history would prove. `effects` is the effect ledger, `intent` the variant a
Telegram reservation is bound to, `outbox` the outbound ledger's entry of a batch.
A tool call is an element of `call` with a program counter of its own: it can overlap
other calls of its turn, and can go on after its turn was cut off.

| tool | program counter |
|---|---|
| `drive_upload` | `lookup` (findUploadOccurrence), `reserve` (begin), `transmit` (files.create), `recover` (look for the file, never create) |
| `telegram_send` | `queued` (chat queue), `sending` (a piece on the wire), `sent` (its answer is here), `confirming` (effect ledger write) |

`Created` and `Landed` are the outside world: the file exists or the piece is shown,
whether or not the answer arrives. `uploads` and `messages` count what the outside
has seen, saturating at 2, which is all the properties tell apart. `doubted`, `turns`, `announced`,
`unheard`, `lost` and `blanked` are history: `announced` are the dead batches whose alert reached the owner, `unheard` those whose
alert the notifier swallowed (it is not set, or its error was logged), `lost` those whose alert a death or a
database error took, `blanked` those whose message was confirmed on a blank text.

A database error may reject a tick at every one of its statements, not only between transactions, since neither the replay nor a
retry nor a recovery is a transaction: `ReplayRejects` (old batches parked, their alerts not made),
`RecoverRejects` (claimed, not acked), `RetryRejects` (retried, its new status not read back) and `TickRejects` (nothing written).
A death between two such statements leaves the table as the step followed by `Crash` does.

A `telegram_send` without text is `BlankCall`. With a text of blanks the executor goes on, the gateway returns before it looks at
its queue or at the outbound ledger, and the executor confirms; with an empty one the call
fails and leaves its reservation `transmitting`. `Unsendable` is a gateway that is not connected or a file that does not resolve.

Data left out: texts (a text is a payload with a number of pieces), prompts, envelopes,
channel names, the photo-to-file fallback and stickers (which are single-piece sends
like a file), pruning of acked batches (7 days), of seen events (30 days) and of the
outbound ledger, JSON write failures, errors of the effect ledger's own writes (a
confirmation that throws ends in `markUnknown` or leaves the reservation as it is; the outbound entry is delivered by then, so the
next call confirms it without sending), and the graceful stop of the loop, which leaves
the same durable state as a crash. Of the executor's tools only
the two that reserve an external effect are modelled.

### Temporal work: state and actions

`db` is the operator database as one value: `task` (open or not, due time, epoch, revision,
the epoch it was reconciled for, its next check, its last attempt), `gens` (disposition and
last attempt of each generation), `rows` (the attempts, in id order) and `effects` (receipts).
A transaction of the ledger is an operator of `TemporalLedger` from one such value to the next; one
that may throw has a predicate that says when it does not (`FailAccepted`, `CanResume`,
`Owned`). `Coherent` is what `inspectTemporalAttempt` asserts before it answers.

`phase` is the process (down, recovering stale claims, up, stopping) and `enabled` the
reconciliation flag it was started with. `cur`, `step` and `ctx` are the attempt being run, the await
it is suspended on and the context its tool call is checked against; `late` holds the contexts of runs
that were cut off while a call of theirs may still arrive; `deferred` is
`unresolvedTemporalEffects`. `Arbitrate` is the whole of `arbitrateTemporalAttempt`, and every action that
ends an attempt contains it. `Start` is repair, then resume or pause, in the order of
`TemporalRuntime.start`.

Data left out: dates and time zones (a due time is an instant of a small clock, an exact due time or
the first instant of a deadline's day; the quotas of the two kinds of candidates are one,
`ScanLimit`; each candidate of a scan is a transaction of its own, `operator/temporal-reconcile.ts:248`, and here the whole scan
is one step, so a death in the middle of one, which leaves the first of its candidates enqueued and the others to the next
scan, is not modelled), the priority among pending rows (any may be claimed), evidence lookup and text of an effect.
The resumed attempts of one boot are inserted in the order of their times; the code inserts them in the
text order of their generation keys, which no property tells apart, since any pending row may be claimed.

### Board refresh: state and actions

`gate` is `BoardRefreshGate`: a generation counter, the generation of the boot with its dirt, and the generation of the
latest dirt per channel (the pseudo channels of the manual and the owner-requested refresh
included). `pending`, `armed`, `retry` and `spent` are the reconcile scheduler: lines kept per channel,
channels whose firing is due, the retry timer and the runs within the hour. `queue` and `run` are the board's orders,
durable; everything else dies with the process. `waiting` and `unproven` are history: the lines whose
run has not ended, and those whose run ended without a verdict.

A posted batch of lines is named by the generation its mark received, so that the generation of a
coalesced order is that of its last line. `FireDefers`, `FireConsumes` and `FireRuns` are the
three ends of `fire()`. The retry timer of the code fires its channels one after the other in one block; here
other steps may come between them, which only adds behaviours. `RunVerified` and
`RunUnproven` are the completion hook. Orders here carry no event ids (the only caller passes none),
therefore have no candidates and a single attempt.

Data left out: the text of lines, snapshots and traces the verifier compares (a verdict is a choice among
effect, note and none), the length of timers, the slots of quiet hours.

### Owner reports: state and actions

A run of the loop is a sequence of legs (`at`): recover what an earlier run left, drain,
commit, digest, full report; or the run of a report on demand. `send` is where the delivery of the prepared report is:

| `send` | `deliverPrepared` has | next |
|---|---|---|
| `submit` | nothing | `Leases`, `Refused`, `Conflicts`, `Waits`, `WasCancelled`, `WasDelivered` |
| `leased` | reserved and leased the row | `Pins`, `StepThrows` |
| `pinned` | pinned the outbound entry | `Transmits` |
| `sending` | marked the entry uncertain, and awaits Telegram | `Accepted`, `NoAnswer`, `Rejected` |
| `confirmed` | an entry that says delivered | `MarksDelivered`, `StepThrows` |
| `delivered` | a row that says delivered | `Settles` |

`window`, `pend` and `request` are the pending file, `row` the report-context table, `entry` the outbound
ledger, `fired` the schedule file. `recovered` is the local flag that keeps a tick from composing a full report
after it delivered what was left. `Restart` reconciles pins with rows, as the code does before the gateway starts.
`copies` is what the owner's chat has seen; `doubted`, `told` and `behind` are history.

Data left out: what a report says, its excerpts and the bounded list of seen keys (an event is in the
window or not), the window the full reporter keeps for its own prompt, pieces of a
long text (those are in `OwnerEvents`), the sink used when no Telegram is configured, and the
quarantine of an unreadable pending file. Recovery at start-up is the recovery
leg of a tick that drains nothing. File writes of one synchronous block are one step. How later conversations
consume, archive and compact delivered rows, and the carry-over of reports, are not modelled.

## 3. What each run checks

| Run | Spec | Question | Instance |
|---|---|---|---|
| `WorkOrders` | `FairSpec` | do slots, budgets, retries, claims, receipts and the claim barrier hold; does the table implement the promise; does every order end and stop() return | a wiki key, an owner-event curation key, a candidate board key with 2 candidates, 2 priorities, 2 published rows and their retries, 2 crashes, 1 unreadable receipt, 1 failed write |
| `WorkOrdersLostRetry` | `Spec` | violation: the retry of a delegated wiki order is lost | 1 key |
| `WorkOrdersBarrierBroken` | `Spec` | violation: a failed write opens the claim barrier | 3 keys, 1 failed write |
| `OwnerEventInbox` | `Spec` | are events neither lost nor doubled, claims owned, turns bounded; has every dead batch one alert, unless a death or an error took it | 2 events, 2 batches, 2 attempts, 1 crash, 1 fault |
| `OwnerEventsDrive` | `FairSpec` | one upload at most, no ack without a receipt, does every batch end | 1 batch, 2 overlapping calls, 2 attempts, 1 crash, 1 fault |
| `OwnerEventsTelegram` | `Spec` | is a piece repeated only after an unanswered send, is a delivered message whole, and a confirmed one delivered or blank | 1 batch, 2 overlapping calls, 2 texts of 2 pieces, 1 file, 1 crash |
| `TemporalWork` | `FairSpec` | is there one owner per generation, are tries and the cap kept, can boot always resume, do stale runs have no effect, does every check end | 2 tasks, 2 instants, 2 epochs, 2 tries, 1 open attempt, 1 edit, 1 stop or crash, 1 unreadable database |
| `BoardRefresh` | `FairSpec` | does dirt survive what did not cover it, are lines in one place, are they sent, does the repair catch up | 2 channels, one a private partition, 1 owner-event batch, 1 line kept, 1 run per hour, 2 posts, 1 forced refresh, 1 crash, 1 failed enqueue |
| `BoardRefreshUnproven` | `Spec` | violation: a later verdict covers up a run that proved nothing | the same |
| `OwnerReports` | `FairSpec` | is a known message never repeated, are outcomes true, are committed events kept, does every report end | 2 events, 2 hours, the second with a full report due, 2 reports, 1 operator action, 1 crash, 1 fault |
| `OwnerReportsLostUpdate` | `Spec` | violation: an event drained behind a digest is wiped with it | digests only, 1 report, 1 fault |
| `OwnerReportsWedge` | `Spec` | violation: a delivery id is taken by a cancelled report | 1 hour with a full report due, 2 reports, 1 operator action, 1 fault |

### The properties

Workorders:

* `SlotHeldOnce`: a key has one open row at most; an owner-event key has one row ever.
* `AttemptBudget`: attempts are limited per kind, along an unbroken chain of failed rows.
* `RetryConserved`: a failure that is owed a retry has its replacement in the table.
* `ClaimsAreOwned`: the in_progress rows of a running daemon are those it knows of.
* `ReceiptsDecide` (action property): receipts alone decide a candidate board order.
* `BarrierStands` (action property): nothing is claimed while an outcome is open, as long
  as no ledger write has thrown.
* `KeepsPromise`: refinement of `WorkOrderPromise` under the mapping that takes the job
  of a key to be its latest row.
* `EveryOrderSettles`, `StopEnds`: liveness.

Owner events:

* `EventsHeldOnce`: an event is in one batch at most, and in one once the cursor passed it.
* `ClaimIsTurn`: a batch is not taken from a running turn; other claims need a death or
  a rejected tick.
* `TurnBudget`: the runner sees a batch at most MAX_ATTEMPTS times.
* `DeadIsAnnounced`: a batch that dies has one alert, which is awaited, was heard or was not heard; only a death or a
  database error between the write and the alert takes it away. It does not say that the owner hears of every dead batch: the
  code does not promise that (see the divergences).
* `OneUpload`: at most one Drive file per batch; a confirmed upload exists.
* `AckedIsReceipted`: acked batches have a durable receipt.
* `RepeatNeedsDoubt`: a Telegram piece is shown twice only after an unanswered send of it.
* `ConfirmedIsWhole`: what the outbound ledger calls delivered was accepted in full, and a confirmed Telegram effect is
  one of these, or was confirmed by a call with a blank text.
* `EveryBatchEnds`: liveness.

Temporal work:

* `OneOpenAttempt`: an open attempt is the one its active generation points at, and once booted with
  the flag on every active generation has one.
* `InspectionAnswers`: the rows still to be arbitrated are ones the inspection accepts; if it threw,
  the attempt would bar all further work.
* `FailuresAreCounted`: tries are counted by failures; pauses, resumes, supersessions spend none.
* `OpenIsBounded`: the cap on open attempts holds over retries and resumes, and a task has one active generation.
* `BootCanResume`: whatever was stored, the next boot does not abort.
* `StopFencesEffects` (action property): after stop() neither the draining run nor a late call has an effect.
* `NoLostEdit` (action property): an effect is built on the revision its run read.
* `KeepsPromise`: refinement of `TemporalPromise`; a check is a generation, its tries those of its last attempt.
* `EveryCheckEnds`: liveness, for daemons whose flag is on again and again.

Board:

* `WaitingKeepsDirt`: a line that waits keeps the gate dirty, whatever completes meanwhile.
* `CarriedOnce`: it is pending, or in one queued order, or in the order in progress.
* `PendingIsSent`, `RepairCatchesUp`: liveness; the second says that a dirty gate is cleaned, or a full
  refresh is run that would clean all of it.

Reports:

* `RepeatNeedsDoubt`: a report is shown twice only if one of its attempts had no answer.
* `OutcomeIsTrue`: a row that says delivered or cancelled is right, and an unsettled row belongs to the pending report.
* `LostOnlyBehind`: a committed event is in the window, was told, or was drained while a digest was pending.
* `EveryReportEnds`: liveness, unless Telegram rejects one for good.

### Bounds, and why they are enough

* `MaxRows` of the workorders limits what publishers add, not what the failure policy adds: retries are never
  cut off by the bound. Two published rows over three keys give every pair of kinds side by side, and a key
  accepted again after its end; the proofs cover any number.
* Two crashes allow one in the middle of the recovery from another. One unreadable receipt
  is enough to defer, crash, and recover; one failed write to strand a claim.
* Two candidates make "none", "some" and "all" decided different. Two priorities let an order overtake another.
* `MaxAttempts = 2` of the inbox (`MAX_ATTEMPTS`, 5 in the code) and `MaxTries = 2` of the temporal attempts are the
  least that tell a retry from an end at the cap.
* Two tool calls overlap; the third behaves as one of the two, since the ledgers distinguish
  only who holds the reservation. Two pieces distinguish first, last and resumed.
* `MaxBatches = 2` with two events gives both batch boundaries of a redelivery.
* `MaxOpen = 1` with two tasks makes the second wait for the first; one edit and two epochs suffice to
  supersede an attempt in any of its states; the temporal `MaxRows` limits what scans add, not retries and resumed attempts.
* `MaxPending = 1` and `Budget = 1` put the buffer and the budget of the board at their limits with the second post. TLC therefore
  never sees two lines coalesced into one order (with `MaxPending = 2` the run does not end in its time); that `CarriedOnce` and
  `WaitingKeepsDirt` hold then is shown by the proofs only.
* `OwnerEventsTelegram` has no database error: its two properties are about the calls, which none of these errors touches;
  errors of the loop are in `OwnerEventInbox` and `OwnerEventsDrive`. The pruning of the outbound ledger is in none of the runs about
  owner events, only in `OwnerReports`.
* Two hours, one of them with a full report due, let a scheduled report be composed, rejected and met again in its own hour or after it;
  two reports make "the report of this row" and "another one" different. One fault is
  one lost or refused answer or one store that cannot be written; the proofs cover any number.

Symmetry is used in `OwnerEventInbox` and `OwnerEventsTelegram`, on events, calls, texts and files: they are
interchangeable, and these two runs have no liveness property. Deadlock is checked except in `TemporalWork` and the two board runs, where
the daemon of the instance may come to rest: everything done, and all bounds reached.

### Fairness

Workorders (`WorkOrderConsumer!Fairness`): the service manager starts the daemon; boot is one
synchronous call; the interval timer fires; hooks are bounded calls and a worker run is
cut off by its request timeout (`operator/worker-run.ts`), so a run's await
settles; after stop(), which waits for the tick only, the process exits. Publishers, stop(), crashes,
faults and the worker's own decisions have no fairness.

Owner events (`OwnerEvents!Fairness`): the daemon is restarted, time passes, a drain commits or throws
(it is synchronous), the 5 s timer ticks, alerts return, turns are cut off by their
envelope's wall and the runner's timeout. No tool call, no effect and no choice of the model
is fair: `EveryBatchEnds` holds although a tool call may hang for ever.

Temporal work: the daemon is started, boot goes through its stale claims and ends, the scan and the
consumer's tick fire, hooks and runs end, the exit follows the drain. Neither the owner's edits, nor the clock, nor the tool call
of a model are fair: that a check ends does not depend on the model answering.

Board: the timers fire, the clock goes on (a run leaves the hour's budget), the consumer works its queue off,
the daemon is restarted. No verdict is fair: a run may always end without proof.

Reports: the interval ticks, every await of a run ends, back-offs end (weakly), leases expire
(`LeaseEnds`, strongly: its guard, that no delivery is under way, stands for the moment at which a
lease is next looked at, and hides the time that has passed in between). Neither the operator, nor
the owner, nor the agent that may write a report has to act.

Crashes and faults are bounded in the instances. Liveness therefore says: if from
some point on no more of them happen, everything ends.

## 4. Findings

Each of the five is a run with `expect: violation`, and an entry under `findings` with the quoted line.

1. **A delegated wiki order loses its retry** (`WorkOrdersLostRetry`). `requeueWorkOrder` fails the row and
   inserts the replacement; for an `owner-event:` key the probe of `insertWorkOrder` also finds
   terminal rows, hence the row it has just failed, and returns it. The second attempt never runs
   and nothing says so. `RetryConserved` is the property that holds: for every other key.
2. **A throwing ledger write opens the claim barrier** (`WorkOrdersBarrierBroken`). The entry was removed from the map of
   unresolved orders, or was never made, and the next tick claims. `BarrierStands` is what holds.
3. **A run that proved nothing is covered up by a later one** (`BoardRefreshUnproven`). The verdict on a reconcile
   clears the dirt of its channel up to its own generation, also the dirt an earlier, unproven run left. In the
   trace the dirt of the boot is verified away by a full refresh first; then a reconcile of a channel ends unproven, the next one
   of the channel is verified, and nothing is dirty any more: the scheduled repair finds a clean gate. `WaitingKeepsDirt` is what holds: dirt of lines whose run has not ended.
4. **A digest's delivery wipes events it does not tell** (`OwnerReportsLostUpdate`). The window is reset when the
   digest is delivered, together with what was drained while the digest waited. `LostOnlyBehind` is what
   holds: nothing else is lost.
5. **A cancelled scheduled report wedges its hour** (`OwnerReportsWedge`). The hour is not marked, the next tick composes another
   report under the same delivery id, `reserve` throws the identity conflict, and every later tick fails at its
   recovery, before it drains.

### Divergences without a run

* The comment of `retry` at `operator/owner-event-inbox.ts:279-283` says that a permanent loss must never be silent. A dead batch has no
  further alert when the notifier is not set (`cli/commands/start.ts:2302` calls it with `?.`) or fails (`operator/owner-event-loop.ts:199` logs the
  error), when the process dies before the alert, and when a database error follows the write that parked the batch: the replay is
  several statements without a transaction (`operator/owner-event-inbox.ts:312-325`), and a retry reads the new status
  back in a second one (line 289), whose error ends in a second retry that finds nothing to do. `DeadIsAnnounced` is what holds.
* `telegram_send` with a message of blanks is confirmed though nothing is sent: it passes the check at `agent/gateway-tool-executor.ts:3918`,
  `gateways/telegram.ts:872` returns, and line 3937 of the executor confirms. The batch is then acked on that receipt. A blank retry
  also confirms a text that was sent in part, whose rest is never sent. `ConfirmedIsWhole` is what holds.
* A requeued row can run again in the same tick: the comment at `operator/workorder-consumer.ts:311-313` promises a natural
  back-off until the next tick, the loop is bounded by a count, and a high-priority replacement is claimed
  ahead of the rows that were counted.
* A second `telegram_send` of a batch transmits again, although the class comment at
  `operator/owner-event-effects.ts:33-35` promises that a second caller never executes. For Drive
  this holds (`OneUpload`); Telegram is at-least-once, as `gateways/telegram.ts` says itself, and `RepeatNeedsDoubt` is what holds.
* The oldest lines above the limit of a channel are dropped (`operator/board-reconcile.ts:110`), where the
  comments at lines 12-14 and 38 say that over-budget work is deferred and never dropped. Only the channel's dirt stays.
* A scheduled repair that wrote nothing but left its no-update note clears all dirt it captured
  (`cli/runtime/api-routes-init.ts:620-622` excludes only forced orders), also the dirt of a manual or owner-requested refresh, which
  the comment at lines 504-506 reserves for the verifier of effects.
* The comment at `gateways/telegram-report-context-store.ts:410-416` says that an ambiguous acceptance can never be
  cancelled. The state it looks at is that of the last attempt: an attempt without an answer, followed
  by one that is definitely rejected, leaves a report that can be cancelled and may be in the chat. `OutcomeIsTrue` says "unless doubted" for this.
* An edit by the owner during a temporal run makes the run's effect stale, as it should, and spends a try of the
  check. A failed attempt whose replacement is paused is one `inspectTemporalAttempt` would throw on; nothing that
  is still to be arbitrated is ever in that state (`InspectionAnswers`), only a late call can meet it, which is refused either way.

## 5. What is proved

The proofs hold for all values of the constants that satisfy the named assumptions, which the runs
of the same module have TLC evaluate. Every theorem is of the plain specification, without fairness.

### Workorders

`WorkOrderProofs`, about `WorkOrderConsumer!Spec`, from `OccurrenceAssumption` and `BoundAssumption`:

| Theorem | States |
|---|---|
| `TypeCorrect` | `[]TypeOK` |
| `SlotSafety` | `[]SlotHeldOnce` |
| `BudgetSafety` | `[]AttemptBudget` |
| `RetrySafety` | `[]RetryConserved` |
| `ClaimSafety` | `[]ClaimsAreOwned` |
| `BarrierSafety` | `BarrierStands` |
| `ReceiptSafety` | `ReceiptsDecide` |
| `Invariance` | `[]IInv`, on which the others rest |

The inductive invariant is

    IInv == TypeOK /\ Good(rows) /\ Holding /\ ClaimsAreOwned

*Good* is the conjunction of the three table properties, written as predicates of a table rather than of a
state, because one synchronous block can run two transactions (claim, then fail): each
transaction is proved to preserve *Good* once (`ClaimGood`, `CompleteGood`, `RequeueGood`, `OrdinaryFailureGood`, `ArbitrationGood`), and
every action is a composition of them. The three need one another: that a requeue
finds its slot free needs `SlotHeldOnce`, that a replacement descends from a failed row needs that failed rows are
never changed. *Holding* says what `TypeOK` does not: the row a run holds, or a deferred
arbitration remembers, is in progress; without it the failure policy could be applied to a row
that has already ended. It holds even after failed writes, which `ClaimsAreOwned` does not.

The proof has a lemma for each failure-policy operator, one for each group of actions, and a
temporal step at the end of each theorem. The two action properties rest on `RowsStep`: a step changes at most one of the
rows that exist, and it changes it by a claim out of `loop`, where the barrier has been looked at, or by an
arbitration of a row in progress (`ArbitrationDecides` says what that does to a candidate order).

### Owner reports

`OwnerReportProofs`, about `OwnerReports!Spec`, from `ReportBoundAssumption` and `ScheduledAssumption`:

| Theorem | States |
|---|---|
| `TypeCorrect` | `[]TypeOK` |
| `RepeatSafety` | `[]RepeatNeedsDoubt` |
| `OutcomeSafety` | `[]OutcomeIsTrue` |
| `CoverSafety` | `[]LostOnlyBehind` |
| `Invariance` | `[]IInv` |

    IInv == Types /\ OneReport /\ Placed /\ (InFlight /\ Proven /\ Kept) /\ Covered

None of the three properties is inductive. They hold because of the order in which the stores are written:
while a report is on its way its row is `retryable` (*InFlight*), so nobody cancels it; its outbound entry is pinned from before
the send until after the row says delivered, so pruning cannot forget the one proof that
the message is there (*Proven*: a message that is certainly in the chat is proven by its row, or by a pinned entry);
an unsettled row is that of the report in the pending file (*Kept*), so no second report finds it. *Covered* says that the
window holds only what the pending digest tells, or what was drained behind it, which is why resetting
it loses nothing else.

### Owner events

Both modules are about `OwnerEvents!Spec`, from `InboxAssumption` and `TurnAssumption`:

| Module | Theorem | States |
|---|---|---|
| `OwnerEventProofs` | `EventSafety` | `[]EventsHeldOnce` |
| | `ClaimSafety` | `[]ClaimIsTurn` |
| | `TurnSafety` | `[]TurnBudget` |
| | `AlertSafety` | `[]DeadIsAnnounced`, and while nothing has died or failed every dead batch has its alert |
| | `LoopInvariance` | `[]LoopInv` |
| `OwnerEffectProofs` | `TypeCorrect` | `[]TypeOK` |
| | `UploadSafety` | `[]OneUpload` |
| | `RepeatSafety` | `[]RepeatNeedsDoubt` |
| | `WholeSafety` | `[]ConfirmedIsWhole` |
| | `AckSafety` | `[]AckedIsReceipted` |
| | `EffectInvariance` | `[]EffectInv` |

    LoopInv   == LoopTypes /\ Ordered /\ Held /\ Paid /\ ClaimIsTurn /\ DeadIsAnnounced
    EffectInv == EffectTypes /\ Addressed /\ DriveInv /\ TelegramInv /\ ReceiptInv

The loop does not look at what the tool calls do, except through `done` and the receipts, so its invariant stands alone
and the effects are proved beside it. *Held* puts the per-event dedupe table between the batches and the
cursor: two batches are disjoint because the second takes only events the table does not have. *Paid* is what makes the
turn budget inductive: every turn of a batch but the one in hand has been paid for with an attempt, and the one in
hand will be, by its ack, its retry or the replay of its claim. *Ordered* says that a tick starts no turn beyond its bound and is
through with the alerts of one round before the next, without which an alert could be overwritten; so a rejected tick loses
no alert but those of the batches it parked itself. `ClaimIsTurn` is a count; its
proof needs the table to be finite.

*DriveInv* says that the reservation precedes the file: while the ledger says `none` no file exists and no call
can be about to create one, and after that one call is, so what a lookup found at an earlier time can be used. *TelegramInv* relates an
outbound entry to what Telegram has accepted: the pieces before the next are in the chat; another one is there
only if its send was left without an answer, or is on the wire and has not been answered yet. A call about to confirm
has a delivered entry, or a blank text, which is why the entry of a confirmed effect may be in any state after a blank. That is false if two calls
may be sending, so the chat queue is part of it. *ReceiptInv* says that the history of a turn never proves
more than the stores do. A crash takes the calls and leaves both ledgers, and turns what was on the wire into doubt.

### Workorders implement their promise

`WorkOrderPromiseProofs`, about `WorkOrderConsumer!Spec`, from the same assumptions:

| Theorem | States |
|---|---|
| `Refinement` | `KeepsPromise`: every step of the daemon is a step of `WorkOrderPromise`, or none |
| `LatestIsOpen` | `[]OpenLast(rows)`, on which it rests |

The job of a key is its latest row, chosen as the greatest of a set. That a start, an end or a retry of some
row is a step of the *job* needs that a row still open is the latest of its key (*OpenLast*); it is, because an insert finds
the slot of the key free, which is `SlotHeldOnce`. `StepMoves` says that a step of the daemon does one of four things to the
table, to one key: it accepts an order, starts it, ends it, or ends it and puts its next attempt in line. The claim of an order
without a brief makes two transactions in one block (claim, then fail), and is shown to be one end or one retry of a waiting order.

### Temporal work

`TemporalWorkProofs`, about `TemporalWork!Spec`, from `TemporalAssumption` (a finite set of tasks, positive limits) and
`TemporalBoundAssumption`:

| Theorem | States |
|---|---|
| `TypeCorrect` | `[]TypeOK` |
| `OwnershipSafety` | `[]OneOpenAttempt` |
| `InspectionSafety` | `[]InspectionAnswers` |
| `CountSafety` | `[]FailuresAreCounted` |
| `BoundSafety` | `[]OpenIsBounded` |
| `BootSafety` | `[]BootCanResume` |
| `StopFences` | `StopFencesEffects` |
| `EditsSurvive` | `NoLostEdit` |
| `Refinement` | `KeepsPromise` |
| `Invariance` | `[]IInv` |

    IInv == TypeOK /\ Sound(db) /\ Resting /\ Owning /\ Opening /\ Halted /\ Unsettled /\ Remembered

*Sound* is what holds of the database in every phase. It is stated per generation: one that has not begun has no rows;
one that has points at the last of its attempts, whose status fits its disposition, the ones before are over, and
the failed ones among those are one less than its tries. How the task stands to its generations (*Current*) is what the cap
needs: a check that is resolved, exhausted or superseded keeps the next check of the same occurrence from
beginning, so a task has one active check. A receipt is of an attempt its generation ended with.

`TemporalLedgerProofs` shows what each transaction does. A transaction changes a generation in one of four ways
(`KeyStep`): *Kept*, *Moved* (its last attempt gets another status, perhaps an end), *Begun*, *Renewed* (another attempt takes it over,
with the same tries after a pause and one more after a failure). Each way is proved once to keep a generation sound and
to be a step of the promise, and each transaction (scan, edit, effect, failure, claim, repair, pause, resume) is shown to do nothing
else to any generation. That makes the refinement a corollary: `Transacted` is carried along with the invariant. Scan and resume take
the generations one after the other; the model gives them their places at once, and the lemmas about `Place` say that the
places of n candidates are 1 to n.

The other conjuncts are about the process, in each phase: nothing runs in one that is down (*Resting*); once it has
repaired, every active check is of an open task (*Owning*), and in a booted one with the flag on it has an open attempt (*Opening*);
in one that stops, or with the flag off, nothing is open (*Halted*), which is what fences a late effect; the attempt in
hand and the deferred ones can still be arbitrated (*Unsettled*), and contexts name rows that exist (*Remembered*). Boot from any state a
crash leaves holds because *Sound* does not mention the process at all.

### Board refresh

`BoardRefreshProofs`, about `BoardRefresh!Spec`, from `BoardAssumption`:

| Theorem | States |
|---|---|
| `TypeCorrect` | `[]TypeOK` |
| `DirtSafety` | `[]WaitingKeepsDirt` |
| `CarrySafety` | `[]CarriedOnce` |

    IInv == Types /\ AllFit /\ InOrder /\ LinesKept

The argument is one order. A generation is handed out once, so along the way of a channel (the order in progress, the queue in the
order of claims, the pending lines) generations ascend (*InOrder*). Hence no line is carried twice, and a run that cleans its
channel up to its own generation leaves the dirt of everything behind it. A forced refresh overtakes the queue, but carries no
line, so the order of the reconciles stands; when it ends it clears every channel up to the generation it captured, which is
the dirt of the lines it covered and no other. *AllFit* says that an order's generation is at least that of its lines and
at most the gate's, so a later mark is never cleared. *LinesKept* tells the lines of earlier boots, which are left
to the dirt of the boot, from those of this one, which are on their way and keep their channel dirty.

### Only model-checked

Every invariant, action property and refinement of the passing runs is a theorem. What is left to TLC is liveness
(`EveryOrderSettles`, `StopEnds`, `EveryBatchEnds`, `EveryCheckEnds`, `PendingIsSent`, `RepairCatchesUp`, `EveryReportEnds`):
fairness and ENABLED are beyond the prover.

## 6. Plan

Done: the workorder, owner-event, temporal, board and report families above, and the proofs of section 5: every invariant, action property
and refinement.

Left, in this order:

1. **LaneManager** (`concurrency/lane-manager.ts`): session and global lanes; limits and order per session.
2. **ReportContext**: consumption of delivered rows by conversations, archive and compaction
   (`gateways/telegram-report-context-store.ts`), and the carry-over of reports (`operator/report-carry.ts`).
3. **JobLock and scheduler** (`scheduler/*`): a job held by a dead process.
4. Abstract specifications of the inbox (a batch is handed out until it ends) and of a report's delivery, and their refinements.

## 7. What is not modelled, and why

* Agent loop, CLI runner, gateways other than Telegram's outbound side, HTTP API, connectors: child processes, sockets and formatting; the models
  have their outcomes (an answer, an error, an error after an effect, nothing) as choices.
* MAMA core (memory database, embeddings, ranking), the MCP server and the plugins: numerical and textual.
* Trigger authoring, review and matching: text and model calls.
* Lane manager and scheduler: in memory, and small; see the plan.
* Multi-agent orchestration, skills, onboarding, security and evidence code: not on the durable paths studied here.
* Within the modelled parts: see the lists of data left out in section 2.
