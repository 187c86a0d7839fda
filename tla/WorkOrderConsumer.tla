------------------------- MODULE WorkOrderConsumer -------------------------
(***************************************************************************)
(* The serial consumer of the workorder table                              *)
(* (packages/standalone/src/operator/workorder-consumer.ts) in the daemon  *)
(* process that owns it: publishers, boot recovery, the tick, the awaits   *)
(* of one run, the failure policy, stop, exit and crash.                   *)
(*                                                                         *)
(* The daemon is single threaded.  A step is one synchronous block of the  *)
(* code, from one await (or timer) to the next; `step' names the await the *)
(* consumer is suspended on.                                               *)
(***************************************************************************)
EXTENDS WorkOrderLedger

CONSTANTS
  MaxRows,         \* publishers stop at this many rows
  MaxCrashes,      \* process deaths explored
  MaxReadFaults,   \* receipt inspections that throw
  MaxWriteFaults   \* ledger writes that throw

ASSUME BoundAssumption ==
  /\ MaxRows \in Nat /\ MaxCrashes \in Nat
  /\ MaxReadFaults \in Nat /\ MaxWriteFaults \in Nat

VARIABLES
  proc,        \* the process: down, booting, recovering (in bootRecover), up
  stopping,    \* stop() was called
  step,        \* idle, loop, prep (before-hook and run options), run, after
  cur,         \* id of the order runOne holds, 0 if none
  remaining,   \* claims this tick may still make
  unresolved,  \* unresolvedBoardCandidateEffects
  crashes, readFaults, writeFaults

processVars == <<proc, stopping>>
runVars     == <<step, cur, remaining>>
boundVars   == <<crashes, readFaults, writeFaults>>
vars == <<ledgerVars, processVars, runVars, unresolved, boundVars>>

(* WORKORDER_MAX_ATTEMPTS *)
MaxAttempts(o) == IF o \in WikiOcc THEN 2 ELSE 1

Pending    == WithStatus(rows, "pending")
InProgress == WithStatus(rows, "in_progress")

(* A deferred arbitration: which attempt, whether it failed before the     *)
(* runner was called, and whether a missing candidate set completes it.    *)
Deferred == [id : Nat \ {0}, why : Reasons, evidence : BOOLEAN, complete : BOOLEAN]

TypeOK ==
  /\ LedgerTypeOK
  /\ proc \in {"down", "booting", "recovering", "up"}
  /\ stopping \in BOOLEAN
  /\ step \in {"idle", "loop", "prep", "run", "after"}
  /\ cur \in Nat
  /\ cur \in DOMAIN rows \cup {0}
  /\ (cur # 0) <=> (step \in {"prep", "run", "after"})
  /\ remaining \in Nat
  /\ unresolved \subseteq Deferred
  /\ \A u \in unresolved : u.id \in DOMAIN rows
  /\ crashes \in Nat /\ readFaults \in Nat /\ writeFaults \in Nat

Init ==
  /\ LedgerInit
  /\ proc = "down" /\ stopping = FALSE
  /\ step = "idle" /\ cur = 0 /\ remaining = 0
  /\ unresolved = {}
  /\ crashes = 0 /\ readFaults = 0 /\ writeFaults = 0

----------------------------------------------------------------------------
(***************************************************************************)
(* The failure policy.  Each operator describes rows', unresolved' and the *)
(* read-fault counter, from a table rs in which row i is in_progress.      *)
(***************************************************************************)
\* Fault: one attempt too many.
OrdinaryFailureOneMore(rs, i, why, allowRetry) ==
  IF allowRetry /\ rs[i].attempts <= MaxAttempts(rs[i].occ)
  THEN Requeued(rs, i, why)
  ELSE FailedRow(rs, i, why)

OrdinaryFailure(rs, i, why, allowRetry) ==
  IF allowRetry /\ rs[i].attempts < MaxAttempts(rs[i].occ)
  THEN Requeued(rs, i, why)
  ELSE FailedRow(rs, i, why)

(* arbitrateBoardCandidateAttempt once the receipts could be read.         *)
\* Fault: a partly decided set counts as complete once the run has ended.
ArbitratedRowsLenient(rs, i, why, evidence, complete) ==
  LET d == Disposition(rs[i].occ)
  IN  CASE d = "none" /\ ~complete -> OrdinaryFailure(rs, i, why, TRUE)
        [] d = "zero"              -> FailedRow(rs, i, "receipts")
        [] OTHER                   -> Completed(rs, i)

ArbitratedRows(rs, i, why, evidence, complete) ==
  LET d == Disposition(rs[i].occ)
  IN  CASE d = "none" /\ complete   -> Completed(rs, i)
        [] d = "none" /\ ~complete  -> OrdinaryFailure(rs, i, why, TRUE)
        [] d = "complete"           -> Completed(rs, i)
        [] d = "zero" /\ evidence /\ rs[i].attempts < 2 -> Requeued(rs, i, why)
        [] OTHER                    -> FailedRow(rs, i, "receipts")

Forget(i) == {u \in unresolved : u.id # i}

Arbitrate(rs, i, why, evidence, complete) ==
  \/ /\ rows' = ArbitratedRows(rs, i, why, evidence, complete)
     /\ unresolved' = Forget(i)
     /\ UNCHANGED readFaults
  \/ /\ readFaults < MaxReadFaults        \* the inspection threw: defer
     /\ rows' = rs
     /\ unresolved' = Forget(i) \cup
          {[id |-> i, why |-> why, evidence |-> evidence, complete |-> complete]}
     /\ readFaults' = readFaults + 1

(* handleFailure *)
HandleFailure(rs, i, why, allowRetry, evidence) ==
  \/ /\ rs[i].occ \in BoardOcc
     /\ Arbitrate(rs, i, why, evidence, FALSE)
  \/ /\ rs[i].occ \notin BoardOcc
     /\ rows' = OrdinaryFailure(rs, i, why, allowRetry)
     /\ UNCHANGED <<unresolved, readFaults>>

(* Back in tick() after runOne: one claim used up, nothing held.           *)
\* Fault: the order that was run is still held.
RunOneReturnsHolding ==
  /\ step' = "loop"
  /\ remaining' = remaining - 1
  /\ UNCHANGED <<cur, processVars>>

RunOneReturns ==
  /\ step' = "loop"
  /\ cur' = 0
  /\ remaining' = remaining - 1
  /\ UNCHANGED <<processVars>>

----------------------------------------------------------------------------
(* Publishers: scheduled, owner-requested and owner-event orders.          *)
Enqueue(o, rank) ==
  /\ proc \in {"booting", "up"}
  /\ Len(rows) < MaxRows
  /\ rows' = Inserted(rows, o, rank, 1)
  /\ UNCHANGED <<receipts, processVars, runVars, unresolved, boundVars>>

----------------------------------------------------------------------------
(* The process starts; publishers are wired before the consumer boots.     *)
StartProcess ==
  /\ proc = "down"
  /\ proc' = "booting"
  /\ UNCHANGED <<ledgerVars, stopping, runVars, unresolved, boundVars>>

(* bootRecover lists the stale claims and sends each through the failure   *)
(* policy; the first one whose receipts cannot be read ends the pass.      *)
StartRecovery ==
  /\ proc = "booting"
  /\ proc' = "recovering"
  /\ UNCHANGED <<ledgerVars, stopping, runVars, unresolved, boundVars>>

RecoverStale(i) ==
  /\ proc = "recovering"
  /\ unresolved = {}
  /\ i \in InProgress
  /\ HandleFailure(rows, i, "failure", TRUE, FALSE)
  /\ UNCHANGED <<receipts, processVars, runVars, crashes, writeFaults>>

\* Fault: recovery ends after the first stale claim.
BootDoneEarly ==
  /\ proc = "recovering"
  /\ proc' = "up"
  /\ UNCHANGED <<ledgerVars, stopping, runVars, unresolved, boundVars>>

\* Fault: a stale claim whose receipts cannot be read keeps the daemon in boot.
BootDoneOnceClean ==
  /\ proc = "recovering"
  /\ InProgress = {}
  /\ proc' = "up"
  /\ UNCHANGED <<ledgerVars, stopping, runVars, unresolved, boundVars>>

BootDone ==
  /\ proc = "recovering"
  /\ unresolved # {} \/ InProgress = {}
  /\ proc' = "up"
  /\ UNCHANGED <<ledgerVars, stopping, runVars, unresolved, boundVars>>

----------------------------------------------------------------------------
(* tick(): unresolved durable state is rechecked before anything is claimed *)
TickStart ==
  /\ proc = "up" /\ ~stopping /\ step = "idle"
  /\ unresolved = {}
  /\ step' = "loop"
  /\ remaining' = Cardinality(Pending)
  /\ UNCHANGED <<ledgerVars, processVars, cur, unresolved, boundVars>>

Recheck(u) ==
  /\ proc = "up" /\ ~stopping /\ step = "idle"
  /\ u \in unresolved
  /\ Arbitrate(rows, u.id, u.why, u.evidence, u.complete)
  /\ UNCHANGED <<receipts, processVars, runVars, crashes, writeFaults>>

\* Fault: the loop claims on although an outcome is unresolved.
TickGoesOnRegardless == remaining > 0 /\ ~stopping /\ Pending # {}

TickGoesOn == remaining > 0 /\ ~stopping /\ unresolved = {} /\ Pending # {}

Claim(i) ==
  /\ step = "loop" /\ TickGoesOn
  /\ NextPending(rows, i)
  /\ rows' = Claimed(rows, i)
  /\ step' = "prep" /\ cur' = i
  /\ UNCHANGED <<receipts, processVars, remaining, unresolved, boundVars>>

(* A brief that is missing or cannot be read fails the order at once.      *)
ClaimWithoutBrief(i) ==
  /\ step = "loop" /\ TickGoesOn
  /\ NextPending(rows, i)
  /\ HandleFailure(Claimed(rows, i), i, "failure", TRUE, FALSE)
  /\ RunOneReturns
  /\ UNCHANGED <<receipts, crashes, writeFaults>>

\* Fault: the tick drains until nothing is pending, whatever tells it to end.
EndTickOnceDrained ==
  /\ step = "loop" /\ ~TickGoesOn
  /\ step' = (IF Pending = {} THEN "idle" ELSE "loop")
  /\ remaining' = Cardinality(Pending)
  /\ UNCHANGED <<ledgerVars, processVars, cur, unresolved, boundVars>>

EndTick ==
  /\ step = "loop" /\ ~TickGoesOn
  /\ step' = "idle" /\ remaining' = 0
  /\ UNCHANGED <<ledgerVars, processVars, cur, unresolved, boundVars>>

----------------------------------------------------------------------------
(* runOne, await by await.                                                 *)
PrepDone ==
  /\ step = "prep"
  /\ step' = "run"
  /\ UNCHANGED <<ledgerVars, processVars, cur, remaining, unresolved, boundVars>>

(* The before-hook or the envelope issuance rejects.  Only a board order   *)
(* carries the proof that the runner was never called.                     *)
PrepFails ==
  /\ step = "prep"
  /\ HandleFailure(rows, cur, "pre-run", TRUE, rows[cur].occ \in BoardOcc)
  /\ RunOneReturns
  /\ UNCHANGED <<receipts, crashes, writeFaults>>

(* The running worker decides a candidate of its own attempt.              *)
Decide(c) ==
  /\ step = "run"
  /\ rows[cur].occ \in CandidateOcc
  /\ receipts' = receipts \cup {<<rows[cur].occ, c>>}
  /\ UNCHANGED <<rows, processVars, runVars, unresolved, boundVars>>

RunReturns ==
  /\ step = "run"
  /\ step' = "after"
  /\ UNCHANGED <<ledgerVars, processVars, cur, remaining, unresolved, boundVars>>

(* The answer is an API error printed as text.                             *)
RunAnswersApiError ==
  /\ step = "run"
  /\ HandleFailure(rows, cur, "failure", TRUE, FALSE)
  /\ RunOneReturns
  /\ UNCHANGED <<receipts, crashes, writeFaults>>

(* The run throws.  While stopping the claim is left to boot recovery; an  *)
(* ambiguous mutation outcome is never retried.                            *)
RunThrows(ambiguous) ==
  /\ step = "run"
  /\ \/ /\ stopping
        /\ UNCHANGED <<rows, unresolved, readFaults>>
     \/ /\ ~stopping
        /\ HandleFailure(rows, cur, IF ambiguous THEN "ambiguous" ELSE "failure",
                         ~ambiguous, FALSE)
  /\ RunOneReturns
  /\ UNCHANGED <<receipts, crashes, writeFaults>>

(* The after-hook is over (for these kinds it only observes).              *)
AfterDone ==
  /\ step = "after"
  /\ \/ /\ rows[cur].occ \in BoardOcc
        /\ Arbitrate(rows, cur, "receipts", FALSE, TRUE)
     \/ /\ rows[cur].occ \notin BoardOcc
        /\ rows' = Completed(rows, cur)
        /\ UNCHANGED <<unresolved, readFaults>>
  /\ RunOneReturns
  /\ UNCHANGED <<receipts, crashes, writeFaults>>

----------------------------------------------------------------------------
(* A ledger write throws (the transaction rolls back): the rejection ends  *)
(* tick(), and nothing remembers the row it was about.                     *)
SettleWriteFails ==
  /\ step \in {"prep", "run", "after"}
  /\ writeFaults < MaxWriteFaults
  /\ step' = "idle" /\ cur' = 0 /\ remaining' = 0
  /\ writeFaults' = writeFaults + 1
  /\ UNCHANGED <<ledgerVars, processVars, unresolved, crashes, readFaults>>

(* The same during a recheck, after the inspection succeeded and the entry *)
(* was dropped.                                                            *)
RecheckWriteFails(u) ==
  /\ proc = "up" /\ ~stopping /\ step = "idle"
  /\ u \in unresolved
  /\ writeFaults < MaxWriteFaults
  /\ unresolved' = Forget(u.id)
  /\ writeFaults' = writeFaults + 1
  /\ UNCHANGED <<ledgerVars, processVars, runVars, crashes, readFaults>>

----------------------------------------------------------------------------
Stop ==
  /\ proc = "up" /\ ~stopping
  /\ crashes < MaxCrashes
  /\ stopping' = TRUE
  /\ UNCHANGED <<ledgerVars, proc, runVars, unresolved, boundVars>>

Dies ==
  /\ proc' = "down" /\ stopping' = FALSE
  /\ step' = "idle" /\ cur' = 0 /\ remaining' = 0
  /\ unresolved' = {}
  /\ UNCHANGED ledgerVars

(* stop() has awaited the tick: the database closes and the process ends.  *)
Exit ==
  /\ proc = "up" /\ stopping /\ step = "idle"
  /\ Dies
  /\ crashes' = crashes + 1
  /\ UNCHANGED <<readFaults, writeFaults>>

(* SIGKILL (also the 5 s forced exit of shutdown.ts) or power loss.        *)
Crash ==
  /\ proc # "down"
  /\ crashes < MaxCrashes
  /\ Dies
  /\ crashes' = crashes + 1
  /\ UNCHANGED <<readFaults, writeFaults>>

----------------------------------------------------------------------------
Publish  == \E o \in Occ, rank \in Ranks : Enqueue(o, rank)
Boot     == StartProcess \/ StartRecovery \/ BootDone
Recover  == \E i \in DOMAIN rows : RecoverStale(i)
Rechecks == \E u \in unresolved : Recheck(u)
ClaimNext == \E i \in DOMAIN rows : Claim(i) \/ ClaimWithoutBrief(i)
RunSettles ==
  \/ PrepFails
  \/ RunReturns \/ RunAnswersApiError
  \/ \E ambiguous \in BOOLEAN : RunThrows(ambiguous)
Decides  == \E c \in Candidates : Decide(c)
Faults   == SettleWriteFails \/ \E u \in unresolved : RecheckWriteFails(u)

Next ==
  \/ Publish
  \/ Boot \/ Recover
  \/ TickStart \/ Rechecks \/ ClaimNext \/ EndTick
  \/ PrepDone \/ Decides \/ RunSettles \/ AfterDone
  \/ Faults
  \/ Stop \/ Exit \/ Crash

Spec == Init /\ [][Next]_vars

(***************************************************************************)
(* Fairness.  The service manager starts the daemon and boot is one        *)
(* synchronous call; the interval timer fires (tick); a claimed order's    *)
(* awaits settle, because hooks are bounded calls and a worker run is cut  *)
(* off by its request timeout (worker-run.ts); stop() waits only for the   *)
(* tick.  Publishers, stop, crash, faults and the worker's own decisions   *)
(* are under no obligation.                                                *)
(***************************************************************************)
Fairness ==
  /\ WF_vars(Boot) /\ WF_vars(Recover)
  /\ WF_vars(TickStart) /\ WF_vars(Rechecks) /\ WF_vars(ClaimNext) /\ WF_vars(EndTick)
  /\ WF_vars(PrepDone \/ PrepFails)
  /\ WF_vars(RunSettles) /\ WF_vars(AfterDone)
  /\ WF_vars(Exit)

FairSpec == Spec /\ Fairness

----------------------------------------------------------------------------
(* Properties                                                              *)

(***************************************************************************)
(* The slot of an occurrence is held at most once: two open rows of one    *)
(* key never exist, and an owner-event key is accepted once for good, even *)
(* when the daemon dies between the acceptance and the inbox ACK.          *)
(* (insertWorkOrder, the partial unique index on open rows.)               *)
(***************************************************************************)
SlotHeldOnce ==
  \A i, j \in DOMAIN rows :
    /\ i # j
    /\ rows[i].occ = rows[j].occ
    => /\ ~(rows[i].status \in Open /\ rows[j].status \in Open)
       /\ rows[i].occ \notin OwnerEventOcc

(***************************************************************************)
(* Every attempt after the first descends from the attempt before it: the  *)
(* budget of a kind (two runs for wiki and for a candidate board, one      *)
(* otherwise) is spent along an unbroken chain of failed rows, whatever    *)
(* crashes, dedupes and fresh acceptances come between.                    *)
(***************************************************************************)
Predecessor(i, j) ==
  /\ j < i
  /\ rows[j].occ = rows[i].occ
  /\ rows[j].attempts + 1 = rows[i].attempts
  /\ rows[j].status = "failed"

AttemptBudget ==
  \A i \in DOMAIN rows :
    /\ rows[i].attempts <= (IF rows[i].occ \in WikiOcc \cup CandidateOcc THEN 2 ELSE 1)
    /\ rows[i].attempts > 1 => \E j \in DOMAIN rows : Predecessor(i, j)

(***************************************************************************)
(* A retryable failure is never lost: a failed row whose kind has attempts *)
(* left and whose outcome was not ambiguous has its replacement in the     *)
(* table, in every state a crash can leave behind.  (requeueWorkOrder: the *)
(* failure mark and the replacement row commit together.)                  *)
(***************************************************************************)
RetryOwed(i) ==
  /\ rows[i].status = "failed"
  /\ rows[i].attempts < MaxAttempts(rows[i].occ)
  /\ rows[i].reason # "ambiguous"

Replaced(i) == \E j \in DOMAIN rows : Predecessor(j, i)

RetryConserved ==
  \A i \in DOMAIN rows : RetryOwed(i) /\ rows[i].occ \notin OwnerEventOcc => Replaced(i)

(* The same for every key, as the comment on requeueWorkOrder has it.      *)
RetryConservedForEveryKey ==
  \A i \in DOMAIN rows : RetryOwed(i) => Replaced(i)

(***************************************************************************)
(* A claim never goes missing and never doubles: as long as no ledger      *)
(* write throws, the in_progress rows of a running daemon are exactly the  *)
(* order being run and the one whose arbitration is deferred, and there is *)
(* at most one.  bootRecover and the hard claim barrier both rest on it.   *)
(***************************************************************************)
Owned == {cur} \cup {u.id : u \in unresolved}

ClaimsAreOwned ==
  writeFaults = 0 =>
    /\ \A i, j \in InProgress : i = j
    /\ proc = "up" /\ ~stopping => InProgress = Owned \ {0}
    /\ cur # 0 => cur \in InProgress

(***************************************************************************)
(* The receipts, and nothing the worker or an error says, decide a         *)
(* candidate board order: it ends done exactly when every candidate is     *)
(* decided, and it is tried again only while none is.                      *)
(***************************************************************************)
ReceiptsDecide ==
  [][\A i \in DOMAIN rows :
       /\ rows[i].occ \in CandidateOcc
       /\ rows[i].status = "in_progress"
       /\ rows'[i].status \in Terminal
       => /\ rows'[i].status = "done" <=> Disposition(rows[i].occ) = "complete"
          /\ Len(rows') > Len(rows) => Disposition(rows[i].occ) = "zero"]_vars

(***************************************************************************)
(* No new model work starts while the outcome of an earlier order is open. *)
(* (tick(): unknown durable state is a hard claim barrier.)                *)
(***************************************************************************)
Taken == \E i \in Pending : rows'[i].status # "pending"

ClaimBarrier == [][Taken => InProgress = {}]_vars

(***************************************************************************)
(* The same as long as no ledger write has thrown: then a crash, a restart *)
(* and any number of unreadable receipts leave the barrier standing.       *)
(***************************************************************************)
BarrierStands == [][Taken /\ writeFaults = 0 => InProgress = {}]_vars

(***************************************************************************)
(* Every accepted order is settled: whatever fails, restarts or outranks   *)
(* it, a pending row becomes terminal.  A ledger write that throws may     *)
(* strand a claim until the next boot, so none is assumed.                 *)
(***************************************************************************)
EveryOrderSettles ==
  [](writeFaults = 0) =>
    \A i \in 1..(2 * MaxRows) :
      (i \in DOMAIN rows /\ rows[i].status = "pending")
        ~> (i \in DOMAIN rows /\ rows[i].status \in Terminal)

(* stop() always lets the process end: it waits for the tick in flight and *)
(* the tick claims nothing more.                                           *)
StopEnds == stopping ~> proc = "down"
=============================================================================
