---------------------------- MODULE OwnerReports ----------------------------
(***************************************************************************)
(* Owner reports: operator-trigger-loop.ts collects what happened, has the *)
(* agent compose a digest or a full report, persists it and submits it to  *)
(* report-delivery-coordinator.ts, which drives it through a row of the    *)
(* report context (telegram-report-context-store.ts, SQLite) and a pinned  *)
(* entry of the outbound ledger of the Telegram gateway (a JSON file).     *)
(* Three stores, written one after the other; a crash falls between them.  *)
(*                                                                         *)
(* Runs of the loop are serial: a tick recovers the outbox, drains events, *)
(* then may report.  The pieces of a long text are those of OwnerEvents:   *)
(* here a report is one message.  Firing, authoring and review of triggers *)
(* leave the state below alone and are not modelled.                       *)
(***************************************************************************)
EXTENDS Naturals, FiniteSets

CONSTANTS
  MaxEvents,   \* bound: connector events
  Scheduled,   \* the hours at which a full report is due (none by default)
  MaxHours,    \* bound: the hours that pass, 1..MaxHours
  MaxReports,  \* bound: reports composed
  MaxActs,     \* bound: operator actions on a rejected report
  MaxCrashes,  \* bound: deaths of the process
  MaxFaults    \* bound: sends and steps that fail, refusals for lack of capacity

ASSUME ReportBoundAssumption ==
  /\ {MaxEvents, MaxHours, MaxReports, MaxActs, MaxCrashes, MaxFaults} \subseteq Nat
  /\ MaxHours > 0

ASSUME ScheduledAssumption == Scheduled \subseteq 1..MaxHours

Events == 1..MaxEvents
Hours  == 1..MaxHours
Modes  == {"digest", "full"}

(* a scheduled report is identified by its hour, any other by a fresh uuid *)
Ids == ({"hour"} \X Hours) \cup ({"uuid"} \X (1..MaxReports))

VARIABLES
  at,       \* where the run of the loop is
  recovered, \* this run delivered, or prepared, what an earlier one left
  send,     \* where the delivery of pend is
  taken,    \* events drained and not yet committed
  cursor,   \* the committed cursor of the connectors
  window,   \* the window of the next digest (pending file)
  pend,     \* the prepared report (pending file): none, or one
  request,  \* the accepted request of the owner (pending file): none, or one
  row,      \* the report-context rows
  entry,    \* the entries of the outbound ledger
  hour,     \* the present hour
  fired,    \* the hour last marked as reported (schedule file)
  serial,   \* reports composed so far
  copies,   \* messages in the owner's chat per delivery
  doubted,  \* history: deliveries with an attempt of unknown outcome
  told,     \* history: events the owner was told of, or that needed no report
  behind,   \* history: events drained while a digest was being delivered
  acts, crashes, faults

fileVars  == <<window, pend, request>>
clockVars == <<hour, fired>>
ghostVars == <<doubted, told, behind>>
boundVars == <<acts, crashes, faults>>
vars == <<at, recovered, send, taken, cursor, fileVars, row, entry, clockVars, serial,
          copies, ghostVars, boundVars>>

Row == [state : {"none", "retryable", "rejected", "delivered", "cancelled"},
        rep : 0..MaxReports, lease : {"none", "live", "expired"}, backoff : BOOLEAN]
Entry == [state : {"none", "processing", "sure", "unsure", "delivered"}, pinned : BOOLEAN]
Report == [id : Ids, rep : 1..MaxReports, mode : Modes, hour : Hours, events : SUBSET Events]

TypeOK ==
  /\ at \in {"idle", "recover", "drain", "commit", "digest", "full", "demand"}
  /\ recovered \in BOOLEAN
  /\ send \in {"no", "submit", "leased", "pinned", "sending", "confirmed", "delivered"}
  /\ at = "idle" => send = "no" /\ ~recovered
  /\ send # "no" => pend # {}
  /\ taken \in 0..MaxEvents /\ cursor \in 0..MaxEvents /\ cursor + taken <= MaxEvents
  /\ (taken # 0 => at = "commit")
  /\ window \subseteq Events
  /\ pend \subseteq Report /\ request \subseteq Hours
  /\ Cardinality(pend) + Cardinality(request) <= 1
  /\ row \in [Ids -> Row] /\ entry \in [Ids -> Entry]
  /\ hour \in Hours /\ fired \in 0..MaxHours
  /\ serial \in 0..MaxReports
  /\ copies \in [Ids -> Nat]
  /\ doubted \subseteq Ids /\ told \subseteq Events /\ behind \subseteq Events
  /\ acts \in 0..MaxActs
  /\ crashes \in 0..MaxCrashes /\ faults \in 0..MaxFaults

NoRow   == [state |-> "none", rep |-> 0, lease |-> "none", backoff |-> FALSE]
NoEntry == [state |-> "none", pinned |-> FALSE]

Init ==
  /\ at = "idle" /\ recovered = FALSE /\ send = "no" /\ taken = 0 /\ cursor = 0
  /\ window = {} /\ pend = {} /\ request = {}
  /\ row = [i \in Ids |-> NoRow] /\ entry = [i \in Ids |-> NoEntry]
  /\ hour = 1 /\ fired = 0 /\ serial = 0
  /\ copies = [i \in Ids |-> 0]
  /\ doubted = {} /\ told = {} /\ behind = {}
  /\ acts = 0 /\ crashes = 0 /\ faults = 0

(* a run goes on to its next leg once the present one is over              *)
NextLeg(leg) == CASE leg = "recover" -> "drain"
                  [] leg = "drain"   -> "commit"
                  [] leg = "commit"  -> "digest"
                  [] leg = "digest"  -> "full"
                  [] OTHER           -> "idle"

RunGoesOnWith(r) ==
  at' = NextLeg(at) /\ send' = "no" /\ recovered' = (NextLeg(at) # "idle" /\ r)

RunGoesOn == RunGoesOnWith(recovered)

(* Fault: a throw leaves the delivery marked as running.                    *)
RunThrowsHolding == at' = "idle" /\ recovered' = FALSE /\ UNCHANGED send

RunThrows == at' = "idle" /\ send' = "no" /\ recovered' = FALSE

----------------------------------------------------------------------------
(***************************************************************************)
(* The tick: recovery first, then the drain.  The window is persisted      *)
(* before the cursor moves, and an event already in the digest's window is *)
(* not recorded again.                                                     *)
(***************************************************************************)
Tick ==
  /\ at = "idle"
  /\ at' = IF pend = {} /\ request = {} THEN "drain" ELSE "recover"
  /\ send' = IF pend = {} THEN "no" ELSE "submit"
  /\ UNCHANGED <<recovered, taken, cursor, fileVars, row, entry, clockVars, serial,
                 copies, ghostVars, boundVars>>

Drain(k) ==
  /\ at = "drain" /\ cursor + k <= MaxEvents
  /\ LET fresh == (cursor + 1 .. cursor + k) \ window IN
       /\ window' = window \cup fresh
       /\ behind' = IF \E p \in pend : p.mode = "digest" THEN behind \cup fresh ELSE behind
  /\ taken' = k
  /\ at' = IF k = 0 THEN "digest" ELSE "commit"
  /\ UNCHANGED <<recovered, send, cursor, pend, request, row, entry, clockVars, serial,
                 copies, doubted, told, boundVars>>

Commit ==
  /\ at = "commit"
  /\ cursor' = cursor + taken /\ taken' = 0
  /\ RunGoesOn
  /\ UNCHANGED <<fileVars, row, entry, clockVars, serial, copies, ghostVars, boundVars>>

(* the inbox of owner events cannot be written: the batch is drained again *)
CommitFails ==
  /\ at = "commit" /\ faults < MaxFaults
  /\ taken' = 0
  /\ faults' = faults + 1
  /\ RunThrows
  /\ UNCHANGED <<cursor, fileVars, row, entry, clockVars, serial, copies, ghostVars,
                 acts, crashes>>

----------------------------------------------------------------------------
(***************************************************************************)
(* Composing.  The exact report is persisted before the first send.        *)
(***************************************************************************)
Prepared(id, mode, h) ==
  /\ pend' = {[id |-> id, rep |-> serial + 1, mode |-> mode, hour |-> h, 
             events |-> IF mode = "digest" THEN window ELSE {}]}
  /\ serial' = serial + 1
  /\ send' = "submit"
  /\ UNCHANGED <<at, recovered, taken, cursor, window, row, entry, clockVars, copies,
                 ghostVars, boundVars>>

Composes == send = "no" /\ serial < MaxReports
Uuid == <<"uuid", serial + 1>>

ComposeDigest ==
  /\ at = "digest" /\ Composes
  /\ pend = {} /\ window # {}
  /\ Prepared(Uuid, "digest", hour)
  /\ UNCHANGED request

(* the agent finds nothing worth a report                                  *)
SuppressDigest ==
  /\ at = "digest" /\ send = "no"
  /\ pend = {} /\ window # {}
  /\ window' = {}
  /\ told' = told \cup window
  /\ RunGoesOn
  /\ UNCHANGED <<taken, cursor, pend, request, row, entry, clockVars, serial,
                 copies, doubted, behind, boundVars>>

FullDue == hour \in Scheduled /\ fired # hour /\ pend = {} /\ ~recovered

ComposeFull ==
  /\ at = "full" /\ Composes
  /\ FullDue
  /\ Prepared(<<"hour", hour>>, "full", hour)
  /\ UNCHANGED request

(* the last full report may be recent enough: the hour is consumed         *)
SkipFull ==
  /\ at = "full" /\ send = "no"
  /\ FullDue /\ fired # 0
  /\ fired' = hour
  /\ RunGoesOn
  /\ UNCHANGED <<taken, cursor, fileVars, row, entry, hour, serial,
                 copies, ghostVars, boundVars>>

(* no cadence, nothing to report, a report pending; an agent that throws   *)
(* ends the run just the same                                              *)
NoReport ==
  /\ at \in {"digest", "full"} /\ send = "no"
  /\ RunGoesOn
  /\ UNCHANGED <<taken, cursor, fileVars, row, entry, clockVars, serial,
                 copies, ghostVars, boundVars>>

(* startFullReport: refused while a run, a report or a request is pending  *)
Demand ==
  /\ at = "idle" /\ pend = {} /\ request = {}
  /\ serial < MaxReports
  /\ request' = {hour}
  /\ at' = "demand"
  /\ UNCHANGED <<recovered, send, taken, cursor, window, pend, row, entry, clockVars, serial,
                 copies, ghostVars, boundVars>>

ComposeRequest ==
  /\ at \in {"demand", "recover"} /\ Composes
  /\ \E h \in request : Prepared(Uuid, "full", h)
  /\ request' = {}

RequestFails ==
  /\ at \in {"demand", "recover"} /\ send = "no" /\ request # {}
  /\ faults < MaxFaults /\ faults' = faults + 1
  /\ RunThrows
  /\ UNCHANGED <<taken, cursor, fileVars, row, entry, clockVars, serial,
                 copies, ghostVars, acts, crashes>>

----------------------------------------------------------------------------
(***************************************************************************)
(* deliverPrepared, from the reservation of the row to its outcome.        *)
(***************************************************************************)
Unpinned(e) == [e EXCEPT !.pinned = FALSE]

(* Fault: only a lease that was given back can be taken again.              *)
ClaimableIfFree(r) == r.state = "retryable" /\ r.lease = "none" /\ ~r.backoff

Claimable(r) == r.state = "retryable" /\ r.lease # "live" /\ ~r.backoff

(* the row is inserted, or found with the same report; then it is leased   *)
Leases(p) ==
  /\ send = "submit" /\ p \in pend
  /\ \/ row[p.id].state = "none"
     \/ row[p.id].rep = p.rep /\ Claimable(row[p.id])
  /\ row' = [row EXCEPT ![p.id] = [state |-> "retryable", rep |-> p.rep,
                                   lease |-> "live", backoff |-> FALSE]]
  /\ send' = "leased"
  /\ UNCHANGED <<at, recovered, taken, cursor, fileVars, entry, clockVars, serial,
                 copies, ghostVars, boundVars>>

Refused(p) ==
  /\ send = "submit" /\ p \in pend /\ row[p.id].state = "none"
  /\ faults < MaxFaults /\ faults' = faults + 1
  /\ RunGoesOn
  /\ UNCHANGED <<taken, cursor, fileVars, row, entry, clockVars, serial,
                 copies, ghostVars, acts, crashes>>

(* another report holds the delivery id: reserve throws, and so does the   *)
(* tick                                                                    *)
Conflicts(p) ==
  /\ send = "submit" /\ p \in pend
  /\ row[p.id].state # "none" /\ row[p.id].rep # p.rep
  /\ RunThrows
  /\ UNCHANGED <<taken, cursor, fileVars, row, entry, clockVars, serial,
                 copies, ghostVars, boundVars>>

(* leased elsewhere, not due, or rejected: the report is kept              *)
Waits(p) ==
  /\ send = "submit" /\ p \in pend
  /\ row[p.id].rep = p.rep
  /\ row[p.id].state \in {"retryable", "rejected"} /\ ~Claimable(row[p.id])
  /\ RunGoesOn
  /\ UNCHANGED <<taken, cursor, fileVars, row, entry, clockVars, serial,
                 copies, ghostVars, boundVars>>

(* Fault: a cancelled report takes its window with it.                      *)
WasCancelledResetting(p) ==
  /\ send = "submit" /\ p \in pend
  /\ row[p.id].rep = p.rep /\ row[p.id].state = "cancelled"
  /\ pend' = {} /\ window' = {}
  /\ RunGoesOn
  /\ UNCHANGED <<taken, cursor, request, row, entry, clockVars, serial,
                 copies, ghostVars, boundVars>>

WasCancelled(p) ==
  /\ send = "submit" /\ p \in pend
  /\ row[p.id].rep = p.rep /\ row[p.id].state = "cancelled"
  /\ pend' = {}
  /\ RunGoesOn
  /\ UNCHANGED <<taken, cursor, window, request, row, entry, clockVars, serial,
                 copies, ghostVars, boundVars>>

WasDelivered(p) ==
  /\ send = "submit" /\ p \in pend
  /\ row[p.id].rep = p.rep /\ row[p.id].state = "delivered"
  /\ send' = "delivered"
  /\ UNCHANGED <<at, recovered, taken, cursor, fileVars, row, entry, clockVars, serial,
                 copies, ghostVars, boundVars>>

(* Fault: the entry is claimed and not pinned.                              *)
PinsNothing(p) ==
  /\ send = "leased" /\ p \in pend
  /\ entry' = [entry EXCEPT ![p.id].state = IF @ = "none" THEN "processing" ELSE @]
  /\ send' = "pinned"
  /\ UNCHANGED <<at, recovered, taken, cursor, fileVars, row, clockVars, serial,
                 copies, ghostVars, boundVars>>

Pins(p) ==
  /\ send = "leased" /\ p \in pend
  /\ entry' = [entry EXCEPT ![p.id] =
       [state |-> IF @.state = "none" THEN "processing" ELSE @.state, pinned |-> TRUE]]
  /\ send' = "pinned"
  /\ UNCHANGED <<at, recovered, taken, cursor, fileVars, row, clockVars, serial,
                 copies, ghostVars, boundVars>>

(* a store that cannot be written, before the send or after it: the lease  *)
(* stays until it expires                                                  *)
StepThrows ==
  /\ send \in {"leased", "confirmed"}
  /\ faults < MaxFaults /\ faults' = faults + 1
  /\ RunThrows
  /\ UNCHANGED <<taken, cursor, fileVars, row, entry, clockVars, serial,
                 copies, ghostVars, acts, crashes>>

(* sendMessage under the delivery id: a delivered entry needs no send, any *)
(* other is marked uncertain before the request                            *)
Transmits(p) ==
  /\ send = "pinned" /\ p \in pend
  /\ IF entry[p.id].state = "delivered"
     THEN send' = "confirmed" /\ UNCHANGED entry
     ELSE send' = "sending" /\ entry' = [entry EXCEPT ![p.id].state = "unsure"]
  /\ UNCHANGED <<at, recovered, taken, cursor, fileVars, row, clockVars, serial,
                 copies, ghostVars, boundVars>>

Accepted(p) ==
  /\ send = "sending" /\ p \in pend
  /\ copies' = [copies EXCEPT ![p.id] = @ + 1]
  /\ entry' = [entry EXCEPT ![p.id].state = "delivered"]
  /\ send' = "confirmed"
  /\ UNCHANGED <<at, recovered, taken, cursor, fileVars, row, clockVars, serial,
                 ghostVars, boundVars>>

Freed(r, state, backoff) == [r EXCEPT !.state = state, !.lease = "none", !.backoff = backoff]

(* no answer: the message may or may not be in the chat                    *)
NoAnswer(p) ==
  /\ send = "sending" /\ p \in pend
  /\ faults < MaxFaults /\ faults' = faults + 1
  /\ \E n \in {0, 1} : copies' = [copies EXCEPT ![p.id] = @ + n]
  /\ doubted' = doubted \cup {p.id}
  /\ row' = [row EXCEPT ![p.id] = Freed(@, "retryable", TRUE)]
  /\ RunGoesOn
  /\ UNCHANGED <<taken, cursor, fileVars, entry, clockVars, serial, told, behind,
                 acts, crashes>>

(* Telegram refuses: for good, or for now (429)                            *)
Rejected(p) ==
  /\ send = "sending" /\ p \in pend
  /\ faults < MaxFaults /\ faults' = faults + 1
  /\ entry' = [entry EXCEPT ![p.id].state = "sure"]
  /\ \E final \in BOOLEAN :
       row' = [row EXCEPT ![p.id] = Freed(@, IF final THEN "rejected" ELSE "retryable", ~final)]
  /\ RunGoesOn
  /\ UNCHANGED <<taken, cursor, fileVars, clockVars, serial, copies, ghostVars,
                 acts, crashes>>

MarksDelivered(p) ==
  /\ send = "confirmed" /\ p \in pend
  /\ row' = [row EXCEPT ![p.id].state = "delivered"]
  /\ send' = "delivered"
  /\ UNCHANGED <<at, recovered, taken, cursor, fileVars, entry, clockVars, serial,
                 copies, ghostVars, boundVars>>

(* The pin is released; the trigger loop resets the window, marks the hour *)
(* and forgets the report.                                                 *)
Settles(p) ==
  /\ send = "delivered" /\ p \in pend
  /\ entry' = [entry EXCEPT ![p.id] = Unpinned(@)]
  /\ IF p.mode = "digest"
     THEN window' = {} /\ told' = told \cup p.events /\ UNCHANGED fired
     ELSE fired' = p.hour /\ UNCHANGED <<window, told>>
  /\ pend' = {}
  /\ RunGoesOnWith(recovered \/ at = "recover")
  /\ UNCHANGED <<taken, cursor, request, row, hour, serial, copies, doubted, behind, boundVars>>

----------------------------------------------------------------------------
(***************************************************************************)
(* Time, the operator, and the process.                                    *)
(***************************************************************************)
BackoffEnds(i) ==
  /\ row[i].backoff
  /\ row' = [row EXCEPT ![i].backoff = FALSE]
  /\ UNCHANGED <<at, recovered, send, taken, cursor, fileVars, entry, clockVars, serial,
                 copies, ghostVars, boundVars>>

(* a lease is looked at when the next one is asked for: that it ends in     *)
(* the delivery it was taken for changes nothing                           *)
LeaseEnds(i) ==
  /\ send = "no" /\ row[i].state = "retryable" /\ row[i].lease = "live"
  /\ row' = [row EXCEPT ![i].lease = "expired"]
  /\ UNCHANGED <<at, recovered, send, taken, cursor, fileVars, entry, clockVars, serial,
                 copies, ghostVars, boundVars>>

(* delivered entries that are not pinned are pruned by age                 *)
Prune(i) ==
  /\ entry[i].state = "delivered" /\ ~entry[i].pinned
  /\ entry' = [entry EXCEPT ![i] = NoEntry]
  /\ UNCHANGED <<at, recovered, send, taken, cursor, fileVars, row, clockVars, serial,
                 copies, ghostVars, boundVars>>

HourPasses ==
  /\ hour < MaxHours
  /\ hour' = hour + 1
  /\ UNCHANGED <<at, recovered, send, taken, cursor, fileVars, row, entry, fired, serial,
                 copies, ghostVars, boundVars>>

(* Fault: the operator may act on any report that is not settled.           *)
OperatorAnytime(i, state) ==
  /\ acts < MaxActs
  /\ row[i].state \in {"retryable", "rejected"}
  /\ acts' = acts + 1
  /\ row' = [row EXCEPT ![i].state = state]
  /\ UNCHANGED <<at, recovered, send, taken, cursor, fileVars, entry, clockVars, serial,
                 copies, ghostVars, crashes, faults>>

Operator(i, state) ==
  /\ acts < MaxActs
  /\ row[i].state = "rejected"
  /\ acts' = acts + 1
  /\ row' = [row EXCEPT ![i].state = state]
  /\ UNCHANGED <<at, recovered, send, taken, cursor, fileVars, entry, clockVars, serial,
                 copies, ghostVars, crashes, faults>>

Cancel(i)     == Operator(i, "cancelled")
Reactivate(i) == Operator(i, "retryable")

(* The process dies, at any step, and is started again: pins are           *)
(* reconciled with the rows before anything is sent.                       *)
Nonterminal(r) == r.state \in {"retryable", "rejected"}

Reconciled(i) ==
  IF row[i].state = "none" THEN entry[i]
  ELSE [entry[i] EXCEPT !.pinned = Nonterminal(row[i]) /\ entry[i].state # "none"]

Restart ==
  /\ crashes < MaxCrashes /\ crashes' = crashes + 1
  /\ RunThrows /\ taken' = 0
  /\ LET onTheWire == IF send = "sending" THEN {p.id : p \in pend} ELSE {} IN
       /\ doubted' = doubted \cup onTheWire
       /\ \E landed \in SUBSET onTheWire :
            copies' = [i \in Ids |-> IF i \in landed THEN copies[i] + 1 ELSE copies[i]]
  /\ entry' = [i \in Ids |-> Reconciled(i)]
  /\ UNCHANGED <<cursor, fileVars, row, clockVars, serial, told, behind, acts, faults>>

----------------------------------------------------------------------------
Submits == \E p \in pend : \/ Leases(p) \/ Refused(p) \/ Conflicts(p) \/ Waits(p)
                           \/ WasCancelled(p) \/ WasDelivered(p)

Answers == \E p \in pend : Accepted(p) \/ NoAnswer(p) \/ Rejected(p)

Sends == \/ \E p \in pend : Pins(p) \/ Transmits(p) \/ MarksDelivered(p) \/ Settles(p)
         \/ Answers \/ StepThrows

Collects == \/ \E k \in 0..MaxEvents : Drain(k)
            \/ Commit \/ CommitFails

Composing == \/ ComposeDigest \/ SuppressDigest \/ ComposeFull \/ SkipFull \/ NoReport
             \/ ComposeRequest \/ RequestFails

Next ==
  \/ Tick \/ Collects \/ Composing \/ Demand
  \/ Submits \/ Sends
  \/ \E i \in Ids : BackoffEnds(i) \/ LeaseEnds(i) \/ Prune(i) \/ Cancel(i) \/ Reactivate(i)
  \/ HourPasses \/ Restart

Spec == Init /\ [][Next]_vars

(***************************************************************************)
(* The interval ticks, awaits end, backoffs and leases expire (strongly    *)
(* fair, as the guard of LeaseEnds hides the time that passes in between). *)
(* Nothing makes the operator act, the owner ask or the agent write.       *)
(***************************************************************************)
Fairness ==
  /\ WF_vars(Tick) /\ WF_vars(Collects) /\ WF_vars(Composing)
  /\ WF_vars(Submits) /\ WF_vars(Sends)
  /\ WF_vars(\E i \in Ids : BackoffEnds(i)) /\ SF_vars(\E i \in Ids : LeaseEnds(i))

FairSpec == Spec /\ Fairness
----------------------------------------------------------------------------
(***************************************************************************)
(* Properties.                                                             *)
(***************************************************************************)

(***************************************************************************)
(* A report reaches the chat twice only when an attempt ended without an   *)
(* answer: retries, expired leases, crashes between the three stores,      *)
(* pruning and reactivation transmit nothing that is known to be there.    *)
(***************************************************************************)
RepeatNeedsDoubt == \A i \in Ids : copies[i] > 1 => i \in doubted

(***************************************************************************)
(* The row tells what happened: a delivered report is in the chat, a       *)
(* cancelled one is not unless one of its attempts had no answer, and the  *)
(* loop forgets a report only then.                                        *)
(***************************************************************************)
OutcomeIsTrue ==
  \A i \in Ids :
    /\ row[i].state = "delivered" => copies[i] > 0
    /\ row[i].state = "cancelled" => copies[i] = 0 \/ i \in doubted
    /\ Nonterminal(row[i]) => \E p \in pend : p.id = i /\ p.rep = row[i].rep

(***************************************************************************)
(* An event whose cursor is committed is in the digest's window, or the    *)
(* owner was told of it, or it was drained while a digest was pending: no  *)
(* crash, retry, refusal or cancellation loses any other.                  *)
(***************************************************************************)
LostOnlyBehind == 1..cursor \subseteq window \cup told \cup behind

(* The same for every event, as the comment on the drain has it.           *)
EveryUpdateIsTold == 1..cursor \subseteq window \cup told

(***************************************************************************)
(* A delivery id belongs to one report: what is replayed under it is what  *)
(* was reserved.                                                           *)
(***************************************************************************)
ReplayIsIdentical ==
  \A p \in pend : row[p.id].state # "none" => row[p.id].rep = p.rep

(***************************************************************************)
(* Unless Telegram rejects one for good, every prepared report ends up     *)
(* delivered, after whatever crashes, refusals and failed sends.           *)
(***************************************************************************)
EveryReportEnds ==
  [](\A i \in Ids : row[i].state # "rejected") => (pend # {} ~> pend = {})
=============================================================================
