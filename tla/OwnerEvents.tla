---------------------------- MODULE OwnerEvents ----------------------------
(***************************************************************************)
(* The owner-event turn: OwnerEventLoop.tick over the inbox                *)
(* (owner-event-loop.ts), the external effects a turn may ask for          *)
(* (executeTelegramSend and drive_upload of gateway-tool-executor.ts) with *)
(* the host's effect ledger (owner-event-effects.ts), and the Telegram     *)
(* gateway's outbound ledger (telegram.ts, telegram-message-ledger.ts).    *)
(*                                                                         *)
(* A tool call lives on its own: it may overlap others of its turn, and it *)
(* may outlive the turn that made it.  Two stores remember one effect, the *)
(* SQLite effect ledger and the JSON outbound ledger, and a crash can fall *)
(* between their writes.                                                   *)
(***************************************************************************)
EXTENDS OwnerEventInbox

CONSTANTS
  Kinds,       \* effect tools the turn's role allows: drive, telegram
  Calls,       \* tool calls that may be in flight together
  Texts,       \* text messages a turn may compose
  Files,       \* files a turn may send
  Chunks,      \* pieces a text is split into
  PerTick,     \* maxBatchesPerTick
  MaxCrashes,  \* process deaths explored
  MaxFaults    \* database errors of the intake and the loop explored

ASSUME TurnAssumption ==
  /\ Kinds \subseteq {"drive", "telegram"}
  /\ Texts \cap Files = {} /\ {"drive", "blank"} \cap (Texts \cup Files) = {}
  /\ Chunks \in Nat \ {0} /\ PerTick \in Nat \ {0}
  /\ MaxCrashes \in Nat /\ MaxFaults \in Nat

VARIABLES
  up,         \* the daemon runs
  step,       \* idle, alert, alertEnd (awaits onDead), loop, prep, run
  cur,        \* batch of the turn, 0 if none
  processed,  \* batches this tick has acked
  dying,      \* dead batches whose alert is still to be awaited
  done,       \* what the turn's history proves: acted, delegated
  effects,    \* effects[b][kind]: the host's effect ledger
  intent,     \* variant the telegram reservation of b is bound to
  outbox,     \* outbound entry of b: payload, state, next chunk, doubt
  accepted,   \* batches with a workorder accepted under their key
  noted,      \* batches with an exact no-update note
  call,       \* the tool calls
  uploads,    \* Drive files created for b: none, one, more
  messages,   \* messages[b][k]: times Telegram accepted piece k of b
  doubted,    \* <<b, k>> whose send once ended without an answer (history)
  announced,  \* dead batches whose alert reached the owner (history)
  unheard,    \* dead batches whose alert the notifier did not deliver (history)
  lost,       \* dead batches that a death or an error left without one (history)
  blanked,    \* batches whose message was confirmed, and blank (history)
  turns,      \* turns[b]: times b was handed to the runner (history)
  crashes, faults

loopVars   == <<up, step, cur, processed, dying, done>>
ledgerVars == <<effects, intent, outbox>>
factVars   == <<accepted, noted>>
alertVars  == <<announced, unheard, lost>>
worldVars  == <<uploads, messages, doubted, alertVars, blanked, turns>>
boundVars  == <<crashes, faults>>
vars == <<inboxVars, loopVars, ledgerVars, factVars, call, worldVars, boundVars>>

Payloads == Texts \cup Files
Pieces(p) == IF p \in Texts THEN Chunks ELSE 1
Variant(p) == IF p \in Texts THEN "text" ELSE "file"

(* How often something happened outside: not at all, once, more than once. *)
Times == 0..2
Again(n) == IF n = 2 THEN 2 ELSE n + 1

Idle == [pc |-> "idle", batch |-> 0, attempt |-> 0, payload |-> "drive",
         piece |-> 0, landed |-> FALSE]
NoEntry == [state |-> "none", payload |-> "drive", next |-> 1, doubt |-> FALSE]

TypeOK ==
  /\ InboxTypeOK /\ Len(batches) <= MaxBatches
  /\ up \in BOOLEAN
  /\ step \in {"idle", "alert", "alertEnd", "loop", "prep", "run"}
  /\ cur \in DOMAIN batches \cup {0}
  /\ (cur # 0) <=> (step \in {"prep", "run"})
  /\ processed \in 0..PerTick
  /\ dying \subseteq Ids /\ blanked \subseteq Ids
  /\ announced \subseteq Ids /\ unheard \subseteq Ids /\ lost \subseteq Ids
  /\ done \subseteq {"acted", "delegated"}
  /\ effects \in [Ids -> [{"drive", "telegram"} ->
                            {"none", "transmitting", "unknown", "confirmed"}]]
  /\ intent \in [Ids -> {"none", "text", "file"}]
  /\ outbox \in [Ids -> [state : {"none", "processing", "ready", "delivered"},
                         payload : Payloads \cup {"drive"},
                         next : 1..Chunks + 1, doubt : BOOLEAN]]
  /\ accepted \subseteq Ids /\ noted \subseteq Ids
  /\ call \in [Calls -> [pc : {"idle", "lookup", "reserve", "transmit", "recover",
                               "queued", "sending", "sent", "confirming"},
                         batch : Ids \cup {0}, attempt : Nat,
                         payload : Payloads \cup {"drive", "blank"},
                         piece : 0..Chunks, landed : BOOLEAN]]
  /\ uploads \in [Ids -> Times]
  /\ messages \in [Ids -> [1..Chunks -> Times]]
  /\ doubted \subseteq Ids \X (1..Chunks)
  /\ turns \in [Ids -> Nat]
  /\ crashes \in Nat /\ faults \in Nat

Init ==
  /\ InboxInit
  /\ up = FALSE /\ step = "idle" /\ cur = 0 /\ processed = 0 /\ dying = {} /\ done = {}
  /\ effects = [b \in Ids |-> [kind \in {"drive", "telegram"} |-> "none"]]
  /\ intent = [b \in Ids |-> "none"]
  /\ outbox = [b \in Ids |-> NoEntry]
  /\ accepted = {} /\ noted = {}
  /\ call = [c \in Calls |-> Idle]
  /\ uploads = [b \in Ids |-> 0]
  /\ messages = [b \in Ids |-> [k \in 1..Chunks |-> 0]]
  /\ doubted = {} /\ blanked = {} /\ turns = [b \in Ids |-> 0]
  /\ announced = {} /\ unheard = {} /\ lost = {}
  /\ crashes = 0 /\ faults = 0

(* getTerminalReceipt, as start.ts wires it.                               *)
HasReceipt(b) ==
  \/ \E kind \in {"drive", "telegram"} : effects[b][kind] = "confirmed"
  \/ b \in accepted
  \/ b \in noted

----------------------------------------------------------------------------
(* The trigger loop of the same daemon feeds the inbox.                    *)
DrainEnds ==
  /\ up
  /\ \/ Commit /\ UNCHANGED faults
     \/ faults < MaxFaults /\ DrainFails /\ faults' = faults + 1
  /\ UNCHANGED <<loopVars, ledgerVars, factVars, call, worldVars, crashes>>

Intake ==
  \/ DrainEnds
  \/ /\ up
     /\ \E es \in SUBSET Events : Deliver(es)
     /\ UNCHANGED <<loopVars, ledgerVars, factVars, call, worldVars, boundVars>>

Clock ==
  /\ \E b \in DOMAIN batches : Elapse(b)
  /\ UNCHANGED <<loopVars, ledgerVars, factVars, call, worldVars, boundVars>>

Start ==
  /\ ~up
  /\ up' = TRUE
  /\ UNCHANGED <<inboxVars, step, cur, processed, dying, done, ledgerVars, factVars, call,
                 worldVars, boundVars>>

----------------------------------------------------------------------------
(* tick(): replay, then alert the owner of each batch that died.           *)
TickStart(n) ==
  /\ up /\ step = "idle"
  /\ batches' = Replayed(n)
  /\ dying' = NewlyDead(n)
  /\ step' = "alert" /\ processed' = 0
  /\ UNCHANGED <<seen, cursor, handed, up, cur, done, ledgerVars, factVars, call,
                 worldVars, boundVars>>

(* The replay throws after it parked the old batches: tick() rejects, and  *)
(* the next replay does not find them again.                               *)
ReplayRejects(n) ==
  /\ up /\ step = "idle"
  /\ faults < MaxFaults
  /\ faults' = faults + 1
  /\ batches' = Parked(n)
  /\ lost' = lost \cup Expired(n)
  /\ UNCHANGED <<seen, cursor, handed, loopVars, ledgerVars, factVars, call, uploads, messages,
                 doubted, announced, unheard, blanked, turns, crashes>>

(* notifyDead: the page reaches the owner, or it does not: the notifier is *)
(* not set, or its error is caught and logged.                             *)
Alert(b) ==
  /\ step \in {"alert", "alertEnd"}
  /\ b \in dying
  /\ dying' = dying \ {b}
  /\ \/ announced' = announced \cup {b} /\ UNCHANGED unheard
     \/ unheard' = unheard \cup {b} /\ UNCHANGED announced
  /\ UNCHANGED <<inboxVars, up, step, cur, processed, done, ledgerVars, factVars, call,
                 uploads, messages, doubted, lost, blanked, turns, boundVars>>

AlertsSent ==
  /\ step \in {"alert", "alertEnd"} /\ dying = {}
  /\ step' = IF step = "alert" THEN "loop" ELSE "idle"
  /\ UNCHANGED <<inboxVars, up, cur, processed, dying, done, ledgerVars, factVars, call,
                 worldVars, boundVars>>

(* Claim a batch; a durable receipt of an earlier turn acks it unrun.      *)
Recover(b) ==
  /\ step = "loop" /\ processed < PerTick
  /\ Claimable(b) /\ HasReceipt(b)
  /\ batches' = Acked(b)
  /\ processed' = processed + 1
  /\ UNCHANGED <<seen, cursor, handed, up, step, cur, dying, done, ledgerVars, factVars, call,
                 worldVars, boundVars>>

(* Claim and ack are two writes: an error between them leaves the claim to *)
(* its lease.                                                              *)
RecoverRejects(b) ==
  /\ step = "loop" /\ processed < PerTick
  /\ Claimable(b) /\ HasReceipt(b)
  /\ faults < MaxFaults
  /\ faults' = faults + 1
  /\ batches' = ClaimedBatch(b)
  /\ step' = "idle"
  /\ UNCHANGED <<seen, cursor, handed, up, cur, processed, dying, done, ledgerVars, factVars,
                 call, worldVars, crashes>>

Claim(b) ==
  /\ step = "loop" /\ processed < PerTick
  /\ Claimable(b) /\ ~HasReceipt(b)
  /\ batches' = ClaimedBatch(b)
  /\ step' = "prep" /\ cur' = b /\ done' = {}
  /\ UNCHANGED <<seen, cursor, handed, up, processed, dying, ledgerVars, factVars, call,
                 worldVars, boundVars>>

EndTick ==
  /\ step = "loop"
  /\ processed = PerTick \/ ~\E b \in DOMAIN batches : Claimable(b)
  /\ step' = "idle"
  /\ UNCHANGED <<inboxVars, up, cur, processed, dying, done, ledgerVars, factVars, call,
                 worldVars, boundVars>>

(* buildPrompt and issueEnvelope are over: the runner starts.              *)
RunStarts ==
  /\ step = "prep"
  /\ step' = "run"
  /\ turns' = [turns EXCEPT ![cur] = @ + 1]
  /\ UNCHANGED <<inboxVars, up, cur, processed, dying, done, ledgerVars, factVars, call,
                 uploads, messages, doubted, alertVars, blanked, boundVars>>

(* The turn is over and its batch acked: on to the next claim.             *)
\* Fault: the batch of the turn is still held after its ack.
AckTurnHolding ==
  /\ batches' = Acked(cur)
  /\ step' = "loop" /\ done' = {} /\ processed' = processed + 1
  /\ UNCHANGED <<cur, dying>>

AckTurn ==
  /\ batches' = Acked(cur)
  /\ step' = "loop" /\ cur' = 0 /\ done' = {} /\ processed' = processed + 1
  /\ UNCHANGED dying

(* The turn is over and its batch retried: the tick is over too.           *)
RetryTurn ==
  /\ batches' = RetriedBatch(cur)
  /\ step' = "alertEnd" /\ cur' = 0 /\ done' = {}
  /\ dying' = IF batches'[cur].status = "dead" THEN {cur} ELSE {}
  /\ UNCHANGED processed

(* classifyOwnerEventOutcome reads the turn's history; without an outcome  *)
(* there, and after an error, the durable receipts are read again.         *)
\* Fault: a turn without an outcome is neither acked nor retried.
RunReturnsUnsettled ==
  /\ step = "run"
  /\ IF done # {} \/ HasReceipt(cur) THEN AckTurn
     ELSE /\ step' = "idle" /\ cur' = 0 /\ done' = {}
          /\ UNCHANGED <<batches, dying, processed>>
  /\ UNCHANGED <<seen, cursor, handed, up, ledgerVars, factVars, call, worldVars, boundVars>>

RunReturns ==
  /\ step = "run"
  /\ IF done # {} \/ HasReceipt(cur) THEN AckTurn ELSE RetryTurn
  /\ UNCHANGED <<seen, cursor, handed, up, ledgerVars, factVars, call, worldVars, boundVars>>

TurnThrows ==
  /\ step \in {"prep", "run"}
  /\ IF HasReceipt(cur) THEN AckTurn ELSE RetryTurn
  /\ UNCHANGED <<seen, cursor, handed, up, ledgerVars, factVars, call, worldVars, boundVars>>

(* A ledger read or write of the loop itself throws: tick() rejects and    *)
(* the claim is left to its lease.                                         *)
TickRejects ==
  /\ step \in {"loop", "prep", "run"}
  /\ faults < MaxFaults
  /\ faults' = faults + 1
  /\ step' = "idle" /\ cur' = 0 /\ done' = {}
  /\ UNCHANGED <<inboxVars, up, processed, dying, ledgerVars, factVars, call, worldVars, crashes>>

(* retry() throws after its write, when it reads the new status back.  The *)
(* handler of the turn finds nothing left to retry, or the tick rejects;   *)
(* either way a batch the write parked dead is not alerted.                *)
RetryRejects ==
  /\ step \in {"prep", "run"} /\ ~HasReceipt(cur)
  /\ faults < MaxFaults
  /\ faults' = faults + 1
  /\ batches' = RetriedBatch(cur)
  /\ lost' = IF batches'[cur].status = "dead" THEN lost \cup {cur} ELSE lost
  /\ step' = "idle" /\ cur' = 0 /\ done' = {}
  /\ UNCHANGED <<seen, cursor, handed, up, processed, dying, ledgerVars, factVars, call, uploads,
                 messages, doubted, announced, unheard, blanked, turns, crashes>>

----------------------------------------------------------------------------
(* What the model does in its turn: delegate, leave a note, call a tool.   *)
Delegate ==
  /\ step = "run"
  /\ accepted' = accepted \cup {cur}
  /\ done' = done \cup {"delegated"}
  /\ UNCHANGED <<inboxVars, up, step, cur, processed, dying, ledgerVars, noted, call,
                 worldVars, boundVars>>

NoteNoUpdate ==
  /\ step = "run"
  /\ noted' = noted \cup {cur}
  /\ UNCHANGED <<inboxVars, loopVars, ledgerVars, accepted, call, worldVars, boundVars>>

(* The call of c is over.  Its success is in the history of its own turn,  *)
(* if that turn is still going on.                                         *)
\* Fault: a tool call that failed counts as an action of its turn.
FinishAnyhow(c, ok) ==
  /\ call' = [call EXCEPT ![c] = Idle]
  /\ done' = IF step = "run" /\ call[c].batch = cur THEN done \cup {"acted"} ELSE done

Finish(c, ok) ==
  /\ call' = [call EXCEPT ![c] = Idle]
  /\ done' = IF /\ ok /\ step = "run" /\ call[c].batch = cur
                /\ call[c].attempt = batches[cur].attempts
             THEN done \cup {"acted"} ELSE done

At(c, pc) == [call EXCEPT ![c].pc = pc, ![c].landed = FALSE]

NewCall(c, pc, p) ==
  [call EXCEPT ![c] = [pc |-> pc, batch |-> cur, attempt |-> batches[cur].attempts,
                       payload |-> p, piece |-> 0, landed |-> FALSE]]

(* begin grants the transmission to the caller that makes the reservation. *)
\* Fault: to every caller, until the effect is confirmed.
ExecuteUnlessConfirmed(b, kind) == effects[b][kind] # "confirmed"

Execute(b, kind) == effects[b][kind] = "none"

Confirm(b, kind)     == [effects EXCEPT ![b][kind] = "confirmed"]
MarkUnknown(b, kind) ==
  IF effects[b][kind] = "confirmed" THEN effects
  ELSE [effects EXCEPT ![b][kind] = "unknown"]

----------------------------------------------------------------------------
(* drive_upload: inspect, look the occurrence up, reserve, create once.    *)
DriveCall(c) ==
  /\ "drive" \in Kinds
  /\ step = "run" /\ call[c].pc = "idle"
  /\ \/ /\ effects[cur]["drive"] = "confirmed"
        /\ done' = done \cup {"acted"}
        /\ UNCHANGED call
     \/ /\ effects[cur]["drive"] = "none"
        /\ call' = NewCall(c, "lookup", "drive")
        /\ UNCHANGED done
     \/ /\ effects[cur]["drive"] \in {"transmitting", "unknown"}
        /\ call' = NewCall(c, "recover", "drive")
        /\ UNCHANGED done
  /\ UNCHANGED <<inboxVars, up, step, cur, processed, dying, ledgerVars, factVars,
                 worldVars, boundVars>>

(* findUploadOccurrence answers; what it found is used one step later.     *)
LookedUp(c) ==
  /\ call[c].pc = "lookup"
  /\ call' = [call EXCEPT ![c].pc = "reserve", ![c].landed = uploads[call[c].batch] > 0]
  /\ UNCHANGED <<inboxVars, loopVars, ledgerVars, factVars, worldVars, boundVars>>

(* begin: the reservation decides who may create.                          *)
Reserve(c) ==
  LET b == call[c].batch
  IN  /\ call[c].pc = "reserve"
      /\ \/ /\ Execute(b, "drive")
            /\ IF call[c].landed
               THEN /\ effects' = Confirm(b, "drive")
                    /\ Finish(c, TRUE)
               ELSE /\ effects' = [effects EXCEPT ![b]["drive"] = "transmitting"]
                    /\ call' = At(c, "transmit")
                    /\ UNCHANGED done
         \/ /\ effects[b]["drive"] = "confirmed"
            /\ Finish(c, TRUE)
            /\ UNCHANGED effects
         \/ /\ effects[b]["drive"] \in {"transmitting", "unknown"}
            /\ call' = At(c, "recover")
            /\ UNCHANGED <<effects, done>>
      /\ UNCHANGED <<inboxVars, up, step, cur, processed, dying, intent, outbox, factVars,
                     worldVars, boundVars>>

(* The lookup of the occurrence fails before anything was reserved.        *)
LookupFails(c) ==
  /\ call[c].pc = "lookup"
  /\ Finish(c, FALSE)
  /\ UNCHANGED <<inboxVars, up, step, cur, processed, dying, ledgerVars, factVars,
                 worldVars, boundVars>>

(* Drive creates the file.                                                 *)
Created(c) ==
  /\ call[c].pc = "transmit" /\ ~call[c].landed
  /\ uploads' = [uploads EXCEPT ![call[c].batch] = Again(@)]
  /\ call' = [call EXCEPT ![c].landed = TRUE]
  /\ UNCHANGED <<inboxVars, loopVars, ledgerVars, factVars, messages, doubted, alertVars,
                 blanked, turns, boundVars>>

(* The answer arrives, or an error does, whether or not a file was made.   *)
TransmitEnds(c, ok) ==
  LET b == call[c].batch
  IN  /\ call[c].pc = "transmit"
      /\ ok => call[c].landed
      /\ effects' = IF ok THEN Confirm(b, "drive") ELSE MarkUnknown(b, "drive")
      /\ Finish(c, ok)
      /\ UNCHANGED <<inboxVars, up, step, cur, processed, dying, intent, outbox, factVars,
                     worldVars, boundVars>>

(* recoverUpload never creates: it finds the file or leaves it unknown.    *)
Recovered(c, ok) ==
  LET b == call[c].batch
  IN  /\ call[c].pc = "recover"
      /\ ok => uploads[b] > 0
      /\ effects' = IF ok THEN Confirm(b, "drive") ELSE MarkUnknown(b, "drive")
      /\ Finish(c, ok)
      /\ UNCHANGED <<inboxVars, up, step, cur, processed, dying, intent, outbox, factVars,
                     worldVars, boundVars>>

----------------------------------------------------------------------------
(* telegram_send: reserve, wait for the chat queue, send piece by piece.   *)
(* begin: a reservation of that variant, now or by an earlier call; a      *)
(* different variant is refused.                                           *)
Reserves(variant) ==
  \/ /\ Execute(cur, "telegram")
     /\ effects' = [effects EXCEPT ![cur]["telegram"] = "transmitting"]
     /\ intent' = [intent EXCEPT ![cur] = variant]
  \/ /\ effects[cur]["telegram"] \in {"transmitting", "unknown"}
     /\ intent[cur] = variant
     /\ UNCHANGED <<effects, intent>>

TelegramCall(c, p) ==
  /\ "telegram" \in Kinds
  /\ step = "run" /\ call[c].pc = "idle"
  /\ \/ /\ effects[cur]["telegram"] = "confirmed"
        /\ done' = done \cup {"acted"}
        /\ UNCHANGED <<call, effects, intent>>
     \/ /\ Reserves(Variant(p))
        /\ call' = NewCall(c, "queued", p)
        /\ UNCHANGED done
  /\ UNCHANGED <<inboxVars, up, step, cur, processed, dying, outbox, factVars,
                 worldVars, boundVars>>

(* No text to send.  The gateway returns from a blank one at once, without *)
(* a look at the outbound ledger, and the effect is confirmed; no text at  *)
(* all is an error of the call that leaves the reservation as it is.       *)
BlankCall(c) ==
  /\ "telegram" \in Kinds
  /\ step = "run" /\ call[c].pc = "idle"
  /\ Reserves("text")
  /\ call' = NewCall(c, "confirming", "blank") \/ UNCHANGED call
  /\ UNCHANGED <<inboxVars, loopVars, outbox, factVars, worldVars, boundVars>>

(* runInChatQueue: one send at a time.  A send that throws frees it.       *)
\* Fault: sends to one chat are not queued.
ChatUnqueued == TRUE

ChatFree == \A c \in Calls : call[c].pc \notin {"sending", "sent"}

\* Fault: the error of a send is swallowed.
SendFailsQuietly(c) ==
  /\ effects' = Confirm(call[c].batch, "telegram")
  /\ Finish(c, TRUE)

SendFails(c) ==
  /\ effects' = MarkUnknown(call[c].batch, "telegram")
  /\ Finish(c, FALSE)

(* Put the next piece on the wire, or note that none is left.  Only a text *)
(* keeps its progress, with a doubt on the piece about to be sent.         *)
Proceed(c, k) ==
  LET b == call[c].batch
      p == call[c].payload
  IN  IF k > Pieces(p)
      THEN /\ outbox' = [outbox EXCEPT ![b].state = "delivered", ![b].next = 1]
           /\ call' = At(c, "confirming")
      ELSE /\ outbox' =
                [outbox EXCEPT ![b] =
                   IF p \in Texts
                   THEN [state |-> "ready", payload |-> p, next |-> k, doubt |-> TRUE]
                   ELSE [state |-> "processing", payload |-> p, next |-> 1, doubt |-> FALSE]]
           /\ call' = [call EXCEPT ![c].pc = "sending", ![c].piece = k, ![c].landed = FALSE]

Dequeue(c) ==
  LET e == outbox[call[c].batch]
      bound == e.state \in {"processing", "ready"}
  IN  /\ call[c].pc = "queued" /\ ChatFree
      /\ \/ /\ e.state = "delivered"
            /\ call' = At(c, "confirming")
            /\ UNCHANGED <<outbox, effects, done>>
         \/ /\ bound /\ e.payload # call[c].payload    \* binding mismatch
            /\ SendFails(c)
            /\ UNCHANGED outbox
         \/ /\ e.state = "none" \/ (bound /\ e.payload = call[c].payload)
            /\ Proceed(c, e.next)
            /\ UNCHANGED <<effects, done>>
      /\ UNCHANGED <<inboxVars, up, step, cur, processed, dying, intent, factVars,
                     worldVars, boundVars>>

(* Nothing can be sent: the gateway is not connected, or the file is not   *)
(* one of the workspace.                                                   *)
Unsendable(c) ==
  /\ call[c].pc = "queued"
  /\ SendFails(c)
  /\ UNCHANGED <<inboxVars, up, step, cur, processed, dying, intent, outbox, factVars,
                 worldVars, boundVars>>

(* Telegram accepts the piece.                                             *)
Landed(c) ==
  /\ call[c].pc = "sending" /\ ~call[c].landed
  /\ messages' = [messages EXCEPT ![call[c].batch][call[c].piece] = Again(@)]
  /\ call' = [call EXCEPT ![c].landed = TRUE]
  /\ UNCHANGED <<inboxVars, loopVars, ledgerVars, factVars, uploads, doubted, alertVars,
                 blanked, turns, boundVars>>

(* The answer says so: a text's progress moves on, a file is delivered.    *)
PieceSent(c) ==
  LET b == call[c].batch
      k == call[c].piece
  IN  /\ call[c].pc = "sending" /\ call[c].landed
      /\ IF call[c].payload \in Texts
         THEN /\ outbox' = [outbox EXCEPT ![b].next = k + 1, ![b].doubt = FALSE]
              /\ call' = At(c, "sent")
         ELSE /\ outbox' = [outbox EXCEPT ![b].state = "delivered"]
              /\ call' = At(c, "confirming")
      /\ UNCHANGED <<inboxVars, loopVars, effects, intent, factVars, worldVars, boundVars>>

(* The next piece of a text, or markDelivered after the last one.          *)
NextPiece(c) ==
  /\ call[c].pc = "sent"
  /\ Proceed(c, call[c].piece + 1)
  /\ UNCHANGED <<inboxVars, loopVars, effects, intent, factVars, worldVars, boundVars>>

(* A definite rejection: the piece did not land, and a text records it.    *)
Rejected(c) ==
  /\ call[c].pc = "sending" /\ ~call[c].landed
  /\ outbox' = [outbox EXCEPT ![call[c].batch].doubt = FALSE]
  /\ SendFails(c)
  /\ UNCHANGED <<inboxVars, up, step, cur, processed, dying, intent, factVars,
                 worldVars, boundVars>>

(* No answer: the piece may have landed.                                   *)
Unanswered(c) ==
  /\ call[c].pc = "sending"
  /\ doubted' = doubted \cup {<<call[c].batch, call[c].piece>>}
  /\ SendFails(c)
  /\ UNCHANGED <<inboxVars, up, step, cur, processed, dying, intent, outbox, factVars,
                 uploads, messages, alertVars, blanked, turns, boundVars>>

Confirmed(c) ==
  LET b == call[c].batch
  IN  /\ call[c].pc = "confirming"
      /\ effects' = Confirm(b, "telegram")
      /\ blanked' = IF call[c].payload = "blank" /\ effects[b]["telegram"] # "confirmed"
                    THEN blanked \cup {b} ELSE blanked
      /\ Finish(c, TRUE)
      /\ UNCHANGED <<inboxVars, up, step, cur, processed, dying, intent, outbox, factVars, uploads,
                     messages, doubted, alertVars, turns, boundVars>>

----------------------------------------------------------------------------
(* The daemon dies; what was on the wire may or may not have landed.       *)
Crash ==
  /\ up /\ crashes < MaxCrashes
  /\ up' = FALSE /\ step' = "idle" /\ cur' = 0 /\ processed' = 0 /\ dying' = {} /\ done' = {}
  /\ handed' = {}
  /\ call' = [c \in Calls |-> Idle]
  /\ doubted' = doubted \cup {<<call[c].batch, call[c].piece>> :
                                c \in {d \in Calls : call[d].pc = "sending"}}
  /\ lost' = lost \cup dying
  /\ crashes' = crashes + 1
  /\ UNCHANGED <<batches, seen, cursor, ledgerVars, factVars, uploads, messages, announced,
                 unheard, blanked, turns, faults>>

(* From the first enqueue of a drain to its commit the code does not wait: *)
(* but for a death, nothing else of the daemon happens in between.         *)
Waiting == handed = {}

Tick ==
  /\ Waiting
  /\ \/ \E n \in 0..Len(batches) : TickStart(n)
     \/ AlertsSent \/ \E b \in dying : Alert(b)
     \/ \E b \in DOMAIN batches : Recover(b) \/ Claim(b)
     \/ EndTick \/ RunStarts

Rejects ==
  \/ TickRejects \/ RetryRejects
  \/ \E n \in 0..Len(batches) : ReplayRejects(n)
  \/ \E b \in DOMAIN batches : RecoverRejects(b)

TurnEnds == Waiting /\ (RunReturns \/ TurnThrows)

DriveAnswers(c) ==
  LookedUp(c) \/ LookupFails(c) \/ Reserve(c) \/ \E ok \in BOOLEAN : TransmitEnds(c, ok) \/ Recovered(c, ok)
TelegramAnswers(c) ==
  Dequeue(c) \/ Unsendable(c) \/ PieceSent(c) \/ NextPiece(c) \/ Rejected(c) \/ Unanswered(c) \/ Confirmed(c)

Turn ==
  /\ Waiting
  /\ \/ Rejects \/ Delegate \/ NoteNoUpdate
     \/ \E c \in Calls : DriveCall(c) \/ BlankCall(c) \/ \E p \in Payloads : TelegramCall(c, p)
     \/ \E c \in Calls : DriveAnswers(c) \/ TelegramAnswers(c)

World == \E c \in Calls : Created(c) \/ Landed(c)

Next == Intake \/ Clock \/ Start \/ Tick \/ Turn \/ TurnEnds \/ World \/ Crash

Spec == Init /\ [][Next]_vars

(***************************************************************************)
(* Fairness.  The daemon is restarted by its service manager, the 5 s      *)
(* timer ticks, time passes, a drain commits or throws, and alerts and     *)
(* turns settle (a turn is cut off by its envelope's 300 s wall and the    *)
(* runner's request timeout).  No tool call and no effect is under any     *)
(* obligation, and neither is the model's choice of what to do.            *)
(***************************************************************************)
Fairness ==
  /\ WF_vars(Start) /\ WF_vars(Clock) /\ WF_vars(DrainEnds)
  /\ WF_vars(Tick) /\ WF_vars(TurnEnds)

FairSpec == Spec /\ Fairness

----------------------------------------------------------------------------
(* Properties                                                              *)

(***************************************************************************)
(* However often the source redelivers, an event is in one batch at most;  *)
(* and once the cursor has moved past it, it is in one.  (A crash between  *)
(* enqueue and commit redelivers, and per-event dedupe absorbs it.)        *)
(***************************************************************************)
EventsHeldOnce ==
  /\ \A a, b \in DOMAIN batches : a # b => batches[a].events \cap batches[b].events = {}
  /\ cursor \subseteq UNION {batches[b].events : b \in DOMAIN batches}

(***************************************************************************)
(* A batch is acked only on a durable receipt: a confirmed effect, an      *)
(* accepted workorder or an exact no-update note, in whichever store.      *)
(***************************************************************************)
AckedIsReceipted == \A b \in WithStatus("acked") : HasReceipt(b)

(***************************************************************************)
(* A claim is the turn in hand: a batch is never taken from a turn that    *)
(* goes on, however long it outlives the lease, and a claim without a turn *)
(* is left behind only by a death or by a tick that was rejected.          *)
(***************************************************************************)
ClaimIsTurn ==
  /\ cur # 0 => cur \in WithStatus("claimed")
  /\ Cardinality(WithStatus("claimed") \ {cur}) <= crashes + faults

(***************************************************************************)
(* The model is handed a batch at most MAX_ATTEMPTS times, whether a turn  *)
(* ends in an error, without an outcome, with the process or in a rejected *)
(* tick, and a batch that is not acked by then is dead.                    *)
(***************************************************************************)
TurnBudget ==
  \A b \in DOMAIN batches :
    /\ turns[b] <= MaxAttempts
    /\ turns[b] = MaxAttempts => batches[b].status # "pending"

(***************************************************************************)
(* One batch creates at most one Drive file, whatever fails, overlaps or   *)
(* restarts, and a confirmed upload is a file that exists.                 *)
(***************************************************************************)
OneUpload ==
  \A b \in Ids :
    /\ uploads[b] <= 1
    /\ effects[b]["drive"] = "confirmed" => uploads[b] = 1

(***************************************************************************)
(* Telegram shows a piece of a batch's message twice only when an earlier  *)
(* send of that piece went without an answer; in particular two calls of   *)
(* one turn never both send it, and a retry never resends what is known.   *)
(***************************************************************************)
RepeatNeedsDoubt ==
  \A b \in Ids, k \in 1..Chunks : messages[b][k] > 1 => <<b, k>> \in doubted

(***************************************************************************)
(* What the outbound ledger calls delivered is a message that Telegram     *)
(* accepted in every piece, and a confirmed Telegram effect is one of      *)
(* these, unless the call that confirmed it had a blank text: the gateway  *)
(* sends nothing then, and the call goes on to its confirmation.           *)
(***************************************************************************)
ConfirmedIsWhole ==
  \A b \in Ids :
    /\ outbox[b].state = "delivered" =>
         \A k \in 1..Pieces(outbox[b].payload) : messages[b][k] >= 1
    /\ effects[b]["telegram"] = "confirmed" => outbox[b].state = "delivered" \/ b \in blanked

(***************************************************************************)
(* Whether a batch dies by a retry, an expired lease or its age, one alert *)
(* is made of it, and of no other batch: it reached the owner, or the      *)
(* notifier did not deliver it, or it is what the tick waits for.  Only a  *)
(* death or a database error between the write and the alert leaves a dead *)
(* batch without one.                                                      *)
(***************************************************************************)
DeadIsAnnounced ==
  /\ WithStatus("dead") = dying \cup announced \cup unheard \cup lost
  /\ dying \cap (announced \cup unheard \cup lost) = {}
  /\ announced \cap unheard = {} /\ (announced \cup unheard) \cap lost = {}
  /\ lost # {} => crashes + faults > 0

(* Every batch is in the end acked or parked.                              *)
EveryBatchEnds ==
  \A b \in Ids :
    (b \in DOMAIN batches) ~> (b \in DOMAIN batches /\ batches[b].status \in {"acked", "dead"})
=============================================================================
