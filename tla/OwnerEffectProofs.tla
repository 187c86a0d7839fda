------------------------- MODULE OwnerEffectProofs -------------------------
(***************************************************************************)
(* TLAPS proofs about the effects of owner-event turns, for any number of  *)
(* batches, overlapping tool calls, texts, pieces, crashes and faults: one *)
(* upload per batch, no piece sent twice without a doubt, confirmed        *)
(* messages whole, acks receipted.  What the loop keeps of its own is      *)
(* LoopInv (OwnerEventProofs).                                             *)
(***************************************************************************)
EXTENDS OwnerEventProofs

Tools == {"drive", "telegram"}
EffectStates == {"none", "transmitting", "unknown", "confirmed"}
Phases == {"idle", "lookup", "reserve", "transmit", "recover",
           "queued", "sending", "sent", "confirming"}
Entry == [state : {"none", "processing", "ready", "delivered"},
          payload : Payloads \cup {"drive"}, next : 1..Chunks + 1, doubt : BOOLEAN]
CallPayloads == Payloads \cup {"drive", "blank"}
ToolCall == [pc : Phases, batch : Ids \cup {0}, attempt : Nat,
             payload : CallPayloads, piece : 0..Chunks, landed : BOOLEAN]

(* The part of TypeOK that tool calls and the world write.                 *)
EffectTypes ==
  /\ effects \in [Ids -> [Tools -> EffectStates]]
  /\ intent \in [Ids -> {"none", "text", "file"}]
  /\ outbox \in [Ids -> Entry]
  /\ call \in [Calls -> ToolCall]
  /\ uploads \in [Ids -> Times]
  /\ messages \in [Ids -> [1..Chunks -> Times]]
  /\ doubted \subseteq Ids \X (1..Chunks)
  /\ blanked \subseteq Ids

(* A call is for a batch, and a send has something to send.                *)
Addressed ==
  \A c \in Calls :
    /\ call[c].pc # "idle" => call[c].batch \in Ids
    /\ call[c].pc \in {"queued", "sending", "sent"} => call[c].payload \in Payloads

(* OneUpload: the reservation is taken before the file can exist, and one  *)
(* call holds it.                                                          *)
DriveInv ==
  /\ \A b \in Ids :
       /\ uploads[b] \in {0, 1}
       /\ effects[b]["drive"] = "none" => uploads[b] = 0
       /\ effects[b]["drive"] = "confirmed" => uploads[b] = 1
  /\ \A c \in Calls :
       /\ call[c].pc = "reserve" /\ call[c].landed => uploads[call[c].batch] = 1
       /\ call[c].pc = "transmit" =>
            /\ effects[call[c].batch]["drive"] # "none"
            /\ uploads[call[c].batch] = IF call[c].landed THEN 1 ELSE 0
  /\ \A c, d \in Calls :
       call[c].pc = "transmit" /\ call[d].pc = "transmit" /\ call[c].batch = call[d].batch => c = d

(* What the outbound entry of b says of the pieces that are out: those     *)
(* before the next are, and of the others one is only if it is doubted, or *)
(* on the wire.                                                            *)
OnWire(b, k) ==
  \E c \in Calls : /\ call[c].pc = "sending" /\ call[c].landed
                   /\ call[c].batch = b /\ call[c].piece = k

EntryHolds(b) ==
  /\ outbox[b].state \in {"none", "processing"} => outbox[b].next = 1
  /\ outbox[b].state = "ready" =>
       /\ outbox[b].payload \in Texts
       /\ \A k \in 1..Chunks : k < outbox[b].next => messages[b][k] >= 1
  /\ outbox[b].state = "processing" => outbox[b].payload \in Files
  /\ outbox[b].state = "delivered" =>
       \A k \in 1..Pieces(outbox[b].payload) : messages[b][k] >= 1
  /\ outbox[b].state # "delivered" =>
       \A k \in 1..Chunks :
         k >= outbox[b].next /\ messages[b][k] >= 1 => <<b, k>> \in doubted \/ OnWire(b, k)
  /\ effects[b]["telegram"] = "confirmed" => outbox[b].state = "delivered" \/ b \in blanked
  /\ \A k \in 1..Chunks : messages[b][k] > 1 => <<b, k>> \in doubted

(* What a call in the chat queue knows of the entry.                       *)
SendHolds(c) ==
  LET e == outbox[call[c].batch]
  IN  /\ call[c].pc = "sending" =>
           /\ e.payload = call[c].payload /\ e.next = call[c].piece
           /\ e.state = IF call[c].payload \in Texts THEN "ready" ELSE "processing"
           /\ call[c].piece \in 1..Chunks
           /\ call[c].landed => messages[call[c].batch][call[c].piece] >= 1
      /\ call[c].pc = "sent" =>
           /\ e.payload = call[c].payload /\ e.next = call[c].piece + 1
           /\ e.state = "ready" /\ call[c].piece \in 1..Chunks
      /\ call[c].pc = "confirming" => e.state = "delivered" \/ call[c].payload = "blank"

TelegramInv ==
  /\ \A b \in Ids : EntryHolds(b)
  /\ \A c \in Calls : SendHolds(c)
  /\ \A c, d \in Calls :
       call[c].pc \in {"sending", "sent"} /\ call[d].pc \in {"sending", "sent"} => c = d

(* AckedIsReceipted: the history of a turn proves no more than the stores. *)
ReceiptInv ==
  /\ done # {} => cur # 0 /\ HasReceipt(cur)
  /\ AckedIsReceipted

EffectInv == EffectTypes /\ Addressed /\ DriveInv /\ TelegramInv /\ ReceiptInv

----------------------------------------------------------------------------
(***************************************************************************)
(* The table of calls: only call c moves.                                  *)
(***************************************************************************)
CallIs(c, pc, b, p, k, landed) ==
  /\ call' \in [Calls -> ToolCall]
  /\ \A d \in Calls : d # c => call'[d] = call[d]
  /\ call'[c].pc = pc /\ call'[c].batch = b /\ call'[c].payload = p
  /\ call'[c].piece = k /\ call'[c].landed = landed

(* A call replaced by another record.                                      *)
LEMMA CallMoves ==
  ASSUME EffectTypes, NEW c \in Calls, NEW q \in ToolCall, call' = [call EXCEPT ![c] = q]
  PROVE  CallIs(c, q.pc, q.batch, q.payload, q.piece, q.landed)
BY DEF EffectTypes, CallIs

(* The types of the fields of a call.                                      *)
LEMMA CallAt ==
  ASSUME EffectTypes, NEW c \in Calls
  PROVE  /\ call[c] \in ToolCall
         /\ call[c].pc \in Phases /\ call[c].batch \in Ids \cup {0} /\ call[c].attempt \in Nat
         /\ call[c].payload \in CallPayloads
         /\ call[c].piece \in 0..Chunks /\ call[c].landed \in BOOLEAN
<1>1. call[c] \in ToolCall
  BY DEF EffectTypes
<1> QED BY <1>1 DEF ToolCall

(* A call that ends is idle.                                               *)
LEMMA FinishMoves ==
  ASSUME EffectTypes, NEW c \in Calls, NEW ok, Finish(c, ok)
  PROVE  CallIs(c, "idle", 0, "drive", 0, FALSE)
<1>1. Idle \in ToolCall
  BY TurnAssumption DEF Idle, ToolCall, CallPayloads, Phases
<1>2. call' = [call EXCEPT ![c] = Idle]
  BY DEF Finish
<1>3. CallIs(c, Idle.pc, Idle.batch, Idle.payload, Idle.piece, Idle.landed)
  BY <1>1, <1>2, CallMoves
<1> QED BY <1>3 DEF Idle

(* A call that only moves its program counter.                             *)
LEMMA AtMoves ==
  ASSUME EffectTypes, NEW c \in Calls, NEW pc \in Phases, call' = At(c, pc)
  PROVE  CallIs(c, pc, call[c].batch, call[c].payload, call[c].piece, FALSE)
<1> DEFINE q == [call[c] EXCEPT !.pc = pc, !.landed = FALSE]
<1>1. q \in ToolCall /\ q.pc = pc /\ q.batch = call[c].batch /\ q.payload = call[c].payload
        /\ q.piece = call[c].piece /\ q.landed = FALSE
  BY CallAt DEF ToolCall
<1>2. call' = [call EXCEPT ![c] = q]
  BY CallAt DEF At, EffectTypes, ToolCall
<1> HIDE DEF q
<1> QED BY <1>1, <1>2, CallMoves

(* A call that begins.                                                     *)
LEMMA NewCallMoves ==
  ASSUME EffectTypes, NEW c \in Calls, NEW pc \in Phases, NEW p \in CallPayloads,
         cur \in Ids, batches[cur].attempts \in Nat, call' = NewCall(c, pc, p)
  PROVE  CallIs(c, pc, cur, p, 0, FALSE)
<1> DEFINE q == [pc |-> pc, batch |-> cur, attempt |-> batches[cur].attempts,
                 payload |-> p, piece |-> 0, landed |-> FALSE]
<1>1. q \in ToolCall /\ q.pc = pc /\ q.batch = cur /\ q.payload = p
        /\ q.piece = 0 /\ q.landed = FALSE
  BY TurnAssumption DEF ToolCall
<1>2. call' = [call EXCEPT ![c] = q]
  BY DEF NewCall
<1> HIDE DEF q
<1> QED BY <1>1, <1>2, CallMoves

(* A call whose effect has reached the outside.                            *)
LEMMA LandedMoves ==
  ASSUME EffectTypes, NEW c \in Calls, call' = [call EXCEPT ![c].landed = TRUE]
  PROVE  CallIs(c, call[c].pc, call[c].batch, call[c].payload, call[c].piece, TRUE)
<1> DEFINE q == [call[c] EXCEPT !.landed = TRUE]
<1>1. q \in ToolCall /\ q.pc = call[c].pc /\ q.batch = call[c].batch
        /\ q.payload = call[c].payload /\ q.piece = call[c].piece /\ q.landed = TRUE
  BY CallAt DEF ToolCall
<1>2. call' = [call EXCEPT ![c] = q]
  BY CallAt DEF EffectTypes, ToolCall
<1> HIDE DEF q
<1> QED BY <1>1, <1>2, CallMoves

(* A lookup that has been answered.                                        *)
LEMMA LookedUpMoves ==
  ASSUME EffectTypes, NEW c \in Calls, NEW found \in BOOLEAN,
         call' = [call EXCEPT ![c].pc = "reserve", ![c].landed = found]
  PROVE  CallIs(c, "reserve", call[c].batch, call[c].payload, call[c].piece, found)
<1> DEFINE q == [call[c] EXCEPT !.pc = "reserve", !.landed = found]
<1>1. q \in ToolCall /\ q.pc = "reserve" /\ q.batch = call[c].batch
        /\ q.payload = call[c].payload /\ q.piece = call[c].piece /\ q.landed = found
  BY CallAt DEF ToolCall, Phases
<1>2. call' = [call EXCEPT ![c] = q]
  BY CallAt DEF EffectTypes, ToolCall
<1> HIDE DEF q
<1> QED BY <1>1, <1>2, CallMoves

(* A piece that goes on the wire.                                          *)
LEMMA SendingMoves ==
  ASSUME EffectTypes, NEW c \in Calls, NEW k \in 1..Chunks,
         call' = [call EXCEPT ![c].pc = "sending", ![c].piece = k, ![c].landed = FALSE]
  PROVE  CallIs(c, "sending", call[c].batch, call[c].payload, k, FALSE)
<1> DEFINE q == [call[c] EXCEPT !.pc = "sending", !.piece = k, !.landed = FALSE]
<1>0. k \in 0..Chunks
  BY TurnAssumption
<1>1. q \in ToolCall /\ q.pc = "sending" /\ q.batch = call[c].batch
        /\ q.payload = call[c].payload /\ q.piece = k /\ q.landed = FALSE
  BY <1>0, CallAt DEF ToolCall, Phases
<1>2. call' = [call EXCEPT ![c] = q]
  BY CallAt DEF EffectTypes, ToolCall
<1> HIDE DEF q
<1> QED BY <1>1, <1>2, CallMoves

(* The effect ledger: only the entry of tool kind for batch b moves.       *)
EffectIs(b, kind, state) ==
  /\ effects' \in [Ids -> [Tools -> EffectStates]]
  /\ \A a \in Ids, t \in Tools : a # b \/ t # kind => effects'[a][t] = effects[a][t]
  /\ effects'[b][kind] = state

(* One entry of the effect ledger replaced.                                *)
LEMMA EffectMoves ==
  ASSUME EffectTypes, NEW b \in Ids, NEW kind \in Tools, NEW state \in EffectStates,
         effects' = [effects EXCEPT ![b][kind] = state]
  PROVE  EffectIs(b, kind, state)
BY DEF EffectTypes, EffectIs

(* markUnknown leaves a confirmed effect alone.                            *)
LEMMA UnknownMoves ==
  ASSUME EffectTypes, NEW b \in Ids, NEW kind \in Tools, effects' = MarkUnknown(b, kind)
  PROVE  EffectIs(b, kind, IF effects[b][kind] = "confirmed" THEN "confirmed" ELSE "unknown")
<1>1. CASE effects[b][kind] = "confirmed"
  BY <1>1 DEF MarkUnknown, EffectTypes, EffectIs
<1>2. CASE effects[b][kind] # "confirmed"
  BY <1>2, EffectMoves DEF MarkUnknown, EffectStates
<1> QED BY <1>1, <1>2

(* confirm() changes one entry.                                            *)
LEMMA ConfirmMoves ==
  ASSUME EffectTypes, NEW b \in Ids, NEW kind \in Tools, effects' = Confirm(b, kind)
  PROVE  EffectIs(b, kind, "confirmed")
BY EffectMoves DEF Confirm, EffectStates

----------------------------------------------------------------------------
(* What each side does not disturb of the other.                           *)
LEMMA DriveStands ==
  ASSUME DriveInv, Addressed, UNCHANGED uploads,
         \A b \in Ids : effects'[b]["drive"] = effects[b]["drive"],
         \A c \in Calls : call'[c] = call[c] \/ call'[c].pc \notin {"reserve", "transmit"}
  PROVE  DriveInv'
<1>1. \A b \in Ids :
        /\ uploads'[b] \in {0, 1}
        /\ effects'[b]["drive"] = "none" => uploads'[b] = 0
        /\ effects'[b]["drive"] = "confirmed" => uploads'[b] = 1
  BY DEF DriveInv
<1>2. ASSUME NEW c \in Calls, call'[c].pc \in {"reserve", "transmit"}
      PROVE  /\ call'[c] = call[c] /\ call[c].batch \in Ids
             /\ call'[c].pc = "reserve" /\ call'[c].landed => uploads'[call'[c].batch] = 1
             /\ call'[c].pc = "transmit" =>
                  /\ effects'[call'[c].batch]["drive"] # "none"
                  /\ uploads'[call'[c].batch] = IF call'[c].landed THEN 1 ELSE 0
  BY <1>2 DEF DriveInv, Addressed
<1>3. \A c, d \in Calls :
        /\ call'[c].pc = "transmit" /\ call'[d].pc = "transmit"
        /\ call'[c].batch = call'[d].batch
        => c = d
  BY <1>2 DEF DriveInv
<1> QED BY <1>1, <1>2, <1>3 DEF DriveInv

(* A step that touches neither outbox nor messages keeps TelegramInv.      *)
LEMMA TelegramStands ==
  ASSUME TelegramInv, Addressed, UNCHANGED <<outbox, messages, doubted, blanked>>,
         \A b \in Ids :
           effects'[b]["telegram"] = "confirmed" => effects[b]["telegram"] = "confirmed",
         \A c \in Calls :
           \/ call'[c] = call[c]
           \/ /\ call[c].pc # "sending"
              /\ call'[c].pc \notin {"sending", "sent"}
              /\ call'[c].pc = "confirming" => call'[c].payload = "blank"
  PROVE  TelegramInv'
<1>1. ASSUME NEW b \in Ids PROVE EntryHolds(b)'
  <2>1. EntryHolds(b)
    BY DEF TelegramInv
  <2>2. \A k : OnWire(b, k) => OnWire(b, k)'
    BY DEF OnWire
  <2> QED BY <2>1, <2>2 DEF EntryHolds, Pieces
<1>2. ASSUME NEW c \in Calls PROVE SendHolds(c)'
  <2>1. SendHolds(c)
    BY DEF TelegramInv
  <2>2. CASE call'[c] = call[c]
    BY <2>1, <2>2 DEF SendHolds
  <2>3. CASE /\ call'[c].pc \notin {"sending", "sent"}
             /\ call'[c].pc = "confirming" => call'[c].payload = "blank"
    BY <2>3 DEF SendHolds
  <2> QED BY <2>2, <2>3
<1>3. \A c, d \in Calls :
        call'[c].pc \in {"sending", "sent"} /\ call'[d].pc \in {"sending", "sent"} => c = d
  BY DEF TelegramInv
<1> QED BY <1>1, <1>2, <1>3 DEF TelegramInv

(* A durable receipt stays, and only what has one is acked.                *)
LEMMA ReceiptStands ==
  ASSUME LoopTypes, LoopTypes', ReceiptInv,
         \A b \in Ids, kind \in Tools :
           effects[b][kind] = "confirmed" => effects'[b][kind] = "confirmed",
         accepted \subseteq accepted', noted \subseteq noted',
         \A b \in WithStatus("acked")' : b \in WithStatus("acked") \/ HasReceipt(b)',
         done' # {} => \/ done # {} /\ cur' = cur
                       \/ cur' # 0 /\ HasReceipt(cur)'
  PROVE  ReceiptInv'
<1>1. ASSUME NEW b \in Ids, HasReceipt(b) PROVE HasReceipt(b)'
  BY <1>1 DEF HasReceipt, Tools
<1>2. WithStatus("acked") \subseteq Ids /\ WithStatus("acked")' \subseteq Ids
  <2>1. DOMAIN batches \subseteq Ids
    BY TableFacts
  <2>2. DOMAIN batches' \subseteq Ids
    <3>1. /\ batches' \in Seq(Batch) /\ Len(batches') <= MaxBatches /\ MaxBatches \in Nat
          /\ DOMAIN batches' = 1..Len(batches')
      BY InboxAssumption DEF LoopTypes, InboxTypeOK
    <3>2. Len(batches') \in Nat
      BY <3>1, LenProperties
    <3> QED BY <3>1, <3>2 DEF Ids
  <2> QED BY <2>1, <2>2 DEF WithStatus
<1>3. cur # 0 => cur \in Ids
  BY TableFacts DEF LoopTypes
<1>4. AckedIsReceipted'
  BY <1>1, <1>2 DEF ReceiptInv, AckedIsReceipted
<1>5. done' # {} => cur' # 0 /\ HasReceipt(cur)'
  BY <1>1, <1>3 DEF ReceiptInv
<1> QED BY <1>4, <1>5 DEF ReceiptInv

----------------------------------------------------------------------------
(***************************************************************************)
(* The loop, the inbox and the clock leave the effects alone.              *)
(***************************************************************************)
LEMMA EffectStands ==
  ASSUME EffectTypes, Addressed, DriveInv, TelegramInv,
         UNCHANGED <<ledgerVars, call, uploads, messages, doubted, blanked>>
  PROVE  EffectTypes' /\ Addressed' /\ DriveInv' /\ TelegramInv'
<1> USE DEF ledgerVars
<1>1. EffectTypes' /\ Addressed'
  BY DEF EffectTypes, Addressed
<1>2. DriveInv'
  BY DriveStands
<1>3. TelegramInv'
  BY TelegramStands
<1> QED BY <1>1, <1>2, <1>3

(* The loop itself changes neither ledgers nor calls.                      *)
LEMMA LoopLeavesEffects ==
  ASSUME Intake \/ Clock \/ Start \/ Tick \/ TurnEnds \/ Rejects
           \/ Delegate \/ NoteNoUpdate \/ UNCHANGED vars
  PROVE  UNCHANGED <<ledgerVars, call, uploads, messages, doubted, blanked>>
<1> USE DEF worldVars, loopVars
<1>1. CASE Intake \/ Clock \/ Start
  BY <1>1 DEF Intake, DrainEnds, Clock, Start
<1>2. CASE Tick
  BY <1>2 DEF Tick, TickStart, AlertsSent, Alert, Recover, Claim, EndTick, RunStarts
<1>3. CASE TurnEnds
  BY <1>3 DEF TurnEnds, RunReturns, TurnThrows
<1>3a. CASE Rejects
  BY <1>3a DEF Rejects, TickRejects, RetryRejects, ReplayRejects, RecoverRejects
<1>4. CASE Delegate \/ NoteNoUpdate \/ UNCHANGED vars
  BY <1>4 DEF Delegate, NoteNoUpdate, vars
<1> QED BY <1>1, <1>2, <1>3, <1>3a, <1>4

(* The stores are what they were: a batch that is acked now was, or has    *)
(* its receipt, and the history of a turn is kept for that turn only.      *)
LEMMA ReceiptsKept ==
  ASSUME LoopTypes, LoopTypes', ReceiptInv, UNCHANGED effects,
         accepted \subseteq accepted', noted \subseteq noted',
         WithStatus("acked")' \subseteq WithStatus("acked"),
         done' = {} \/ (done' = done /\ cur' = cur)
  PROVE  ReceiptInv'
BY ReceiptStands

(* A batch acked on a receipt keeps ReceiptInv.                            *)
LEMMA ReceiptAcked ==
  ASSUME LoopTypes, LoopTypes', ReceiptInv, UNCHANGED effects, UNCHANGED factVars,
         NEW b \in DOMAIN batches, HasReceipt(b), batches' = Acked(b),
         done' = {} \/ (done' = done /\ cur' = cur)
  PROVE  ReceiptInv'
<1>1. WithStatus("acked")' = WithStatus("acked") \cup {b}
  <2>1. Moved(batches', b, "acked", batches[b].attempts, batches[b].due)
    BY TableFacts, BatchMoves
  <2> QED BY <2>1 DEF Moved, SameBatches, WithStatus
<1>2. HasReceipt(b)'
  BY DEF HasReceipt, factVars
<1> QED BY <1>1, <1>2, ReceiptStands DEF factVars

(* No retry acks a batch.                                                  *)
LEMMA RetriedNotAcked ==
  ASSUME batches \in Seq(Batch), NEW b \in DOMAIN batches, batches' = RetriedBatch(b)
  PROVE  WithStatus("acked")' \subseteq WithStatus("acked")
<1> DEFINE status == IF batches[b].attempts + 1 >= MaxAttempts THEN "dead" ELSE "pending"
<1>1. Moved(batches', b, status, batches[b].attempts + 1, FALSE)
  BY BatchMoves
<1>2. status # "acked"
  OBVIOUS
<1> HIDE DEF status
<1> QED BY <1>1, <1>2 DEF Moved, SameBatches, WithStatus

(* The steps of the loop keep ReceiptInv.                                  *)
LEMMA LoopReceipts ==
  ASSUME LoopInv, LoopInv', ReceiptInv, UNCHANGED effects,
         Intake \/ Clock \/ Start \/ Tick \/ TurnEnds \/ Rejects \/ NoteNoUpdate
           \/ UNCHANGED vars
  PROVE  ReceiptInv'
<1> USE DEF loopVars, factVars, inboxVars
<1>0. LoopTypes /\ LoopTypes' /\ batches \in Seq(Batch)
  BY TableFacts DEF LoopInv
<1>1. CASE Intake
  <2>1. WithStatus("acked")' \subseteq WithStatus("acked")
    <3>1. CASE UNCHANGED batches
      BY <3>1 DEF WithStatus
    <3>2. CASE \E es : batches' = Append(batches, NewBatch(es)) /\ es \in SUBSET Events
      <4>1. PICK es \in SUBSET Events : batches' = Append(batches, NewBatch(es))
        BY <3>2
      <4>2. NewBatch(es) \in Batch /\ NewBatch(es).status = "pending"
        BY DEF NewBatch, Batch
      <4>3. DOMAIN batches' = 1..Len(batches) + 1 /\ DOMAIN batches = 1..Len(batches)
              /\ Len(batches) \in Nat
              /\ batches'[Len(batches) + 1] = NewBatch(es)
              /\ \A b \in 1..Len(batches) : batches'[b] = batches[b]
        BY <1>0, <4>1, <4>2, AppendProperties, LenProperties
      <4>4. ASSUME NEW b \in DOMAIN batches', batches'[b].status = "acked"
            PROVE  b \in DOMAIN batches /\ batches'[b] = batches[b]
        <5>1. b # Len(batches) + 1
          BY <4>2, <4>3, <4>4
        <5>2. b \in 1..Len(batches)
          BY <4>3, <5>1
        <5> QED BY <4>3, <5>2
      <4> QED BY <4>4 DEF WithStatus
    <3> QED BY <1>1, <3>1, <3>2 DEF Intake, DrainEnds, Commit, DrainFails, Deliver, Fresh
  <2> QED BY <1>0, <1>1, <2>1, ReceiptsKept DEF Intake, DrainEnds
<1>2. CASE Clock
  <2>1. PICK b \in DOMAIN batches : Elapse(b)
    BY <1>2 DEF Clock
  <2>2. Moved(batches', b, batches[b].status, batches[b].attempts, TRUE)
    BY <1>0, <2>1, BatchMoves DEF Elapse
  <2>3. WithStatus("acked")' \subseteq WithStatus("acked")
    BY <2>2 DEF Moved, SameBatches, WithStatus
  <2> QED BY <1>0, <1>2, <2>3, ReceiptsKept DEF Clock
<1>3. CASE Start \/ UNCHANGED vars \/ TickRejects \/ NoteNoUpdate
  <2>1. WithStatus("acked")' \subseteq WithStatus("acked")
    BY <1>3 DEF Start, TickRejects, NoteNoUpdate, vars, WithStatus
  <2> QED BY <1>0, <1>3, <2>1, ReceiptsKept DEF Start, TickRejects, NoteNoUpdate, vars
<1>4. ASSUME NEW n, TickStart(n) PROVE ReceiptInv'
  <2>1. /\ DOMAIN batches' = DOMAIN batches
        /\ \A b \in DOMAIN batches :
             batches'[b] = IF b \in Stale THEN Retried(batches[b])
                           ELSE IF b \in Expired(n) THEN [batches[b] EXCEPT !.status = "dead"]
                           ELSE batches[b]
    BY <1>0, <1>4, ReplayShape DEF SameBatches, TickStart
  <2>2. ASSUME NEW b \in DOMAIN batches, batches'[b].status = "acked"
        PROVE  batches[b].status = "acked"
    <3>1. batches[b] \in Batch
      BY <1>0, BatchAt
    <3>2. Retried(batches[b]).status # "acked"
      BY <3>1, RecordMoves
    <3>3. [batches[b] EXCEPT !.status = "dead"].status # "acked"
      BY <3>1, RecordMoves
    <3> QED BY <2>1, <2>2, <3>2, <3>3
  <2>3. WithStatus("acked")' \subseteq WithStatus("acked")
    BY <2>1, <2>2 DEF WithStatus
  <2> QED BY <1>0, <1>4, <2>3, ReceiptsKept DEF TickStart
<1>5. CASE AlertsSent \/ EndTick \/ RunStarts \/ \E b \in dying : Alert(b)
  <2>1. WithStatus("acked")' = WithStatus("acked")
    BY <1>5 DEF AlertsSent, EndTick, RunStarts, Alert, WithStatus
  <2> QED BY <1>0, <1>5, <2>1, ReceiptsKept DEF AlertsSent, EndTick, RunStarts, Alert
<1>6. ASSUME NEW b \in DOMAIN batches, Recover(b) PROVE ReceiptInv'
  BY <1>0, <1>6, ReceiptAcked DEF Recover
<1>7. ASSUME NEW b \in DOMAIN batches, Claim(b) PROVE ReceiptInv'
  <2>1. Moved(batches', b, "claimed", batches[b].attempts, FALSE)
    BY <1>0, <1>7, BatchMoves DEF Claim
  <2>2. WithStatus("acked")' \subseteq WithStatus("acked")
    BY <2>1 DEF Moved, SameBatches, WithStatus
  <2> QED BY <1>0, <1>7, <2>2, ReceiptsKept DEF Claim
<1>8. CASE TurnEnds
  <2>1. step \in {"prep", "run"} /\ cur \in DOMAIN batches /\ UNCHANGED factVars /\ done' = {}
    BY <1>8, TurnBatch DEF TurnEnds, RunReturns, TurnThrows, AckTurn, RetryTurn
  <2>2. CASE HasReceipt(cur) /\ AckTurn
    BY <1>0, <2>1, <2>2, ReceiptAcked DEF AckTurn
  <2>3. CASE RetryTurn
    <3>1. WithStatus("acked")' \subseteq WithStatus("acked")
      BY <1>0, <2>1, <2>3, RetriedNotAcked DEF RetryTurn
    <3> QED BY <1>0, <2>1, <3>1, ReceiptsKept
  <2> QED BY <1>8, <2>2, <2>3 DEF TurnEnds, RunReturns, TurnThrows, ReceiptInv
<1>9. CASE Tick
  BY <1>4, <1>5, <1>6, <1>7, <1>9 DEF Tick
<1>10. ASSUME NEW n, ReplayRejects(n) PROVE ReceiptInv'
  <2>1. /\ DOMAIN batches' = DOMAIN batches
        /\ \A b \in DOMAIN batches :
             /\ b \in Expired(n) => batches'[b].status = "dead"
             /\ b \notin Expired(n) => batches'[b] = batches[b]
    BY <1>0, <1>10, ParkedShape DEF SameBatches, ReplayRejects
  <2>2. WithStatus("acked")' \subseteq WithStatus("acked")
    BY <2>1 DEF WithStatus
  <2> QED BY <1>0, <1>10, <2>2, ReceiptsKept DEF ReplayRejects
<1>11. ASSUME NEW b \in DOMAIN batches, RecoverRejects(b) PROVE ReceiptInv'
  <2>1. Moved(batches', b, "claimed", batches[b].attempts, FALSE)
    BY <1>0, <1>11, BatchMoves DEF RecoverRejects
  <2>2. WithStatus("acked")' \subseteq WithStatus("acked")
    BY <2>1 DEF Moved, SameBatches, WithStatus
  <2> QED BY <1>0, <1>11, <2>2, ReceiptsKept DEF RecoverRejects
<1>12. CASE RetryRejects
  <2>1. cur \in DOMAIN batches
    BY <1>12, TurnBatch DEF RetryRejects
  <2>2. WithStatus("acked")' \subseteq WithStatus("acked")
    BY <1>0, <1>12, <2>1, RetriedNotAcked DEF RetryRejects
  <2> QED BY <1>0, <1>12, <2>2, ReceiptsKept DEF RetryRejects
<1> QED BY <1>1, <1>2, <1>3, <1>8, <1>9, <1>10, <1>11, <1>12 DEF Rejects

(* A delegation keeps ReceiptInv: the accepted order is the receipt.       *)
LEMMA DelegateReceipts ==
  ASSUME LoopInv, LoopInv', ReceiptInv, UNCHANGED effects, Delegate
  PROVE  ReceiptInv'
<1>1. LoopTypes /\ LoopTypes' /\ cur # 0 /\ cur' = cur /\ UNCHANGED batches /\ UNCHANGED noted
      /\ accepted' = accepted \cup {cur}
  BY TurnBatch DEF LoopInv, Delegate, inboxVars
<1>2. HasReceipt(cur)'
  BY <1>1 DEF HasReceipt
<1>3. WithStatus("acked")' = WithStatus("acked")
  BY <1>1 DEF WithStatus
<1> QED BY <1>1, <1>2, <1>3, ReceiptStands

----------------------------------------------------------------------------
(***************************************************************************)
(* Tool calls: what their steps have in common.                            *)
(***************************************************************************)
Durable ==
  \A b \in Ids, kind \in Tools :
    effects[b][kind] = "confirmed" => effects'[b][kind] = "confirmed"

(* An entry that stays confirmed loses no receipt.                         *)
LEMMA EffectDurable ==
  ASSUME NEW b, NEW kind, NEW state, EffectIs(b, kind, state),
         effects[b][kind] = "confirmed" => state = "confirmed"
  PROVE  Durable
BY DEF EffectIs, Durable

(* A step of a tool call keeps ReceiptInv.                                 *)
LEMMA CallReceipts ==
  ASSUME LoopInv, LoopInv', ReceiptInv, Durable,
         UNCHANGED <<batches, cur, accepted, noted>>,
         \/ done' = done
         \/ cur # 0 /\ HasReceipt(cur)'
  PROVE  ReceiptInv'
<1>1. LoopTypes /\ LoopTypes'
  BY DEF LoopInv
<1>2. WithStatus("acked")' = WithStatus("acked")
  BY DEF WithStatus
<1> QED BY <1>1, <1>2, ReceiptStands DEF Durable

(* The end of a tool call keeps ReceiptInv.                                *)
LEMMA FinishReceipts ==
  ASSUME LoopInv, LoopInv', ReceiptInv, Durable, NEW c \in Calls, NEW ok \in BOOLEAN,
         Finish(c, ok), UNCHANGED <<batches, cur, accepted, noted>>,
         NEW b, b = call[c].batch, ok => HasReceipt(b)'
  PROVE  ReceiptInv'
<1>1. done' = done \/ (ok /\ step = "run" /\ b = cur)
  BY DEF Finish
<1>2. step = "run" => cur # 0
  BY DEF LoopInv, LoopTypes
<1> QED BY <1>1, <1>2, CallReceipts

(* One call that moves keeps Addressed.                                    *)
LEMMA AddressedMoves ==
  ASSUME Addressed, NEW c \in Calls, NEW pc, NEW b, NEW p, NEW k, NEW landed,
         CallIs(c, pc, b, p, k, landed), pc # "idle" => b \in Ids,
         pc \in {"queued", "sending", "sent"} => p \in Payloads
  PROVE  Addressed'
BY DEF Addressed, CallIs

(* A step of one call about the Drive file of its batch b.                 *)
LEMMA DriveMoves ==
  ASSUME DriveInv, Addressed, NEW c \in Calls, NEW b \in Ids,
         NEW pc, NEW e, NEW p, NEW k, NEW landed, CallIs(c, pc, e, p, k, landed),
         pc \in {"reserve", "transmit"} => e = b,
         \A a \in Ids : a # b =>
           uploads'[a] = uploads[a] /\ effects'[a]["drive"] = effects[a]["drive"],
         uploads'[b] \in {0, 1}, uploads[b] = 1 => uploads'[b] = 1,
         effects'[b]["drive"] = "none" => uploads'[b] = 0 /\ effects[b]["drive"] = "none",
         effects'[b]["drive"] = "confirmed" => uploads'[b] = 1,
         \/ uploads'[b] = uploads[b]
         \/ \A d \in Calls : d # c /\ call[d].batch = b => call[d].pc # "transmit",
         pc = "reserve" /\ landed => uploads'[b] = 1,
         pc = "transmit" =>
           /\ effects'[b]["drive"] # "none" /\ uploads'[b] = IF landed THEN 1 ELSE 0
           /\ \A d \in Calls : d # c /\ call[d].batch = b => call[d].pc # "transmit"
  PROVE  DriveInv'
<1>1. \A a \in Ids :
        /\ uploads'[a] \in {0, 1}
        /\ effects'[a]["drive"] = "none" => uploads'[a] = 0
        /\ effects'[a]["drive"] = "confirmed" => uploads'[a] = 1
  BY DEF DriveInv
<1>2. ASSUME NEW d \in Calls
      PROVE  /\ call'[d].pc = "reserve" /\ call'[d].landed => uploads'[call'[d].batch] = 1
             /\ call'[d].pc = "transmit" =>
                  /\ effects'[call'[d].batch]["drive"] # "none"
                  /\ uploads'[call'[d].batch] = IF call'[d].landed THEN 1 ELSE 0
  <2>1. CASE d = c
    BY <2>1 DEF CallIs
  <2>2. CASE d # c
    <3>1. call'[d] = call[d] /\ (call[d].pc # "idle" => call[d].batch \in Ids)
      BY <2>2 DEF CallIs, Addressed
    <3>2. /\ call[d].pc = "reserve" /\ call[d].landed => uploads[call[d].batch] = 1
          /\ call[d].pc = "transmit" =>
               /\ effects[call[d].batch]["drive"] # "none"
               /\ uploads[call[d].batch] = IF call[d].landed THEN 1 ELSE 0
      BY DEF DriveInv
    <3>3. CASE call[d].batch # b
      BY <3>1, <3>2, <3>3
    <3>4. CASE call[d].batch = b
      <4>1. CASE call[d].pc = "reserve"
        BY <3>1, <3>2, <3>4, <4>1
      <4>2. CASE call[d].pc = "transmit"
        <5>1. uploads'[b] = uploads[b] /\ effects'[b]["drive"] # "none"
          BY <2>2, <3>2, <3>4, <4>2
        <5>2. call'[d].batch = b /\ call'[d].pc = "transmit" /\ call'[d].landed = call[d].landed
          BY <3>1, <3>4, <4>2
        <5>3. uploads[b] = IF call[d].landed THEN 1 ELSE 0
          BY <3>2, <3>4, <4>2
        <5> QED BY <5>1, <5>2, <5>3
      <4> QED BY <3>1, <4>1, <4>2
    <3> QED BY <3>3, <3>4
  <2> QED BY <2>1, <2>2
<1>3. \A d, f \in Calls :
        /\ call'[d].pc = "transmit" /\ call'[f].pc = "transmit"
        /\ call'[d].batch = call'[f].batch
        => d = f
  BY DEF DriveInv, CallIs
<1> QED BY <1>1, <1>2, <1>3 DEF DriveInv

(* No step of a Drive call is in the chat queue.                           *)
LEMMA DriveLeavesTelegram ==
  ASSUME TelegramInv, Addressed, UNCHANGED <<outbox, messages, doubted, blanked>>, NEW c \in Calls,
         \A b \in Ids : effects'[b]["telegram"] = effects[b]["telegram"],
         NEW pc, NEW b, NEW p, NEW k, NEW landed, CallIs(c, pc, b, p, k, landed),
         call[c].pc # "sending", pc \notin {"sending", "sent", "confirming"}
  PROVE  TelegramInv'
BY TelegramStands DEF CallIs

----------------------------------------------------------------------------
(* drive_upload, step by step.                                             *)
LEMMA DriveCallEffects ==
  ASSUME LoopInv, LoopInv', EffectInv, NEW c \in Calls, DriveCall(c)
  PROVE  EffectInv'
<1> USE DEF ledgerVars, factVars, worldVars, inboxVars
<1>0. /\ EffectTypes /\ Addressed /\ DriveInv /\ TelegramInv /\ ReceiptInv
      /\ cur \in Ids /\ cur # 0 /\ batches[cur].attempts \in Nat /\ call[c].pc = "idle"
  BY TurnBatch DEF EffectInv, DriveCall
<1>1. /\ UNCHANGED <<effects, intent, outbox, accepted, noted, uploads, messages, doubted, blanked>>
      /\ UNCHANGED <<batches, cur>>
  BY DEF DriveCall
<1>2. ReceiptInv'
  <2>1. Durable
    BY <1>1 DEF Durable
  <2>2. CASE effects[cur]["drive"] = "confirmed"
    <3>1. HasReceipt(cur)'
      BY <1>1, <2>2 DEF HasReceipt
    <3> QED BY <1>0, <1>1, <2>1, <3>1, CallReceipts
  <2>3. CASE effects[cur]["drive"] # "confirmed"
    BY <1>0, <1>1, <2>1, <2>3, CallReceipts DEF DriveCall
  <2> QED BY <2>2, <2>3
<1>3. CASE UNCHANGED call
  BY <1>0, <1>1, <1>2, <1>3, EffectStands DEF EffectInv
<1>4. ASSUME NEW pc \in {"lookup", "recover"}, call' = NewCall(c, pc, "drive") PROVE EffectInv'
  <2>1. CallIs(c, pc, cur, "drive", 0, FALSE)
    BY <1>0, <1>4, NewCallMoves DEF Phases, CallPayloads
  <2>2. EffectTypes' /\ Addressed'
    BY <1>0, <1>1, <2>1, AddressedMoves DEF EffectTypes, CallIs
  <2>3. DriveInv'
    BY <1>0, <1>1, <2>1, DriveStands DEF CallIs
  <2>4. TelegramInv'
    BY <1>0, <1>1, <2>1, DriveLeavesTelegram
  <2> QED BY <1>2, <2>2, <2>3, <2>4 DEF EffectInv
<1> QED BY <1>3, <1>4 DEF DriveCall

(* A lookup that is answered keeps EffectInv.                              *)
LEMMA LookedUpEffects ==
  ASSUME LoopInv, LoopInv', EffectInv, NEW c \in Calls, LookedUp(c)
  PROVE  EffectInv'
<1> USE DEF ledgerVars, factVars, worldVars, inboxVars, loopVars
<1> DEFINE b == call[c].batch
<1>0. /\ EffectTypes /\ Addressed /\ DriveInv /\ TelegramInv /\ ReceiptInv
      /\ call[c].pc = "lookup" /\ b \in Ids
  BY DEF EffectInv, LookedUp, Addressed
<1>1. /\ UNCHANGED <<effects, intent, outbox, accepted, noted, uploads, messages, doubted, blanked>>
      /\ UNCHANGED <<batches, cur, done>>
  BY DEF LookedUp
<1> DEFINE found == uploads[b] > 0
<1>2. CallIs(c, "reserve", b, call[c].payload, call[c].piece, found)
  <2>1. call' = [call EXCEPT ![c].pc = "reserve", ![c].landed = found] /\ found \in BOOLEAN
    BY DEF LookedUp
  <2> HIDE DEF found
  <2> QED BY <1>0, <2>1, LookedUpMoves
<1>3. EffectTypes' /\ Addressed'
  BY <1>0, <1>1, <1>2, AddressedMoves DEF EffectTypes, CallIs
<1>4. DriveInv'
  <2>1. /\ uploads[b] \in {0, 1}
        /\ effects[b]["drive"] = "none" => uploads[b] = 0
        /\ effects[b]["drive"] = "confirmed" => uploads[b] = 1
    BY <1>0 DEF DriveInv
  <2>2. found => uploads[b] = 1
    BY <2>1
  <2> HIDE DEF found, b
  <2>3. /\ \A a \in Ids : uploads'[a] = uploads[a] /\ effects'[a]["drive"] = effects[a]["drive"]
        /\ uploads' = uploads
    BY <1>1
  <2> QED BY <1>0, <1>2, <2>1, <2>2, <2>3, DriveMoves
<1>5. TelegramInv'
  BY <1>0, <1>1, <1>2, DriveLeavesTelegram
<1>6. ReceiptInv'
  BY <1>0, <1>1, CallReceipts DEF Durable
<1> QED BY <1>3, <1>4, <1>5, <1>6 DEF EffectInv

(* A lookup that fails keeps EffectInv.                                    *)
LEMMA LookupFailsEffects ==
  ASSUME LoopInv, LoopInv', EffectInv, NEW c \in Calls, LookupFails(c)
  PROVE  EffectInv'
<1> USE DEF ledgerVars, factVars, worldVars, inboxVars
<1>0. /\ EffectTypes /\ Addressed /\ DriveInv /\ TelegramInv /\ ReceiptInv
      /\ call[c].pc = "lookup" /\ Finish(c, FALSE)
  BY DEF EffectInv, LookupFails
<1>1. /\ UNCHANGED <<effects, intent, outbox, accepted, noted, uploads, messages, doubted, blanked>>
      /\ UNCHANGED <<batches, cur>>
  BY DEF LookupFails
<1>2. CallIs(c, "idle", 0, "drive", 0, FALSE)
  BY <1>0, FinishMoves
<1>3. EffectTypes' /\ Addressed'
  BY <1>0, <1>1, <1>2, AddressedMoves DEF EffectTypes, CallIs
<1>4. DriveInv'
  BY <1>0, <1>1, <1>2, DriveStands DEF CallIs
<1>5. TelegramInv'
  BY <1>0, <1>1, <1>2, DriveLeavesTelegram
<1>6. ReceiptInv'
  BY <1>0, <1>1, FinishReceipts DEF Durable
<1> QED BY <1>3, <1>4, <1>5, <1>6 DEF EffectInv

(* A drive call that ends keeps DriveInv.                                  *)
LEMMA DriveIdles ==
  ASSUME DriveInv, Addressed, NEW c \in Calls, NEW b \in Ids,
         CallIs(c, "idle", 0, "drive", 0, FALSE), UNCHANGED uploads,
         \A a \in Ids : a # b => effects'[a]["drive"] = effects[a]["drive"],
         effects'[b]["drive"] # "none",
         effects'[b]["drive"] = "confirmed" => uploads'[b] = 1
  PROVE  DriveInv'
<1>1. /\ \A a \in Ids : a # b =>
           uploads'[a] = uploads[a] /\ effects'[a]["drive"] = effects[a]["drive"]
      /\ uploads'[b] = uploads[b] /\ uploads'[b] \in {0, 1}
  BY DEF DriveInv
<1> QED BY <1>1, DriveMoves

(* A Drive call is over, and says confirmed only of a file that exists.    *)
LEMMA DriveSettles ==
  ASSUME LoopInv, LoopInv', EffectInv, NEW c \in Calls, NEW b \in Ids, b = call[c].batch,
         NEW ok \in BOOLEAN, Finish(c, ok), call[c].pc # "sending",
         NEW state \in EffectStates \ {"none"}, EffectIs(b, "drive", state),
         ok \/ effects[b]["drive"] = "confirmed" => state = "confirmed",
         state = "confirmed" => uploads[b] = 1,
         UNCHANGED <<intent, outbox, factVars, uploads, messages, doubted, blanked, batches,
                     cur>>
  PROVE  EffectInv'
<1> USE DEF factVars
<1>0. EffectTypes /\ Addressed /\ DriveInv /\ TelegramInv /\ ReceiptInv
  BY DEF EffectInv
<1>1. CallIs(c, "idle", 0, "drive", 0, FALSE)
  BY <1>0, FinishMoves
<1>2. EffectTypes' /\ Addressed'
  BY <1>0, <1>1, AddressedMoves DEF EffectTypes, CallIs, EffectIs
<1>3. DriveInv'
  <2>1. /\ \A a \in Ids : a # b =>
             uploads'[a] = uploads[a] /\ effects'[a]["drive"] = effects[a]["drive"]
        /\ effects'[b]["drive"] = state /\ uploads'[b] = uploads[b] /\ uploads'[b] \in {0, 1}
    BY <1>0 DEF EffectIs, Tools, DriveInv
  <2>2. /\ effects'[b]["drive"] # "none"
        /\ effects'[b]["drive"] = "confirmed" => uploads'[b] = 1
    BY <2>1
  <2> QED BY <1>0, <1>1, <2>1, <2>2, DriveIdles
<1>4. TelegramInv'
  <2>1. \A a \in Ids : effects'[a]["telegram"] = effects[a]["telegram"]
    BY DEF EffectIs, Tools
  <2> QED BY <1>0, <1>1, <2>1, DriveLeavesTelegram
<1>5. ReceiptInv'
  <2>1. Durable
    BY EffectDurable
  <2>2. ok => HasReceipt(b)'
    BY DEF EffectIs, HasReceipt
  <2> QED BY <1>0, <2>1, <2>2, FinishReceipts
<1> QED BY <1>2, <1>3, <1>4, <1>5 DEF EffectInv

(* A reservation keeps EffectInv.                                          *)
LEMMA ReserveEffects ==
  ASSUME LoopInv, LoopInv', EffectInv, NEW c \in Calls, Reserve(c)
  PROVE  EffectInv'
<1> USE DEF factVars, worldVars, inboxVars
<1>0. /\ EffectTypes /\ Addressed /\ DriveInv /\ TelegramInv /\ ReceiptInv
      /\ call[c].pc = "reserve" /\ call[c].batch \in Ids
  BY DEF EffectInv, Reserve, Addressed
<1>1. PICK b \in Ids : b = call[c].batch
  BY <1>0
<1>2. /\ UNCHANGED <<intent, outbox, accepted, noted, uploads, messages, doubted, blanked>>
      /\ UNCHANGED <<batches, cur>>
  BY DEF Reserve
<1>3. /\ effects[b]["drive"] = "none" => uploads[b] = 0 /\ ~call[c].landed
      /\ effects[b]["drive"] = "confirmed" => uploads[b] = 1
      /\ uploads[b] \in {0, 1}
  BY <1>0, <1>1 DEF DriveInv
<1>4. CASE effects[b]["drive"] = "none"
  <2>1. effects' = [effects EXCEPT ![b]["drive"] = "transmitting"] /\ call' = At(c, "transmit")
        /\ UNCHANGED done
    BY <1>1, <1>3, <1>4 DEF Reserve, Execute
  <2>2. EffectIs(b, "drive", "transmitting")
    BY <1>0, <2>1, EffectMoves DEF Tools, EffectStates
  <2>3. CallIs(c, "transmit", b, call[c].payload, call[c].piece, FALSE)
    BY <1>0, <1>1, <2>1, AtMoves DEF Phases
  <2>4. EffectTypes' /\ Addressed'
    BY <1>0, <1>2, <2>2, <2>3, AddressedMoves DEF EffectTypes, CallIs, EffectIs
  <2>5. DriveInv'
    <3>1. /\ \A a \in Ids : a # b =>
               uploads'[a] = uploads[a] /\ effects'[a]["drive"] = effects[a]["drive"]
          /\ effects'[b]["drive"] = "transmitting" /\ uploads'[b] = 0 /\ uploads[b] = 0
      BY <1>2, <1>3, <1>4, <2>2 DEF EffectIs, Tools
    <3>2. \A d \in Calls : d # c /\ call[d].batch = b => call[d].pc # "transmit"
      BY <1>0, <1>4 DEF DriveInv
    <3> QED BY <1>0, <2>3, <3>1, <3>2, DriveMoves
  <2>6. TelegramInv'
    <3>1. \A a \in Ids : effects'[a]["telegram"] = effects[a]["telegram"]
      BY <2>2 DEF EffectIs, Tools
    <3> QED BY <1>0, <1>2, <2>3, <3>1, DriveLeavesTelegram
  <2>7. ReceiptInv'
    <3>1. Durable
      BY <1>4, <2>2, EffectDurable
    <3> QED BY <1>0, <1>2, <2>1, <3>1, CallReceipts
  <2> QED BY <2>4, <2>5, <2>6, <2>7 DEF EffectInv
<1>5. CASE effects[b]["drive"] = "confirmed"
  <2>1. Finish(c, TRUE) /\ UNCHANGED effects
    BY <1>1, <1>5 DEF Reserve, Execute
  <2>2. EffectIs(b, "drive", "confirmed")
    BY <1>0, <1>5, <2>1 DEF EffectTypes, EffectIs
  <2> QED BY <1>0, <1>1, <1>2, <1>3, <1>5, <2>1, <2>2, DriveSettles DEF EffectStates
<1>6. CASE effects[b]["drive"] \in {"transmitting", "unknown"}
  <2>1. call' = At(c, "recover") /\ UNCHANGED <<effects, done>>
    BY <1>1, <1>6 DEF Reserve, Execute
  <2>2. CallIs(c, "recover", b, call[c].payload, call[c].piece, FALSE)
    BY <1>0, <1>1, <2>1, AtMoves DEF Phases
  <2>3. EffectTypes' /\ Addressed'
    BY <1>0, <1>2, <2>1, <2>2, AddressedMoves DEF EffectTypes, CallIs
  <2>4. DriveInv'
    BY <1>0, <1>2, <2>1, <2>2, DriveStands DEF CallIs
  <2>5. TelegramInv'
    BY <1>0, <1>2, <2>1, <2>2, DriveLeavesTelegram
  <2>6. ReceiptInv'
    BY <1>0, <1>2, <2>1, CallReceipts DEF Durable
  <2> QED BY <2>3, <2>4, <2>5, <2>6 DEF EffectInv
<1> QED BY <1>0, <1>1, <1>4, <1>5, <1>6 DEF EffectTypes, EffectStates, Tools

(* A file that is created keeps EffectInv.                                 *)
LEMMA CreatedEffects ==
  ASSUME LoopInv, LoopInv', EffectInv, NEW c \in Calls, Created(c)
  PROVE  EffectInv'
<1> USE DEF ledgerVars, loopVars, factVars, inboxVars
<1>0. /\ EffectTypes /\ Addressed /\ DriveInv /\ TelegramInv /\ ReceiptInv
      /\ call[c].pc = "transmit" /\ call[c].batch \in Ids /\ ~call[c].landed
  BY DEF EffectInv, Created, Addressed
<1>1. PICK b \in Ids : b = call[c].batch
  BY <1>0
<1>2. /\ UNCHANGED <<effects, intent, outbox, accepted, noted, messages, doubted, blanked>>
      /\ UNCHANGED <<batches, cur, done>>
  BY DEF Created
<1>3. uploads[b] = 0 /\ effects[b]["drive"] \notin {"none", "confirmed"}
  BY <1>0, <1>1 DEF DriveInv
<1>4. /\ uploads' \in [Ids -> Times] /\ uploads'[b] = 1
      /\ \A a \in Ids : a # b => uploads'[a] = uploads[a]
  <2>1. uploads' = [uploads EXCEPT ![b] = 1]
    BY <1>1, <1>3 DEF Created, Again
  <2> QED BY <1>0, <2>1 DEF EffectTypes, Times
<1>5. CallIs(c, "transmit", b, call[c].payload, call[c].piece, TRUE)
  BY <1>0, <1>1, LandedMoves DEF Created
<1>6. EffectTypes' /\ Addressed'
  BY <1>0, <1>2, <1>4, <1>5, AddressedMoves DEF EffectTypes, CallIs
<1>7. DriveInv'
  <2>1. \A d \in Calls : d # c /\ call[d].batch = b => call[d].pc # "transmit"
    BY <1>0, <1>1 DEF DriveInv
  <2>2. \A a \in Ids : effects'[a]["drive"] = effects[a]["drive"]
    BY <1>2
  <2> QED BY <1>0, <1>3, <1>4, <1>5, <2>1, <2>2, DriveMoves
<1>8. TelegramInv'
  BY <1>0, <1>2, <1>5, DriveLeavesTelegram
<1>9. ReceiptInv'
  BY <1>0, <1>2, CallReceipts DEF Durable
<1> QED BY <1>6, <1>7, <1>8, <1>9 DEF EffectInv

(* The end of a drive call keeps EffectInv.                                *)
LEMMA DriveEndsEffects ==
  ASSUME LoopInv, LoopInv', EffectInv, NEW c \in Calls, NEW ok \in BOOLEAN,
         TransmitEnds(c, ok) \/ Recovered(c, ok)
  PROVE  EffectInv'
<1> USE DEF factVars, worldVars, inboxVars
<1>0. /\ EffectTypes /\ Addressed /\ DriveInv
      /\ call[c].pc \in {"transmit", "recover"} /\ call[c].batch \in Ids
  BY DEF EffectInv, TransmitEnds, Recovered, Addressed
<1>1. PICK b \in Ids : b = call[c].batch
  BY <1>0
<1>2. /\ UNCHANGED <<intent, outbox, accepted, noted, uploads, messages, doubted, blanked>>
      /\ UNCHANGED <<batches, cur>> /\ Finish(c, ok)
      /\ effects' = IF ok THEN Confirm(b, "drive") ELSE MarkUnknown(b, "drive")
  BY <1>1 DEF TransmitEnds, Recovered
<1>3. ok \/ effects[b]["drive"] = "confirmed" => uploads[b] = 1
  <2>1. uploads[b] \in {0, 1} /\ (effects[b]["drive"] = "confirmed" => uploads[b] = 1)
    BY <1>0 DEF DriveInv
  <2>2. CASE TransmitEnds(c, ok)
    BY <1>0, <1>1, <2>1, <2>2 DEF TransmitEnds, DriveInv
  <2>3. CASE Recovered(c, ok)
    BY <1>1, <2>1, <2>3 DEF Recovered
  <2> QED BY <2>2, <2>3
<1>4. CASE ok
  <2>1. EffectIs(b, "drive", "confirmed")
    BY <1>0, <1>2, <1>4, ConfirmMoves DEF Tools
  <2> QED BY <1>0, <1>1, <1>2, <1>3, <1>4, <2>1, DriveSettles DEF EffectStates
<1>5. CASE ~ok
  <2> DEFINE state == IF effects[b]["drive"] = "confirmed" THEN "confirmed" ELSE "unknown"
  <2>1. EffectIs(b, "drive", state)
    BY <1>0, <1>2, <1>5, UnknownMoves DEF Tools
  <2>2. /\ state \in EffectStates \ {"none"}
        /\ effects[b]["drive"] = "confirmed" => state = "confirmed"
        /\ state = "confirmed" => uploads[b] = 1
    BY <1>3 DEF EffectStates
  <2> HIDE DEF state
  <2> QED BY <1>0, <1>1, <1>2, <1>5, <2>1, <2>2, DriveSettles
<1> QED BY <1>4, <1>5

----------------------------------------------------------------------------
(***************************************************************************)
(* The chat queue: a step of one call c about the entry of its batch b.    *)
(***************************************************************************)
AloneInQueue(c) == \A d \in Calls : d # c => call[d].pc \notin {"sending", "sent"}

(* One Telegram call that moves, with its entry, keeps TelegramInv.        *)
LEMMA TelegramMoves ==
  ASSUME TelegramInv, Addressed, NEW c \in Calls, NEW b \in Ids, call[c].batch = b,
         NEW pc, NEW e, NEW p, NEW k, NEW landed, CallIs(c, pc, e, p, k, landed),
         \A a \in Ids : a # b => /\ outbox'[a] = outbox[a] /\ messages'[a] = messages[a]
                                 /\ effects'[a]["telegram"] = effects[a]["telegram"],
         doubted \subseteq doubted', blanked \subseteq blanked',
         outbox[b].state = "delivered" => outbox'[b].state = "delivered",
         UNCHANGED <<outbox, messages>> \/ AloneInQueue(c),
         pc \in {"sending", "sent"} => AloneInQueue(c),
         EntryHolds(b)', SendHolds(c)'
  PROVE  TelegramInv'
<1>1. ASSUME NEW a \in Ids, a # b PROVE EntryHolds(a)'
  <2>1. EntryHolds(a)
    BY DEF TelegramInv
  <2>2. \A j : OnWire(a, j) => OnWire(a, j)'
    BY <1>1 DEF OnWire, CallIs
  <2> QED BY <1>1, <2>1, <2>2 DEF EntryHolds, Pieces
<1>2. ASSUME NEW d \in Calls, d # c PROVE SendHolds(d)'
  <2>1. /\ SendHolds(d) /\ call'[d] = call[d]
        /\ call[d].pc # "idle" => call[d].batch \in Ids
    BY <1>2 DEF TelegramInv, CallIs, Addressed
  <2>2. CASE UNCHANGED <<outbox, messages>>
    BY <2>1, <2>2 DEF SendHolds
  <2>3. CASE AloneInQueue(c)
    <3>1. call[d].pc \notin {"sending", "sent"}
      BY <1>2, <2>3 DEF AloneInQueue
    <3>2. call[d].pc = "confirming" =>
            outbox'[call[d].batch].state = "delivered" \/ call[d].payload = "blank"
      <4>1. CASE call[d].batch = b
        BY <2>1, <4>1 DEF SendHolds
      <4>2. CASE call[d].batch # b
        BY <2>1, <4>2 DEF SendHolds
      <4> QED BY <4>1, <4>2
    <3> QED BY <2>1, <3>1, <3>2 DEF SendHolds
  <2> QED BY <2>2, <2>3
<1>3. \A d, f \in Calls :
        call'[d].pc \in {"sending", "sent"} /\ call'[f].pc \in {"sending", "sent"} => d = f
  BY DEF TelegramInv, CallIs, AloneInQueue
<1> QED BY <1>1, <1>2, <1>3 DEF TelegramInv

(* No step of a send reaches the Drive file.                               *)
LEMMA TelegramLeavesDrive ==
  ASSUME DriveInv, Addressed, UNCHANGED uploads, NEW c \in Calls,
         \A b \in Ids : effects'[b]["drive"] = effects[b]["drive"],
         NEW pc, NEW e, NEW p, NEW k, NEW landed, CallIs(c, pc, e, p, k, landed),
         pc \notin {"reserve", "transmit"}
  PROVE  DriveInv'
BY DriveStands DEF CallIs

(* Where a call in the queue stands.                                       *)
LEMMA SendFacts ==
  ASSUME EffectInv, NEW c \in Calls, call[c].pc \in {"queued", "sending", "sent", "confirming"}
  PROVE  /\ EffectTypes /\ Addressed /\ DriveInv /\ TelegramInv /\ ReceiptInv
         /\ call[c].pc # "confirming" => call[c].payload \in Payloads
         /\ call[c].batch \in Ids /\ SendHolds(c)
         /\ EntryHolds(call[c].batch)
         /\ call[c].pc \in {"sending", "sent"} => AloneInQueue(c)
         /\ outbox[call[c].batch] \in Entry
         /\ outbox[call[c].batch].next \in 1..Chunks + 1
         /\ Chunks \in Nat \ {0} /\ 1 \in 1..Chunks
<1>1. /\ EffectTypes /\ Addressed /\ DriveInv /\ TelegramInv /\ ReceiptInv
      /\ call[c].batch \in Ids /\ (call[c].pc # "confirming" => call[c].payload \in Payloads)
  BY DEF EffectInv, Addressed
<1>2. SendHolds(c) /\ EntryHolds(call[c].batch)
  BY <1>1 DEF TelegramInv
<1>3. call[c].pc \in {"sending", "sent"} => AloneInQueue(c)
  BY <1>1 DEF TelegramInv, AloneInQueue
<1>4. outbox[call[c].batch] \in Entry
  BY <1>1 DEF EffectTypes
<1>5. outbox[call[c].batch].next \in 1..Chunks + 1
  BY <1>4 DEF Entry
<1> QED BY <1>1, <1>2, <1>3, <1>4, <1>5, TurnAssumption

(* begin() of a send: the reservation is made, or found.                   *)
LEMMA ReservesMoves ==
  ASSUME EffectTypes, cur \in Ids, NEW variant \in {"text", "file"}, Reserves(variant)
  PROVE  /\ intent' \in [Ids -> {"none", "text", "file"}]
         /\ effects' \in [Ids -> [Tools -> EffectStates]] /\ Durable
         /\ \A b \in Ids : /\ effects'[b]["drive"] = effects[b]["drive"]
                           /\ effects'[b]["telegram"] = "confirmed"
                                => effects[b]["telegram"] = "confirmed"
<1>1. CASE UNCHANGED <<effects, intent>>
  BY <1>1 DEF EffectTypes, Durable
<1>2. CASE /\ effects[cur]["telegram"] = "none"
           /\ effects' = [effects EXCEPT ![cur]["telegram"] = "transmitting"]
           /\ intent' = [intent EXCEPT ![cur] = variant]
  <2>1. EffectIs(cur, "telegram", "transmitting")
    BY <1>2, EffectMoves DEF Tools, EffectStates
  <2>2. Durable
    BY <1>2, <2>1, EffectDurable
  <2>3. intent' \in [Ids -> {"none", "text", "file"}]
    BY <1>2 DEF EffectTypes
  <2> QED BY <2>1, <2>2, <2>3 DEF EffectIs, Tools
<1> QED BY <1>1, <1>2 DEF Reserves, Execute

(* A send that begins: queued with its payload, or blank and at its end,   *)
(* or over at once.                                                        *)
LEMMA SendBegins ==
  ASSUME LoopInv, LoopInv', EffectInv, cur \in Ids, NEW c \in Calls, call[c].pc = "idle",
         NEW variant \in {"text", "file"}, Reserves(variant), call' \in [Calls -> ToolCall],
         \A d \in Calls : d # c => call'[d] = call[d],
         \/ call'[c] = call[c]
         \/ call'[c].pc = "queued" /\ call'[c].batch \in Ids /\ call'[c].payload \in Payloads
         \/ call'[c].pc = "confirming" /\ call'[c].batch \in Ids /\ call'[c].payload = "blank",
         UNCHANGED <<outbox, accepted, noted, uploads, messages, doubted, blanked>>,
         UNCHANGED <<batches, cur, done>>
  PROVE  EffectInv'
<1>0. EffectTypes /\ Addressed /\ DriveInv /\ TelegramInv /\ ReceiptInv
  BY DEF EffectInv
<1>1. /\ intent' \in [Ids -> {"none", "text", "file"}]
      /\ effects' \in [Ids -> [Tools -> EffectStates]] /\ Durable
      /\ \A b \in Ids : /\ effects'[b]["drive"] = effects[b]["drive"]
                        /\ effects'[b]["telegram"] = "confirmed"
                             => effects[b]["telegram"] = "confirmed"
  BY <1>0, ReservesMoves
<1>2. EffectTypes'
  BY <1>0, <1>1 DEF EffectTypes
<1>3. Addressed'
  BY <1>0 DEF Addressed
<1>4. DriveInv'
  <2>1. \A d \in Calls : call'[d] = call[d] \/ call'[d].pc \notin {"reserve", "transmit"}
    OBVIOUS
  <2> QED BY <1>0, <1>1, <2>1, DriveStands
<1>5. TelegramInv'
  <2>1. \A d \in Calls :
          \/ call'[d] = call[d]
          \/ /\ call[d].pc # "sending"
             /\ call'[d].pc \notin {"sending", "sent"}
             /\ call'[d].pc = "confirming" => call'[d].payload = "blank"
    OBVIOUS
  <2> QED BY <1>0, <1>1, <2>1, TelegramStands
<1>6. ReceiptInv'
  BY <1>0, <1>1, CallReceipts
<1> QED BY <1>2, <1>3, <1>4, <1>5, <1>6 DEF EffectInv

(* A telegram_send that begins keeps EffectInv.                            *)
LEMMA TelegramCallEffects ==
  ASSUME LoopInv, LoopInv', EffectInv, NEW c \in Calls, NEW p \in Payloads, TelegramCall(c, p)
  PROVE  EffectInv'
<1> USE DEF factVars, worldVars, inboxVars
<1>0. /\ EffectTypes /\ Addressed /\ DriveInv /\ TelegramInv /\ ReceiptInv
      /\ cur \in Ids /\ cur # 0 /\ batches[cur].attempts \in Nat /\ call[c].pc = "idle"
  BY TurnBatch DEF EffectInv, TelegramCall
<1>1. /\ UNCHANGED <<outbox, accepted, noted, uploads, messages, doubted, blanked>>
      /\ UNCHANGED <<batches, cur>>
  BY DEF TelegramCall
<1>2. CASE effects[cur]["telegram"] = "confirmed" /\ UNCHANGED <<call, effects, intent>>
  <2>1. HasReceipt(cur)'
    BY <1>1, <1>2 DEF HasReceipt
  <2>2. ReceiptInv'
    BY <1>0, <1>1, <1>2, <2>1, CallReceipts DEF Durable
  <2> QED BY <1>0, <1>1, <1>2, <2>2, EffectStands DEF EffectInv, ledgerVars
<1>3. CASE Reserves(Variant(p)) /\ call' = NewCall(c, "queued", p) /\ UNCHANGED done
  <2>1. CallIs(c, "queued", cur, p, 0, FALSE)
    BY <1>0, <1>3, NewCallMoves DEF Phases, CallPayloads
  <2>2. /\ call' \in [Calls -> ToolCall] /\ \A d \in Calls : d # c => call'[d] = call[d]
        /\ call'[c].pc = "queued" /\ call'[c].batch \in Ids /\ call'[c].payload \in Payloads
    BY <1>0, <2>1 DEF CallIs
  <2>3. PICK variant \in {"text", "file"} : variant = Variant(p)
    BY DEF Variant
  <2> QED BY <1>0, <1>1, <1>3, <2>2, <2>3, SendBegins
<1> QED BY <1>2, <1>3 DEF TelegramCall

(* A blank telegram_send keeps EffectInv.                                  *)
LEMMA BlankCallEffects ==
  ASSUME LoopInv, LoopInv', EffectInv, NEW c \in Calls, BlankCall(c)
  PROVE  EffectInv'
<1> USE DEF factVars, worldVars, inboxVars, loopVars
<1>0. /\ EffectTypes /\ cur \in Ids /\ batches[cur].attempts \in Nat /\ call[c].pc = "idle"
  BY TurnBatch DEF EffectInv, BlankCall
<1>1. /\ UNCHANGED <<outbox, accepted, noted, uploads, messages, doubted, blanked>>
      /\ UNCHANGED <<batches, cur, done>> /\ Reserves("text")
  BY DEF BlankCall
<1>2. PICK variant \in {"text", "file"} : variant = "text"
  OBVIOUS
<1>3. CASE UNCHANGED call
  <2>1. call' \in [Calls -> ToolCall] /\ \A d \in Calls : call'[d] = call[d]
    BY <1>0, <1>3 DEF EffectTypes
  <2> QED BY <1>0, <1>1, <1>2, <2>1, SendBegins
<1>4. CASE call' = NewCall(c, "confirming", "blank")
  <2>1. CallIs(c, "confirming", cur, "blank", 0, FALSE)
    BY <1>0, <1>4, NewCallMoves DEF Phases, CallPayloads
  <2>2. /\ call' \in [Calls -> ToolCall] /\ \A d \in Calls : d # c => call'[d] = call[d]
        /\ call'[c].pc = "confirming" /\ call'[c].batch \in Ids /\ call'[c].payload = "blank"
    BY <1>0, <2>1 DEF CallIs
  <2> QED BY <1>0, <1>1, <1>2, <2>2, SendBegins
<1> QED BY <1>3, <1>4 DEF BlankCall

(* A step of a send under way, and the last one of a send.                 *)
LEMMA SendGoesOn ==
  ASSUME LoopInv, LoopInv', EffectInv, TelegramInv', NEW c \in Calls,
         NEW pc \in {"sending", "sent", "confirming"}, NEW b \in Ids, NEW p \in Payloads,
         NEW k, NEW landed, CallIs(c, pc, b, p, k, landed),
         outbox' \in [Ids -> Entry], messages' \in [Ids -> [1..Chunks -> Times]],
         UNCHANGED <<effects, intent, factVars, uploads, doubted, blanked, batches, cur, done>>
  PROVE  EffectInv'
<1> USE DEF factVars
<1>0. EffectTypes /\ Addressed /\ DriveInv /\ TelegramInv /\ ReceiptInv
  BY DEF EffectInv
<1>1. EffectTypes'
  BY <1>0 DEF EffectTypes, CallIs
<1>2. Addressed'
  BY <1>0, AddressedMoves
<1>3. DriveInv'
  <2>1. \A a \in Ids : effects'[a]["drive"] = effects[a]["drive"]
    OBVIOUS
  <2> QED BY <1>0, <2>1, TelegramLeavesDrive
<1>4. ReceiptInv'
  BY <1>0, CallReceipts DEF Durable
<1> QED BY <1>1, <1>2, <1>3, <1>4 DEF EffectInv

(* The end of a telegram_send keeps EffectInv.                             *)
LEMMA SendEnds ==
  ASSUME LoopInv, LoopInv', EffectInv, TelegramInv', NEW c \in Calls,
         NEW b \in Ids, b = call[c].batch, NEW ok \in BOOLEAN, Finish(c, ok),
         NEW state \in EffectStates, EffectIs(b, "telegram", state),
         ok \/ effects[b]["telegram"] = "confirmed" => state = "confirmed",
         outbox' \in [Ids -> Entry], doubted' \subseteq Ids \X (1..Chunks),
         blanked' \subseteq Ids,
         UNCHANGED <<intent, factVars, uploads, messages, batches, cur>>
  PROVE  EffectInv'
<1> USE DEF factVars
<1>0. EffectTypes /\ Addressed /\ DriveInv /\ TelegramInv /\ ReceiptInv
  BY DEF EffectInv
<1>1. CallIs(c, "idle", 0, "drive", 0, FALSE)
  BY <1>0, FinishMoves
<1>2. EffectTypes'
  BY <1>0, <1>1 DEF EffectTypes, CallIs, EffectIs
<1>3. Addressed'
  BY <1>0, <1>1, AddressedMoves
<1>4. DriveInv'
  <2>1. \A a \in Ids : effects'[a]["drive"] = effects[a]["drive"]
    BY DEF EffectIs, Tools
  <2>2. "idle" \notin {"reserve", "transmit"} /\ UNCHANGED uploads
    OBVIOUS
  <2> QED BY <1>0, <1>1, <2>1, <2>2, TelegramLeavesDrive
<1>5. ReceiptInv'
  <2>1. Durable
    BY EffectDurable
  <2>2. ok => HasReceipt(b)'
    BY DEF EffectIs, HasReceipt
  <2> QED BY <1>0, <2>1, <2>2, FinishReceipts
<1> QED BY <1>2, <1>3, <1>4, <1>5 DEF EffectInv

(* SendFails: the effect is unknown, unless it was confirmed.              *)
LEMMA SendFailsMoves ==
  ASSUME LoopInv, LoopInv', EffectInv, NEW c \in Calls, SendFails(c),
         NEW b \in Ids, b = call[c].batch, call[c].pc \in {"queued", "sending"},
         doubted \subseteq doubted', doubted' \subseteq Ids \X (1..Chunks),
         outbox' \in [Ids -> Entry], AloneInQueue(c) \/ UNCHANGED outbox,
         \A a \in Ids : /\ outbox'[a].state = outbox[a].state
                        /\ outbox'[a].next = outbox[a].next
                        /\ outbox'[a].payload = outbox[a].payload
                        /\ a # b => outbox'[a] = outbox[a],
         call[c].pc = "sending" => ~call[c].landed \/ <<b, call[c].piece>> \in doubted',
         UNCHANGED <<intent, factVars, uploads, messages, blanked, batches, cur>>
  PROVE  EffectInv'
<1>0. EffectTypes /\ Addressed /\ TelegramInv /\ EntryHolds(b)
  BY DEF EffectInv, TelegramInv
<1> DEFINE state == IF effects[b]["telegram"] = "confirmed" THEN "confirmed" ELSE "unknown"
<1>1. Finish(c, FALSE) /\ EffectIs(b, "telegram", state)
  BY <1>0, UnknownMoves DEF SendFails, Tools
<1>2. /\ state \in EffectStates
      /\ effects[b]["telegram"] = "confirmed" => state = "confirmed"
      /\ state = "confirmed" => effects[b]["telegram"] = "confirmed"
  BY DEF EffectStates
<1> HIDE DEF state
<1>3. CallIs(c, "idle", 0, "drive", 0, FALSE)
  BY <1>0, <1>1, FinishMoves
<1>4. EntryHolds(b)'
  <2>1. \A k \in 1..Chunks : OnWire(b, k) => <<b, k>> \in doubted' \/ OnWire(b, k)'
    <3> TAKE k \in 1..Chunks
    <3> HAVE OnWire(b, k)
    <3>1. PICK d \in Calls : /\ call[d].pc = "sending" /\ call[d].landed
                             /\ call[d].batch = b /\ call[d].piece = k
      BY DEF OnWire
    <3>2. CASE d = c
      BY <3>1, <3>2
    <3>3. CASE d # c
      BY <1>3, <3>1, <3>3 DEF CallIs, OnWire
    <3> QED BY <3>2, <3>3
  <2>2. effects'[b]["telegram"] = "confirmed" => effects[b]["telegram"] = "confirmed"
    BY <1>1, <1>2 DEF EffectIs
  <2> QED BY <1>0, <2>1, <2>2 DEF EntryHolds, Pieces
<1>5. SendHolds(c)'
  BY <1>3 DEF CallIs, SendHolds
<1>6. TelegramInv'
  <2>1. \A a \in Ids : a # b => /\ outbox'[a] = outbox[a] /\ messages'[a] = messages[a]
                                /\ effects'[a]["telegram"] = effects[a]["telegram"]
    BY <1>1 DEF EffectIs, Tools
  <2>2. /\ UNCHANGED <<outbox, messages>> \/ AloneInQueue(c)
        /\ outbox[b].state = "delivered" => outbox'[b].state = "delivered"
        /\ call[c].batch = b
    OBVIOUS
  <2> QED BY <1>0, <1>3, <1>4, <1>5, <2>1, <2>2, TelegramMoves
<1>7. blanked' \subseteq Ids
  BY <1>0 DEF EffectTypes
<1> QED BY <1>1, <1>2, <1>6, <1>7, SendEnds

(* Proceed, with the entry at the piece it is asked for.                   *)
LEMMA Proceeds ==
  ASSUME LoopInv, LoopInv', EffectInv, NEW c \in Calls, call[c].pc \in {"queued", "sent"},
         AloneInQueue(c), NEW k, k = outbox[call[c].batch].next, Proceed(c, k),
         \/ outbox[call[c].batch].state = "none"
         \/ /\ outbox[call[c].batch].state \in {"processing", "ready"}
            /\ outbox[call[c].batch].payload = call[c].payload,
         UNCHANGED <<effects, intent, factVars, uploads, messages, doubted, blanked, batches,
                     cur, done>>
  PROVE  EffectInv'
<1>0. /\ EffectTypes /\ Addressed /\ TelegramInv /\ call[c].batch \in Ids
      /\ call[c].payload \in Payloads /\ Chunks \in Nat \ {0} /\ 1 \in 1..Chunks
      /\ k \in 1..Chunks + 1
  BY SendFacts
<1>1. PICK b \in Ids : b = call[c].batch
  BY <1>0
<1>2. PICK p \in Payloads : p = call[c].payload
  BY <1>0
<1>3. EntryHolds(b) /\ outbox[b] \in Entry /\ k = outbox[b].next
  BY <1>0, <1>1 DEF TelegramInv, EffectTypes
<1>4. /\ p \in Texts => Pieces(p) = Chunks
      /\ p \notin Texts => Pieces(p) = 1 /\ p \in Files /\ p \notin Texts
      /\ p \in Files => p \notin Texts
  BY TurnAssumption DEF Pieces, Payloads
<1>5. CASE k > Pieces(p)
  <2>1. /\ outbox' = [outbox EXCEPT ![b].state = "delivered", ![b].next = 1]
        /\ call' = At(c, "confirming")
    BY <1>1, <1>2, <1>5 DEF Proceed
  <2>2. CallIs(c, "confirming", b, p, call[c].piece, FALSE)
    BY <1>0, <1>1, <1>2, <2>1, AtMoves DEF Phases
  <2>3. /\ outbox' \in [Ids -> Entry] /\ \A a \in Ids : a # b => outbox'[a] = outbox[a]
        /\ outbox'[b].state = "delivered" /\ outbox'[b].next = 1
        /\ outbox'[b].payload = outbox[b].payload
    <3>1. outbox \in [Ids -> Entry] /\ 1 \in 1..Chunks + 1
      BY <1>0 DEF EffectTypes
    <3> QED BY <1>3, <2>1, <3>1 DEF Entry
  <2>4. outbox[b].state = "ready" /\ p \in Texts /\ outbox[b].payload = p /\ k > Chunks
    <3>1. k # 1
      BY <1>0, <1>4, <1>5
    <3>2. outbox[b].state \notin {"none", "processing"}
      BY <1>3, <3>1 DEF EntryHolds
    <3>3. outbox[b].state = "ready" /\ outbox[b].payload = p
      BY <1>1, <1>2, <3>2
    <3> QED BY <1>3, <1>4, <1>5, <3>3 DEF EntryHolds
  <2>5. \A j \in 1..Chunks : messages[b][j] >= 1
    <3>1. \A j \in 1..Chunks : j < k
      BY <1>0, <2>4
    <3> QED BY <1>3, <2>4, <3>1 DEF EntryHolds
  <2>6. EntryHolds(b)'
    <3>1. Pieces(outbox'[b].payload) = Chunks
      BY <1>4, <2>3, <2>4
    <3>2. \A j \in 1..Pieces(outbox'[b].payload) : messages'[b][j] >= 1
      BY <2>5, <3>1
    <3>3. \A j \in 1..Chunks : messages'[b][j] > 1 => <<b, j>> \in doubted'
      BY <1>3 DEF EntryHolds
    <3> QED BY <2>3, <3>2, <3>3 DEF EntryHolds, Pieces
  <2>7. SendHolds(c)'
    BY <2>2, <2>3 DEF CallIs, SendHolds
  <2>8. TelegramInv'
    <3>1. \A a \in Ids : a # b => /\ outbox'[a] = outbox[a] /\ messages'[a] = messages[a]
                                  /\ effects'[a]["telegram"] = effects[a]["telegram"]
      BY <2>3
    <3>2. doubted \subseteq doubted' /\ blanked \subseteq blanked' /\ call[c].batch = b
      BY <1>1
    <3> QED BY <1>0, <2>2, <2>3, <2>6, <2>7, <3>1, <3>2, TelegramMoves
  <2> QED BY <1>0, <2>2, <2>3, <2>8, SendGoesOn DEF EffectTypes
<1>6. CASE ~(k > Pieces(p))
  <2> DEFINE r == IF p \in Texts
                  THEN [state |-> "ready", payload |-> p, next |-> k, doubt |-> TRUE]
                  ELSE [state |-> "processing", payload |-> p, next |-> 1, doubt |-> FALSE]
  <2>1. /\ outbox' = [outbox EXCEPT ![b] = r]
        /\ call' = [call EXCEPT ![c].pc = "sending", ![c].piece = k, ![c].landed = FALSE]
    BY <1>1, <1>2, <1>6 DEF Proceed
  <2>2. k \in 1..Chunks /\ (p \notin Texts => k = 1)
    BY <1>0, <1>4, <1>6
  <2>3. /\ r \in Entry /\ r.payload = p /\ r.next = k
        /\ r.state = IF p \in Texts THEN "ready" ELSE "processing"
    BY <1>0, <2>2 DEF Entry
  <2> HIDE DEF r
  <2>4. CallIs(c, "sending", b, p, k, FALSE)
    BY <1>0, <1>1, <1>2, <2>1, <2>2, SendingMoves
  <2>5. /\ outbox' \in [Ids -> Entry] /\ \A a \in Ids : a # b => outbox'[a] = outbox[a]
        /\ outbox'[b] = r
    BY <1>0, <2>1, <2>3 DEF EffectTypes
  <2>6. /\ outbox[b].state # "delivered"
        /\ p \in Texts => \A j \in 1..Chunks : j < k => messages[b][j] >= 1
    <3>1. outbox[b].state # "delivered"
      BY <1>1
    <3>2. CASE outbox[b].state = "ready"
      BY <1>3, <3>2 DEF EntryHolds
    <3>3. CASE outbox[b].state \in {"none", "processing"}
      <4>1. k = 1
        BY <1>3, <3>3 DEF EntryHolds
      <4>2. \A j \in 1..Chunks : ~(j < k)
        BY <1>0, <4>1
      <4> QED BY <3>1, <4>2
    <3> QED BY <1>1, <3>1, <3>2, <3>3
  <2>7. EntryHolds(b)'
    <3>1. \A j : OnWire(b, j) => OnWire(b, j)'
      BY <1>0, <2>4 DEF OnWire, CallIs
    <3>2. \A j \in 1..Chunks :
            j >= k /\ messages[b][j] >= 1 => <<b, j>> \in doubted \/ OnWire(b, j)'
      BY <1>3, <2>6, <3>1 DEF EntryHolds
    <3>3. /\ \A j \in 1..Chunks : messages[b][j] > 1 => <<b, j>> \in doubted
          /\ effects[b]["telegram"] = "confirmed" => b \in blanked
      BY <1>3, <2>6 DEF EntryHolds
    <3>4. p \notin Texts => p \in Files
      BY <1>4
    <3> QED BY <2>2, <2>3, <2>5, <2>6, <3>2, <3>3, <3>4 DEF EntryHolds
  <2>8. SendHolds(c)'
    BY <2>2, <2>3, <2>4, <2>5 DEF CallIs, SendHolds
  <2>9. TelegramInv'
    <3>1. \A a \in Ids : a # b => /\ outbox'[a] = outbox[a] /\ messages'[a] = messages[a]
                                  /\ effects'[a]["telegram"] = effects[a]["telegram"]
      BY <2>5
    <3>2. doubted \subseteq doubted' /\ blanked \subseteq blanked' /\ call[c].batch = b
      BY <1>1
    <3> QED BY <1>0, <2>4, <2>6, <2>7, <2>8, <3>1, <3>2, TelegramMoves
  <2> QED BY <1>0, <2>4, <2>5, <2>9, SendGoesOn DEF EffectTypes
<1> QED BY <1>5, <1>6

----------------------------------------------------------------------------
(* telegram_send, step by step.                                            *)
LEMMA DequeueEffects ==
  ASSUME LoopInv, LoopInv', EffectInv, NEW c \in Calls, Dequeue(c)
  PROVE  EffectInv'
<1> USE DEF factVars, worldVars, inboxVars
<1>0. /\ EffectTypes /\ Addressed /\ TelegramInv /\ call[c].batch \in Ids
      /\ call[c].payload \in Payloads /\ call[c].pc = "queued" /\ AloneInQueue(c)
  BY SendFacts DEF Dequeue, ChatFree, AloneInQueue
<1>1. PICK b \in Ids : b = call[c].batch
  BY <1>0
<1>2. /\ UNCHANGED <<intent, factVars, uploads, messages, doubted, blanked, batches,
                     cur>>
      /\ doubted \subseteq Ids \X (1..Chunks)
  BY <1>0 DEF Dequeue, EffectTypes
<1>3. CASE /\ outbox[b].state = "delivered" /\ call' = At(c, "confirming")
           /\ UNCHANGED <<outbox, effects, done>>
  <2>1. CallIs(c, "confirming", b, call[c].payload, call[c].piece, FALSE)
    BY <1>0, <1>1, <1>3, AtMoves DEF Phases
  <2>2. EntryHolds(b)'
    <3>1. \A j : OnWire(b, j) => OnWire(b, j)'
      BY <1>0, <2>1 DEF OnWire, CallIs
    <3>2. EntryHolds(b)
      BY <1>0 DEF TelegramInv
    <3> QED BY <1>2, <1>3, <3>1, <3>2 DEF EntryHolds, Pieces
  <2>3. SendHolds(c)'
    BY <1>3, <2>1 DEF CallIs, SendHolds
  <2>4. TelegramInv'
    <3>1. /\ \A a \in Ids : a # b => /\ outbox'[a] = outbox[a] /\ messages'[a] = messages[a]
                                     /\ effects'[a]["telegram"] = effects[a]["telegram"]
          /\ outbox[b].state = "delivered" => outbox'[b].state = "delivered"
          /\ doubted \subseteq doubted' /\ blanked \subseteq blanked' /\ call[c].batch = b
      BY <1>1, <1>2, <1>3
    <3> QED BY <1>0, <2>1, <2>2, <2>3, <3>1, TelegramMoves
  <2> QED BY <1>0, <1>2, <1>3, <2>1, <2>4, SendGoesOn DEF EffectTypes
<1>4. CASE SendFails(c) /\ UNCHANGED outbox
  BY <1>0, <1>1, <1>2, <1>4, SendFailsMoves DEF EffectTypes
<1>5. CASE /\ \/ outbox[b].state = "none"
              \/ /\ outbox[b].state \in {"processing", "ready"}
                 /\ outbox[b].payload = call[c].payload
           /\ Proceed(c, outbox[b].next) /\ UNCHANGED <<effects, done>>
  <2>1. PICK k : k = outbox[call[c].batch].next
    OBVIOUS
  <2>2. Proceed(c, k)
    BY <1>1, <1>5, <2>1
  <2> QED BY <1>0, <1>1, <1>2, <1>5, <2>1, <2>2, Proceeds
<1> QED BY <1>1, <1>3, <1>4, <1>5 DEF Dequeue

(* A send that cannot be made keeps EffectInv.                             *)
LEMMA UnsendableEffects ==
  ASSUME LoopInv, LoopInv', EffectInv, NEW c \in Calls, Unsendable(c)
  PROVE  EffectInv'
<1> USE DEF factVars, worldVars, inboxVars
<1>0. /\ EffectTypes /\ call[c].batch \in Ids /\ call[c].pc = "queued" /\ SendFails(c)
  BY SendFacts DEF Unsendable
<1>1. PICK b \in Ids : b = call[c].batch
  BY <1>0
<1>2. UNCHANGED <<intent, outbox, factVars, uploads, messages, doubted, blanked, batches,
                     cur>>
  BY DEF Unsendable
<1>3. /\ doubted' \subseteq Ids \X (1..Chunks) /\ outbox' \in [Ids -> Entry]
  BY <1>0, <1>2 DEF EffectTypes
<1> QED BY <1>0, <1>1, <1>2, <1>3, SendFailsMoves

(* A next piece keeps EffectInv.                                           *)
LEMMA NextPieceEffects ==
  ASSUME LoopInv, LoopInv', EffectInv, NEW c \in Calls, NextPiece(c)
  PROVE  EffectInv'
<1> USE DEF factVars, worldVars, inboxVars, loopVars
<1>0. /\ SendHolds(c) /\ AloneInQueue(c) /\ call[c].pc = "sent"
  BY SendFacts DEF NextPiece
<1>1. /\ outbox[call[c].batch].next = call[c].piece + 1
      /\ outbox[call[c].batch].state = "ready"
      /\ outbox[call[c].batch].payload = call[c].payload
  BY <1>0 DEF SendHolds
<1>2. PICK k : k = call[c].piece + 1
  OBVIOUS
<1>3. Proceed(c, k) /\ k = outbox[call[c].batch].next
  BY <1>1, <1>2 DEF NextPiece
<1>4. UNCHANGED <<effects, intent, factVars, uploads, messages, doubted, blanked, batches,
                     cur, done>>
  BY DEF NextPiece
<1> QED BY <1>0, <1>1, <1>3, <1>4, Proceeds

(* A piece that was answered keeps EffectInv.                              *)
LEMMA PieceSentEffects ==
  ASSUME LoopInv, LoopInv', EffectInv, NEW c \in Calls, PieceSent(c)
  PROVE  EffectInv'
<1> USE DEF factVars, worldVars, inboxVars, loopVars
<1>0. /\ EffectTypes /\ Addressed /\ TelegramInv /\ call[c].batch \in Ids
      /\ call[c].payload \in Payloads /\ Chunks \in Nat \ {0}
      /\ SendHolds(c) /\ AloneInQueue(c) /\ call[c].pc = "sending" /\ call[c].landed
  BY SendFacts DEF PieceSent
<1>1. PICK b \in Ids : b = call[c].batch
  BY <1>0
<1>2. PICK p \in Payloads : p = call[c].payload
  BY <1>0
<1>3. PICK k \in 1..Chunks : k = call[c].piece
  BY <1>0 DEF SendHolds
<1>4. /\ UNCHANGED <<effects, intent, factVars, uploads, messages, doubted, blanked, batches,
                     cur, done>>
      /\ EntryHolds(b) /\ outbox[b] \in Entry /\ outbox \in [Ids -> Entry]
  BY <1>0 DEF PieceSent, TelegramInv, EffectTypes
<1>5. /\ outbox[b].payload = p /\ outbox[b].next = k /\ messages[b][k] >= 1
      /\ outbox[b].state = IF p \in Texts THEN "ready" ELSE "processing"
  BY <1>0, <1>1, <1>2, <1>3 DEF SendHolds
<1>6. SUFFICES ASSUME NEW pc \in {"sent", "confirming"}, call' = At(c, pc),
                      outbox' \in [Ids -> Entry],
                      \A a \in Ids : a # b => outbox'[a] = outbox[a],
                      outbox'[b].payload = p,
                      \/ /\ pc = "sent" /\ p \in Texts
                         /\ outbox'[b].state = "ready" /\ outbox'[b].next = k + 1
                      \/ /\ pc = "confirming" /\ p \in Files /\ p \notin Texts
                         /\ outbox'[b].state = "delivered"
               PROVE  EffectInv'
  <2>1. CASE p \in Texts
    <3>1. outbox' = [outbox EXCEPT ![b].next = k + 1, ![b].doubt = FALSE] /\ call' = At(c, "sent")
      BY <1>1, <1>2, <1>3, <2>1 DEF PieceSent
    <3>2. k + 1 \in 1..Chunks + 1
      BY <1>0
    <3>3. /\ outbox' \in [Ids -> Entry] /\ \A a \in Ids : a # b => outbox'[a] = outbox[a]
          /\ outbox'[b].payload = outbox[b].payload /\ outbox'[b].state = outbox[b].state
          /\ outbox'[b].next = k + 1
      BY <1>4, <3>1, <3>2 DEF Entry
    <3> QED BY <1>5, <1>6, <2>1, <3>1, <3>3
  <2>2. CASE p \notin Texts
    <3>1. outbox' = [outbox EXCEPT ![b].state = "delivered"] /\ call' = At(c, "confirming")
      BY <1>1, <1>2, <2>2 DEF PieceSent
    <3>2. /\ outbox' \in [Ids -> Entry] /\ \A a \in Ids : a # b => outbox'[a] = outbox[a]
          /\ outbox'[b].payload = outbox[b].payload /\ outbox'[b].state = "delivered"
      BY <1>4, <3>1 DEF Entry
    <3> QED BY <1>5, <1>6, <2>2, <3>1, <3>2 DEF Payloads
  <2> QED BY <2>1, <2>2
<1>7. CallIs(c, pc, b, p, k, FALSE)
  BY <1>0, <1>1, <1>2, <1>3, <1>6, AtMoves DEF Phases
<1>8. EntryHolds(b)'
  <2>1. \A j \in 1..Chunks : messages[b][j] > 1 => <<b, j>> \in doubted
    BY <1>4 DEF EntryHolds
  <2>2. effects[b]["telegram"] = "confirmed" => b \in blanked
    BY <1>4, <1>5 DEF EntryHolds
  <2>3. CASE pc = "sent"
    <3>1. \A j \in 1..Chunks : j < k + 1 => messages[b][j] >= 1
      <4>1. \A j \in 1..Chunks : j < k => messages[b][j] >= 1
        BY <1>4, <1>5, <1>6, <2>3 DEF EntryHolds
      <4>2. \A j \in 1..Chunks : j < k + 1 => j < k \/ j = k
        BY <1>0
      <4> QED BY <1>5, <4>1, <4>2
    <3>2. \A j \in 1..Chunks : j >= k + 1 /\ messages[b][j] >= 1 => <<b, j>> \in doubted
      <4> TAKE j \in 1..Chunks
      <4> HAVE j >= k + 1 /\ messages[b][j] >= 1
      <4>1. j >= k /\ j # k
        BY <1>0
      <4>2. <<b, j>> \in doubted \/ OnWire(b, j)
        BY <1>4, <1>5, <4>1 DEF EntryHolds
      <4>3. ~OnWire(b, j)
        BY <1>0, <1>3, <4>1 DEF OnWire, AloneInQueue
      <4> QED BY <4>2, <4>3
    <3> QED BY <1>4, <1>6, <2>1, <2>2, <2>3, <3>1, <3>2 DEF EntryHolds
  <2>4. CASE pc = "confirming"
    <3>1. k = 1 /\ Pieces(outbox'[b].payload) = 1
      BY <1>4, <1>5, <1>6, <2>4 DEF EntryHolds, Pieces
    <3>2. \A j \in 1..Pieces(outbox'[b].payload) : messages[b][j] >= 1
      BY <1>5, <3>1
    <3> QED BY <1>4, <1>6, <2>1, <2>2, <2>4, <3>2 DEF EntryHolds, Pieces
  <2> QED BY <1>6, <2>3, <2>4
<1>9. SendHolds(c)'
  BY <1>6, <1>7 DEF CallIs, SendHolds
<1>10. TelegramInv'
  <2>1. /\ \A a \in Ids : a # b => /\ outbox'[a] = outbox[a] /\ messages'[a] = messages[a]
                                   /\ effects'[a]["telegram"] = effects[a]["telegram"]
        /\ outbox[b].state # "delivered"
        /\ doubted \subseteq doubted' /\ blanked \subseteq blanked' /\ call[c].batch = b
    BY <1>1, <1>4, <1>5, <1>6
  <2> QED BY <1>0, <1>7, <1>8, <1>9, <2>1, TelegramMoves
<1>11. /\ messages' \in [Ids -> [1..Chunks -> Times]]
       /\ pc \in {"sending", "sent", "confirming"}
  BY <1>0, <1>4, <1>6 DEF EffectTypes
<1> QED BY <1>4, <1>6, <1>7, <1>10, <1>11, SendGoesOn

(* A piece that was rejected keeps EffectInv.                              *)
LEMMA RejectedEffects ==
  ASSUME LoopInv, LoopInv', EffectInv, NEW c \in Calls, Rejected(c)
  PROVE  EffectInv'
<1> USE DEF factVars, worldVars, inboxVars
<1>0. /\ EffectTypes /\ call[c].batch \in Ids /\ AloneInQueue(c)
      /\ call[c].pc = "sending" /\ ~call[c].landed /\ SendFails(c)
  BY SendFacts DEF Rejected
<1>1. PICK b \in Ids : b = call[c].batch
  BY <1>0
<1>2. /\ UNCHANGED <<intent, factVars, uploads, messages, doubted, blanked, batches,
                     cur>>
      /\ doubted \subseteq doubted' /\ doubted' \subseteq Ids \X (1..Chunks)
  BY <1>0 DEF Rejected, EffectTypes
<1>3. /\ outbox' \in [Ids -> Entry]
      /\ \A a \in Ids : /\ outbox'[a].state = outbox[a].state
                        /\ outbox'[a].next = outbox[a].next
                        /\ outbox'[a].payload = outbox[a].payload
                        /\ a # b => outbox'[a] = outbox[a]
  <2>1. outbox' = [outbox EXCEPT ![b].doubt = FALSE] /\ outbox \in [Ids -> Entry]
    BY <1>0, <1>1 DEF Rejected, EffectTypes
  <2> QED BY <2>1 DEF Entry
<1> QED BY <1>0, <1>1, <1>2, <1>3, SendFailsMoves

(* A piece without an answer keeps EffectInv.                              *)
LEMMA UnansweredEffects ==
  ASSUME LoopInv, LoopInv', EffectInv, NEW c \in Calls, Unanswered(c)
  PROVE  EffectInv'
<1> USE DEF factVars, worldVars, inboxVars
<1>0. /\ EffectTypes /\ call[c].batch \in Ids /\ AloneInQueue(c) /\ SendHolds(c)
      /\ call[c].pc = "sending" /\ SendFails(c)
  BY SendFacts DEF Unanswered
<1>1. PICK b \in Ids : b = call[c].batch
  BY <1>0
<1>2. /\ UNCHANGED <<intent, outbox, factVars, uploads, messages, blanked, batches, cur>>
      /\ doubted' = doubted \cup {<<b, call[c].piece>>}
  BY <1>1 DEF Unanswered
<1>3. call[c].piece \in 1..Chunks
  BY <1>0 DEF SendHolds
<1>4. /\ doubted \subseteq doubted' /\ doubted' \subseteq Ids \X (1..Chunks)
      /\ <<b, call[c].piece>> \in doubted' /\ outbox' \in [Ids -> Entry]
  BY <1>0, <1>2, <1>3 DEF EffectTypes
<1> QED BY <1>0, <1>1, <1>2, <1>4, SendFailsMoves

(* A confirmation keeps EffectInv.                                         *)
LEMMA ConfirmedEffects ==
  ASSUME LoopInv, LoopInv', EffectInv, NEW c \in Calls, Confirmed(c)
  PROVE  EffectInv'
<1> USE DEF factVars, worldVars, inboxVars
<1>0. /\ EffectTypes /\ Addressed /\ TelegramInv /\ call[c].batch \in Ids
      /\ SendHolds(c) /\ call[c].pc = "confirming" /\ Finish(c, TRUE)
  BY SendFacts DEF Confirmed
<1>1. PICK b \in Ids : b = call[c].batch
  BY <1>0
<1>2. UNCHANGED <<intent, outbox, factVars, uploads, messages, doubted, batches, cur>>
  BY DEF Confirmed
<1>3. EffectIs(b, "telegram", "confirmed")
  BY <1>0, <1>1, ConfirmMoves DEF Confirmed, Tools
<1>4. CallIs(c, "idle", 0, "drive", 0, FALSE)
  BY <1>0, FinishMoves
<1>9. /\ blanked \subseteq blanked' /\ blanked' \subseteq Ids
      /\ call[c].payload = "blank" /\ effects[b]["telegram"] # "confirmed" => b \in blanked'
  BY <1>0, <1>1 DEF Confirmed, EffectTypes
<1>5. EntryHolds(b)'
  <2>1. EntryHolds(b)
    BY <1>0, <1>1 DEF TelegramInv
  <2>2. \A k : OnWire(b, k) => OnWire(b, k)'
    BY <1>0, <1>4 DEF OnWire, CallIs
  <2>3. outbox[b].state = "delivered" \/ b \in blanked'
    BY <1>0, <1>1, <1>9, <2>1 DEF SendHolds, EntryHolds
  <2> QED BY <1>2, <2>1, <2>2, <2>3 DEF EntryHolds, Pieces
<1>6. SendHolds(c)'
  BY <1>4 DEF CallIs, SendHolds
<1>7. TelegramInv'
  <2>1. /\ \A a \in Ids : a # b => /\ outbox'[a] = outbox[a] /\ messages'[a] = messages[a]
                                   /\ effects'[a]["telegram"] = effects[a]["telegram"]
        /\ outbox[b].state = "delivered" => outbox'[b].state = "delivered"
        /\ UNCHANGED <<outbox, messages>> /\ doubted \subseteq doubted' /\ call[c].batch = b
    BY <1>1, <1>2, <1>3 DEF EffectIs, Tools
  <2> QED BY <1>0, <1>4, <1>5, <1>6, <1>9, <2>1, TelegramMoves
<1>8. /\ outbox' \in [Ids -> Entry] /\ doubted' \subseteq Ids \X (1..Chunks)
      /\ "confirmed" \in EffectStates
  BY <1>0, <1>2 DEF EffectTypes, EffectStates
<1> QED BY <1>0, <1>1, <1>2, <1>3, <1>7, <1>8, <1>9, SendEnds

(* A piece that is shown keeps EffectInv.                                  *)
LEMMA LandedEffects ==
  ASSUME LoopInv, LoopInv', EffectInv, NEW c \in Calls, Landed(c)
  PROVE  EffectInv'
<1> USE DEF factVars, inboxVars, loopVars, ledgerVars
<1>0. /\ EffectTypes /\ Addressed /\ TelegramInv /\ call[c].batch \in Ids
      /\ call[c].payload \in Payloads
      /\ SendHolds(c) /\ AloneInQueue(c) /\ call[c].pc = "sending" /\ ~call[c].landed
  BY SendFacts DEF Landed
<1>1. PICK b \in Ids : b = call[c].batch
  BY <1>0
<1>2. PICK p \in Payloads : p = call[c].payload
  BY <1>0
<1>3. PICK k \in 1..Chunks : k = call[c].piece
  BY <1>0 DEF SendHolds
<1>4. UNCHANGED <<effects, intent, outbox, factVars, uploads, doubted, blanked, batches, cur, done>>
  BY DEF Landed
<1>5. /\ EntryHolds(b) /\ outbox[b].next = k
      /\ outbox[b].state \in {"ready", "processing"}
  BY <1>0, <1>1, <1>3 DEF TelegramInv, SendHolds
<1>6. /\ messages' \in [Ids -> [1..Chunks -> Times]]
      /\ \A a \in Ids : a # b => messages'[a] = messages[a]
      /\ \A j \in 1..Chunks : j # k => messages'[b][j] = messages[b][j]
      /\ messages[b][k] \in Times /\ messages'[b][k] = Again(messages[b][k])
  <2>1. /\ messages' = [messages EXCEPT ![b][k] = Again(messages[b][k])]
        /\ messages \in [Ids -> [1..Chunks -> Times]]
    BY <1>0, <1>1, <1>3 DEF Landed, EffectTypes
  <2>2. messages[b] \in [1..Chunks -> Times] /\ messages[b][k] \in Times
    BY <2>1
  <2>3. PICK m \in Times : m = Again(messages[b][k])
    BY <2>2 DEF Times, Again
  <2>4. messages' = [messages EXCEPT ![b] = [messages[b] EXCEPT ![k] = m]]
    BY <2>1, <2>3
  <2>5. [messages[b] EXCEPT ![k] = m] \in [1..Chunks -> Times]
    BY <2>2
  <2>6. /\ messages' \in [Ids -> [1..Chunks -> Times]]
        /\ \A a \in Ids : a # b => messages'[a] = messages[a]
        /\ messages'[b] = [messages[b] EXCEPT ![k] = m]
    BY <2>1, <2>4, <2>5
  <2> QED BY <2>2, <2>3, <2>6
<1>7. /\ messages'[b][k] >= 1
      /\ messages'[b][k] > 1 => messages[b][k] >= 1
      /\ \A j \in 1..Chunks : messages[b][j] >= 1 => messages'[b][j] >= 1
  BY <1>6 DEF Times, Again
<1>8. CallIs(c, "sending", b, p, k, TRUE)
  BY <1>0, <1>1, <1>2, <1>3, LandedMoves DEF Landed
<1>9. \A j \in 1..Chunks : ~OnWire(b, j)
  BY <1>0 DEF OnWire, AloneInQueue
<1>10. OnWire(b, k)'
  BY <1>8 DEF CallIs, OnWire
<1>11. EntryHolds(b)'
  <2>1. \A j \in 1..Chunks : messages'[b][j] > 1 => <<b, j>> \in doubted
    <3>1. messages'[b][k] > 1 => <<b, k>> \in doubted
      BY <1>5, <1>7, <1>9 DEF EntryHolds
    <3>2. \A j \in 1..Chunks : j # k /\ messages'[b][j] > 1 => <<b, j>> \in doubted
      BY <1>5, <1>6 DEF EntryHolds
    <3> QED BY <3>1, <3>2
  <2>2. \A j \in 1..Chunks :
          j >= k /\ messages'[b][j] >= 1 => <<b, j>> \in doubted \/ OnWire(b, j)'
    <3>1. \A j \in 1..Chunks :
            j # k /\ j >= k /\ messages'[b][j] >= 1 => <<b, j>> \in doubted
      BY <1>5, <1>6, <1>9 DEF EntryHolds
    <3> QED BY <1>10, <3>1
  <2>3. outbox[b].state = "ready" => \A j \in 1..Chunks : j < k => messages'[b][j] >= 1
    BY <1>5, <1>7 DEF EntryHolds
  <2> QED BY <1>4, <1>5, <2>1, <2>2, <2>3 DEF EntryHolds
<1>12. SendHolds(c)'
  BY <1>0, <1>1, <1>2, <1>3, <1>4, <1>7, <1>8 DEF CallIs, SendHolds
<1>13. TelegramInv'
  <2>1. /\ \A a \in Ids : a # b => /\ outbox'[a] = outbox[a] /\ messages'[a] = messages[a]
                                   /\ effects'[a]["telegram"] = effects[a]["telegram"]
        /\ outbox[b].state = "delivered" => outbox'[b].state = "delivered"
        /\ doubted \subseteq doubted' /\ blanked \subseteq blanked' /\ call[c].batch = b
    BY <1>1, <1>4, <1>6
  <2> QED BY <1>0, <1>8, <1>11, <1>12, <2>1, TelegramMoves
<1>14. outbox' \in [Ids -> Entry]
  BY <1>0, <1>4 DEF EffectTypes
<1> QED BY <1>4, <1>6, <1>8, <1>13, <1>14, SendGoesOn

----------------------------------------------------------------------------
(* The process dies: whatever was on the wire is in doubt from then on.    *)
LEMMA CrashEffects ==
  ASSUME LoopInv, LoopInv', EffectInv, Crash
  PROVE  EffectInv'
<1> USE DEF factVars, ledgerVars
<1>0. /\ EffectTypes /\ DriveInv /\ TelegramInv /\ ReceiptInv /\ Addressed
      /\ LoopTypes /\ LoopTypes'
  BY DEF EffectInv, LoopInv
<1>1. /\ UNCHANGED <<batches, effects, intent, outbox, accepted, noted, uploads, messages, blanked>>
      /\ done' = {}
  BY DEF Crash
<1>2. /\ call' = [c \in Calls |-> Idle] /\ doubted \subseteq doubted'
      /\ \A c \in Calls :
           call[c].pc = "sending" => <<call[c].batch, call[c].piece>> \in doubted'
      /\ \A x \in doubted' :
           x \in doubted \/ \E c \in Calls : /\ call[c].pc = "sending"
                                             /\ x = <<call[c].batch, call[c].piece>>
  BY DEF Crash
<1>3. Idle \in ToolCall /\ Idle.pc = "idle"
  BY TurnAssumption DEF Idle, ToolCall, CallPayloads, Phases
<1>4. call' \in [Calls -> ToolCall] /\ \A c \in Calls : call'[c].pc = "idle"
  BY <1>2, <1>3
<1>5. doubted' \subseteq Ids \X (1..Chunks)
  <2>1. \A c \in Calls : call[c].pc = "sending" =>
          call[c].batch \in Ids /\ call[c].piece \in 1..Chunks
    BY <1>0 DEF Addressed, TelegramInv, SendHolds
  <2> QED BY <1>0, <1>2, <2>1 DEF EffectTypes
<1>6. EffectTypes' /\ Addressed'
  BY <1>0, <1>1, <1>4, <1>5 DEF EffectTypes, Addressed
<1>7. DriveInv'
  BY <1>0, <1>1, <1>4, DriveStands
<1>8. TelegramInv'
  <2>1. ASSUME NEW b \in Ids PROVE EntryHolds(b)'
    <3>1. EntryHolds(b)
      BY <1>0 DEF TelegramInv
    <3>2. \A k : OnWire(b, k) => <<b, k>> \in doubted'
      BY <1>2 DEF OnWire
    <3> QED BY <1>1, <1>2, <3>1, <3>2 DEF EntryHolds, Pieces
  <2>2. \A c \in Calls : SendHolds(c)'
    BY <1>4 DEF SendHolds
  <2> QED BY <1>4, <2>1, <2>2 DEF TelegramInv
<1>9. ReceiptInv'
  <2>1. WithStatus("acked")' = WithStatus("acked")
    BY <1>1 DEF WithStatus
  <2> QED BY <1>0, <1>1, <2>1, ReceiptsKept
<1> QED BY <1>6, <1>7, <1>8, <1>9 DEF EffectInv

(* The initial states satisfy EffectInv.                                   *)
LEMMA InitEffects == Init => EffectInv
<1> SUFFICES ASSUME Init PROVE EffectInv
  OBVIOUS
<1>0. Chunks \in Nat \ {0} /\ 0 \in 0..Chunks /\ 1 \in 1..Chunks + 1
  BY TurnAssumption
<1>1. Idle \in ToolCall /\ Idle.pc = "idle"
  BY <1>0 DEF Idle, ToolCall, CallPayloads, Phases
<1>2. /\ NoEntry \in Entry /\ NoEntry.state = "none" /\ NoEntry.next = 1
  BY <1>0 DEF NoEntry, Entry
<1>3. call \in [Calls -> ToolCall] /\ \A c \in Calls : call[c].pc = "idle"
  BY <1>1 DEF Init
<1>4. outbox \in [Ids -> Entry] /\ \A b \in Ids : outbox[b].state = "none" /\ outbox[b].next = 1
  BY <1>2 DEF Init
<1>5. /\ effects \in [Ids -> [Tools -> EffectStates]]
      /\ \A b \in Ids, kind \in Tools : effects[b][kind] = "none"
  BY DEF Init, Tools, EffectStates
<1>6. /\ messages \in [Ids -> [1..Chunks -> Times]]
      /\ \A b \in Ids, k \in 1..Chunks : messages[b][k] = 0
  BY DEF Init, Times
<1>7. /\ uploads \in [Ids -> Times] /\ \A b \in Ids : uploads[b] = 0
      /\ intent \in [Ids -> {"none", "text", "file"}] /\ doubted = {} /\ blanked = {} /\ done = {}
  BY DEF Init, Times
<1>8. EffectTypes /\ Addressed
  BY <1>3, <1>4, <1>5, <1>6, <1>7 DEF EffectTypes, Addressed
<1>9. DriveInv
  BY <1>3, <1>5, <1>7 DEF DriveInv, Tools
<1>10. TelegramInv
  <2>1. \A b \in Ids : EntryHolds(b)
    BY <1>4, <1>5, <1>6 DEF EntryHolds, Tools
  <2>2. \A c \in Calls : SendHolds(c)
    BY <1>3 DEF SendHolds
  <2> QED BY <1>3, <2>1, <2>2 DEF TelegramInv
<1>11. ReceiptInv
  <2>1. DOMAIN batches = {}
    BY DEF Init, InboxInit
  <2> QED BY <1>7, <2>1 DEF ReceiptInv, AckedIsReceipted, WithStatus
<1> QED BY <1>8, <1>9, <1>10, <1>11 DEF EffectInv

(* Every step preserves EffectInv.                                         *)
LEMMA NextEffects ==
  ASSUME LoopInv, LoopInv', EffectInv, [Next]_vars
  PROVE  EffectInv'
<1>1. CASE Intake \/ Clock \/ Start \/ Tick \/ TurnEnds \/ Rejects
             \/ Delegate \/ NoteNoUpdate \/ UNCHANGED vars
  <2>1. UNCHANGED <<ledgerVars, call, uploads, messages, doubted, blanked>>
    BY <1>1, LoopLeavesEffects
  <2>2. EffectTypes' /\ Addressed' /\ DriveInv' /\ TelegramInv' /\ UNCHANGED effects
    BY <2>1, EffectStands DEF EffectInv, ledgerVars
  <2>3. ReceiptInv'
    BY <1>1, <2>2, LoopReceipts, DelegateReceipts DEF EffectInv
  <2> QED BY <2>2, <2>3 DEF EffectInv
<1>2. ASSUME NEW c \in Calls, DriveCall(c) \/ BlankCall(c) \/ \E p \in Payloads : TelegramCall(c, p)
      PROVE  EffectInv'
  BY <1>2, DriveCallEffects, BlankCallEffects, TelegramCallEffects
<1>3. ASSUME NEW c \in Calls, DriveAnswers(c) PROVE EffectInv'
  BY <1>3, LookedUpEffects, LookupFailsEffects, ReserveEffects, DriveEndsEffects
     DEF DriveAnswers
<1>4. ASSUME NEW c \in Calls, TelegramAnswers(c) PROVE EffectInv'
  BY <1>4, DequeueEffects, UnsendableEffects, PieceSentEffects, NextPieceEffects, RejectedEffects,
     UnansweredEffects, ConfirmedEffects DEF TelegramAnswers
<1>5. CASE World
  BY <1>5, CreatedEffects, LandedEffects DEF World
<1>6. CASE Crash
  BY <1>6, CrashEffects
<1>7. CASE Turn
  BY <1>1, <1>2, <1>3, <1>4, <1>7 DEF Turn
<1> QED BY <1>1, <1>5, <1>6, <1>7 DEF Next

----------------------------------------------------------------------------
(* The ledgers, the calls under way and the world outside agree as the     *)
(* invariant says, beside that of the loop, after every step.              *)
THEOREM EffectInvariance == Spec => []EffectInv
<1>1. Init => EffectInv
  BY InitEffects
<1>2. LoopInv /\ LoopInv' /\ EffectInv /\ [Next]_vars => EffectInv'
  BY NextEffects
<1> QED BY <1>1, <1>2, LoopInvariance, PTL DEF Spec

(* Every variable of the inbox, the loop and the effects keeps its type.   *)
THEOREM TypeCorrect == Spec => []TypeOK
<1>1. LoopInv /\ EffectInv => TypeOK
  BY DEF LoopInv, LoopTypes, EffectInv, EffectTypes, TypeOK, Tools, EffectStates, Phases,
         Entry, ToolCall, CallPayloads
<1> QED BY <1>1, LoopInvariance, EffectInvariance, PTL

(* One batch creates at most one Drive file, whatever overlaps, fails or   *)
(* restarts, and a confirmed upload is a file that exists.                 *)
THEOREM UploadSafety == Spec => []OneUpload
<1>1. EffectInv => OneUpload
  BY DEF EffectInv, DriveInv, OneUpload
<1> QED BY <1>1, EffectInvariance, PTL

(* Telegram shows a piece of a message twice only when an earlier send of  *)
(* that piece went without an answer.                                      *)
THEOREM RepeatSafety == Spec => []RepeatNeedsDoubt
<1>1. EffectInv => RepeatNeedsDoubt
  BY DEF EffectInv, TelegramInv, EntryHolds, RepeatNeedsDoubt
<1> QED BY <1>1, EffectInvariance, PTL

(* What the outbound ledger calls delivered, Telegram accepted whole; and  *)
(* a confirmed Telegram effect is delivered, or was confirmed for a blank. *)
THEOREM WholeSafety == Spec => []ConfirmedIsWhole
<1>1. EffectInv => ConfirmedIsWhole
  BY DEF EffectInv, TelegramInv, EntryHolds, ConfirmedIsWhole
<1> QED BY <1>1, EffectInvariance, PTL

(* A batch is acked only on a durable receipt, in whichever store.         *)
THEOREM AckSafety == Spec => []AckedIsReceipted
<1>1. EffectInv => AckedIsReceipted
  BY DEF EffectInv, ReceiptInv
<1> QED BY <1>1, EffectInvariance, PTL
=============================================================================
