-------------------------- MODULE OwnerEventProofs --------------------------
(***************************************************************************)
(* TLAPS proofs about the owner-event inbox and loop, for any number of    *)
(* events, batches, attempts, tool calls, crashes and faults: events are   *)
(* held once, claims are turns, turns are bounded and dead batches         *)
(* announced.  Tool calls only touch the ledgers and the history of the    *)
(* turn (CallsRest), so none of this depends on what they do; their own    *)
(* properties are proved in OwnerEffectProofs.                             *)
(***************************************************************************)
EXTENDS OwnerEvents, FiniteSetTheorems, SequenceTheorems, TLAPS

(* The part of TypeOK that the loop and the inbox write.                   *)
LoopTypes ==
  /\ InboxTypeOK /\ Len(batches) <= MaxBatches
  /\ up \in BOOLEAN
  /\ step \in {"idle", "alert", "alertEnd", "loop", "prep", "run"}
  /\ cur \in DOMAIN batches \cup {0}
  /\ (cur # 0) <=> (step \in {"prep", "run"})
  /\ processed \in 0..PerTick
  /\ dying \subseteq Ids
  /\ announced \subseteq Ids /\ unheard \subseteq Ids /\ lost \subseteq Ids
  /\ done \subseteq {"acted", "delegated"}
  /\ accepted \subseteq Ids /\ noted \subseteq Ids
  /\ turns \in [Ids -> Nat]
  /\ crashes \in Nat /\ faults \in Nat

(* A tick does not end a turn past its bound, and leaves the alerts of one *)
(* round before it begins another.                                         *)
Ordered ==
  /\ step \in {"prep", "run"} => processed < PerTick
  /\ step \notin {"alert", "alertEnd"} => dying = {}

(* EventsHeldOnce, with the per-event dedupe table in between.             *)
Held ==
  /\ \A a, b \in DOMAIN batches : a # b => batches[a].events \cap batches[b].events = {}
  /\ \A b \in DOMAIN batches : batches[b].events \subseteq seen
  /\ \A e \in seen : \E b \in DOMAIN batches : e \in batches[b].events
  /\ cursor \cup handed \subseteq seen

(* TurnBudget: every turn but the one in hand is paid for by an attempt.   *)
Unpaid(b) == IF b = cur /\ step = "prep" THEN 0 ELSE 1

PaidFor(b) ==
  /\ turns[b] <= MaxAttempts
  /\ batches[b].status = "pending" =>
       turns[b] <= batches[b].attempts /\ batches[b].attempts < MaxAttempts
  /\ batches[b].status = "claimed" =>
       turns[b] <= batches[b].attempts + Unpaid(b) /\ batches[b].attempts < MaxAttempts

Paid ==
  /\ \A b \in DOMAIN batches : PaidFor(b)
  /\ \A b \in Ids \ DOMAIN batches : turns[b] = 0

LoopInv == LoopTypes /\ Ordered /\ Held /\ Paid /\ ClaimIsTurn /\ DeadIsAnnounced

----------------------------------------------------------------------------
(***************************************************************************)
(* The transactions of the inbox, seen as changes of the table.            *)
(***************************************************************************)
LEMMA BatchAt ==
  ASSUME NEW rs \in Seq(Batch), NEW b \in DOMAIN rs
  PROVE  /\ rs[b] \in Batch
         /\ rs[b].events \subseteq Events /\ rs[b].attempts \in Nat /\ rs[b].due \in BOOLEAN
         /\ rs[b].status \in {"pending", "claimed", "acked", "dead"}
         /\ DOMAIN rs = 1..Len(rs) /\ Len(rs) \in Nat
<1>1. rs[b] \in Batch /\ DOMAIN rs = 1..Len(rs) /\ Len(rs) \in Nat
  BY LenProperties
<1> QED BY <1>1 DEF Batch

(* The table rt has the same batches, with the same events.                *)
SameBatches(rt) ==
  /\ rt \in Seq(Batch)
  /\ Len(rt) = Len(batches) /\ DOMAIN rt = DOMAIN batches
  /\ \A a \in DOMAIN batches : rt[a].events = batches[a].events

(* Only batch b is another one.                                            *)
Moved(rt, b, status, attempts, due) ==
  /\ SameBatches(rt)
  /\ \A a \in DOMAIN batches : a # b => rt[a] = batches[a]
  /\ rt[b].status = status /\ rt[b].attempts = attempts /\ rt[b].due = due

(* One batch replaced by one with the same events.                         *)
LEMMA MoveShape ==
  ASSUME batches \in Seq(Batch), NEW b \in DOMAIN batches,
         NEW r \in Batch, r.events = batches[b].events
  PROVE  Moved([batches EXCEPT ![b] = r], b, r.status, r.attempts, r.due)
<1> DEFINE rt == [batches EXCEPT ![b] = r]
<1>1. batches \in [1..Len(batches) -> Batch] /\ DOMAIN batches = 1..Len(batches)
  BY LenProperties
<1>2. /\ rt \in Seq(Batch) /\ Len(rt) = Len(batches)
      /\ \A a \in 1..Len(batches) : rt[a] = IF a = b THEN r ELSE batches[a]
  BY <1>1, ExceptSeq
<1>3. DOMAIN rt = DOMAIN batches
  BY <1>1
<1> QED BY <1>1, <1>2, <1>3 DEF Moved, SameBatches

(* The fields of a batch after each of its moves.                          *)
LEMMA RecordMoves ==
  ASSUME NEW r \in Batch
  PROVE  /\ LET q == [r EXCEPT !.status = "acked"] IN
              q \in Batch /\ q.events = r.events /\ q.status = "acked"
                /\ q.attempts = r.attempts /\ q.due = r.due
         /\ LET q == [r EXCEPT !.status = "dead"] IN
              q \in Batch /\ q.events = r.events /\ q.status = "dead"
                /\ q.attempts = r.attempts /\ q.due = r.due
         /\ LET q == [r EXCEPT !.status = "claimed", !.due = FALSE] IN
              q \in Batch /\ q.events = r.events /\ q.status = "claimed"
                /\ q.attempts = r.attempts /\ q.due = FALSE
         /\ LET q == [r EXCEPT !.due = TRUE] IN
              q \in Batch /\ q.events = r.events /\ q.status = r.status
                /\ q.attempts = r.attempts /\ q.due = TRUE
         /\ Retried(r) \in Batch /\ Retried(r).events = r.events
              /\ Retried(r).status = (IF r.attempts + 1 >= MaxAttempts THEN "dead" ELSE "pending")
              /\ Retried(r).attempts = r.attempts + 1 /\ Retried(r).due = FALSE
<1>1. LET q == [r EXCEPT !.status = "acked"] IN
        q \in Batch /\ q.events = r.events /\ q.status = "acked"
          /\ q.attempts = r.attempts /\ q.due = r.due
  BY DEF Batch
<1>2. LET q == [r EXCEPT !.status = "dead"] IN
        q \in Batch /\ q.events = r.events /\ q.status = "dead"
          /\ q.attempts = r.attempts /\ q.due = r.due
  BY DEF Batch
<1>3. LET q == [r EXCEPT !.status = "claimed", !.due = FALSE] IN
        q \in Batch /\ q.events = r.events /\ q.status = "claimed"
          /\ q.attempts = r.attempts /\ q.due = FALSE
  BY DEF Batch
<1>4. LET q == [r EXCEPT !.due = TRUE] IN
        q \in Batch /\ q.events = r.events /\ q.status = r.status
          /\ q.attempts = r.attempts /\ q.due = TRUE
  BY DEF Batch
<1>5. Retried(r) \in Batch /\ Retried(r).events = r.events
        /\ Retried(r).status = (IF r.attempts + 1 >= MaxAttempts THEN "dead" ELSE "pending")
        /\ Retried(r).attempts = r.attempts + 1 /\ Retried(r).due = FALSE
  <2> DEFINE status == IF r.attempts + 1 >= MaxAttempts THEN "dead" ELSE "pending"
             more   == r.attempts + 1
  <2>1. Retried(r) = [r EXCEPT !.status = status, !.attempts = more, !.due = FALSE]
    BY DEF Retried
  <2>2. status \in {"dead", "pending"} /\ more \in Nat
    BY DEF Batch
  <2> HIDE DEF status, more
  <2>3. Retried(r) \in Batch /\ Retried(r).events = r.events /\ Retried(r).status = status
          /\ Retried(r).attempts = more /\ Retried(r).due = FALSE
    BY <2>1, <2>2 DEF Batch
  <2> QED BY <2>3 DEF status, more
<1> QED BY <1>1, <1>2, <1>3, <1>4, <1>5

(* The four moves of a batch, as changes of the table.                     *)
LEMMA BatchMoves ==
  ASSUME batches \in Seq(Batch), NEW b \in DOMAIN batches
  PROVE  /\ Moved(Acked(b), b, "acked", batches[b].attempts, batches[b].due)
         /\ Moved(ClaimedBatch(b), b, "claimed", batches[b].attempts, FALSE)
         /\ Moved(RetriedBatch(b), b,
                  IF batches[b].attempts + 1 >= MaxAttempts THEN "dead" ELSE "pending",
                  batches[b].attempts + 1, FALSE)
         /\ Moved([batches EXCEPT ![b].due = TRUE], b, batches[b].status,
                  batches[b].attempts, TRUE)
<1>1. batches[b] \in Batch
  BY BatchAt
<1>2. Moved(Acked(b), b, "acked", batches[b].attempts, batches[b].due)
  <2> DEFINE q == [batches[b] EXCEPT !.status = "acked"]
  <2>1. Acked(b) = [batches EXCEPT ![b] = q]
    BY DEF Acked
  <2>2. q \in Batch /\ q.events = batches[b].events /\ q.status = "acked"
          /\ q.attempts = batches[b].attempts /\ q.due = batches[b].due
    BY <1>1, RecordMoves
  <2> HIDE DEF q
  <2> QED BY <2>1, <2>2, MoveShape
<1>3. Moved(ClaimedBatch(b), b, "claimed", batches[b].attempts, FALSE)
  <2> DEFINE q == [batches[b] EXCEPT !.status = "claimed", !.due = FALSE]
  <2>1. ClaimedBatch(b) = [batches EXCEPT ![b] = q]
    BY <1>1, LenProperties DEF ClaimedBatch
  <2>2. q \in Batch /\ q.events = batches[b].events /\ q.status = "claimed"
          /\ q.attempts = batches[b].attempts /\ q.due = FALSE
    BY <1>1, RecordMoves
  <2> HIDE DEF q
  <2> QED BY <2>1, <2>2, MoveShape
<1>4. Moved(RetriedBatch(b), b,
            IF batches[b].attempts + 1 >= MaxAttempts THEN "dead" ELSE "pending",
            batches[b].attempts + 1, FALSE)
  <2> DEFINE q == Retried(batches[b])
  <2>1. RetriedBatch(b) = [batches EXCEPT ![b] = q]
    BY DEF RetriedBatch
  <2>2. q \in Batch /\ q.events = batches[b].events
          /\ q.status = (IF batches[b].attempts + 1 >= MaxAttempts THEN "dead" ELSE "pending")
          /\ q.attempts = batches[b].attempts + 1 /\ q.due = FALSE
    BY <1>1, RecordMoves
  <2> HIDE DEF q
  <2>3. Moved([batches EXCEPT ![b] = q], b, q.status, q.attempts, q.due)
    BY <2>2, MoveShape
  <2> QED BY <2>1, <2>2, <2>3
<1>5. Moved([batches EXCEPT ![b].due = TRUE], b, batches[b].status, batches[b].attempts, TRUE)
  <2> DEFINE q == [batches[b] EXCEPT !.due = TRUE]
  <2>1. [batches EXCEPT ![b].due = TRUE] = [batches EXCEPT ![b] = q]
    OBVIOUS
  <2>2. q \in Batch /\ q.events = batches[b].events /\ q.status = batches[b].status
          /\ q.attempts = batches[b].attempts /\ q.due = TRUE
    BY <1>1, RecordMoves
  <2> HIDE DEF q
  <2> QED BY <2>1, <2>2, MoveShape
<1> QED BY <1>2, <1>3, <1>4, <1>5

(* The replay of stale claims and of batches that grew too old.            *)
LEMMA ReplayShape ==
  ASSUME batches \in Seq(Batch), NEW n
  PROVE  /\ SameBatches(Replayed(n))
         /\ \A b \in DOMAIN batches :
              Replayed(n)[b] = IF b \in Stale THEN Retried(batches[b])
                               ELSE IF b \in Expired(n) THEN [batches[b] EXCEPT !.status = "dead"]
                               ELSE batches[b]
<1> DEFINE new(b) == IF b \in Stale THEN Retried(batches[b])
                     ELSE IF b \in Expired(n) THEN [batches[b] EXCEPT !.status = "dead"]
                     ELSE batches[b]
<1>1. DOMAIN batches = 1..Len(batches) /\ Len(batches) \in Nat
  BY LenProperties
<1>2. \A b \in 1..Len(batches) : new(b) \in Batch /\ new(b).events = batches[b].events
  <2> TAKE b \in 1..Len(batches)
  <2>1. batches[b] \in Batch
    BY <1>1, BatchAt
  <2> QED BY <2>1, RecordMoves
<1>3. Replayed(n) = [b \in 1..Len(batches) |-> new(b)]
  BY <1>1 DEF Replayed
<1> HIDE DEF new
<1>4. [b \in 1..Len(batches) |-> new(b)] \in [1..Len(batches) -> Batch]
  BY <1>2
<1>5. Replayed(n) \in Seq(Batch)
  BY <1>1, <1>3, <1>4, SeqDef
<1>6. DOMAIN Replayed(n) = 1..Len(batches)
  BY <1>3
<1>7. Len(Replayed(n)) = Len(batches)
  BY <1>1, <1>5, <1>6, LenProperties
<1>8. \A b \in DOMAIN batches : Replayed(n)[b] = new(b)
  BY <1>1, <1>3
<1> QED BY <1>1, <1>2, <1>5, <1>6, <1>7, <1>8 DEF SameBatches, new

(* Each batch that a replay reports has been parked dead by it.            *)
LEMMA NewlyDeadDie ==
  ASSUME batches \in Seq(Batch), NEW n, NEW b \in NewlyDead(n)
  PROVE  b \in DOMAIN batches /\ Replayed(n)[b].status = "dead"
<1>1. b \in DOMAIN batches
  BY DEF NewlyDead, Expired, Stale, WithStatus
<1>2. batches[b] \in Batch
  BY <1>1, BatchAt
<1>3. Replayed(n)[b] = IF b \in Stale THEN Retried(batches[b])
                       ELSE IF b \in Expired(n) THEN [batches[b] EXCEPT !.status = "dead"]
                       ELSE batches[b]
  BY <1>1, ReplayShape
<1>4. CASE b \in Stale
  <2>1. batches[b].attempts + 1 >= MaxAttempts
    BY <1>4 DEF NewlyDead, Expired, Stale, WithStatus
  <2>2. Retried(batches[b]).status = "dead"
    BY <1>2, <2>1, RecordMoves
  <2> QED BY <1>1, <1>3, <1>4, <2>2
<1>5. CASE b \notin Stale
  <2>1. b \in Expired(n)
    BY <1>5 DEF NewlyDead
  <2>2. [batches[b] EXCEPT !.status = "dead"].status = "dead"
    BY <1>2, RecordMoves
  <2> QED BY <1>1, <1>3, <1>5, <2>1, <2>2
<1> QED BY <1>4, <1>5

(* The old batches parked, and nothing replayed yet.                       *)
LEMMA ParkedShape ==
  ASSUME batches \in Seq(Batch), NEW n
  PROVE  /\ SameBatches(Parked(n))
         /\ \A b \in DOMAIN batches :
              /\ b \in Expired(n) => Parked(n)[b].status = "dead"
              /\ b \notin Expired(n) => Parked(n)[b] = batches[b]
<1> DEFINE new(b) == IF b \in Expired(n) THEN [batches[b] EXCEPT !.status = "dead"] ELSE batches[b]
<1>1. DOMAIN batches = 1..Len(batches) /\ Len(batches) \in Nat
  BY LenProperties
<1>2. \A b \in 1..Len(batches) : /\ new(b) \in Batch /\ new(b).events = batches[b].events
                                 /\ b \in Expired(n) => new(b).status = "dead"
                                 /\ b \notin Expired(n) => new(b) = batches[b]
  <2> TAKE b \in 1..Len(batches)
  <2>1. batches[b] \in Batch
    BY <1>1, BatchAt
  <2> QED BY <2>1, RecordMoves
<1>3. Parked(n) = [b \in 1..Len(batches) |-> new(b)]
  BY <1>1 DEF Parked
<1> HIDE DEF new
<1>4. [b \in 1..Len(batches) |-> new(b)] \in [1..Len(batches) -> Batch]
  BY <1>2
<1>5. Parked(n) \in Seq(Batch)
  BY <1>1, <1>3, <1>4, SeqDef
<1>6. DOMAIN Parked(n) = 1..Len(batches)
  BY <1>3
<1>7. Len(Parked(n)) = Len(batches)
  BY <1>1, <1>5, <1>6, LenProperties
<1>8. \A b \in DOMAIN batches : Parked(n)[b] = new(b)
  BY <1>1, <1>3
<1> QED BY <1>1, <1>2, <1>5, <1>6, <1>7, <1>8 DEF SameBatches

----------------------------------------------------------------------------
(* The initial states satisfy LoopInv.                                     *)
LEMMA InitLoop == Init => LoopInv
<1> SUFFICES ASSUME Init PROVE LoopInv
  OBVIOUS
<1>1. batches = <<>> /\ DOMAIN batches = {} /\ Len(batches) = 0 /\ batches \in Seq(Batch)
  BY DEF Init, InboxInit
<1>2. LoopTypes
  <2>1. InboxTypeOK
    BY <1>1 DEF Init, InboxInit, InboxTypeOK
  <2>2. turns \in [Ids -> Nat]
    BY DEF Init
  <2>3. Len(batches) <= MaxBatches /\ processed \in 0..PerTick
    BY <1>1, InboxAssumption, TurnAssumption DEF Init
  <2> QED BY <2>1, <2>2, <2>3 DEF Init, LoopTypes
<1>3. Ordered /\ Held
  BY <1>1 DEF Init, InboxInit, Ordered, Held
<1>4. Paid
  BY <1>1 DEF Init, Paid, PaidFor
<1>5. ClaimIsTurn
  <2>1. WithStatus("claimed") \ {cur} = {}
    BY <1>1 DEF WithStatus
  <2>2. Cardinality(WithStatus("claimed") \ {cur}) = 0
    BY <2>1, FS_EmptySet
  <2> QED BY <2>2 DEF Init, ClaimIsTurn
<1>6. DeadIsAnnounced
  <2>1. WithStatus("dead") = {}
    BY <1>1 DEF WithStatus
  <2>2. dying = {} /\ announced = {} /\ unheard = {} /\ lost = {}
    BY DEF Init
  <2> QED BY <2>1, <2>2 DEF DeadIsAnnounced
<1> QED BY <1>2, <1>3, <1>4, <1>5, <1>6 DEF LoopInv

(* What the loop knows of its table.                                       *)
LEMMA TableFacts ==
  ASSUME LoopTypes
  PROVE  /\ batches \in Seq(Batch) /\ Len(batches) \in Nat /\ MaxBatches \in Nat
         /\ DOMAIN batches = 1..Len(batches) /\ DOMAIN batches \subseteq Ids
         /\ \A b \in DOMAIN batches :
              batches[b].attempts \in Nat /\ turns[b] \in Nat
                /\ batches[b].status \in {"pending", "claimed", "acked", "dead"}
<1>1. batches \in Seq(Batch) /\ Len(batches) <= MaxBatches /\ MaxBatches \in Nat
  BY InboxAssumption DEF LoopTypes, InboxTypeOK
<1>2. DOMAIN batches = 1..Len(batches) /\ Len(batches) \in Nat
  BY <1>1, LenProperties
<1>3. DOMAIN batches \subseteq Ids
  BY <1>1, <1>2 DEF Ids
<1> QED BY <1>1, <1>2, <1>3, BatchAt DEF LoopTypes

(* A step that leaves the events of the batches alone keeps Held.          *)
LEMMA HeldRests ==
  ASSUME Held, SameBatches(batches'), seen' = seen, cursor' \cup handed' \subseteq seen
  PROVE  Held'
BY DEF Held, SameBatches

(* The arithmetic of paid turns.                                           *)
LEMMA SumBound ==
  ASSUME NEW m \in Nat, NEW n \in Nat, NEW p \in Nat, NEW q \in Nat,
         NEW x \in Nat, NEW y \in Nat, y <= m + n
  PROVE  /\ x <= y /\ m + n <= p + q => x <= p + q
         /\ x <= y + 1 /\ m + n + 1 <= p + q => x <= p + q
OBVIOUS

(* A sum that grows stays above zero.                                      *)
LEMMA SumAbove ==
  ASSUME NEW m \in Nat, NEW n \in Nat, NEW p \in Nat, NEW q \in Nat,
         m + n <= p + q, m + n > 0
  PROVE  p + q > 0
OBVIOUS

(* Claims that are nobody's turn become no more than deaths and rejects.   *)
LEMMA CountRests ==
  ASSUME LoopTypes, LoopTypes', ClaimIsTurn,
         cur' # 0 => cur' \in WithStatus("claimed")',
         \/ /\ WithStatus("claimed")' \ {cur'} \subseteq WithStatus("claimed") \ {cur}
            /\ crashes + faults <= crashes' + faults'
         \/ /\ \E x : WithStatus("claimed")' \ {cur'} \subseteq (WithStatus("claimed") \ {cur}) \cup {x}
            /\ crashes + faults + 1 <= crashes' + faults'
  PROVE  ClaimIsTurn'
<1> DEFINE S == WithStatus("claimed") \ {cur}
           T == WithStatus("claimed")' \ {cur'}
<1>1. IsFiniteSet(S)
  <2>1. IsFiniteSet(DOMAIN batches)
    BY TableFacts, FS_Interval
  <2> QED BY <2>1, FS_Subset DEF WithStatus
<1>2. Cardinality(S) \in Nat /\ Cardinality(S) <= crashes + faults
  BY <1>1, FS_CardinalityType DEF ClaimIsTurn
<1>3. crashes \in Nat /\ faults \in Nat /\ crashes' \in Nat /\ faults' \in Nat
  BY DEF LoopTypes
<1>4. CASE T \subseteq S /\ crashes + faults <= crashes' + faults'
  <2> HIDE DEF S, T
  <2>1. IsFiniteSet(T) /\ Cardinality(T) <= Cardinality(S)
    BY <1>1, <1>4, FS_Subset
  <2>2. Cardinality(T) \in Nat
    BY <2>1, FS_CardinalityType
  <2>3. Cardinality(T) <= crashes' + faults'
    BY <1>2, <1>3, <1>4, <2>1, <2>2, SumBound
  <2> QED BY <2>3 DEF ClaimIsTurn, T
<1>5. CASE (\E x : T \subseteq S \cup {x}) /\ crashes + faults + 1 <= crashes' + faults'
  <2>0. PICK x : T \subseteq S \cup {x}
    BY <1>5
  <2> HIDE DEF S, T
  <2>1. /\ IsFiniteSet(S \cup {x})
        /\ Cardinality(S \cup {x}) \in {Cardinality(S), Cardinality(S) + 1}
    BY <1>1, FS_AddElement
  <2>2. IsFiniteSet(T) /\ Cardinality(T) <= Cardinality(S \cup {x})
    BY <2>0, <2>1, FS_Subset
  <2>3. Cardinality(T) \in Nat
    BY <2>2, FS_CardinalityType
  <2>4. Cardinality(T) <= Cardinality(S) + 1
    BY <1>2, <2>1, <2>2, <2>3
  <2>5. Cardinality(T) <= crashes' + faults'
    BY <1>2, <1>3, <1>5, <2>3, <2>4, SumBound
  <2> QED BY <2>5 DEF ClaimIsTurn, T
<1> QED BY <1>4, <1>5

(* A step that neither kills a batch nor concerns its alert.               *)
LEMMA AlertsRest ==
  ASSUME LoopTypes, DeadIsAnnounced, WithStatus("dead")' = WithStatus("dead"),
         UNCHANGED <<dying, announced, unheard, lost>>,
         crashes' \in Nat, faults' \in Nat, crashes + faults <= crashes' + faults'
  PROVE  DeadIsAnnounced'
<1>1. lost # {} => crashes' + faults' > 0
  <2>1. lost # {} => crashes + faults > 0
    BY DEF DeadIsAnnounced
  <2>2. crashes \in Nat /\ faults \in Nat
    BY DEF LoopTypes
  <2>3. crashes + faults > 0 => crashes' + faults' > 0
    BY <2>2, SumAbove
  <2> QED BY <2>1, <2>3, Zenon
<1> QED BY <1>1 DEF DeadIsAnnounced

(* A step that leaves the table and the loop where they are.               *)
LEMMA LoopRests ==
  ASSUME LoopInv, UNCHANGED <<inboxVars, up, step, cur, processed, dying, announced, unheard, lost, turns>>,
         UNCHANGED <<crashes, faults>>,
         done' \subseteq {"acted", "delegated"}, accepted' \subseteq Ids, noted' \subseteq Ids
  PROVE  LoopInv'
<1>1. LoopTypes'
  BY DEF LoopInv, LoopTypes, InboxTypeOK, inboxVars
<1>2. Ordered' /\ Held'
  BY DEF LoopInv, Ordered, Held, inboxVars
<1>3. Paid'
  BY DEF LoopInv, Paid, PaidFor, Unpaid, inboxVars
<1>4. ClaimIsTurn' /\ DeadIsAnnounced'
  BY DEF LoopInv, ClaimIsTurn, DeadIsAnnounced, WithStatus, inboxVars
<1> QED BY <1>1, <1>2, <1>3, <1>4 DEF LoopInv

----------------------------------------------------------------------------
(* The drain: a batch is appended, or its events are all known already.    *)
LEMMA DeliverLoop ==
  ASSUME LoopInv, NEW es \in SUBSET Events, Deliver(es),
         UNCHANGED <<loopVars, factVars, announced, unheard, lost, turns, boundVars>>
  PROVE  LoopInv'
<1> USE DEF loopVars, factVars, boundVars
<1>0. LoopTypes /\ Held
  BY DEF LoopInv
<1>1. CASE Fresh(es) = {}
  <2>1. UNCHANGED batches /\ UNCHANGED seen /\ UNCHANGED cursor /\ handed' = handed \cup es
    BY <1>1 DEF Deliver
  <2>2. es \subseteq seen
    BY <1>1 DEF Fresh
  <2>3. LoopTypes'
    BY <1>0, <2>1 DEF LoopTypes, InboxTypeOK
  <2>4. Held'
    BY <1>0, <2>1, <2>2 DEF Held
  <2>5. Ordered' /\ Paid'
    BY <2>1 DEF LoopInv, Ordered, Paid, PaidFor, Unpaid
  <2>6. ClaimIsTurn' /\ DeadIsAnnounced'
    BY <2>1 DEF LoopInv, ClaimIsTurn, DeadIsAnnounced, WithStatus
  <2> QED BY <2>3, <2>4, <2>5, <2>6 DEF LoopInv
<1>2. CASE Fresh(es) # {}
  <2> DEFINE r == NewBatch(Fresh(es))
             n == Len(batches) + 1
  <2>1. /\ Len(batches) < MaxBatches /\ batches' = Append(batches, r)
        /\ seen' = seen \cup Fresh(es) /\ UNCHANGED cursor /\ handed' = handed \cup es
        /\ es \subseteq Events
    BY <1>2 DEF Deliver
  <2>2. r \in Batch /\ r.events = Fresh(es) /\ r.status = "pending" /\ r.attempts = 0
    BY <2>1 DEF NewBatch, Batch, Fresh
  <2> HIDE DEF r
  <2>3. /\ batches \in Seq(Batch) /\ Len(batches) \in Nat /\ DOMAIN batches = 1..Len(batches)
        /\ MaxBatches \in Nat
    BY <1>0, TableFacts
  <2>4. /\ batches' \in Seq(Batch) /\ Len(batches') = n
        /\ \A b \in 1..Len(batches) : batches'[b] = batches[b]
        /\ batches'[n] = r
    BY <2>1, <2>2, <2>3, AppendProperties
  <2>5. DOMAIN batches' = 1..n /\ n \in Ids /\ n \notin DOMAIN batches
        /\ DOMAIN batches' = DOMAIN batches \cup {n}
    BY <2>1, <2>3, <2>4, LenProperties DEF Ids
  <2>6. \A b \in DOMAIN batches : batches'[b] = batches[b]
    BY <2>3, <2>4
  <2> HIDE DEF n
  <2>7. LoopTypes'
    <3>1. InboxTypeOK'
      BY <1>0, <2>1, <2>4 DEF LoopTypes, InboxTypeOK, Fresh
    <3>2. Len(batches') <= MaxBatches
      BY <2>1, <2>3, <2>4 DEF n
    <3>3. cur' \in DOMAIN batches' \cup {0}
      BY <1>0, <2>5 DEF LoopTypes
    <3> QED BY <1>0, <3>1, <3>2, <3>3 DEF LoopTypes
  <2>8. Held'
    <3>1. \A b \in DOMAIN batches : batches[b].events \cap Fresh(es) = {}
      BY <1>0 DEF Held, Fresh
    <3>2. \A a, b \in DOMAIN batches' : a # b => batches'[a].events \cap batches'[b].events = {}
      <4>1. \A a, b \in DOMAIN batches :
              a # b => batches'[a].events \cap batches'[b].events = {}
        BY <1>0, <2>6 DEF Held
      <4>2. batches'[n].events = Fresh(es)
        BY <2>2, <2>4
      <4>3. \A b \in DOMAIN batches : batches'[b].events \cap batches'[n].events = {}
        BY <2>6, <3>1, <4>2
      <4> QED BY <2>5, <4>1, <4>3
    <3>3. \A b \in DOMAIN batches' : batches'[b].events \subseteq seen'
      BY <1>0, <2>1, <2>2, <2>4, <2>5, <2>6 DEF Held
    <3>5. \A e \in seen' : \E b \in DOMAIN batches' : e \in batches'[b].events
      <4> TAKE e \in seen'
      <4>1. CASE e \in Fresh(es)
        BY <2>2, <2>4, <2>5, <4>1
      <4>2. CASE e \in seen
        <5>1. PICK b \in DOMAIN batches : e \in batches[b].events
          BY <1>0, <4>2 DEF Held
        <5> QED BY <2>5, <2>6, <5>1
      <4> QED BY <2>1, <4>1, <4>2
    <3>4. cursor' \cup handed' \subseteq seen'
      BY <1>0, <2>1 DEF Held, Fresh
    <3> QED BY <3>2, <3>3, <3>4, <3>5 DEF Held
  <2>9. Ordered' /\ cur # n
    BY <1>0, <2>3, <2>5, InboxAssumption DEF LoopInv, Ordered, LoopTypes, Ids
  <2>10. Paid'
    <3>1. turns'[n] = 0 /\ 0 < MaxAttempts /\ 0 <= MaxAttempts
      BY <2>5, InboxAssumption DEF LoopInv, Paid, PaidFor
    <3>2. \A b \in DOMAIN batches : Unpaid(b)' = Unpaid(b)
      BY DEF Unpaid
    <3>3. UNCHANGED turns /\ Paid
      BY DEF LoopInv
    <3>4. ASSUME NEW b \in DOMAIN batches'
          PROVE  PaidFor(b)'
      <4>1. CASE b = n
        BY <2>2, <2>4, <3>1, <4>1 DEF PaidFor
      <4>2. CASE b \in DOMAIN batches
        BY <2>6, <3>2, <3>3, <4>2 DEF Paid, PaidFor
      <4> QED BY <2>5, <4>1, <4>2
    <3>5. \A b \in Ids \ DOMAIN batches' : turns'[b] = 0
      BY <2>5, <3>3 DEF Paid, PaidFor
    <3> QED BY <3>4, <3>5 DEF Paid, PaidFor
  <2>11. WithStatus("claimed")' = WithStatus("claimed") /\ WithStatus("dead")' = WithStatus("dead")
    BY <2>2, <2>4, <2>5, <2>6 DEF WithStatus
  <2>12. ClaimIsTurn' /\ DeadIsAnnounced'
    BY <2>11 DEF LoopInv, ClaimIsTurn, DeadIsAnnounced
  <2> QED BY <2>7, <2>8, <2>9, <2>10, <2>12 DEF LoopInv
<1> QED BY <1>1, <1>2

(* The drain keeps LoopInv.                                                *)
LEMMA IntakeLoop ==
  ASSUME LoopInv, Intake
  PROVE  LoopInv'
<1> USE DEF loopVars, factVars, worldVars, alertVars, boundVars
<1>1. CASE \E es \in SUBSET Events : Deliver(es)
  BY <1>1, DeliverLoop DEF Intake, DrainEnds, Commit, DrainFails, Deliver
<1>2. CASE DrainEnds
  <2>1. /\ UNCHANGED <<batches, seen, up, step, cur, processed, dying, done, accepted, noted>>
        /\ UNCHANGED <<announced, unheard, lost, turns, crashes>>
        /\ handed' = {} /\ cursor' \subseteq cursor \cup handed
        /\ faults' \in {faults, faults + 1}
    BY <1>2 DEF DrainEnds, Commit, DrainFails
  <2>2. faults \in Nat /\ crashes \in Nat
    BY DEF LoopInv, LoopTypes
  <2>3. LoopTypes'
    BY <2>1, <2>2 DEF LoopInv, LoopTypes, InboxTypeOK
  <2>4. Held'
    BY <2>1 DEF LoopInv, Held
  <2>5. Ordered' /\ Paid'
    BY <2>1 DEF LoopInv, Ordered, Paid, PaidFor, Unpaid
  <2>0. crashes + faults <= crashes' + faults'
    <3>1. CASE faults' = faults
      BY <2>1, <2>2, <3>1
    <3>2. CASE faults' = faults + 1
      BY <2>1, <2>2, <3>2
    <3> QED BY <2>1, <3>1, <3>2
  <2>6. DeadIsAnnounced'
    <3>1. WithStatus("dead")' = WithStatus("dead")
      BY <2>1 DEF WithStatus
    <3>2. crashes' \in Nat /\ faults' \in Nat
      BY <2>3 DEF LoopTypes
    <3> QED BY <2>0, <2>1, <3>1, <3>2, AlertsRest DEF LoopInv
  <2>7. ClaimIsTurn'
    <3>1. WithStatus("claimed")' = WithStatus("claimed")
      BY <2>1 DEF WithStatus
    <3> QED BY <2>0, <2>1, <2>3, <3>1, CountRests DEF LoopInv, ClaimIsTurn
  <2> QED BY <2>3, <2>4, <2>5, <2>6, <2>7 DEF LoopInv
<1> QED BY <1>1, <1>2 DEF Intake

----------------------------------------------------------------------------
(* What a move of one batch does to the sets of batches by status.         *)
LEMMA StatusMoves ==
  ASSUME LoopTypes, NEW b \in DOMAIN batches, NEW status, NEW attempts, NEW due,
         Moved(batches', b, status, attempts, due)
  PROVE  /\ DOMAIN batches' = DOMAIN batches /\ SameBatches(batches')
         /\ \A a \in DOMAIN batches : a # b => batches'[a] = batches[a]
         /\ batches'[b].status = status /\ batches'[b].attempts = attempts
         /\ \A s : WithStatus(s)' = IF s = status THEN WithStatus(s) \cup {b}
                                   ELSE WithStatus(s) \ {b}
         /\ InboxTypeOK /\ UNCHANGED <<seen, cursor, handed>> => InboxTypeOK'
         /\ Len(batches') <= MaxBatches
<1>1. /\ DOMAIN batches' = DOMAIN batches /\ batches'[b].status = status
      /\ \A a \in DOMAIN batches : a # b => batches'[a] = batches[a]
  BY DEF Moved, SameBatches
<1>2. ASSUME NEW s
      PROVE  WithStatus(s)' = IF s = status THEN WithStatus(s) \cup {b} ELSE WithStatus(s) \ {b}
  BY <1>1 DEF WithStatus
<1> QED BY <1>1, <1>2 DEF Moved, SameBatches, InboxTypeOK, LoopTypes

(* A step that concerns one batch keeps Paid if that batch is paid for.    *)
LEMMA PaidMoves ==
  ASSUME LoopInv, NEW b \in DOMAIN batches, DOMAIN batches' = DOMAIN batches,
         \A a \in DOMAIN batches : a # b =>
           batches'[a] = batches[a] /\ turns'[a] = turns[a] /\ Unpaid(a)' = Unpaid(a),
         \A a \in Ids \ DOMAIN batches : turns'[a] = turns[a],
         PaidFor(b)'
  PROVE  Paid'
<1>1. ASSUME NEW a \in DOMAIN batches, a # b PROVE PaidFor(a)'
  <2>1. PaidFor(a)
    BY DEF LoopInv, Paid
  <2> QED BY <1>1, <2>1 DEF PaidFor
<1> QED BY <1>1 DEF LoopInv, Paid

(* Leases and back-offs that run out keep LoopInv.                         *)
LEMMA ClockLoop ==
  ASSUME LoopInv, Clock
  PROVE  LoopInv'
<1> USE DEF loopVars, factVars, worldVars, alertVars, boundVars
<1>0. LoopTypes
  BY DEF LoopInv
<1>1. PICK b \in DOMAIN batches : Elapse(b)
  BY DEF Clock
<1>2. /\ Moved(batches', b, batches[b].status, batches[b].attempts, TRUE)
      /\ UNCHANGED <<seen, cursor, handed, up, step, cur, processed, dying, done>>
      /\ UNCHANGED <<accepted, noted, announced, unheard, lost, turns, crashes, faults>>
  BY <1>0, <1>1, TableFacts, BatchMoves DEF Elapse, Clock
<1>3. /\ DOMAIN batches' = DOMAIN batches /\ SameBatches(batches') /\ InboxTypeOK'
      /\ Len(batches') <= MaxBatches
      /\ \A a \in DOMAIN batches : batches'[a].status = batches[a].status
                                 /\ batches'[a].attempts = batches[a].attempts
  BY <1>0, <1>2, StatusMoves DEF LoopTypes
<1>4. \A s : WithStatus(s)' = WithStatus(s)
  BY <1>3 DEF WithStatus
<1>5. LoopTypes'
  BY <1>0, <1>2, <1>3 DEF LoopTypes
<1>6. Held'
  BY <1>2, <1>3, HeldRests DEF LoopInv, Held
<1>7. Ordered' /\ Paid'
  BY <1>2, <1>3 DEF LoopInv, Ordered, Paid, PaidFor, Unpaid
<1>8. ClaimIsTurn' /\ DeadIsAnnounced'
  BY <1>2, <1>4 DEF LoopInv, ClaimIsTurn, DeadIsAnnounced
<1> QED BY <1>5, <1>6, <1>7, <1>8 DEF LoopInv

----------------------------------------------------------------------------
(* The tick: replay, alerts, claims.                                       *)
LEMMA TickStartLoop ==
  ASSUME LoopInv, NEW n, TickStart(n)
  PROVE  LoopInv'
<1> USE DEF loopVars, factVars, worldVars, alertVars, boundVars
<1>0. LoopTypes /\ batches \in Seq(Batch) /\ DOMAIN batches \subseteq Ids
  BY TableFacts DEF LoopInv
<1>1. /\ step = "idle" /\ cur = 0 /\ dying = {}
      /\ batches' = Replayed(n) /\ dying' = NewlyDead(n) /\ step' = "alert" /\ processed' = 0
      /\ UNCHANGED <<seen, cursor, handed, up, cur, done, accepted, noted, announced, unheard, lost, turns>>
      /\ UNCHANGED <<crashes, faults>>
  BY <1>0 DEF TickStart, LoopInv, Ordered, LoopTypes
<1>2. /\ SameBatches(batches') /\ DOMAIN batches' = DOMAIN batches
      /\ \A b \in DOMAIN batches :
           batches'[b] = IF b \in Stale THEN Retried(batches[b])
                         ELSE IF b \in Expired(n) THEN [batches[b] EXCEPT !.status = "dead"]
                         ELSE batches[b]
  BY <1>0, <1>1, ReplayShape DEF SameBatches
<1>3. ASSUME NEW b \in DOMAIN batches
      PROVE  \/ /\ batches[b].status = "claimed"
                /\ batches'[b].attempts = batches[b].attempts + 1
                /\ \/ batches'[b].status = "pending" /\ batches[b].attempts + 1 < MaxAttempts
                   \/ batches'[b].status = "dead" /\ b \in NewlyDead(n)
             \/ batches'[b].status = "dead" /\ b \in NewlyDead(n)
             \/ batches'[b] = batches[b]
  <2>1. batches[b] \in Batch /\ batches[b].attempts \in Nat /\ MaxAttempts \in Nat
    BY <1>0, BatchAt, InboxAssumption
  <2>2. CASE b \in Stale
    <3>1. batches'[b] = Retried(batches[b]) /\ batches[b].status = "claimed"
      BY <1>2, <2>2 DEF Stale, WithStatus
    <3>2. /\ batches'[b].attempts = batches[b].attempts + 1
          /\ batches'[b].status
               = IF batches[b].attempts + 1 >= MaxAttempts THEN "dead" ELSE "pending"
      <4>1. /\ Retried(batches[b]).attempts = batches[b].attempts + 1
            /\ Retried(batches[b]).status
                 = IF batches[b].attempts + 1 >= MaxAttempts THEN "dead" ELSE "pending"
        BY <2>1, RecordMoves
      <4> QED BY <3>1, <4>1
    <3>3. CASE batches[b].attempts + 1 >= MaxAttempts
      <4>1. b \in NewlyDead(n)
        BY <2>2, <3>3 DEF NewlyDead
      <4> QED BY <3>2, <3>3, <4>1
    <3>4. CASE ~(batches[b].attempts + 1 >= MaxAttempts)
      <4>1. batches[b].attempts + 1 < MaxAttempts
        BY <2>1, <3>4
      <4>2. batches'[b].status = "pending"
        BY <3>2, <3>4
      <4> QED BY <3>1, <3>2, <4>1, <4>2
    <3> QED BY <3>3, <3>4
  <2>3. CASE b \notin Stale /\ b \in Expired(n)
    <3>1. batches'[b] = [batches[b] EXCEPT !.status = "dead"]
      BY <1>2, <2>3
    <3>2. batches'[b].status = "dead"
      <4>1. [batches[b] EXCEPT !.status = "dead"].status = "dead"
        BY <2>1, RecordMoves
      <4> QED BY <3>1, <4>1
    <3>3. b \in NewlyDead(n)
      BY <2>3 DEF NewlyDead
    <3> QED BY <3>2, <3>3
  <2>4. CASE b \notin Stale /\ b \notin Expired(n)
    BY <1>2, <2>4
  <2> QED BY <2>2, <2>3, <2>4
<1>4. LoopTypes'
  <2>1. NewlyDead(n) \subseteq Ids
    BY <1>0 DEF NewlyDead, Expired, Stale, WithStatus
  <2>2. 0 \in 0..PerTick
    BY TurnAssumption
  <2> QED BY <1>0, <1>1, <1>2, <2>1, <2>2 DEF LoopTypes, InboxTypeOK, SameBatches
<1>5. Ordered'
  BY <1>1 DEF Ordered
<1>6. Held'
  BY <1>1, <1>2, HeldRests DEF LoopInv, Held
<1>7. Paid'
  <2>1. ASSUME NEW b \in DOMAIN batches'
        PROVE  PaidFor(b)'
    <3>1. /\ batches[b].attempts \in Nat /\ turns[b] \in Nat /\ b \in DOMAIN batches
          /\ UNCHANGED turns
      BY <1>0, <1>1, <1>2, TableFacts
    <3>2. Unpaid(b) = 1 /\ Unpaid(b)' = 1
      BY <1>1 DEF Unpaid
    <3>3. /\ turns[b] <= MaxAttempts
          /\ batches[b].status = "pending" =>
               turns[b] <= batches[b].attempts /\ batches[b].attempts < MaxAttempts
          /\ batches[b].status = "claimed" =>
               turns[b] <= batches[b].attempts + 1 /\ batches[b].attempts < MaxAttempts
      BY <3>1, <3>2 DEF LoopInv, Paid, PaidFor
    <3>4. CASE batches'[b] = batches[b]
      BY <3>1, <3>2, <3>3, <3>4 DEF PaidFor
    <3>5. CASE batches'[b].status = "dead"
      BY <3>1, <3>3, <3>5 DEF PaidFor
    <3>6. CASE /\ batches[b].status = "claimed"
               /\ batches'[b].attempts = batches[b].attempts + 1
               /\ batches'[b].status = "pending" /\ batches[b].attempts + 1 < MaxAttempts
      BY <3>1, <3>3, <3>6 DEF PaidFor
    <3> QED BY <1>3, <3>1, <3>4, <3>5, <3>6
  <2>2. \A b \in Ids \ DOMAIN batches' : turns'[b] = 0
    BY <1>1, <1>2 DEF LoopInv, Paid, PaidFor
  <2> QED BY <2>1, <2>2 DEF Paid, PaidFor
<1>8. ClaimIsTurn'
  <2>1. WithStatus("claimed")' \subseteq WithStatus("claimed")
    BY <1>2, <1>3 DEF WithStatus
  <2>2. crashes + faults <= crashes' + faults'
    BY <1>0, <1>1 DEF LoopTypes
  <2> QED BY <1>0, <1>1, <1>4, <2>1, <2>2, CountRests DEF LoopInv
<1>9. DeadIsAnnounced'
  <2>1. WithStatus("dead")' = WithStatus("dead") \cup NewlyDead(n)
    <3>1. \A b \in NewlyDead(n) : b \in DOMAIN batches /\ batches'[b].status = "dead"
      BY <1>0, NewlyDeadDie, <1>1
    <3>2. \A b \in WithStatus("dead") : batches'[b] = batches[b]
      BY <1>2 DEF WithStatus, Stale, Expired
    <3> QED BY <1>2, <1>3, <3>1, <3>2 DEF WithStatus
  <2>2. NewlyDead(n) \cap WithStatus("dead") = {}
    BY DEF NewlyDead, Expired, Stale, WithStatus
  <2> QED BY <1>1, <2>1, <2>2 DEF LoopInv, DeadIsAnnounced
<1> QED BY <1>4, <1>5, <1>6, <1>7, <1>8, <1>9 DEF LoopInv

(* The steps of the loop that leave the table alone.                       *)
LEMMA LoopMoves ==
  ASSUME LoopInv, Start \/ AlertsSent \/ EndTick \/ \E b \in dying : Alert(b)
  PROVE  LoopInv'
<1> USE DEF loopVars, factVars, worldVars, alertVars, boundVars, inboxVars
<1>1. /\ UNCHANGED <<batches, seen, cursor, handed, cur, processed, done, accepted, noted>>
      /\ UNCHANGED <<turns, crashes, faults>>
      /\ up' \in BOOLEAN /\ UNCHANGED lost /\ dying' \subseteq dying
      /\ dying' \cup announced' \cup unheard' = dying \cup announced \cup unheard
      /\ \/ step' = step
         \/ dying = {} /\ step \notin {"prep", "run"} /\ step' \in {"loop", "idle"}
      /\ step' \notin {"alert", "alertEnd"} => dying' = {}
  BY DEF LoopInv, LoopTypes, Ordered, Start, AlertsSent, EndTick, Alert
<1>2. LoopTypes'
  <2>1. announced' \subseteq Ids /\ dying' \subseteq Ids /\ unheard' \subseteq Ids
    BY <1>1 DEF LoopInv, LoopTypes
  <2> QED BY <1>1, <2>1 DEF LoopInv, LoopTypes, InboxTypeOK
<1>3. Ordered' /\ Held'
  BY <1>1 DEF LoopInv, Ordered, Held
<1>4. Paid'
  BY <1>1 DEF LoopInv, LoopTypes, Paid, PaidFor, Unpaid
<1>5. WithStatus("claimed")' = WithStatus("claimed") /\ WithStatus("dead")' = WithStatus("dead")
  BY <1>1 DEF WithStatus
<1>6. ClaimIsTurn'
  BY <1>1, <1>5 DEF LoopInv, ClaimIsTurn
<1>7. DeadIsAnnounced'
  <2>1. CASE UNCHANGED <<dying, announced, unheard>>
    BY <1>1, <1>5, <2>1 DEF LoopInv, DeadIsAnnounced
  <2>2. CASE \E b \in dying : Alert(b)
    <3>1. PICK b \in dying : Alert(b)
      BY <2>2
    <3>2. /\ dying' = dying \ {b}
          /\ \/ announced' = announced \cup {b} /\ unheard' = unheard
             \/ unheard' = unheard \cup {b} /\ announced' = announced
      BY <3>1 DEF Alert
    <3> QED BY <1>1, <1>5, <3>2 DEF LoopInv, DeadIsAnnounced
  <2> QED BY <2>1, <2>2 DEF Start, AlertsSent, EndTick
<1> QED BY <1>2, <1>3, <1>4, <1>6, <1>7 DEF LoopInv

(* The replay of a claim keeps LoopInv.                                    *)
LEMMA RecoverLoop ==
  ASSUME LoopInv, NEW b \in DOMAIN batches, Recover(b)
  PROVE  LoopInv'
<1> USE DEF loopVars, factVars, worldVars, alertVars, boundVars, inboxVars
<1>0. LoopTypes /\ batches \in Seq(Batch) /\ cur = 0 /\ step = "loop"
      /\ b \notin WithStatus("dead")
  BY TableFacts DEF LoopInv, LoopTypes, Recover, Claimable, WithStatus
<1>1. /\ Moved(batches', b, "acked", batches[b].attempts, batches[b].due)
      /\ UNCHANGED <<seen, cursor, handed, up, step, cur, dying, done, accepted, noted>>
      /\ UNCHANGED <<announced, unheard, lost, turns, crashes, faults>>
      /\ processed < PerTick /\ processed' = processed + 1
  BY <1>0, BatchMoves DEF Recover
<1>2. /\ DOMAIN batches' = DOMAIN batches /\ SameBatches(batches') /\ InboxTypeOK'
      /\ Len(batches') <= MaxBatches /\ batches'[b].status = "acked"
      /\ \A a \in DOMAIN batches : a # b => batches'[a] = batches[a]
      /\ WithStatus("claimed")' \subseteq WithStatus("claimed")
      /\ WithStatus("dead")' = WithStatus("dead")
  <2> DEFINE attempts == batches[b].attempts
             due      == batches[b].due
  <2>1. Moved(batches', b, "acked", attempts, due)
    BY <1>1
  <2> HIDE DEF attempts, due
  <2>2. /\ DOMAIN batches' = DOMAIN batches /\ SameBatches(batches') /\ InboxTypeOK'
        /\ Len(batches') <= MaxBatches /\ batches'[b].status = "acked"
        /\ \A a \in DOMAIN batches : a # b => batches'[a] = batches[a]
        /\ WithStatus("claimed")' = WithStatus("claimed") \ {b}
        /\ WithStatus("dead")' = WithStatus("dead") \ {b}
    BY <1>0, <1>1, <2>1, StatusMoves DEF LoopTypes
  <2> QED BY <1>0, <2>2
<1>3. LoopTypes'
  <2>1. processed' \in 0..PerTick
    BY <1>0, <1>1, TurnAssumption DEF LoopTypes
  <2> QED BY <1>0, <1>1, <1>2, <2>1 DEF LoopTypes
<1>4. Ordered' /\ Held'
  BY <1>0, <1>1, <1>2, HeldRests DEF LoopInv, Ordered, Held
<1>5. Paid'
  <2>1. turns[b] <= MaxAttempts /\ \A a \in DOMAIN batches : Unpaid(a)' = Unpaid(a)
    BY <1>1 DEF LoopInv, Paid, PaidFor, Unpaid
  <2>2. PaidFor(b)'
    BY <1>1, <1>2, <2>1 DEF PaidFor
  <2> QED BY <1>1, <1>2, <2>1, <2>2, PaidMoves
<1>6. ClaimIsTurn' /\ DeadIsAnnounced'
  <2>1. crashes + faults <= crashes' + faults' /\ crashes' \in Nat /\ faults' \in Nat
    BY <1>0, <1>1 DEF LoopTypes
  <2>2. ClaimIsTurn'
    BY <1>0, <1>1, <1>2, <1>3, <2>1, CountRests DEF LoopInv
  <2> QED BY <1>0, <1>1, <1>2, <2>1, <2>2, AlertsRest DEF LoopInv
<1> QED BY <1>3, <1>4, <1>5, <1>6 DEF LoopInv

(* A claim keeps LoopInv.                                                  *)
LEMMA ClaimLoop ==
  ASSUME LoopInv, NEW b \in DOMAIN batches, Claim(b)
  PROVE  LoopInv'
<1> USE DEF loopVars, factVars, worldVars, alertVars, boundVars, inboxVars
<1>0. LoopTypes /\ batches \in Seq(Batch) /\ cur = 0 /\ step = "loop" /\ b # 0
      /\ batches[b].status = "pending"
  BY TableFacts DEF LoopInv, LoopTypes, Claim, Claimable, WithStatus, Ids
<1>1. /\ Moved(batches', b, "claimed", batches[b].attempts, FALSE)
      /\ UNCHANGED <<seen, cursor, handed, up, processed, dying, accepted, noted>>
      /\ UNCHANGED <<announced, unheard, lost, turns, crashes, faults>>
      /\ processed < PerTick /\ step' = "prep" /\ cur' = b /\ done' = {}
  BY <1>0, BatchMoves DEF Claim
<1>2. /\ DOMAIN batches' = DOMAIN batches /\ SameBatches(batches') /\ InboxTypeOK'
      /\ Len(batches') <= MaxBatches
      /\ batches'[b].status = "claimed" /\ batches'[b].attempts = batches[b].attempts
      /\ \A a \in DOMAIN batches : a # b => batches'[a] = batches[a]
      /\ WithStatus("claimed")' = WithStatus("claimed") \cup {b}
      /\ WithStatus("dead")' = WithStatus("dead")
  <2> DEFINE attempts == batches[b].attempts
  <2>1. Moved(batches', b, "claimed", attempts, FALSE)
    BY <1>1
  <2> HIDE DEF attempts
  <2>2. /\ DOMAIN batches' = DOMAIN batches /\ SameBatches(batches') /\ InboxTypeOK'
        /\ Len(batches') <= MaxBatches
        /\ batches'[b].status = "claimed" /\ batches'[b].attempts = attempts
        /\ \A a \in DOMAIN batches : a # b => batches'[a] = batches[a]
        /\ WithStatus("claimed")' = WithStatus("claimed") \cup {b}
        /\ WithStatus("dead")' = WithStatus("dead") \ {b}
    BY <1>0, <1>1, <2>1, StatusMoves DEF LoopTypes
  <2>3. b \notin WithStatus("dead")
    BY <1>0 DEF WithStatus
  <2> QED BY <2>2, <2>3 DEF attempts
<1>3. LoopTypes'
  BY <1>0, <1>1, <1>2 DEF LoopTypes
<1>4. Ordered' /\ Held'
  BY <1>0, <1>1, <1>2, HeldRests DEF LoopInv, Ordered, Held
<1>5. Paid'
  <2>1. /\ turns[b] <= batches[b].attempts /\ batches[b].attempts < MaxAttempts
        /\ turns[b] <= MaxAttempts
    BY <1>0 DEF LoopInv, Paid, PaidFor
  <2>2. Unpaid(b)' = 0 /\ batches[b].attempts + 0 = batches[b].attempts
    BY <1>0, <1>1, TableFacts DEF Unpaid
  <2>3. PaidFor(b)'
    BY <1>1, <1>2, <2>1, <2>2 DEF PaidFor
  <2>4. \A a \in DOMAIN batches : a # b => Unpaid(a)' = Unpaid(a)
    BY <1>0, <1>1 DEF Unpaid
  <2> QED BY <1>1, <1>2, <2>3, <2>4, PaidMoves
<1>6. ClaimIsTurn' /\ DeadIsAnnounced'
  <2>1. crashes + faults <= crashes' + faults' /\ crashes' \in Nat /\ faults' \in Nat
    BY <1>0, <1>1 DEF LoopTypes
  <2>2. WithStatus("claimed")' \ {cur'} \subseteq WithStatus("claimed") \ {cur}
    BY <1>0, <1>1, <1>2, TableFacts DEF WithStatus, Ids
  <2>3. ClaimIsTurn'
    BY <1>0, <1>1, <1>2, <1>3, <2>1, <2>2, CountRests DEF LoopInv
  <2> QED BY <1>0, <1>1, <1>2, <2>1, <2>3, AlertsRest DEF LoopInv
<1> QED BY <1>3, <1>4, <1>5, <1>6 DEF LoopInv

(* A receipt's claim that is not acked keeps LoopInv: it waits for its     *)
(* lease, and the rejected tick is counted.                                *)
LEMMA RecoverRejectsLoop ==
  ASSUME LoopInv, NEW b \in DOMAIN batches, RecoverRejects(b)
  PROVE  LoopInv'
<1> USE DEF loopVars, factVars, worldVars, alertVars, boundVars, inboxVars
<1>0. LoopTypes /\ batches \in Seq(Batch) /\ cur = 0 /\ step = "loop" /\ dying = {}
      /\ batches[b].status = "pending"
  BY TableFacts DEF LoopInv, LoopTypes, Ordered, RecoverRejects, Claimable, WithStatus
<1>1. /\ Moved(batches', b, "claimed", batches[b].attempts, FALSE)
      /\ UNCHANGED <<seen, cursor, handed, up, cur, processed, dying, done, accepted, noted>>
      /\ UNCHANGED <<announced, unheard, lost, turns, crashes>>
      /\ step' = "idle" /\ faults' = faults + 1
  BY <1>0, BatchMoves DEF RecoverRejects
<1>2. /\ DOMAIN batches' = DOMAIN batches /\ SameBatches(batches') /\ InboxTypeOK'
      /\ Len(batches') <= MaxBatches
      /\ batches'[b].status = "claimed" /\ batches'[b].attempts = batches[b].attempts
      /\ \A a \in DOMAIN batches : a # b => batches'[a] = batches[a]
      /\ WithStatus("claimed")' = WithStatus("claimed") \cup {b}
      /\ WithStatus("dead")' = WithStatus("dead")
  <2> DEFINE attempts == batches[b].attempts
  <2>1. Moved(batches', b, "claimed", attempts, FALSE)
    BY <1>1
  <2> HIDE DEF attempts
  <2>2. /\ DOMAIN batches' = DOMAIN batches /\ SameBatches(batches') /\ InboxTypeOK'
        /\ Len(batches') <= MaxBatches
        /\ batches'[b].status = "claimed" /\ batches'[b].attempts = attempts
        /\ \A a \in DOMAIN batches : a # b => batches'[a] = batches[a]
        /\ WithStatus("claimed")' = WithStatus("claimed") \cup {b}
        /\ WithStatus("dead")' = WithStatus("dead") \ {b}
    BY <1>0, <1>1, <2>1, StatusMoves DEF LoopTypes
  <2>3. b \notin WithStatus("dead")
    BY <1>0 DEF WithStatus
  <2> QED BY <2>2, <2>3 DEF attempts
<1>3. LoopTypes'
  <2>1. faults' \in Nat
    BY <1>0, <1>1 DEF LoopTypes
  <2> QED BY <1>0, <1>1, <1>2, <2>1 DEF LoopTypes
<1>4. Ordered' /\ Held'
  BY <1>0, <1>1, <1>2, HeldRests DEF LoopInv, Ordered, Held
<1>5. Paid'
  <2>1. /\ turns[b] <= batches[b].attempts /\ batches[b].attempts < MaxAttempts
        /\ turns[b] <= MaxAttempts
    BY <1>0 DEF LoopInv, Paid, PaidFor
  <2>2. Unpaid(b)' = 1 /\ turns[b] <= batches[b].attempts + 1
    BY <1>0, <1>1, <2>1, TableFacts DEF Unpaid
  <2>3. PaidFor(b)'
    BY <1>1, <1>2, <2>1, <2>2 DEF PaidFor
  <2>4. \A a \in DOMAIN batches : a # b => Unpaid(a)' = Unpaid(a)
    BY <1>0, <1>1, TableFacts DEF Unpaid
  <2> QED BY <1>1, <1>2, <2>3, <2>4, PaidMoves
<1>6. ClaimIsTurn' /\ DeadIsAnnounced'
  <2>1. /\ crashes + faults <= crashes' + faults' /\ crashes + faults + 1 <= crashes' + faults'
        /\ crashes' \in Nat /\ faults' \in Nat
    BY <1>0, <1>1 DEF LoopTypes
  <2>2. WithStatus("claimed")' \ {cur'} \subseteq (WithStatus("claimed") \ {cur}) \cup {b}
    BY <1>1, <1>2
  <2>3. ClaimIsTurn'
    BY <1>0, <1>1, <1>3, <2>1, <2>2, CountRests DEF LoopInv
  <2> QED BY <1>0, <1>1, <1>2, <2>1, <2>3, AlertsRest DEF LoopInv
<1> QED BY <1>3, <1>4, <1>5, <1>6 DEF LoopInv

----------------------------------------------------------------------------
(* The turn: it starts, and its batch is acked, retried or left behind.    *)
LEMMA TurnBatch ==
  ASSUME LoopInv, step \in {"prep", "run"}
  PROVE  /\ LoopTypes /\ cur \in DOMAIN batches /\ cur # 0 /\ cur \in Ids
         /\ batches[cur].status = "claimed" /\ batches[cur].attempts \in Nat
         /\ turns[cur] \in Nat /\ MaxAttempts \in Nat
         /\ turns[cur] <= batches[cur].attempts + Unpaid(cur)
         /\ batches[cur].attempts < MaxAttempts /\ turns[cur] <= MaxAttempts
         /\ dying = {} /\ processed < PerTick
<1>1. LoopTypes /\ cur # 0 /\ cur \in DOMAIN batches
  BY DEF LoopInv, LoopTypes
<1>2. batches[cur].status = "claimed"
  BY <1>1 DEF LoopInv, ClaimIsTurn, WithStatus
<1>3. dying = {} /\ processed < PerTick
  BY DEF LoopInv, Ordered
<1>4. PaidFor(cur)
  BY <1>1 DEF LoopInv, Paid
<1> QED BY <1>1, <1>2, <1>3, <1>4, TableFacts, InboxAssumption DEF PaidFor

(* The start of a turn keeps LoopInv.                                      *)
LEMMA RunStartsLoop ==
  ASSUME LoopInv, RunStarts
  PROVE  LoopInv'
<1> USE DEF loopVars, factVars, worldVars, alertVars, boundVars, inboxVars
<1>0. step = "prep" /\ step' = "run" /\ turns' = [turns EXCEPT ![cur] = @ + 1]
  BY DEF RunStarts
<1>1. /\ UNCHANGED <<batches, seen, cursor, handed, up, cur, processed, dying, done>>
      /\ UNCHANGED <<accepted, noted, announced, unheard, lost, crashes, faults>>
  BY DEF RunStarts
<1>2. /\ LoopTypes /\ cur \in DOMAIN batches /\ cur \in Ids /\ turns[cur] \in Nat
      /\ batches[cur].status = "claimed" /\ batches[cur].attempts \in Nat
      /\ turns[cur] <= batches[cur].attempts + Unpaid(cur)
      /\ batches[cur].attempts < MaxAttempts /\ MaxAttempts \in Nat
      /\ dying = {} /\ processed < PerTick
  BY <1>0, TurnBatch
<1>3. turns \in [Ids -> Nat] /\ turns' \in [Ids -> Nat]
      /\ turns'[cur] = turns[cur] + 1 /\ \A a \in Ids : a # cur => turns'[a] = turns[a]
  <2>1. turns \in [Ids -> Nat] /\ turns[cur] + 1 \in Nat
    BY <1>2 DEF LoopTypes
  <2> QED BY <1>0, <1>2, <2>1
<1>4. LoopTypes'
  BY <1>0, <1>1, <1>2, <1>3 DEF LoopTypes, InboxTypeOK
<1>5. Ordered' /\ Held'
  BY <1>0, <1>1, <1>2 DEF LoopInv, Ordered, Held
<1>6. Paid'
  <2>1. Unpaid(cur) = 0 /\ Unpaid(cur)' = 1
    BY <1>0, <1>1 DEF Unpaid
  <2>2. PaidFor(cur)'
    BY <1>1, <1>2, <1>3, <2>1 DEF PaidFor
  <2>3. \A a \in DOMAIN batches : a # cur => Unpaid(a)' = Unpaid(a) /\ turns'[a] = turns[a]
    BY <1>1, <1>2, <1>3, TableFacts DEF Unpaid
  <2>4. \A a \in Ids \ DOMAIN batches : turns'[a] = turns[a]
    BY <1>2, <1>3
  <2>5. PaidFor(cur)' /\ cur' = cur /\ DOMAIN batches' = DOMAIN batches
    BY <1>1, <2>2
  <2>6. \A a \in DOMAIN batches : PaidFor(a)'
    BY <1>1, <2>2, <2>3 DEF LoopInv, Paid, PaidFor
  <2> QED BY <1>1, <2>4, <2>6 DEF LoopInv, Paid
<1>7. ClaimIsTurn' /\ DeadIsAnnounced'
  BY <1>1 DEF LoopInv, ClaimIsTurn, DeadIsAnnounced, WithStatus
<1> QED BY <1>4, <1>5, <1>6, <1>7 DEF LoopInv

(* A turn that is acked keeps LoopInv.                                     *)
LEMMA AckTurnLoop ==
  ASSUME LoopInv, step \in {"prep", "run"}, AckTurn,
         UNCHANGED <<seen, cursor, handed, up, factVars, announced, unheard, lost, turns, boundVars>>
  PROVE  LoopInv'
<1> USE DEF factVars, boundVars
<1>0. /\ LoopTypes /\ cur \in DOMAIN batches /\ cur # 0 /\ dying = {} /\ processed < PerTick
      /\ turns[cur] <= MaxAttempts
  BY TurnBatch
<1>1. /\ Moved(batches', cur, "acked", batches[cur].attempts, batches[cur].due)
      /\ step' = "loop" /\ cur' = 0 /\ done' = {} /\ processed' = processed + 1
      /\ UNCHANGED dying
  BY <1>0, TableFacts, BatchMoves DEF AckTurn
<1>2. /\ DOMAIN batches' = DOMAIN batches /\ SameBatches(batches') /\ InboxTypeOK'
      /\ Len(batches') <= MaxBatches /\ batches'[cur].status = "acked"
      /\ \A a \in DOMAIN batches : a # cur => batches'[a] = batches[a]
      /\ WithStatus("claimed")' = WithStatus("claimed") \ {cur}
      /\ WithStatus("dead")' = WithStatus("dead")
  <2> DEFINE attempts == batches[cur].attempts
             due      == batches[cur].due
  <2>1. Moved(batches', cur, "acked", attempts, due)
    BY <1>1
  <2> HIDE DEF attempts, due
  <2>2. /\ DOMAIN batches' = DOMAIN batches /\ SameBatches(batches') /\ InboxTypeOK'
        /\ Len(batches') <= MaxBatches /\ batches'[cur].status = "acked"
        /\ \A a \in DOMAIN batches : a # cur => batches'[a] = batches[a]
        /\ WithStatus("claimed")' = WithStatus("claimed") \ {cur}
        /\ WithStatus("dead")' = WithStatus("dead") \ {cur}
    BY <1>0, <1>1, <2>1, StatusMoves DEF LoopTypes
  <2>3. cur \notin WithStatus("dead")
    BY TurnBatch DEF WithStatus
  <2> QED BY <2>2, <2>3
<1>3. LoopTypes'
  <2>1. processed' \in 0..PerTick
    BY <1>0, <1>1, TurnAssumption DEF LoopTypes
  <2> QED BY <1>0, <1>1, <1>2, <2>1 DEF LoopTypes
<1>4. Ordered' /\ Held'
  BY <1>0, <1>1, <1>2, HeldRests DEF LoopInv, Ordered, Held
<1>5. Paid'
  <2>1. PaidFor(cur) /\ \A a \in DOMAIN batches : a # cur => Unpaid(a)' = Unpaid(a)
    BY <1>0, <1>1 DEF LoopInv, Paid, Unpaid
  <2>2. /\ turns'[cur] <= MaxAttempts /\ batches'[cur].status # "pending"
        /\ batches'[cur].status # "claimed"
    BY <1>0, <1>2
  <2>3. \A a \in DOMAIN batches : PaidFor(a)'
    BY <1>2, <2>1, <2>2 DEF LoopInv, Paid, PaidFor
  <2> QED BY <1>2, <2>3 DEF LoopInv, Paid
<1>6. ClaimIsTurn' /\ DeadIsAnnounced'
  <2>1. crashes + faults <= crashes' + faults' /\ crashes' \in Nat /\ faults' \in Nat
    BY <1>0 DEF LoopTypes
  <2>2. ClaimIsTurn'
    BY <1>0, <1>1, <1>2, <1>3, <2>1, CountRests DEF LoopInv
  <2> QED BY <1>0, <1>1, <1>2, <2>1, <2>2, AlertsRest DEF LoopInv
<1> QED BY <1>3, <1>4, <1>5, <1>6 DEF LoopInv

(* A turn that is retried keeps LoopInv, whether its alert is due next or  *)
(* lost to an error that is counted.                                       *)
LEMMA RetriedLoop ==
  ASSUME LoopInv, step \in {"prep", "run"}, batches' = RetriedBatch(cur), NEW D,
         D = IF batches'[cur].status = "dead" THEN {cur} ELSE {},
         cur' = 0, done' = {}, processed' = processed,
         \/ step' = "alertEnd" /\ dying' = D /\ lost' = lost /\ faults' = faults
         \/ step' = "idle" /\ dying' = dying /\ lost' = lost \cup D /\ faults' = faults + 1,
         UNCHANGED <<seen, cursor, handed, up, factVars, announced, unheard, turns, crashes>>
  PROVE  LoopInv'
<1> USE DEF factVars
<1>0. /\ LoopTypes /\ cur \in DOMAIN batches /\ cur # 0 /\ dying = {}
      /\ cur \in Ids /\ turns[cur] \in Nat /\ turns[cur] <= MaxAttempts
      /\ batches[cur].attempts \in Nat /\ MaxAttempts \in Nat
      /\ turns[cur] <= batches[cur].attempts + Unpaid(cur) /\ Unpaid(cur) \in {0, 1}
  BY TurnBatch DEF Unpaid
<1> DEFINE status == IF batches[cur].attempts + 1 >= MaxAttempts THEN "dead" ELSE "pending"
<1>1. /\ Moved(batches', cur, status, batches[cur].attempts + 1, FALSE)
      /\ step' \in {"alertEnd", "idle"} /\ cur' = 0 /\ done' = {} /\ processed' = processed
  BY <1>0, TableFacts, BatchMoves
<1>2. status \in {"dead", "pending"}
  OBVIOUS
<1>3. status = "pending" => batches[cur].attempts + 1 < MaxAttempts
  BY <1>0
<1> HIDE DEF status
<1>4. /\ DOMAIN batches' = DOMAIN batches /\ SameBatches(batches') /\ InboxTypeOK'
      /\ Len(batches') <= MaxBatches
      /\ batches'[cur].status = status /\ batches'[cur].attempts = batches[cur].attempts + 1
      /\ \A a \in DOMAIN batches : a # cur => batches'[a] = batches[a]
  <2> DEFINE attempts == batches[cur].attempts + 1
  <2>1. Moved(batches', cur, status, attempts, FALSE)
    BY <1>1
  <2> HIDE DEF attempts
  <2>2. /\ DOMAIN batches' = DOMAIN batches /\ SameBatches(batches') /\ InboxTypeOK'
        /\ Len(batches') <= MaxBatches
        /\ batches'[cur].status = status /\ batches'[cur].attempts = attempts
        /\ \A a \in DOMAIN batches : a # cur => batches'[a] = batches[a]
    BY <1>0, <1>1, <2>1, StatusMoves DEF LoopTypes
  <2> QED BY <2>2 DEF attempts
<1>5. /\ WithStatus("claimed")' = WithStatus("claimed") \ {cur}
      /\ WithStatus("dead")' = WithStatus("dead") \cup D
      /\ D \cap WithStatus("dead") = {} /\ D \subseteq Ids
  <2>1. cur \notin WithStatus("dead")
    BY TurnBatch DEF WithStatus
  <2>2. \A a : a \in WithStatus("dead")' <=> a \in WithStatus("dead") \cup D
    BY <1>0, <1>4, <2>1 DEF WithStatus
  <2>3. WithStatus("claimed")' = WithStatus("claimed") \ {cur}
    BY <1>0, <1>2, <1>4 DEF WithStatus
  <2> QED BY <1>0, <2>1, <2>2, <2>3
<1>6. LoopTypes'
  <2>1. faults' \in Nat /\ lost' \subseteq Ids /\ dying' \subseteq Ids
    BY <1>0, <1>5 DEF LoopTypes
  <2> QED BY <1>0, <1>1, <1>4, <2>1 DEF LoopTypes
<1>7. Ordered' /\ Held'
  BY <1>0, <1>1, <1>4, HeldRests DEF LoopInv, Ordered, Held
<1>8. Paid'
  <2>1. \A a \in DOMAIN batches : a # cur => Unpaid(a)' = Unpaid(a)
    BY <1>0, <1>1 DEF Unpaid
  <2>2. turns'[cur] <= MaxAttempts /\ turns'[cur] <= batches[cur].attempts + 1
    BY <1>0
  <2>3. /\ turns'[cur] <= MaxAttempts /\ batches'[cur].status # "claimed"
        /\ batches'[cur].status = "pending" =>
             turns'[cur] <= batches'[cur].attempts /\ batches'[cur].attempts < MaxAttempts
    BY <1>2, <1>3, <1>4, <2>2
  <2>4. \A a \in DOMAIN batches : PaidFor(a)'
    BY <1>4, <2>1, <2>3 DEF LoopInv, Paid, PaidFor
  <2> QED BY <1>4, <2>4 DEF LoopInv, Paid
<1>9. ClaimIsTurn' /\ DeadIsAnnounced'
  <2>0. crashes \in Nat /\ faults \in Nat
    BY <1>0 DEF LoopTypes
  <2>1. crashes + faults <= crashes' + faults'
    BY <2>0
  <2>2. ClaimIsTurn'
    BY <1>0, <1>1, <1>5, <1>6, <2>1, CountRests DEF LoopInv
  <2>5. /\ WithStatus("dead") = dying \cup announced \cup unheard \cup lost
        /\ announced \cap unheard = {} /\ (announced \cup unheard) \cap lost = {}
        /\ lost # {} => crashes + faults > 0
        /\ dying = {} /\ UNCHANGED <<announced, unheard, crashes>>
    BY <1>0 DEF LoopInv, DeadIsAnnounced
  <2>3. CASE dying' = D /\ lost' = lost /\ faults' = faults
    <3>1. /\ WithStatus("dead")' = dying' \cup announced' \cup unheard' \cup lost'
          /\ dying' \cap (announced' \cup unheard' \cup lost') = {}
          /\ announced' \cap unheard' = {} /\ (announced' \cup unheard') \cap lost' = {}
      BY <1>5, <2>3, <2>5
    <3>2. lost' # {} => crashes' + faults' > 0
      BY <2>3, <2>5
    <3> QED BY <2>2, <3>1, <3>2 DEF DeadIsAnnounced
  <2>4. CASE dying' = dying /\ lost' = lost \cup D /\ faults' = faults + 1
    <3>1. crashes' + faults' > 0
      BY <2>0, <2>4
    <3>2. /\ WithStatus("dead")' = dying' \cup announced' \cup unheard' \cup lost'
          /\ dying' \cap (announced' \cup unheard' \cup lost') = {}
          /\ announced' \cap unheard' = {} /\ (announced' \cup unheard') \cap lost' = {}
      BY <1>5, <2>4, <2>5
    <3> QED BY <2>2, <3>1, <3>2 DEF DeadIsAnnounced
  <2> QED BY <2>2, <2>3, <2>4
<1> QED BY <1>6, <1>7, <1>8, <1>9 DEF LoopInv

(* A turn that is retried, with the alert of a batch that died due next.   *)
LEMMA RetryTurnLoop ==
  ASSUME LoopInv, step \in {"prep", "run"}, RetryTurn,
         UNCHANGED <<seen, cursor, handed, up, factVars, announced, unheard, lost, turns, boundVars>>
  PROVE  LoopInv'
<1> DEFINE D == IF batches'[cur].status = "dead" THEN {cur} ELSE {}
<1>1. /\ batches' = RetriedBatch(cur) /\ step' = "alertEnd" /\ cur' = 0 /\ done' = {}
      /\ processed' = processed /\ dying' = D
      /\ UNCHANGED <<crashes, faults, lost>>
  BY DEF RetryTurn, boundVars
<1>2. UNCHANGED <<seen, cursor, handed, up, factVars, announced, unheard, turns>>
  OBVIOUS
<1>3. D = IF batches'[cur].status = "dead" THEN {cur} ELSE {}
  OBVIOUS
<1> HIDE DEF D
<1> QED BY <1>1, <1>2, <1>3, RetriedLoop

(* A retry that throws after its write keeps LoopInv.                      *)
LEMMA RetryRejectsLoop ==
  ASSUME LoopInv, RetryRejects
  PROVE  LoopInv'
<1> DEFINE D == IF batches'[cur].status = "dead" THEN {cur} ELSE {}
<1>1. /\ step \in {"prep", "run"}
      /\ batches' = RetriedBatch(cur) /\ step' = "idle" /\ cur' = 0 /\ done' = {}
      /\ UNCHANGED <<processed, dying, crashes>> /\ faults' = faults + 1
      /\ lost' = lost \cup D
  BY DEF RetryRejects
<1>2. UNCHANGED <<seen, cursor, handed, up, factVars, announced, unheard, turns>>
  BY DEF RetryRejects
<1>3. D = IF batches'[cur].status = "dead" THEN {cur} ELSE {}
  OBVIOUS
<1> HIDE DEF D
<1> QED BY <1>1, <1>2, <1>3, RetriedLoop

(* The end of a turn keeps LoopInv.                                        *)
LEMMA TurnEndsLoop ==
  ASSUME LoopInv, RunReturns \/ TurnThrows
  PROVE  LoopInv'
<1>1. /\ step \in {"prep", "run"} /\ (AckTurn \/ RetryTurn)
      /\ UNCHANGED <<seen, cursor, handed, up, factVars, announced, unheard, lost, turns, boundVars>>
  BY DEF RunReturns, TurnThrows, worldVars, alertVars
<1> QED BY <1>1, AckTurnLoop, RetryTurnLoop

(* A step after which the loop is idle and the claim in hand nobody's:     *)
(* the tick was rejected or the process died, and one more of these is     *)
(* counted.                                                                *)
LEMMA AbandonLoop ==
  ASSUME LoopInv,
         step' = "idle", cur' = 0, done' = {}, processed' \in 0..PerTick,
         up' \in BOOLEAN, handed' \subseteq handed, dying' = {},
         UNCHANGED <<batches, seen, cursor, factVars, announced, unheard, turns>>,
         lost' = lost \cup dying,
         \/ faults' = faults + 1 /\ crashes' = crashes
         \/ crashes' = crashes + 1 /\ faults' = faults
  PROVE  LoopInv'
<1> USE DEF factVars
<1>0. LoopTypes /\ crashes \in Nat /\ faults \in Nat /\ crashes' \in Nat /\ faults' \in Nat
  BY DEF LoopInv, LoopTypes
<1>1. LoopTypes'
  BY <1>0 DEF LoopTypes, InboxTypeOK
<1>2. Ordered' /\ Held'
  BY DEF LoopInv, Ordered, Held
<1>3. Paid'
  <2>1. ASSUME NEW b \in DOMAIN batches PROVE PaidFor(b)'
    <3>1. /\ PaidFor(b) /\ Unpaid(b) \in {0, 1} /\ Unpaid(b)' = 1
          /\ batches[b].attempts \in Nat /\ turns[b] \in Nat
      BY <1>0, <2>1, TableFacts DEF LoopInv, Paid, Unpaid
    <3>2. turns[b] <= batches[b].attempts + Unpaid(b) => turns[b] <= batches[b].attempts + 1
      BY <3>1
    <3> QED BY <3>1, <3>2 DEF PaidFor
  <2> QED BY <2>1 DEF LoopInv, Paid
<1>4. ClaimIsTurn'
  <2>1. crashes + faults + 1 <= crashes' + faults'
    <3>1. CASE faults' = faults + 1 /\ crashes' = crashes
      BY <1>0, <3>1
    <3>2. CASE crashes' = crashes + 1 /\ faults' = faults
      BY <1>0, <3>2
    <3> QED BY <3>1, <3>2
  <2>2. WithStatus("claimed")' = WithStatus("claimed")
    BY DEF WithStatus
  <2> QED BY <1>0, <1>1, <2>1, <2>2, CountRests DEF LoopInv
<1>5. DeadIsAnnounced'
  <2>1. WithStatus("dead")' = WithStatus("dead")
    BY DEF WithStatus
  <2>2. crashes' + faults' > 0
    <3>1. CASE faults' = faults + 1 /\ crashes' = crashes
      BY <1>0, <3>1
    <3>2. CASE crashes' = crashes + 1 /\ faults' = faults
      BY <1>0, <3>2
    <3> QED BY <3>1, <3>2
  <2> QED BY <2>1, <2>2 DEF LoopInv, DeadIsAnnounced
<1> QED BY <1>1, <1>2, <1>3, <1>4, <1>5 DEF LoopInv

(* A tick that rejects keeps LoopInv.                                      *)
LEMMA TickRejectsLoop ==
  ASSUME LoopInv, TickRejects
  PROVE  LoopInv'
<1>1. dying = {} /\ processed \in 0..PerTick /\ up \in BOOLEAN
  BY DEF TickRejects, LoopInv, Ordered, LoopTypes
<1>2. /\ step' = "idle" /\ cur' = 0 /\ done' = {} /\ UNCHANGED <<processed, up, handed, dying>>
      /\ UNCHANGED <<batches, seen, cursor, factVars, announced, unheard, turns>> /\ UNCHANGED lost
      /\ faults' = faults + 1 /\ crashes' = crashes
  BY DEF TickRejects, inboxVars, worldVars, alertVars
<1>3. lost' = lost \cup dying /\ dying' = {} /\ processed' \in 0..PerTick /\ up' \in BOOLEAN
      /\ handed' \subseteq handed
  BY <1>1, <1>2
<1>4. UNCHANGED <<batches, seen, cursor, factVars, announced, unheard, turns>>
  BY <1>2
<1>5. \/ faults' = faults + 1 /\ crashes' = crashes
      \/ crashes' = crashes + 1 /\ faults' = faults
  BY <1>2
<1>6. step' = "idle" /\ cur' = 0 /\ done' = {}
  BY <1>2
<1> QED BY <1>3, <1>4, <1>5, <1>6, AbandonLoop

(* A replay that throws half way keeps LoopInv: the batches it parked are  *)
(* lost, and the rejected tick is counted.                                 *)
LEMMA ReplayRejectsLoop ==
  ASSUME LoopInv, NEW n, ReplayRejects(n)
  PROVE  LoopInv'
<1> USE DEF loopVars, factVars, worldVars, alertVars, boundVars
<1>0. LoopTypes /\ batches \in Seq(Batch) /\ DOMAIN batches \subseteq Ids
  BY TableFacts DEF LoopInv
<1>1. /\ step = "idle" /\ cur = 0 /\ batches' = Parked(n)
      /\ lost' = lost \cup Expired(n) /\ faults' = faults + 1
      /\ UNCHANGED <<seen, cursor, handed, up, step, cur, processed, dying, done>>
      /\ UNCHANGED <<accepted, noted, announced, unheard, turns, crashes>>
  BY <1>0 DEF ReplayRejects, LoopTypes
<1>2. /\ SameBatches(batches') /\ DOMAIN batches' = DOMAIN batches
      /\ \A b \in DOMAIN batches :
           /\ b \in Expired(n) => batches'[b].status = "dead"
           /\ b \notin Expired(n) => batches'[b] = batches[b]
  BY <1>0, <1>1, ParkedShape DEF SameBatches
<1>3. Expired(n) \subseteq Ids /\ Expired(n) \subseteq WithStatus("pending")
  BY <1>0 DEF Expired, WithStatus
<1>4. LoopTypes'
  <2>1. faults' \in Nat /\ lost' \subseteq Ids
    BY <1>0, <1>1, <1>3 DEF LoopTypes
  <2> QED BY <1>0, <1>1, <1>2, <2>1 DEF LoopTypes, InboxTypeOK, SameBatches
<1>5. Ordered' /\ Held'
  BY <1>1, <1>2, HeldRests DEF LoopInv, Ordered, Held
<1>6. Paid'
  <2>1. ASSUME NEW b \in DOMAIN batches PROVE PaidFor(b)'
    <3>1. PaidFor(b) /\ Unpaid(b)' = Unpaid(b) /\ turns' = turns
      BY <1>1 DEF LoopInv, Paid, Unpaid
    <3> QED BY <1>2, <2>1, <3>1 DEF PaidFor
  <2> QED BY <1>1, <1>2, <2>1 DEF LoopInv, Paid
<1>7. /\ WithStatus("claimed")' \subseteq WithStatus("claimed")
      /\ WithStatus("dead")' = WithStatus("dead") \cup Expired(n)
      /\ Expired(n) \cap WithStatus("dead") = {}
  BY <1>2, <1>3 DEF WithStatus
<1>8. ClaimIsTurn' /\ DeadIsAnnounced'
  <2>1. crashes + faults <= crashes' + faults' /\ crashes' + faults' > 0
    BY <1>0, <1>1 DEF LoopTypes
  <2>2. ClaimIsTurn'
    BY <1>0, <1>1, <1>4, <1>7, <2>1, CountRests DEF LoopInv
  <2> QED BY <1>1, <1>7, <2>1, <2>2 DEF LoopInv, DeadIsAnnounced
<1> QED BY <1>4, <1>5, <1>6, <1>8 DEF LoopInv

(* Whatever rejects a tick keeps LoopInv.                                  *)
LEMMA RejectsLoop ==
  ASSUME LoopInv, Rejects
  PROVE  LoopInv'
BY TickRejectsLoop, RetryRejectsLoop, ReplayRejectsLoop, RecoverRejectsLoop DEF Rejects

(* A crash keeps LoopInv.                                                  *)
LEMMA CrashLoop ==
  ASSUME LoopInv, Crash
  PROVE  LoopInv'
<1>1. 0 \in 0..PerTick
  BY TurnAssumption
<1> QED BY <1>1, AbandonLoop DEF Crash, factVars

----------------------------------------------------------------------------
(* What the model does in its turn, and what becomes of it outside: only   *)
(* the history of the turn and the facts it leaves behind reach the loop.  *)
LEMMA FinishDone ==
  ASSUME NEW c, NEW ok, Finish(c, ok)
  PROVE  done' \subseteq done \cup {"acted"}
BY DEF Finish

(* A drive call changes nothing the loop looks at but done.                *)
LEMMA DriveRests ==
  ASSUME NEW c, DriveCall(c) \/ DriveAnswers(c) \/ Created(c)
  PROVE  /\ UNCHANGED <<inboxVars, up, step, cur, processed, dying, announced, unheard, lost, turns>>
         /\ UNCHANGED <<crashes, faults, accepted, noted>>
         /\ done' \subseteq done \cup {"acted"}
<1> USE DEF loopVars, factVars, worldVars, alertVars, boundVars
<1>1. CASE DriveCall(c)
  BY <1>1 DEF DriveCall
<1>2. CASE LookedUp(c)
  BY <1>2 DEF LookedUp
<1>3. CASE LookupFails(c)
  BY <1>3, FinishDone DEF LookupFails
<1>4. CASE Reserve(c)
  BY <1>4, FinishDone DEF Reserve
<1>5. CASE \E ok \in BOOLEAN : TransmitEnds(c, ok)
  BY <1>5, FinishDone DEF TransmitEnds
<1>6. CASE \E ok \in BOOLEAN : Recovered(c, ok)
  BY <1>6, FinishDone DEF Recovered
<1>7. CASE Created(c)
  BY <1>7 DEF Created
<1> QED BY <1>1, <1>2, <1>3, <1>4, <1>5, <1>6, <1>7 DEF DriveAnswers

(* A Telegram call changes nothing the loop looks at but done.             *)
LEMMA TelegramRests ==
  ASSUME NEW c, \/ BlankCall(c) \/ \E p \in Payloads : TelegramCall(c, p)
                \/ TelegramAnswers(c) \/ Landed(c)
  PROVE  /\ UNCHANGED <<inboxVars, up, step, cur, processed, dying, announced, unheard, lost, turns>>
         /\ UNCHANGED <<crashes, faults, accepted, noted>>
         /\ done' \subseteq done \cup {"acted"}
<1> USE DEF loopVars, factVars, worldVars, alertVars, boundVars
<1>0. SendFails(c) => done' \subseteq done \cup {"acted"}
  BY FinishDone DEF SendFails
<1>1. CASE \E p \in Payloads : TelegramCall(c, p)
  BY <1>1 DEF TelegramCall
<1>2. CASE Dequeue(c)
  BY <1>0, <1>2 DEF Dequeue
<1>3. CASE PieceSent(c) \/ NextPiece(c) \/ BlankCall(c)
  BY <1>3 DEF PieceSent, NextPiece, BlankCall
<1>4. CASE Rejected(c) \/ Unsendable(c)
  BY <1>0, <1>4 DEF Rejected, Unsendable
<1>5. CASE Unanswered(c)
  BY <1>0, <1>5 DEF Unanswered
<1>6. CASE Confirmed(c)
  BY <1>6, FinishDone DEF Confirmed
<1>7. CASE Landed(c)
  BY <1>7 DEF Landed
<1> QED BY <1>1, <1>2, <1>3, <1>4, <1>5, <1>6, <1>7 DEF TelegramAnswers

(* The other tools of the model keep LoopInv.                              *)
LEMMA ModelLoop ==
  ASSUME LoopInv, Delegate \/ NoteNoUpdate
  PROVE  LoopInv'
<1>1. cur \in Ids /\ LoopTypes
  BY TurnBatch DEF Delegate, NoteNoUpdate
<1> QED
  BY <1>1, LoopRests
     DEF Delegate, NoteNoUpdate, LoopTypes, loopVars, factVars, worldVars, alertVars, boundVars

(* The tool calls keep LoopInv.                                            *)
LEMMA CallsLoop ==
  ASSUME LoopInv, NEW c,
         \/ DriveCall(c) \/ BlankCall(c) \/ \E p \in Payloads : TelegramCall(c, p)
         \/ DriveAnswers(c) \/ TelegramAnswers(c)
         \/ Created(c) \/ Landed(c)
  PROVE  LoopInv'
<1>1. /\ UNCHANGED <<inboxVars, up, step, cur, processed, dying, announced, unheard, lost, turns>>
      /\ UNCHANGED <<crashes, faults, accepted, noted>>
      /\ done' \subseteq done \cup {"acted"}
  BY DriveRests, TelegramRests
<1>2. LoopTypes
  BY DEF LoopInv
<1> QED BY <1>1, <1>2, LoopRests DEF LoopTypes

----------------------------------------------------------------------------
(* Every step preserves LoopInv.                                           *)
LEMMA NextLoop ==
  ASSUME LoopInv, [Next]_vars
  PROVE  LoopInv'
<1>1. CASE Intake
  BY <1>1, IntakeLoop
<1>2. CASE Clock
  BY <1>2, ClockLoop
<1>3. CASE Start
  BY <1>3, LoopMoves
<1>4. CASE Tick
  BY <1>4, TickStartLoop, LoopMoves, RecoverLoop, ClaimLoop, RunStartsLoop DEF Tick
<1>5. CASE Turn
  BY <1>5, RejectsLoop, ModelLoop, CallsLoop DEF Turn
<1>6. CASE TurnEnds
  BY <1>6, TurnEndsLoop DEF TurnEnds
<1>7. CASE World
  BY <1>7, CallsLoop DEF World
<1>8. CASE Crash
  BY <1>8, CrashLoop
<1>9. CASE UNCHANGED vars
  <2>1. /\ UNCHANGED <<inboxVars, up, step, cur, processed, dying, announced, unheard, lost, turns>>
        /\ UNCHANGED <<crashes, faults, accepted, noted, done>> /\ LoopTypes
    BY <1>9 DEF vars, loopVars, factVars, worldVars, alertVars, boundVars, LoopInv
  <2> QED BY <2>1, LoopRests DEF LoopTypes
<1> QED BY <1>1, <1>2, <1>3, <1>4, <1>5, <1>6, <1>7, <1>8, <1>9 DEF Next

(* The inbox and the loop keep their invariant, whatever the tool calls do *)
(* and wherever the process dies.                                          *)
THEOREM LoopInvariance == Spec => []LoopInv
<1>1. Init => LoopInv
  BY InitLoop
<1>2. LoopInv /\ [Next]_vars => LoopInv'
  BY NextLoop
<1> QED BY <1>1, <1>2, PTL DEF Spec

(* However often events are redelivered after a crash or a failed drain,   *)
(* each is in one batch at most, and in one once the cursor is past it.    *)
THEOREM EventSafety == Spec => []EventsHeldOnce
<1>1. LoopInv => EventsHeldOnce
  BY DEF LoopInv, Held, EventsHeldOnce
<1> QED BY <1>1, LoopInvariance, PTL

(* A claim is the turn in hand, or was left behind by a death or by a tick *)
(* that was rejected; each of these leaves one at most.                    *)
THEOREM ClaimSafety == Spec => []ClaimIsTurn
<1>1. LoopInv => ClaimIsTurn
  BY DEF LoopInv
<1> QED BY <1>1, LoopInvariance, PTL

(* The model is handed a batch at most MAX_ATTEMPTS times, and a batch     *)
(* that was is not pending again.                                          *)
THEOREM TurnSafety == Spec => []TurnBudget
<1>1. LoopInv => TurnBudget
  <2> SUFFICES ASSUME LoopInv, NEW b \in DOMAIN batches
               PROVE  /\ turns[b] <= MaxAttempts
                      /\ turns[b] = MaxAttempts => batches[b].status # "pending"
    BY DEF TurnBudget
  <2>1. PaidFor(b) /\ LoopTypes
    BY DEF LoopInv, Paid
  <2>2. turns[b] \in Nat /\ batches[b].attempts \in Nat /\ MaxAttempts \in Nat
    BY <2>1, TableFacts, InboxAssumption
  <2> QED BY <2>1, <2>2 DEF PaidFor
<1> QED BY <1>1, LoopInvariance, PTL

(* One alert is made of each batch that dies, by whatever way, and of no   *)
(* other; a dead batch without one was left so by a death or a database    *)
(* error, and without these every dead batch has been handed to the        *)
(* notifier or is what the tick waits for.                                 *)
THEOREM AlertSafety ==
  Spec => []( /\ DeadIsAnnounced
              /\ crashes + faults = 0 =>
                   WithStatus("dead") = dying \cup announced \cup unheard )
<1>1. LoopInv => /\ DeadIsAnnounced
                 /\ crashes + faults = 0 =>
                      WithStatus("dead") = dying \cup announced \cup unheard
  BY DEF LoopInv, DeadIsAnnounced
<1> QED BY <1>1, LoopInvariance, PTL
=============================================================================
