--------------------------- MODULE WorkOrderProofs ---------------------------
(***************************************************************************)
(* TLAPS proofs about the workorder consumer.  The properties of the table *)
(* are first proved of the ledger's transactions, as functions from tables *)
(* to tables (a synchronous block may run two of them), and then carried   *)
(* through every step of the consumer.                                     *)
(***************************************************************************)
EXTENDS WorkOrderConsumer, SequenceTheorems, FiniteSetTheorems, TLAPS

(* The invariants of the module, as predicates on a table.                 *)
SlotOnce(rs) ==
  \A i, j \in DOMAIN rs :
    i # j /\ rs[i].occ = rs[j].occ
    => /\ ~(rs[i].status \in Open /\ rs[j].status \in Open)
       /\ rs[i].occ \notin OwnerEventOcc

Pred(rs, i, j) ==
  /\ j < i
  /\ rs[j].occ = rs[i].occ
  /\ rs[j].attempts + 1 = rs[i].attempts
  /\ rs[j].status = "failed"

Budget(rs) ==
  \A i \in DOMAIN rs :
    /\ rs[i].attempts <= (IF rs[i].occ \in WikiOcc \cup CandidateOcc THEN 2 ELSE 1)
    /\ rs[i].attempts > 1 => \E j \in DOMAIN rs : Pred(rs, i, j)

Owed(rs, i) ==
  /\ rs[i].status = "failed"
  /\ rs[i].attempts < MaxAttempts(rs[i].occ)
  /\ rs[i].reason # "ambiguous"

Conserved(rs) ==
  \A i \in DOMAIN rs :
    Owed(rs, i) /\ rs[i].occ \notin OwnerEventOcc => \E j \in DOMAIN rs : Pred(rs, j, i)

Good(rs) == rs \in Seq(Row) /\ SlotOnce(rs) /\ Budget(rs) /\ Conserved(rs)

----------------------------------------------------------------------------
(* What an update of one row's status and reason leaves alone.             *)
Updated(rs, rt, i, status, reason) ==
  /\ rt \in Seq(Row)
  /\ Len(rt) = Len(rs)
  /\ DOMAIN rt = DOMAIN rs
  /\ \A j \in DOMAIN rs : j # i => rt[j] = rs[j]
  /\ rt[i].occ = rs[i].occ /\ rt[i].rank = rs[i].rank /\ rt[i].attempts = rs[i].attempts
  /\ rt[i].status = status /\ rt[i].reason = reason

(* The type of a row, field by field.                                      *)
LEMMA RowAt ==
  ASSUME NEW rs \in Seq(Row), NEW i \in DOMAIN rs
  PROVE  /\ rs[i] \in Row
         /\ rs[i].occ \in Occ /\ rs[i].rank \in Ranks
         /\ rs[i].attempts \in Nat \ {0}
         /\ rs[i].status \in Open \cup Terminal /\ rs[i].reason \in Reasons
<1>1. rs[i] \in Row
  BY LenProperties
<1> QED BY <1>1 DEF Row

(* The three single-row transitions are updates of that row only.          *)
LEMMA UpdateShapes ==
  ASSUME NEW rs \in Seq(Row), NEW i \in DOMAIN rs, NEW why \in Reasons
  PROVE  /\ Updated(rs, Claimed(rs, i), i, "in_progress", rs[i].reason)
         /\ Updated(rs, Completed(rs, i), i, "done", rs[i].reason)
         /\ Updated(rs, FailedRow(rs, i, why), i, "failed", why)
<1>1. rs \in [1..Len(rs) -> Row] /\ DOMAIN rs = 1..Len(rs) /\ Len(rs) \in Nat
  BY LenProperties
<1>2. rs[i] \in Row
  BY <1>1
<1>3. ASSUME NEW r \in Row
      PROVE  /\ [rs EXCEPT ![i] = r] \in Seq(Row)
             /\ Len([rs EXCEPT ![i] = r]) = Len(rs)
             /\ DOMAIN [rs EXCEPT ![i] = r] = DOMAIN rs
             /\ \A j \in DOMAIN rs : j # i => [rs EXCEPT ![i] = r][j] = rs[j]
             /\ [rs EXCEPT ![i] = r][i] = r
  BY <1>1, <1>3, ExceptSeq
<1>4. Updated(rs, Claimed(rs, i), i, "in_progress", rs[i].reason)
  <2> DEFINE r == [rs[i] EXCEPT !.status = "in_progress"]
  <2>1. r \in Row /\ r.occ = rs[i].occ /\ r.rank = rs[i].rank /\ r.attempts = rs[i].attempts
        /\ r.status = "in_progress" /\ r.reason = rs[i].reason
    BY <1>2 DEF Row, Open, Terminal
  <2>2. Claimed(rs, i) = [rs EXCEPT ![i] = r]
    BY DEF Claimed
  <2> HIDE DEF r
  <2> QED BY <2>1, <2>2, <1>3 DEF Updated
<1>5. Updated(rs, Completed(rs, i), i, "done", rs[i].reason)
  <2> DEFINE r == [rs[i] EXCEPT !.status = "done"]
  <2>1. r \in Row /\ r.occ = rs[i].occ /\ r.rank = rs[i].rank /\ r.attempts = rs[i].attempts
        /\ r.status = "done" /\ r.reason = rs[i].reason
    BY <1>2 DEF Row, Open, Terminal
  <2>2. Completed(rs, i) = [rs EXCEPT ![i] = r]
    BY DEF Completed
  <2> HIDE DEF r
  <2> QED BY <2>1, <2>2, <1>3 DEF Updated
<1>6. Updated(rs, FailedRow(rs, i, why), i, "failed", why)
  <2> DEFINE r == [rs[i] EXCEPT !.status = "failed", !.reason = why]
  <2>1. r \in Row /\ r.occ = rs[i].occ /\ r.rank = rs[i].rank /\ r.attempts = rs[i].attempts
        /\ r.status = "failed" /\ r.reason = why
    BY <1>2 DEF Row, Open, Terminal
  <2>2. FailedRow(rs, i, why) = [rs EXCEPT ![i] = r]
    BY <1>1 DEF FailedRow
  <2> HIDE DEF r
  <2> QED BY <2>1, <2>2, <1>3 DEF Updated
<1> QED BY <1>4, <1>5, <1>6

(* What an insert that finds its slot free does: one more pending row.     *)
Extended(rs, rt, o, n) ==
  /\ rt \in Seq(Row)
  /\ DOMAIN rt = DOMAIN rs \cup {Len(rs) + 1}
  /\ \A j \in DOMAIN rs : rt[j] = rs[j]
  /\ rt[Len(rs) + 1].occ = o /\ rt[Len(rs) + 1].attempts = n
  /\ rt[Len(rs) + 1].status = "pending"

(* An insert either finds its slot held or appends one pending row.        *)
LEMMA InsertShape ==
  ASSUME NEW rs \in Seq(Row), NEW o \in Occ, NEW rank \in Ranks, NEW n \in Nat \ {0}
  PROVE  \/ Holders(rs, o) # {} /\ Inserted(rs, o, rank, n) = rs
         \/ Holders(rs, o) = {} /\ Extended(rs, Inserted(rs, o, rank, n), o, n)
<1> DEFINE r == [occ |-> o, rank |-> rank, attempts |-> n,
                 status |-> "pending", reason |-> "none"]
<1>1. r \in Row
  BY DEF Row, Open, Terminal, Reasons
<1>2. rs \in [1..Len(rs) -> Row] /\ DOMAIN rs = 1..Len(rs) /\ Len(rs) \in Nat
  BY LenProperties
<1>3. CASE Holders(rs, o) # {}
  BY <1>3 DEF Inserted
<1>4. CASE Holders(rs, o) = {}
  <2>1. Inserted(rs, o, rank, n) = Append(rs, r)
    BY <1>4 DEF Inserted
  <2> HIDE DEF r
  <2>2. /\ Append(rs, r) \in Seq(Row)
        /\ Len(Append(rs, r)) = Len(rs) + 1
        /\ DOMAIN Append(rs, r) = DOMAIN rs \cup {Len(rs) + 1}
        /\ \A j \in DOMAIN rs : Append(rs, r)[j] = rs[j]
        /\ Append(rs, r)[Len(rs) + 1] = r
    BY <1>1, <1>2, AppendProperties
  <2>3. r.occ = o /\ r.attempts = n /\ r.status = "pending"
    BY DEF r
  <2> QED BY <1>4, <2>1, <2>2, <2>3 DEF Extended
<1> QED BY <1>3, <1>4

----------------------------------------------------------------------------
(* What the end of an attempt does to a table: row i becomes terminal, no  *)
(* other row changes, and rows may only be added as pending.               *)
Settles(rs, rt, i) ==
  /\ rt \in Seq(Row)
  /\ DOMAIN rs \subseteq DOMAIN rt
  /\ \A j \in DOMAIN rs : j # i => rt[j] = rs[j]
  /\ rt[i].status \in Terminal
  /\ \A j \in DOMAIN rt \ DOMAIN rs : rt[j].status = "pending"

(* A claim and a completion keep a table good: statuses move within Open,  *)
(* or from Open to done, so no chain of failed rows is touched.            *)
LEMMA OpenUpdateGood ==
  ASSUME NEW rs, Good(rs), NEW i \in DOMAIN rs, rs[i].status \in Open,
         NEW rt, NEW status \in {"in_progress", "done"},
         Updated(rs, rt, i, status, rs[i].reason)
  PROVE  Good(rt)
<1>1. rt \in Seq(Row) /\ DOMAIN rt = DOMAIN rs /\ DOMAIN rs \subseteq Nat
  BY LenProperties DEF Good, Updated
<1>2. \A j \in DOMAIN rs :
        /\ rt[j].occ = rs[j].occ /\ rt[j].attempts = rs[j].attempts
        /\ rt[j].reason = rs[j].reason
        /\ rt[j].status \in Open => rs[j].status \in Open
        /\ rt[j].status = "failed" <=> rs[j].status = "failed"
  BY DEF Updated, Open
<1>3. SlotOnce(rt)
  BY <1>1, <1>2 DEF Good, SlotOnce
<1>4. \A j, k \in DOMAIN rs : Pred(rs, j, k) <=> Pred(rt, j, k)
  BY <1>2 DEF Pred
<1>5. Budget(rt)
  BY <1>1, <1>2, <1>4 DEF Good, Budget
<1>6. Conserved(rt)
  BY <1>1, <1>2, <1>4 DEF Good, Conserved, Owed
<1> QED BY <1>1, <1>3, <1>5, <1>6 DEF Good

(* A failure that owes no retry keeps a table good.                        *)
LEMMA FailGood ==
  ASSUME NEW rs, Good(rs), NEW i \in DOMAIN rs, rs[i].status = "in_progress",
         NEW why \in Reasons,
         rs[i].attempts >= MaxAttempts(rs[i].occ) \/ why = "ambiguous"
  PROVE  Good(FailedRow(rs, i, why)) /\ Settles(rs, FailedRow(rs, i, why), i)
<1> DEFINE rt == FailedRow(rs, i, why)
<1>1. Updated(rs, rt, i, "failed", why)
  BY UpdateShapes DEF Good
<1> HIDE DEF rt
<1>2. rt \in Seq(Row) /\ rs \in Seq(Row) /\ DOMAIN rt = DOMAIN rs /\ DOMAIN rs \subseteq Nat
  BY <1>1, LenProperties DEF Good, Updated
<1>3. /\ rt[i].status = "failed" /\ rt[i].reason = why
      /\ \A j \in DOMAIN rs :
           /\ rt[j].occ = rs[j].occ /\ rt[j].attempts = rs[j].attempts
           /\ j # i => rt[j] = rs[j]
           /\ rt[j].status \in Open => rs[j].status \in Open
           /\ rs[j].status = "failed" => rt[j].status = "failed"
  BY <1>1 DEF Updated, Open
<1>4. SlotOnce(rt)
  BY <1>2, <1>3 DEF Good, SlotOnce
<1>5. \A j, k \in DOMAIN rs : Pred(rs, j, k) => Pred(rt, j, k)
  BY <1>3 DEF Pred
<1>6. Budget(rt)
  BY <1>2, <1>3, <1>5 DEF Good, Budget
<1>7. ~Owed(rt, i)
  <2>1. rs[i].attempts \in Nat /\ MaxAttempts(rs[i].occ) \in Nat
    BY <1>2, RowAt DEF MaxAttempts
  <2> QED BY <2>1, <1>3 DEF Owed
<1>8. Conserved(rt)
  BY <1>2, <1>3, <1>5, <1>7 DEF Good, Conserved, Owed
<1>9. Settles(rs, rt, i)
  BY <1>2, <1>3 DEF Settles, Terminal
<1> QED BY <1>2, <1>4, <1>6, <1>8, <1>9 DEF Good, rt

(* Fresh acceptances keep a table good.                                    *)
LEMMA InsertGood ==
  ASSUME NEW rs, Good(rs), NEW o \in Occ, NEW rank \in Ranks
  PROVE  /\ Good(Inserted(rs, o, rank, 1))
         /\ DOMAIN rs \subseteq DOMAIN Inserted(rs, o, rank, 1)
         /\ \A j \in DOMAIN rs : Inserted(rs, o, rank, 1)[j] = rs[j]
         /\ \A j \in DOMAIN Inserted(rs, o, rank, 1) \ DOMAIN rs :
               Inserted(rs, o, rank, 1)[j].status = "pending"
<1> DEFINE rt == Inserted(rs, o, rank, 1)
           n  == Len(rs) + 1
<1>1. CASE rt = rs
  BY <1>1
<1>2. CASE rt # rs
  <2>0. Holders(rs, o) = {} /\ Extended(rs, rt, o, 1)
    <3>1. rs \in Seq(Row) /\ 1 \in Nat \ {0}
      BY DEF Good
    <3> QED BY <3>1, <1>2, InsertShape
  <2>1. /\ Holders(rs, o) = {}
        /\ rt \in Seq(Row)
        /\ DOMAIN rt = DOMAIN rs \cup {n}
        /\ \A j \in DOMAIN rs : rt[j] = rs[j]
        /\ rt[n].occ = o /\ rt[n].attempts = 1 /\ rt[n].status = "pending"
    BY <2>0 DEF Extended
  <2>2. DOMAIN rs = 1..Len(rs) /\ Len(rs) \in Nat /\ n \notin DOMAIN rs
    BY LenProperties DEF Good
  <2> HIDE DEF rt, n
  <2>3. \A j \in DOMAIN rs :
          rs[j].occ = o => o \notin OwnerEventOcc /\ rs[j].status \notin Open
    BY <2>1 DEF Holders
  <2>4. SlotOnce(rt)
    BY <2>1, <2>2, <2>3 DEF Good, SlotOnce
  <2>5. \A j, k \in DOMAIN rs : Pred(rs, j, k) <=> Pred(rt, j, k)
    BY <2>1 DEF Pred
  <2>6. rt[n].attempts = 1 /\ rt[n].status = "pending"
    BY <2>1
  <2>7. Budget(rt)
    BY <2>1, <2>5, <2>6 DEF Good, Budget
  <2>8. Conserved(rt)
    BY <2>1, <2>5, <2>6 DEF Good, Conserved, Owed
  <2> QED BY <2>1, <2>2, <2>4, <2>6, <2>7, <2>8 DEF Good, rt
<1> QED BY <1>1, <1>2

(* requeueWorkOrder keeps a table good when the budget allows the retry:   *)
(* unless the key is an owner-event key, the slot is free once the old row *)
(* has failed, so the replacement is inserted.                             *)
LEMMA RequeueGood ==
  ASSUME NEW rs, Good(rs), NEW i \in DOMAIN rs, rs[i].status = "in_progress",
         NEW why \in Reasons,
         rs[i].attempts < 2, rs[i].occ \in WikiOcc \cup CandidateOcc
  PROVE  Good(Requeued(rs, i, why)) /\ Settles(rs, Requeued(rs, i, why), i)
<1> DEFINE rf == FailedRow(rs, i, why)
           o  == rs[i].occ
           k  == rs[i].attempts + 1
           rt == Inserted(rf, o, rs[i].rank, k)
           n  == Len(rf) + 1
<1>1. rs \in Seq(Row) /\ DOMAIN rs = 1..Len(rs) /\ Len(rs) \in Nat
  BY LenProperties DEF Good
<1>2. o \in Occ /\ rs[i].rank \in Ranks /\ rs[i].attempts \in Nat \ {0} /\ k \in Nat \ {0}
  BY <1>1, RowAt
<1>3. k = 2
  BY <1>2
<1>4. Updated(rs, rf, i, "failed", why)
  BY <1>1, UpdateShapes
<1>5. rf \in Seq(Row)
  BY <1>4 DEF Updated
<1>6. \/ Holders(rf, o) # {} /\ rt = rf
      \/ Holders(rf, o) = {} /\ Extended(rf, rt, o, k)
  <2> HIDE DEF rf, o, k
  <2> QED BY <1>2, <1>5, InsertShape
<1>7. Requeued(rs, i, why) = rt
  BY DEF Requeued
<1>8. n = Len(rs) + 1 /\ DOMAIN rf = DOMAIN rs /\ n \notin DOMAIN rs
  BY <1>1, <1>4 DEF Updated
<1>9. /\ rf[i].status = "failed"
      /\ \A j \in DOMAIN rs :
           /\ rf[j].occ = rs[j].occ /\ rf[j].attempts = rs[j].attempts
           /\ j # i => rf[j] = rs[j]
           /\ rf[j].status \in Open => rs[j].status \in Open
           /\ rs[j].status = "failed" => rf[j].status = "failed"
  BY <1>4 DEF Updated, Open
<1> HIDE DEF rf, o, k, rt, n
<1>10. SlotOnce(rf)
  BY <1>8, <1>9 DEF Good, SlotOnce
<1>11. \A a, b \in DOMAIN rs : Pred(rs, a, b) => Pred(rf, a, b)
  BY <1>9 DEF Pred
<1>12. Budget(rf)
  BY <1>8, <1>9, <1>11 DEF Good, Budget
<1>13. \A a \in DOMAIN rs : a # i =>
         (Owed(rf, a) /\ rf[a].occ \notin OwnerEventOcc => \E b \in DOMAIN rs : Pred(rf, b, a))
  BY <1>8, <1>9, <1>11 DEF Good, Conserved, Owed
<1>14. CASE Holders(rf, o) # {}
  <2>1. PICK j \in DOMAIN rf : rf[j].occ = o /\ (o \in OwnerEventOcc \/ rf[j].status \in Open)
    BY <1>14 DEF Holders
  <2>2. o \in OwnerEventOcc
    <3>1. SUFFICES ASSUME rf[j].status \in Open PROVE o \in OwnerEventOcc
      BY <2>1
    <3>2. j # i /\ rs[j].status \in Open /\ rs[i].status \in Open /\ rs[j].occ = rs[i].occ
      BY <3>1, <2>1, <1>8, <1>9 DEF Open, o
    <3> QED BY <3>2, <2>1, <1>8 DEF Good, SlotOnce
  <2>3. rt = rf
    BY <1>6, <1>14
  <2>4. rf[i].occ = o
    BY <1>9 DEF o
  <2>5. Conserved(rf)
    BY <1>8, <1>13, <2>2, <2>4 DEF Conserved
  <2>6. Settles(rs, rf, i)
    BY <1>5, <1>8, <1>9 DEF Settles, Terminal
  <2> QED BY <1>5, <1>7, <1>10, <1>12, <2>3, <2>5, <2>6 DEF Good
<1>15. CASE Holders(rf, o) = {}
  <2>1. /\ rt \in Seq(Row) /\ DOMAIN rt = DOMAIN rs \cup {n}
        /\ \A j \in DOMAIN rs : rt[j] = rf[j]
        /\ rt[n].occ = o /\ rt[n].attempts = 2 /\ rt[n].status = "pending"
    BY <1>3, <1>6, <1>8, <1>15 DEF Extended, n
  <2>2. \A j \in DOMAIN rs : rf[j].occ = o => o \notin OwnerEventOcc /\ rf[j].status \notin Open
    BY <1>8, <1>15 DEF Holders
  <2>3. SlotOnce(rt)
    BY <1>8, <1>10, <2>1, <2>2 DEF SlotOnce
  <2>4. \A a, b \in DOMAIN rs : Pred(rf, a, b) <=> Pred(rt, a, b)
    BY <2>1 DEF Pred
  <2>5. Pred(rt, n, i)
    <3>1. i < n
      BY <1>1, <1>8
    <3>2. rs[i].attempts + 1 = 2
      BY <1>3 DEF k
    <3> QED BY <3>1, <3>2, <1>9, <2>1 DEF Pred, o
  <2>6. Budget(rt)
    <3>1. ASSUME NEW a \in DOMAIN rs
          PROVE /\ rt[a].attempts <= (IF rt[a].occ \in WikiOcc \cup CandidateOcc THEN 2 ELSE 1)
                /\ rt[a].attempts > 1 => \E b \in DOMAIN rt : Pred(rt, a, b)
      BY <1>8, <1>12, <2>1, <2>4 DEF Budget
    <3>2. /\ rt[n].attempts <= (IF rt[n].occ \in WikiOcc \cup CandidateOcc THEN 2 ELSE 1)
          /\ \E b \in DOMAIN rt : Pred(rt, n, b)
      BY <2>1, <2>5 DEF o
    <3> QED BY <2>1, <3>1, <3>2 DEF Budget
  <2>7. Conserved(rt)
    <3>1. ASSUME NEW a \in DOMAIN rs, a # i, Owed(rt, a), rt[a].occ \notin OwnerEventOcc
          PROVE  \E b \in DOMAIN rt : Pred(rt, b, a)
      BY <1>13, <2>1, <2>4, <3>1 DEF Owed
    <3>2. ~Owed(rt, n)
      BY <2>1 DEF Owed
    <3> QED BY <2>1, <2>5, <3>1, <3>2 DEF Conserved
  <2>8. Settles(rs, rt, i)
    BY <1>9, <2>1 DEF Settles, Terminal
  <2> QED BY <1>7, <2>1, <2>3, <2>6, <2>7, <2>8 DEF Good
<1> QED BY <1>14, <1>15

----------------------------------------------------------------------------
(* A completion settles its row.                                           *)
LEMMA CompleteGood ==
  ASSUME NEW rs, Good(rs), NEW i \in DOMAIN rs, rs[i].status = "in_progress"
  PROVE  Good(Completed(rs, i)) /\ Settles(rs, Completed(rs, i), i)
<1> DEFINE rt == Completed(rs, i)
<1>1. rs \in Seq(Row)
  BY DEF Good
<1>2. rs[i].reason \in Reasons
  BY <1>1, RowAt
<1>3. "failure" \in Reasons
  BY DEF Reasons
<1>4. Updated(rs, rt, i, "done", rs[i].reason)
  BY <1>1, <1>3, UpdateShapes
<1> HIDE DEF rt
<1>5. Good(rt)
  BY <1>4, OpenUpdateGood DEF Open
<1>6. Settles(rs, rt, i)
  BY <1>4 DEF Updated, Settles, Terminal
<1> QED BY <1>5, <1>6 DEF rt

(* The failure policy settles its row, and owes no retry it does not give: *)
(* a board key has no retry here and an ambiguous outcome forfeits it.     *)
LEMMA OrdinaryFailureGood ==
  ASSUME NEW rs, Good(rs), NEW i \in DOMAIN rs, rs[i].status = "in_progress",
         NEW why \in Reasons, NEW allowRetry \in BOOLEAN,
         allowRetry \/ why = "ambiguous"
  PROVE  /\ Good(OrdinaryFailure(rs, i, why, allowRetry))
         /\ Settles(rs, OrdinaryFailure(rs, i, why, allowRetry), i)
<1>1. rs[i].occ \in Occ /\ rs[i].attempts \in Nat \ {0}
  BY RowAt DEF Good
<1>2. CASE allowRetry /\ rs[i].attempts < MaxAttempts(rs[i].occ)
  <2>1. rs[i].occ \in WikiOcc /\ rs[i].attempts < 2
    BY <1>1, <1>2 DEF MaxAttempts
  <2>2. OrdinaryFailure(rs, i, why, allowRetry) = Requeued(rs, i, why)
    BY <1>2 DEF OrdinaryFailure
  <2> QED BY <2>1, <2>2, RequeueGood
<1>3. CASE ~(allowRetry /\ rs[i].attempts < MaxAttempts(rs[i].occ))
  <2>1. OrdinaryFailure(rs, i, why, allowRetry) = FailedRow(rs, i, why)
    BY <1>3 DEF OrdinaryFailure
  <2>2. rs[i].attempts >= MaxAttempts(rs[i].occ) \/ why = "ambiguous"
    BY <1>1, <1>3 DEF MaxAttempts
  <2> QED BY <2>1, <2>2, FailGood
<1> QED BY <1>2, <1>3

(* So does the arbitration by receipts.                                    *)
LEMMA ArbitrationGood ==
  ASSUME NEW rs, Good(rs), NEW i \in DOMAIN rs, rs[i].status = "in_progress",
         rs[i].occ \in BoardOcc, NEW why \in Reasons,
         NEW evidence \in BOOLEAN, NEW complete \in BOOLEAN
  PROVE  /\ Good(ArbitratedRows(rs, i, why, evidence, complete))
         /\ Settles(rs, ArbitratedRows(rs, i, why, evidence, complete), i)
<1> DEFINE d  == Disposition(rs[i].occ)
           rt == ArbitratedRows(rs, i, why, evidence, complete)
<1>1. rs[i].occ \notin WikiOcc /\ rs[i].attempts \in Nat \ {0} /\ "receipts" \in Reasons
  BY RowAt, OccurrenceAssumption DEF Good, Reasons
<1>2. rs[i].attempts >= MaxAttempts(rs[i].occ)
  BY <1>1 DEF MaxAttempts
<1>3. CASE d = "zero" /\ evidence /\ rs[i].attempts < 2
  <2>1. rs[i].occ \in CandidateOcc
    BY <1>3 DEF Disposition
  <2>2. rt = Requeued(rs, i, why)
    BY <1>3 DEF ArbitratedRows
  <2> HIDE DEF rt
  <2> QED BY <1>3, <2>1, <2>2, RequeueGood DEF rt
<1>4. CASE ~(d = "zero" /\ evidence /\ rs[i].attempts < 2)
  <2>1. \/ rt = Completed(rs, i)
        \/ rt = OrdinaryFailure(rs, i, why, TRUE)
        \/ rt = FailedRow(rs, i, "receipts")
    BY <1>4 DEF ArbitratedRows
  <2> HIDE DEF rt
  <2>2. CASE rt = Completed(rs, i)
    BY <2>2, CompleteGood DEF rt
  <2>3. CASE rt = OrdinaryFailure(rs, i, why, TRUE)
    BY <2>3, OrdinaryFailureGood DEF rt
  <2>4. CASE rt = FailedRow(rs, i, "receipts")
    BY <2>4, <1>1, <1>2, FailGood DEF rt
  <2> QED BY <2>1, <2>2, <2>3, <2>4
<1> QED BY <1>3, <1>4

----------------------------------------------------------------------------
(* What the end of an attempt does to the consumer: either row i is        *)
(* settled and no deferral remembers it, or (a board order whose receipts  *)
(* could not be read) the table stays and a deferral remembers it.         *)
Handled(rs, i) ==
  /\ Good(rows')
  /\ readFaults' \in Nat
  /\ \/ Settles(rs, rows', i) /\ unresolved' = Forget(i)
     \/ /\ rows' = rs
        /\ rs[i].occ \in BoardOcc
        /\ \E d \in Deferred : d.id = i /\ unresolved' = Forget(i) \cup {d}

(* An arbitration handles its row.                                         *)
LEMMA ArbitrateHandles ==
  ASSUME NEW rs, Good(rs), NEW i \in DOMAIN rs, rs[i].status = "in_progress",
         rs[i].occ \in BoardOcc, NEW why \in Reasons,
         NEW evidence \in BOOLEAN, NEW complete \in BOOLEAN,
         readFaults \in Nat, Arbitrate(rs, i, why, evidence, complete)
  PROVE  Handled(rs, i)
<1>1. CASE rows' = ArbitratedRows(rs, i, why, evidence, complete)
           /\ unresolved' = Forget(i) /\ UNCHANGED readFaults
  <2>1. Good(rows') /\ Settles(rs, rows', i)
    BY <1>1, ArbitrationGood
  <2> QED BY <1>1, <2>1 DEF Handled
<1>2. CASE /\ rows' = rs
           /\ unresolved' = Forget(i) \cup
                {[id |-> i, why |-> why, evidence |-> evidence, complete |-> complete]}
           /\ readFaults' = readFaults + 1
  <2>1. i \in Nat \ {0}
    BY LenProperties DEF Good
  <2> DEFINE d == [id |-> i, why |-> why, evidence |-> evidence, complete |-> complete]
  <2>2. d \in Deferred /\ d.id = i
    BY <2>1 DEF Deferred
  <2>3. Good(rows')
    BY <1>2
  <2>4. unresolved' = Forget(i) \cup {d}
    BY <1>2
  <2> HIDE DEF d
  <2> QED BY <1>2, <2>2, <2>3, <2>4 DEF Handled
<1> QED BY <1>1, <1>2 DEF Arbitrate

(* And so does handleFailure.                                              *)
LEMMA FailureHandles ==
  ASSUME NEW rs, Good(rs), NEW i \in DOMAIN rs, rs[i].status = "in_progress",
         NEW why \in Reasons, NEW allowRetry \in BOOLEAN, NEW evidence \in BOOLEAN,
         allowRetry \/ why = "ambiguous", unresolved = {},
         readFaults \in Nat, HandleFailure(rs, i, why, allowRetry, evidence)
  PROVE  Handled(rs, i)
<1>1. CASE rs[i].occ \in BoardOcc /\ Arbitrate(rs, i, why, evidence, FALSE)
  BY <1>1, ArbitrateHandles
<1>2. CASE rows' = OrdinaryFailure(rs, i, why, allowRetry) /\ UNCHANGED <<unresolved, readFaults>>
  <2>1. Good(rows') /\ Settles(rs, rows', i)
    BY <1>2, OrdinaryFailureGood
  <2> QED BY <1>2, <2>1 DEF Handled, Forget
<1> QED BY <1>1, <1>2 DEF HandleFailure

(* The in_progress rows before and after.                                  *)
LEMMA SettledProgress ==
  ASSUME NEW rs, NEW rt, NEW i \in DOMAIN rs, Settles(rs, rt, i)
  PROVE  WithStatus(rt, "in_progress") = WithStatus(rs, "in_progress") \ {i}
BY DEF Settles, WithStatus, Terminal

(* A claim keeps a table good and adds its row to the rows in progress.    *)
LEMMA ClaimGood ==
  ASSUME NEW rs, Good(rs), NEW i \in DOMAIN rs, rs[i].status = "pending"
  PROVE  /\ Good(Claimed(rs, i))
         /\ DOMAIN Claimed(rs, i) = DOMAIN rs
         /\ Claimed(rs, i)[i].status = "in_progress"
         /\ \A j \in DOMAIN rs : Claimed(rs, i)[j].occ = rs[j].occ
         /\ WithStatus(Claimed(rs, i), "in_progress") =
              WithStatus(rs, "in_progress") \cup {i}
<1> DEFINE rt == Claimed(rs, i)
<1>1. "failure" \in Reasons /\ rs \in Seq(Row)
  BY DEF Reasons, Good
<1>2. Updated(rs, rt, i, "in_progress", rs[i].reason)
  BY <1>1, UpdateShapes
<1> HIDE DEF rt
<1>3. Good(rt)
  BY <1>2, OpenUpdateGood DEF Open
<1>4. WithStatus(rt, "in_progress") = WithStatus(rs, "in_progress") \cup {i}
  BY <1>2 DEF Updated, WithStatus
<1> QED BY <1>2, <1>3, <1>4 DEF Updated, rt

----------------------------------------------------------------------------
(***************************************************************************)
(* The inductive invariant.  ClaimsAreOwned is not inductive alone: that   *)
(* settling an order leaves nothing in progress needs that nothing is      *)
(* deferred while an order is held (the claim barrier), and that a         *)
(* deferral always names a board row still in progress.                    *)
(***************************************************************************)
Holding ==
  /\ step # "idle" => proc = "up"
  /\ cur # 0 => remaining > 0 /\ unresolved = {} /\ cur \in InProgress
  /\ \A u \in unresolved : u.id \in InProgress /\ rows[u.id].occ \in BoardOcc
  /\ proc \in {"down", "booting"} => unresolved = {}

IInv == TypeOK /\ Good(rows) /\ Holding /\ ClaimsAreOwned

(* What every step that handles row i of the table rs leaves behind.       *)
LEMMA HandledKeeps ==
  ASSUME TypeOK, NEW rs, Good(rs), DOMAIN rs = DOMAIN rows,
         NEW i \in WithStatus(rs, "in_progress"), Handled(rs, i),
         \A u \in unresolved : u.id \in WithStatus(rs, "in_progress") /\ rs[u.id].occ \in BoardOcc,
         writeFaults = 0 => \A j, k \in WithStatus(rs, "in_progress") : j = k
  PROVE  /\ Good(rows') /\ rows' \in Seq(Row) /\ DOMAIN rows \subseteq DOMAIN rows'
         /\ readFaults' \in Nat
         /\ unresolved' \subseteq Deferred
         /\ \A u \in unresolved' : /\ u.id \in DOMAIN rows'
                                   /\ u.id \in InProgress'
                                   /\ rows'[u.id].occ \in BoardOcc
         /\ writeFaults = 0 => /\ InProgress' = {u.id : u \in unresolved'}
                               /\ \A j, k \in InProgress' : j = k
<1> DEFINE IP == WithStatus(rs, "in_progress")
<1>1. i \in DOMAIN rs /\ IP \subseteq DOMAIN rs /\ rs[i].status = "in_progress"
  BY DEF WithStatus
<1>2. unresolved \subseteq Deferred /\ Forget(i) \subseteq unresolved
      /\ \A u \in Forget(i) : u.id # i
  BY DEF TypeOK, Forget
<1>3. writeFaults = 0 => IP = {i} /\ Forget(i) = {}
  BY <1>2
<1>4. Good(rows') /\ readFaults' \in Nat /\ rows' \in Seq(Row)
  BY DEF Handled, Good
<1>5. CASE Settles(rs, rows', i) /\ unresolved' = Forget(i)
  <2>1. InProgress' = IP \ {i}
    BY <1>1, <1>5, SettledProgress DEF InProgress
  <2>2. DOMAIN rs \subseteq DOMAIN rows' /\ \A j \in DOMAIN rs : j # i => rows'[j] = rs[j]
    BY <1>5 DEF Settles
  <2>3. \A u \in unresolved' : u.id \in IP /\ u.id # i /\ rs[u.id].occ \in BoardOcc
    BY <1>2, <1>5
  <2> HIDE DEF IP
  <2>4. \A u \in unresolved' : /\ u.id \in DOMAIN rows'
                               /\ u.id \in InProgress'
                               /\ rows'[u.id].occ \in BoardOcc
    BY <1>1, <2>1, <2>2, <2>3
  <2>5. writeFaults = 0 => InProgress' = {} /\ unresolved' = {}
    BY <1>3, <1>5, <2>1
  <2> QED BY <1>2, <1>4, <1>5, <2>2, <2>4, <2>5
<1>6. CASE /\ rows' = rs
           /\ rs[i].occ \in BoardOcc
           /\ \E d \in Deferred : d.id = i /\ unresolved' = Forget(i) \cup {d}
  <2>1. PICK d \in Deferred : d.id = i /\ unresolved' = Forget(i) \cup {d}
    BY <1>6
  <2>2. InProgress' = IP
    BY <1>6 DEF InProgress
  <2>3. \A u \in unresolved' : u.id \in IP /\ rs[u.id].occ \in BoardOcc
    BY <1>2, <1>6, <2>1
  <2> HIDE DEF IP
  <2>4. writeFaults = 0 => InProgress' = {i} /\ unresolved' = {d}
    BY <1>3, <2>1, <2>2
  <2> QED BY <1>1, <1>2, <1>4, <1>6, <2>1, <2>2, <2>3, <2>4
<1> QED BY <1>5, <1>6 DEF Handled

(* A run that ends with its order handled, or left in progress while the   *)
(* process is stopping, keeps the invariant.                               *)
LEMMA RunEnds ==
  ASSUME IInv, step \in {"prep", "run", "after"}, Handled(rows, cur), RunOneReturns,
         UNCHANGED <<receipts, crashes, writeFaults>>
  PROVE  IInv'
<1>1. /\ TypeOK /\ Good(rows) /\ cur # 0 /\ cur \in Nat /\ remaining \in Nat
      /\ remaining > 0 /\ proc = "up" /\ cur \in WithStatus(rows, "in_progress")
      /\ \A u \in unresolved : u.id \in WithStatus(rows, "in_progress")
                               /\ rows[u.id].occ \in BoardOcc
      /\ writeFaults = 0 => \A j, k \in WithStatus(rows, "in_progress") : j = k
  BY DEF IInv, TypeOK, Holding, ClaimsAreOwned, InProgress
<1>2. /\ Good(rows') /\ rows' \in Seq(Row) /\ DOMAIN rows \subseteq DOMAIN rows'
      /\ readFaults' \in Nat
      /\ unresolved' \subseteq Deferred
      /\ \A u \in unresolved' : /\ u.id \in DOMAIN rows'
                                /\ u.id \in InProgress'
                                /\ rows'[u.id].occ \in BoardOcc
      /\ writeFaults = 0 => /\ InProgress' = {u.id : u \in unresolved'}
                            /\ \A j, k \in InProgress' : j = k
  BY <1>1, HandledKeeps
<1>3. step' = "loop" /\ cur' = 0 /\ remaining' = remaining - 1
      /\ UNCHANGED <<proc, stopping, receipts, crashes, writeFaults>>
  BY DEF RunOneReturns, processVars
<1>4. TypeOK'
  BY <1>1, <1>2, <1>3 DEF TypeOK, LedgerTypeOK
<1>5. Holding'
  BY <1>1, <1>2, <1>3 DEF Holding
<1>6. ClaimsAreOwned'
  <2>1. writeFaults' = 0 => InProgress' = Owned' \ {0}
    <3>1. \A u \in unresolved' : u.id # 0
      BY <1>2 DEF Deferred
    <3> QED BY <1>2, <1>3, <3>1 DEF Owned
  <2> QED BY <1>2, <1>3, <2>1 DEF ClaimsAreOwned
<1> QED BY <1>2, <1>4, <1>5, <1>6 DEF IInv

(* The initial state satisfies the invariant.                              *)
LEMMA InitIInv == Init => IInv
<1> SUFFICES ASSUME Init PROVE IInv
  OBVIOUS
<1>1. rows = <<>> /\ rows \in Seq(Row) /\ DOMAIN rows = {}
  BY DEF Init, LedgerInit
<1>2. TypeOK
  BY <1>1 DEF Init, LedgerInit, TypeOK, LedgerTypeOK
<1>3. Good(rows)
  BY <1>1 DEF Good, SlotOnce, Budget, Conserved
<1>4. InProgress = {}
  BY <1>1 DEF InProgress, WithStatus
<1>5. Holding /\ ClaimsAreOwned
  BY <1>4 DEF Init, Holding, ClaimsAreOwned
<1> QED BY <1>2, <1>3, <1>5 DEF IInv

(* Every step of the consumer, of the process and of the publishers keeps  *)
(* the invariant.                                                          *)
LEMMA NextIInv == IInv /\ [Next]_vars => IInv'
<1> SUFFICES ASSUME IInv, [Next]_vars PROVE IInv'
  OBVIOUS
<1> USE DEF IInv
<1>0. /\ rows \in Seq(Row) /\ DOMAIN rows = 1..Len(rows) /\ Len(rows) \in Nat
      /\ cur # 0 <=> step \in {"prep", "run", "after"}
      /\ readFaults \in Nat /\ crashes \in Nat /\ writeFaults \in Nat
      /\ InProgress = WithStatus(rows, "in_progress")
      /\ InProgress \subseteq DOMAIN rows
      /\ \A u \in unresolved : u.id \in WithStatus(rows, "in_progress")
                               /\ rows[u.id].occ \in BoardOcc
      /\ writeFaults = 0 => \A j, k \in WithStatus(rows, "in_progress") : j = k
  BY LenProperties
     DEF TypeOK, LedgerTypeOK, Holding, ClaimsAreOwned, InProgress, WithStatus
<1>1. ASSUME NEW o \in Occ, NEW rank \in Ranks, Enqueue(o, rank) PROVE IInv'
  <2>1. /\ rows' = Inserted(rows, o, rank, 1)
        /\ UNCHANGED <<receipts, proc, stopping, step, cur, remaining, unresolved,
                       crashes, readFaults, writeFaults>>
    BY <1>1 DEF Enqueue, processVars, runVars, boundVars
  <2>2. /\ Good(rows') /\ DOMAIN rows \subseteq DOMAIN rows'
        /\ \A j \in DOMAIN rows : rows'[j] = rows[j]
        /\ \A j \in DOMAIN rows' \ DOMAIN rows : rows'[j].status = "pending"
    BY <2>1, InsertGood
  <2>3. rows' \in Seq(Row)
    BY <2>2 DEF Good
  <2>4. InProgress' = InProgress
    BY <2>2 DEF InProgress, WithStatus
  <2>5. TypeOK'
    BY <2>1, <2>2, <2>3 DEF TypeOK, LedgerTypeOK
  <2>6. Holding'
    BY <1>0, <2>1, <2>2, <2>4 DEF Holding
  <2>7. ClaimsAreOwned'
    BY <2>1, <2>4 DEF ClaimsAreOwned, Owned
  <2> QED BY <2>2, <2>5, <2>6, <2>7
<1>2. ASSUME StartProcess \/ StartRecovery \/ BootDone PROVE IInv'
  <2>1. UNCHANGED <<rows, receipts, stopping, step, cur, remaining, unresolved,
                    crashes, readFaults, writeFaults>>
    BY <1>2 DEF StartProcess, StartRecovery, BootDone, ledgerVars, runVars, boundVars
  <2>2. proc # "up" /\ proc' \in {"booting", "recovering", "up"}
        /\ (proc' = "booting" => proc = "down")
        /\ (proc' = "up" => unresolved # {} \/ InProgress = {})
    BY <1>2 DEF StartProcess, StartRecovery, BootDone
  <2>3. step = "idle" /\ cur = 0
    BY <1>0, <2>2 DEF Holding, TypeOK
  <2>4. InProgress' = InProgress /\ Good(rows)' /\ Owned' = Owned
    BY <2>1 DEF InProgress, Owned
  <2>5. TypeOK'
    BY <2>1, <2>2 DEF TypeOK, LedgerTypeOK
  <2>6. Holding'
    BY <2>1, <2>2, <2>3, <2>4 DEF Holding
  <2>7. proc' = "up" /\ writeFaults = 0 => InProgress = Owned \ {0}
    <3>1. \A u \in unresolved : u.id # 0
      BY DEF TypeOK, Deferred
    <3>2. Owned \ {0} = {u.id : u \in unresolved}
      BY <2>3, <3>1 DEF Owned
    <3> QED BY <1>0, <2>2, <3>2
  <2>8. ClaimsAreOwned'
    BY <2>1, <2>3, <2>4, <2>7 DEF ClaimsAreOwned
  <2> QED BY <2>4, <2>5, <2>6, <2>8
<1>3. ASSUME NEW i \in DOMAIN rows, RecoverStale(i) PROVE IInv'
  <2>1. /\ proc = "recovering" /\ unresolved = {} /\ i \in WithStatus(rows, "in_progress")
        /\ rows[i].status = "in_progress"
        /\ HandleFailure(rows, i, "failure", TRUE, FALSE)
        /\ UNCHANGED <<receipts, proc, stopping, step, cur, remaining,
                       crashes, writeFaults>>
    BY <1>3 DEF RecoverStale, processVars, runVars, InProgress, WithStatus
  <2>2. Handled(rows, i)
    BY <1>0, <2>1, FailureHandles DEF Reasons
  <2>3. /\ Good(rows') /\ rows' \in Seq(Row) /\ DOMAIN rows \subseteq DOMAIN rows'
        /\ readFaults' \in Nat
        /\ unresolved' \subseteq Deferred
        /\ \A u \in unresolved' : /\ u.id \in DOMAIN rows'
                                  /\ u.id \in InProgress'
                                  /\ rows'[u.id].occ \in BoardOcc
        /\ writeFaults = 0 => /\ InProgress' = {u.id : u \in unresolved'}
                              /\ \A j, k \in InProgress' : j = k
    BY <1>0, <2>1, <2>2, HandledKeeps
  <2>4. step = "idle" /\ cur = 0
    BY <1>0, <2>1 DEF Holding
  <2>5. TypeOK'
    BY <2>1, <2>3, <2>4 DEF TypeOK, LedgerTypeOK
  <2>6. Holding'
    BY <2>1, <2>3, <2>4 DEF Holding
  <2>7. ClaimsAreOwned'
    BY <2>1, <2>3, <2>4 DEF ClaimsAreOwned
  <2> QED BY <2>3, <2>5, <2>6, <2>7
<1>4. ASSUME TickStart \/ EndTick \/ PrepDone \/ RunReturns PROVE IInv'
  <2>1. /\ UNCHANGED <<rows, receipts, proc, stopping, cur, unresolved,
                       crashes, readFaults, writeFaults>>
        /\ (step = "idle" => proc = "up")
        /\ step' \in {"idle", "loop", "run", "after"}
        /\ (step' \in {"idle", "loop"} <=> step \in {"idle", "loop"})
        /\ (step \in {"prep", "run"} => UNCHANGED remaining)
        /\ remaining' \in Nat
    <3>1. Cardinality(Pending) \in Nat
      <4>1. IsFiniteSet(DOMAIN rows)
        BY <1>0, FS_Interval
      <4>2. IsFiniteSet(Pending)
        BY <4>1, FS_Subset DEF Pending, WithStatus
      <4> QED BY <4>2, FS_CardinalityType
    <3> QED BY <1>0, <1>4, <3>1
          DEF TickStart, EndTick, PrepDone, RunReturns, ledgerVars, processVars, boundVars, TypeOK
  <2>2. InProgress' = InProgress /\ Good(rows)' /\ Owned' = Owned
    BY <2>1 DEF InProgress, Owned
  <2>3. step \in {"idle", "loop", "prep", "run"}
    BY <1>4 DEF TickStart, EndTick, PrepDone, RunReturns
  <2>4. TypeOK'
    BY <1>0, <2>1, <2>3 DEF TypeOK, LedgerTypeOK
  <2>5. Holding'
    BY <1>0, <2>1, <2>2, <2>3 DEF Holding
  <2>6. ClaimsAreOwned'
    BY <2>1, <2>2 DEF ClaimsAreOwned
  <2> QED BY <2>2, <2>4, <2>5, <2>6
<1>5. ASSUME NEW u \in unresolved, Recheck(u) PROVE IInv'
  <2>1. /\ proc = "up" /\ step = "idle" /\ cur = 0
        /\ Arbitrate(rows, u.id, u.why, u.evidence, u.complete)
        /\ UNCHANGED <<receipts, proc, stopping, step, cur, remaining,
                       crashes, writeFaults>>
    BY <1>0, <1>5 DEF Recheck, processVars, runVars
  <2>2. /\ u.id \in WithStatus(rows, "in_progress") /\ u.id \in DOMAIN rows
        /\ rows[u.id].status = "in_progress" /\ rows[u.id].occ \in BoardOcc
        /\ u.why \in Reasons /\ u.evidence \in BOOLEAN /\ u.complete \in BOOLEAN
    BY <1>0 DEF WithStatus, TypeOK, Deferred
  <2>3. Handled(rows, u.id)
    BY <1>0, <2>1, <2>2, ArbitrateHandles
  <2>4. /\ Good(rows') /\ rows' \in Seq(Row) /\ DOMAIN rows \subseteq DOMAIN rows'
        /\ readFaults' \in Nat
        /\ unresolved' \subseteq Deferred
        /\ \A v \in unresolved' : /\ v.id \in DOMAIN rows'
                                  /\ v.id \in InProgress'
                                  /\ rows'[v.id].occ \in BoardOcc
        /\ writeFaults = 0 => /\ InProgress' = {v.id : v \in unresolved'}
                              /\ \A j, k \in InProgress' : j = k
    BY <1>0, <2>2, <2>3, HandledKeeps
  <2>5. TypeOK'
    BY <2>1, <2>4 DEF TypeOK, LedgerTypeOK
  <2>6. Holding'
    BY <2>1, <2>4 DEF Holding
  <2>7. ClaimsAreOwned'
    <3>1. \A v \in unresolved' : v.id # 0
      BY <2>4 DEF Deferred
    <3>2. Owned' \ {0} = {v.id : v \in unresolved'}
      BY <2>1, <3>1 DEF Owned
    <3> QED BY <2>1, <2>4, <3>2 DEF ClaimsAreOwned
  <2> QED BY <2>4, <2>5, <2>6, <2>7
<1>6. ASSUME NEW i \in DOMAIN rows, Claim(i) \/ ClaimWithoutBrief(i) PROVE IInv'
  <2> DEFINE rc == Claimed(rows, i)
  <2>1. /\ step = "loop" /\ proc = "up" /\ ~stopping /\ cur = 0
        /\ remaining > 0 /\ unresolved = {} /\ rows[i].status = "pending"
    BY <1>0, <1>6
       DEF Claim, ClaimWithoutBrief, TickGoesOn, NextPending, WithStatus, Holding
  <2>2. /\ Good(rc) /\ DOMAIN rc = DOMAIN rows /\ rc[i].status = "in_progress"
        /\ WithStatus(rc, "in_progress") = InProgress \cup {i}
    BY <1>0, <2>1, ClaimGood
  <2>3. writeFaults = 0 => InProgress = {}
    BY <2>1 DEF ClaimsAreOwned, Owned
  <2>4. i \in WithStatus(rc, "in_progress") /\ i # 0
    BY <1>0, <2>2
  <2> HIDE DEF rc
  <2>5. CASE Claim(i)
    <3>1. /\ rows' = rc /\ step' = "prep" /\ cur' = i
          /\ UNCHANGED <<receipts, proc, stopping, remaining, unresolved,
                         crashes, readFaults, writeFaults>>
      BY <2>5 DEF Claim, rc, processVars, boundVars
    <3>2. Good(rows') /\ rows' \in Seq(Row) /\ InProgress' = InProgress \cup {i}
      BY <2>2, <3>1 DEF Good, InProgress
    <3>3. TypeOK'
      BY <1>0, <2>1, <2>2, <2>4, <3>1, <3>2 DEF TypeOK, LedgerTypeOK
    <3>4. Holding'
      BY <2>1, <3>1, <3>2 DEF Holding
    <3>5. ClaimsAreOwned'
      BY <2>1, <2>3, <2>4, <3>1, <3>2 DEF ClaimsAreOwned, Owned
    <3> QED BY <3>2, <3>3, <3>4, <3>5
  <2>6. CASE ClaimWithoutBrief(i)
    <3>1. /\ HandleFailure(rc, i, "failure", TRUE, FALSE)
          /\ step' = "loop" /\ cur' = 0 /\ remaining' = remaining - 1
          /\ UNCHANGED <<receipts, proc, stopping, crashes, writeFaults>>
      BY <2>6 DEF ClaimWithoutBrief, rc, RunOneReturns, processVars
    <3>2. Handled(rc, i)
      BY <1>0, <2>1, <2>2, <3>1, FailureHandles DEF Reasons
    <3>3. /\ Good(rows') /\ rows' \in Seq(Row) /\ DOMAIN rows \subseteq DOMAIN rows'
          /\ readFaults' \in Nat
          /\ unresolved' \subseteq Deferred
          /\ \A v \in unresolved' : /\ v.id \in DOMAIN rows'
                                    /\ v.id \in InProgress'
                                    /\ rows'[v.id].occ \in BoardOcc
          /\ writeFaults = 0 => /\ InProgress' = {v.id : v \in unresolved'}
                                /\ \A j, k \in InProgress' : j = k
      BY <2>1, <2>2, <2>3, <2>4, <3>2, HandledKeeps
    <3>4. TypeOK'
      BY <2>1, <3>1, <3>3 DEF TypeOK, LedgerTypeOK
    <3>5. Holding'
      BY <2>1, <3>1, <3>3 DEF Holding
    <3>6. ClaimsAreOwned'
      <4>1. \A v \in unresolved' : v.id # 0
        BY <3>3 DEF Deferred
      <4>2. Owned' \ {0} = {v.id : v \in unresolved'}
        BY <3>1, <4>1 DEF Owned
      <4> QED BY <3>1, <3>3, <4>2 DEF ClaimsAreOwned
    <3> QED BY <3>3, <3>4, <3>5, <3>6
  <2> QED BY <1>6, <2>5, <2>6
<1>7. ASSUME PrepFails \/ RunAnswersApiError \/ AfterDone
             \/ \E ambiguous \in BOOLEAN : RunThrows(ambiguous)
      PROVE  IInv'
  <2>1. step \in {"prep", "run", "after"} /\ RunOneReturns
        /\ UNCHANGED <<receipts, crashes, writeFaults>>
    BY <1>7 DEF PrepFails, RunAnswersApiError, AfterDone, RunThrows
  <2>2. /\ cur \in DOMAIN rows /\ rows[cur].status = "in_progress" /\ unresolved = {}
        /\ cur # 0 /\ {"failure", "pre-run", "ambiguous", "receipts"} \subseteq Reasons
    BY <1>0, <2>1 DEF Holding, WithStatus, Reasons
  <2>3. Handled(rows, cur) => IInv'
    BY <2>1, RunEnds
  <2>4. CASE PrepFails
    <3>1. HandleFailure(rows, cur, "pre-run", TRUE, rows[cur].occ \in BoardOcc)
      BY <2>4 DEF PrepFails
    <3>2. (rows[cur].occ \in BoardOcc) \in BOOLEAN
      OBVIOUS
    <3> QED BY <1>0, <2>2, <2>3, <3>1, <3>2, FailureHandles
  <2>5. CASE RunAnswersApiError
    <3>1. HandleFailure(rows, cur, "failure", TRUE, FALSE)
      BY <2>5 DEF RunAnswersApiError
    <3> QED BY <1>0, <2>2, <2>3, <3>1, FailureHandles
  <2>6. CASE AfterDone
    <3>1. CASE rows[cur].occ \in BoardOcc /\ Arbitrate(rows, cur, "receipts", FALSE, TRUE)
      BY <1>0, <2>2, <2>3, <3>1, ArbitrateHandles
    <3>2. CASE rows' = Completed(rows, cur) /\ UNCHANGED <<unresolved, readFaults>>
      <4>1. Good(rows') /\ Settles(rows, rows', cur)
        BY <2>2, <3>2, CompleteGood
      <4>2. Handled(rows, cur)
        BY <1>0, <2>2, <3>2, <4>1 DEF Handled, Forget
      <4> QED BY <2>3, <4>2
    <3> QED BY <2>6, <3>1, <3>2 DEF AfterDone
  <2>7. ASSUME NEW ambiguous \in BOOLEAN, RunThrows(ambiguous) PROVE IInv'
    <3>1. CASE HandleFailure(rows, cur, IF ambiguous THEN "ambiguous" ELSE "failure",
                             ~ambiguous, FALSE)
      <4>1. CASE ambiguous
        <5>1. HandleFailure(rows, cur, "ambiguous", FALSE, FALSE)
          BY <3>1, <4>1
        <5> QED BY <1>0, <2>2, <2>3, <5>1, FailureHandles
      <4>2. CASE ~ambiguous
        <5>1. HandleFailure(rows, cur, "failure", TRUE, FALSE)
          BY <3>1, <4>2
        <5> QED BY <1>0, <2>2, <2>3, <5>1, FailureHandles
      <4> QED BY <4>1, <4>2
    <3>2. CASE stopping /\ UNCHANGED <<rows, unresolved, readFaults>>
      <4>1. /\ UNCHANGED <<receipts, crashes, writeFaults, proc, stopping>>
            /\ step' = "loop" /\ cur' = 0 /\ remaining' = remaining - 1 /\ proc = "up"
            /\ remaining > 0
        BY <1>0, <2>1, <2>2 DEF RunOneReturns, processVars, Holding
      <4>2. InProgress' = InProgress /\ Good(rows)'
        BY <3>2 DEF InProgress
      <4>3. TypeOK'
        BY <3>2, <4>1 DEF TypeOK, LedgerTypeOK
      <4>4. Holding'
        BY <2>2, <3>2, <4>1, <4>2 DEF Holding
      <4>5. ClaimsAreOwned'
        BY <3>2, <4>1, <4>2 DEF ClaimsAreOwned
      <4> QED BY <4>2, <4>3, <4>4, <4>5
    <3> QED BY <2>7, <3>1, <3>2 DEF RunThrows
  <2> QED BY <1>7, <2>4, <2>5, <2>6, <2>7
<1>8. ASSUME NEW c \in Candidates, Decide(c) PROVE IInv'
  <2>1. /\ UNCHANGED <<rows, proc, stopping, step, cur, remaining, unresolved,
                       crashes, readFaults, writeFaults>>
        /\ receipts' \subseteq CandidateOcc \X Candidates
    BY <1>8 DEF Decide, processVars, runVars, boundVars, TypeOK, LedgerTypeOK
  <2>2. InProgress' = InProgress /\ Good(rows)' /\ Owned' = Owned
    BY <2>1 DEF InProgress, Owned
  <2>3. TypeOK'
    BY <2>1 DEF TypeOK, LedgerTypeOK
  <2>4. Holding' /\ ClaimsAreOwned'
    BY <2>1, <2>2 DEF Holding, ClaimsAreOwned
  <2> QED BY <2>2, <2>3, <2>4
<1>9. ASSUME Faults PROVE IInv'
  <2>1. /\ UNCHANGED <<rows, receipts, proc, stopping, crashes, readFaults>>
        /\ writeFaults' = writeFaults + 1
        /\ unresolved' \subseteq unresolved
        /\ \/ step' = "idle" /\ cur' = 0 /\ remaining' = 0
           \/ step = "idle" /\ UNCHANGED <<step, cur, remaining>>
    BY <1>9 DEF Faults, SettleWriteFails, RecheckWriteFails, ledgerVars, processVars,
                runVars, Forget
  <2>2. InProgress' = InProgress /\ Good(rows)'
    BY <2>1 DEF InProgress
  <2>3. cur' = 0
    BY <1>0, <2>1
  <2>4. TypeOK'
    BY <1>0, <2>1, <2>3 DEF TypeOK, LedgerTypeOK
  <2>5. Holding'
    BY <2>1, <2>2, <2>3 DEF Holding
  <2>6. ClaimsAreOwned'
    BY <1>0, <2>1 DEF ClaimsAreOwned
  <2> QED BY <2>2, <2>4, <2>5, <2>6
<1>10. ASSUME Stop PROVE IInv'
  <2>1. /\ UNCHANGED <<rows, receipts, proc, step, cur, remaining, unresolved,
                       crashes, readFaults, writeFaults>>
        /\ stopping' = TRUE
    BY <1>10 DEF Stop, ledgerVars, runVars, boundVars
  <2>2. InProgress' = InProgress /\ Good(rows)'
    BY <2>1 DEF InProgress
  <2>3. TypeOK'
    BY <2>1 DEF TypeOK, LedgerTypeOK
  <2>4. Holding' /\ ClaimsAreOwned'
    BY <2>1, <2>2 DEF Holding, ClaimsAreOwned
  <2> QED BY <2>2, <2>3, <2>4
<1>11. ASSUME Exit \/ Crash PROVE IInv'
  <2>1. /\ UNCHANGED <<rows, receipts, readFaults, writeFaults>>
        /\ proc' = "down" /\ stopping' = FALSE
        /\ step' = "idle" /\ cur' = 0 /\ remaining' = 0
        /\ unresolved' = {} /\ crashes' = crashes + 1
    BY <1>11 DEF Exit, Crash, Dies, ledgerVars
  <2>2. InProgress' = InProgress /\ Good(rows)'
    BY <2>1 DEF InProgress
  <2>3. TypeOK'
    <3>1. LedgerTypeOK' /\ crashes' \in Nat /\ readFaults' \in Nat /\ writeFaults' \in Nat
      BY <1>0, <2>1 DEF TypeOK, LedgerTypeOK
    <3>2. /\ cur' \in Nat /\ cur' \in DOMAIN rows' \cup {0}
          /\ remaining' \in Nat /\ stopping' \in BOOLEAN
      BY <2>1
    <3> QED BY <2>1, <3>1, <3>2 DEF TypeOK
  <2>4. Holding' /\ ClaimsAreOwned'
    BY <2>1, <2>2 DEF Holding, ClaimsAreOwned
  <2> QED BY <2>2, <2>3, <2>4
<1>12. ASSUME UNCHANGED vars PROVE IInv'
  <2>1. UNCHANGED <<rows, receipts, proc, stopping, step, cur, remaining, unresolved,
                    crashes, readFaults, writeFaults>>
    BY <1>12 DEF vars, ledgerVars, processVars, runVars, boundVars
  <2>2. InProgress' = InProgress /\ Good(rows)' /\ Owned' = Owned
    BY <2>1 DEF InProgress, Owned
  <2>3. TypeOK'
    BY <2>1 DEF TypeOK, LedgerTypeOK
  <2>4. Holding' /\ ClaimsAreOwned'
    BY <2>1, <2>2 DEF Holding, ClaimsAreOwned
  <2> QED BY <2>2, <2>3, <2>4
<1> QED
  BY <1>1, <1>2, <1>3, <1>4, <1>5, <1>6, <1>7, <1>8, <1>9, <1>10, <1>11, <1>12
     DEF Next, Publish, Boot, Recover, Rechecks, ClaimNext, RunSettles, Decides

----------------------------------------------------------------------------
(* The invariant holds in every state of every behaviour.                  *)
THEOREM Invariance == Spec => []IInv
<1>1. Init => IInv
  BY InitIInv
<1>2. IInv /\ [Next]_vars => IInv'
  BY NextIInv
<1> QED BY <1>1, <1>2, PTL DEF Spec

(* Type correctness, for every set of keys and every bound.                *)
THEOREM TypeCorrect == Spec => []TypeOK
<1>1. IInv => TypeOK
  BY DEF IInv
<1> QED BY <1>1, Invariance, PTL

(* No occurrence is ever worked on by two open rows, and an owner event is *)
(* accepted once: for every interleaving of publishers, failures, crashes  *)
(* and restarts.                                                           *)
THEOREM SlotSafety == Spec => []SlotHeldOnce
<1>1. IInv => SlotHeldOnce
  BY DEF IInv, Good, SlotOnce, SlotHeldOnce
<1> QED BY <1>1, Invariance, PTL

(* No key is tried beyond its budget, and no attempt is without a failed   *)
(* attempt before it.                                                      *)
THEOREM BudgetSafety == Spec => []AttemptBudget
<1>1. IInv => AttemptBudget
  BY DEF IInv, Good, Budget, AttemptBudget, Pred, Predecessor
<1> QED BY <1>1, Invariance, PTL

(* A retry that is owed is in the table, except for the owner-event keys.  *)
THEOREM RetrySafety == Spec => []RetryConserved
<1>1. IInv => RetryConserved
  BY DEF IInv, Good, Conserved, RetryConserved, Owed, RetryOwed, Pred, Predecessor, Replaced
<1> QED BY <1>1, Invariance, PTL

(* While no ledger write throws, at most one order is in progress and a    *)
(* running daemon knows which.                                             *)
THEOREM ClaimSafety == Spec => []ClaimsAreOwned
<1>1. IInv => ClaimsAreOwned
  BY DEF IInv
<1> QED BY <1>1, Invariance, PTL

----------------------------------------------------------------------------
(***************************************************************************)
(* The action properties.  A step changes at most one of the rows that are *)
(* there: the pending row it claims, or a row in progress that it settles, *)
(* which for a board order takes an arbitration.                           *)
(***************************************************************************)
OnlyRow(i) == \A j \in DOMAIN rows : j # i => rows'[j] = rows[j]

Settling(i) ==
  /\ OnlyRow(i)
  /\ rows[i].occ \in BoardOcc =>
       \/ rows' = rows
       \/ \E why \in Reasons, evidence, complete \in BOOLEAN :
            rows' = ArbitratedRows(rows, i, why, evidence, complete)

(* What handleFailure does to the table, seen as a change of one row.      *)
LEMMA FailureSettles ==
  ASSUME Good(rows), NEW i \in DOMAIN rows, NEW why \in Reasons,
         NEW allowRetry \in BOOLEAN, NEW evidence \in BOOLEAN,
         Handled(rows, i), HandleFailure(rows, i, why, allowRetry, evidence)
  PROVE  Settling(i)
<1>1. OnlyRow(i)
  BY DEF Handled, Settles, OnlyRow
<1>2. CASE rows[i].occ \in BoardOcc /\ Arbitrate(rows, i, why, evidence, FALSE)
  BY <1>1, <1>2 DEF Arbitrate, Settling
<1>3. CASE rows[i].occ \notin BoardOcc
  BY <1>1, <1>3 DEF Settling
<1> QED BY <1>2, <1>3 DEF HandleFailure

(* A step changes at most one of the rows that exist, by a settlement or   *)
(* by a claim.                                                             *)
LEMMA RowsStep ==
  ASSUME IInv, [Next]_vars
  PROVE  \/ \A j \in DOMAIN rows : rows'[j] = rows[j]
         \/ \E i \in InProgress : Settling(i)
         \/ step = "loop" /\ TickGoesOn /\ \E i \in Pending : OnlyRow(i)
<1> DEFINE Steady == \A j \in DOMAIN rows : rows'[j] = rows[j]
           Settled == \E i \in InProgress : Settling(i)
           Claims == step = "loop" /\ TickGoesOn /\ \E i \in Pending : OnlyRow(i)
<1>0. /\ TypeOK /\ Good(rows) /\ rows \in Seq(Row) /\ readFaults \in Nat
      /\ InProgress = WithStatus(rows, "in_progress") /\ Pending = WithStatus(rows, "pending")
      /\ {"failure", "pre-run", "ambiguous", "receipts"} \subseteq Reasons
  BY DEF IInv, TypeOK, LedgerTypeOK, Good, InProgress, Pending, Reasons
<1>1. ASSUME NEW o \in Occ, NEW rank \in Ranks, Enqueue(o, rank) PROVE Steady
  <2>1. rows' = Inserted(rows, o, rank, 1)
    BY <1>1 DEF Enqueue
  <2> QED BY <1>0, <2>1, InsertGood
<1>2. ASSUME NEW i \in DOMAIN rows, RecoverStale(i) PROVE Settled
  <2>1. /\ i \in WithStatus(rows, "in_progress") /\ rows[i].status = "in_progress"
        /\ unresolved = {} /\ HandleFailure(rows, i, "failure", TRUE, FALSE)
    BY <1>2 DEF RecoverStale, InProgress, WithStatus
  <2>2. Handled(rows, i)
    BY <1>0, <2>1, FailureHandles
  <2>3. Settling(i)
    BY <1>0, <2>1, <2>2, FailureSettles
  <2> QED BY <1>0, <2>1, <2>3
<1>3. ASSUME NEW u \in unresolved, Recheck(u) PROVE Settled
  <2>1. /\ u.id \in WithStatus(rows, "in_progress") /\ u.id \in DOMAIN rows
        /\ rows[u.id].status = "in_progress" /\ rows[u.id].occ \in BoardOcc
        /\ u.why \in Reasons /\ u.evidence \in BOOLEAN /\ u.complete \in BOOLEAN
    BY DEF IInv, Holding, InProgress, WithStatus, TypeOK, Deferred
  <2>2. Arbitrate(rows, u.id, u.why, u.evidence, u.complete)
    BY <1>3 DEF Recheck
  <2>3. Handled(rows, u.id)
    BY <1>0, <2>1, <2>2, ArbitrateHandles
  <2>4. OnlyRow(u.id)
    BY <2>3 DEF Handled, Settles, OnlyRow
  <2>5. Settling(u.id)
    BY <2>1, <2>2, <2>4 DEF Arbitrate, Settling
  <2> QED BY <1>0, <2>1, <2>5
<1>4. ASSUME NEW i \in DOMAIN rows, Claim(i) \/ ClaimWithoutBrief(i) PROVE Claims
  <2> DEFINE rc == Claimed(rows, i)
  <2>1. /\ step = "loop" /\ TickGoesOn /\ i \in WithStatus(rows, "pending")
        /\ unresolved = {} /\ rows[i].status = "pending"
    BY <1>4 DEF Claim, ClaimWithoutBrief, TickGoesOn, NextPending, WithStatus
  <2>2. /\ Good(rc) /\ DOMAIN rc = DOMAIN rows /\ rc[i].status = "in_progress"
    BY <1>0, <2>1, ClaimGood
  <2>3. Updated(rows, rc, i, "in_progress", rows[i].reason)
    BY <1>0, UpdateShapes
  <2>4. \A j \in DOMAIN rows : j # i => rc[j] = rows[j]
    BY <2>3 DEF Updated
  <2>5. rows' = rc \/ HandleFailure(rc, i, "failure", TRUE, FALSE)
    BY <1>4 DEF Claim, ClaimWithoutBrief
  <2> HIDE DEF rc
  <2>6. CASE rows' = rc
    BY <1>0, <2>1, <2>4, <2>6 DEF OnlyRow
  <2>7. CASE HandleFailure(rc, i, "failure", TRUE, FALSE)
    <3>1. Handled(rc, i)
      BY <1>0, <2>1, <2>2, <2>7, FailureHandles
    <3>2. \A j \in DOMAIN rc : j # i => rows'[j] = rc[j]
      BY <3>1 DEF Handled, Settles
    <3>3. OnlyRow(i)
      BY <2>2, <2>4, <3>2 DEF OnlyRow
    <3> QED BY <1>0, <2>1, <3>3
  <2> QED BY <2>5, <2>6, <2>7
<1>5. ASSUME PrepFails \/ RunAnswersApiError \/ AfterDone
             \/ \E ambiguous \in BOOLEAN : RunThrows(ambiguous)
      PROVE  Steady \/ Settled
  <2>1. /\ cur \in DOMAIN rows /\ rows[cur].status = "in_progress" /\ unresolved = {}
        /\ cur \in InProgress
    BY <1>5 DEF IInv, TypeOK, Holding, InProgress, WithStatus,
                PrepFails, RunAnswersApiError, AfterDone, RunThrows
  <2>2. ASSUME NEW why \in Reasons, NEW allowRetry \in BOOLEAN, NEW evidence \in BOOLEAN,
               allowRetry \/ why = "ambiguous",
               HandleFailure(rows, cur, why, allowRetry, evidence)
        PROVE  Settled
    <3>1. Handled(rows, cur)
      BY <1>0, <2>1, <2>2, FailureHandles
    <3>2. Settling(cur)
      BY <1>0, <2>1, <2>2, <3>1, FailureSettles
    <3> QED BY <2>1, <3>2
  <2>3. CASE PrepFails
    <3>1. HandleFailure(rows, cur, "pre-run", TRUE, rows[cur].occ \in BoardOcc)
      BY <2>3 DEF PrepFails
    <3>2. (rows[cur].occ \in BoardOcc) \in BOOLEAN
      OBVIOUS
    <3> QED BY <1>0, <2>2, <3>1, <3>2
  <2>4. CASE RunAnswersApiError
    <3>1. HandleFailure(rows, cur, "failure", TRUE, FALSE)
      BY <2>4 DEF RunAnswersApiError
    <3> QED BY <1>0, <2>2, <3>1
  <2>5. CASE AfterDone
    <3>1. CASE rows[cur].occ \in BoardOcc /\ Arbitrate(rows, cur, "receipts", FALSE, TRUE)
      <4>1. Handled(rows, cur)
        BY <1>0, <2>1, <3>1, ArbitrateHandles
      <4>2. OnlyRow(cur)
        BY <4>1 DEF Handled, Settles, OnlyRow
      <4>3. Settling(cur)
        BY <1>0, <3>1, <4>2 DEF Arbitrate, Settling
      <4> QED BY <2>1, <4>3
    <3>2. CASE rows[cur].occ \notin BoardOcc /\ rows' = Completed(rows, cur)
      <4>1. Settles(rows, rows', cur)
        BY <1>0, <2>1, <3>2, CompleteGood
      <4>2. Settling(cur)
        BY <3>2, <4>1 DEF Settles, Settling, OnlyRow
      <4> QED BY <2>1, <4>2
    <3> QED BY <2>5, <3>1, <3>2 DEF AfterDone
  <2>6. ASSUME NEW ambiguous \in BOOLEAN, RunThrows(ambiguous) PROVE Steady \/ Settled
    <3>1. CASE HandleFailure(rows, cur, IF ambiguous THEN "ambiguous" ELSE "failure",
                             ~ambiguous, FALSE)
      <4>1. CASE ambiguous
        <5>1. HandleFailure(rows, cur, "ambiguous", FALSE, FALSE)
          BY <3>1, <4>1
        <5> QED BY <1>0, <2>2, <5>1
      <4>2. CASE ~ambiguous
        <5>1. HandleFailure(rows, cur, "failure", TRUE, FALSE)
          BY <3>1, <4>2
        <5> QED BY <1>0, <2>2, <5>1
      <4> QED BY <4>1, <4>2
    <3>2. CASE UNCHANGED rows
      BY <3>2
    <3> QED BY <2>6, <3>1, <3>2 DEF RunThrows
  <2> QED BY <1>5, <2>3, <2>4, <2>5, <2>6
<1>6. ASSUME \/ Boot \/ TickStart \/ EndTick \/ PrepDone \/ RunReturns \/ Decides \/ Faults
             \/ Stop \/ Exit \/ Crash \/ UNCHANGED vars
      PROVE  Steady
  BY <1>6 DEF Boot, StartProcess, StartRecovery, BootDone, TickStart, EndTick, PrepDone,
              RunReturns, Decides, Decide, Faults, SettleWriteFails, RecheckWriteFails,
              Stop, Exit, Crash, Dies, vars, ledgerVars
<1> HIDE DEF Steady, Settled, Claims
<1>7. Steady \/ Settled \/ Claims
  BY <1>1, <1>2, <1>3, <1>4, <1>5, <1>6
     DEF Next, Publish, Recover, Rechecks, ClaimNext, RunSettles
<1> QED BY <1>7 DEF Steady, Settled, Claims

(* The outcome of an arbitration of a candidate order, from its receipts.  *)
LEMMA ArbitrationDecides ==
  ASSUME NEW rs, Good(rs), NEW i \in DOMAIN rs, rs[i].occ \in CandidateOcc,
         rs[i].status = "in_progress",
         NEW why \in Reasons, NEW evidence \in BOOLEAN, NEW complete \in BOOLEAN
  PROVE  LET rt == ArbitratedRows(rs, i, why, evidence, complete)
         IN  /\ rt[i].status = "done" <=> Disposition(rs[i].occ) = "complete"
             /\ Len(rt) > Len(rs) => Disposition(rs[i].occ) = "zero"
<1> DEFINE rt == ArbitratedRows(rs, i, why, evidence, complete)
           d == Disposition(rs[i].occ)
<1>1. rs \in Seq(Row) /\ "receipts" \in Reasons /\ Len(rs) \in Nat
  BY LenProperties DEF Good, Reasons
<1>2. d \in {"complete", "zero", "partial"}
  BY DEF Disposition
<1>3. \/ d = "complete" /\ rt = Completed(rs, i)
      \/ d = "zero" /\ rt = Requeued(rs, i, why)
      \/ d # "complete" /\ rt = FailedRow(rs, i, "receipts")
  BY <1>2 DEF ArbitratedRows
<1> HIDE DEF rt, d
<1>4. CASE d = "complete" /\ rt = Completed(rs, i)
  <2>1. Updated(rs, rt, i, "done", rs[i].reason)
    BY <1>1, <1>4, UpdateShapes
  <2> QED BY <1>1, <1>4, <2>1 DEF Updated, rt, d
<1>5. CASE d = "zero" /\ rt = Requeued(rs, i, why)
  <2> DEFINE rf == FailedRow(rs, i, why)
  <2>1. Updated(rs, rf, i, "failed", why)
    BY <1>1, UpdateShapes
  <2>2. rs[i].occ \in Occ /\ rs[i].rank \in Ranks /\ rs[i].attempts + 1 \in Nat \ {0}
    BY <1>1, RowAt
  <2>3. rt = Inserted(rf, rs[i].occ, rs[i].rank, rs[i].attempts + 1)
    BY <1>5 DEF Requeued
  <2> HIDE DEF rf
  <2>4. rf \in Seq(Row) /\ i \in DOMAIN rf /\ rf[i].status = "failed"
    BY <2>1 DEF Updated
  <2>5. rt[i].status = "failed"
    <3>1. CASE rt = rf
      BY <2>4, <3>1
    <3>2. CASE Extended(rf, rt, rs[i].occ, rs[i].attempts + 1)
      BY <2>4, <3>2 DEF Extended
    <3> QED BY <2>2, <2>3, <2>4, <3>1, <3>2, InsertShape
  <2> QED BY <1>5, <2>5 DEF rt, d
<1>6. CASE d # "complete" /\ rt = FailedRow(rs, i, "receipts")
  <2>1. Updated(rs, rt, i, "failed", "receipts")
    BY <1>1, <1>6, UpdateShapes
  <2> QED BY <1>1, <1>6, <2>1 DEF Updated, rt, d
<1> QED BY <1>3, <1>4, <1>5, <1>6

(***************************************************************************)
(* The claim barrier: while no ledger write has thrown, nothing is claimed *)
(* unless every earlier order is settled.                                  *)
(***************************************************************************)
THEOREM BarrierSafety == Spec => BarrierStands
<1>1. ASSUME IInv, [Next]_vars, Taken, writeFaults = 0 PROVE InProgress = {}
  <2>1. PICK i \in Pending : rows'[i].status # "pending"
    BY <1>1 DEF Taken
  <2>2. i \in DOMAIN rows /\ rows[i].status = "pending"
    BY <2>1 DEF Pending, WithStatus
  <2>3. ~ \A j \in DOMAIN rows : rows'[j] = rows[j]
    BY <2>1, <2>2
  <2>4. ~ \E k \in InProgress : Settling(k)
    BY <2>1, <2>2 DEF InProgress, WithStatus, Settling, OnlyRow
  <2>5. step = "loop" /\ TickGoesOn
    BY <1>1, <2>3, <2>4, RowsStep
  <2>6. proc = "up" /\ ~stopping /\ cur = 0 /\ unresolved = {}
    BY <1>1, <2>5 DEF IInv, TypeOK, Holding, TickGoesOn
  <2> QED BY <1>1, <2>6 DEF IInv, ClaimsAreOwned, Owned
<1>2. IInv /\ [Next]_vars => [Taken /\ writeFaults = 0 => InProgress = {}]_vars
  BY <1>1
<1> QED BY <1>2, Invariance, PTL DEF Spec, BarrierStands

(***************************************************************************)
(* The receipts decide: a candidate board order ends done exactly when all *)
(* its candidates are decided, and is tried again only when none is.       *)
(***************************************************************************)
THEOREM ReceiptSafety == Spec => ReceiptsDecide
<1> DEFINE Decision ==
      \A i \in DOMAIN rows :
        /\ rows[i].occ \in CandidateOcc
        /\ rows[i].status = "in_progress"
        /\ rows'[i].status \in Terminal
        => /\ rows'[i].status = "done" <=> Disposition(rows[i].occ) = "complete"
           /\ Len(rows') > Len(rows) => Disposition(rows[i].occ) = "zero"
<1>1. ASSUME IInv, [Next]_vars, NEW i \in DOMAIN rows, rows[i].occ \in CandidateOcc,
             rows[i].status = "in_progress", rows'[i].status \in Terminal
      PROVE  /\ rows'[i].status = "done" <=> Disposition(rows[i].occ) = "complete"
             /\ Len(rows') > Len(rows) => Disposition(rows[i].occ) = "zero"
  <2>1. rows'[i] # rows[i] /\ rows' # rows
    BY <1>1 DEF Terminal
  <2>2. \A j \in Pending : ~OnlyRow(j)
    BY <1>1, <2>1 DEF Pending, WithStatus, OnlyRow
  <2>3. PICK k \in InProgress : Settling(k)
    BY <1>1, <2>1, <2>2, RowsStep
  <2>4. k = i
    BY <1>1, <2>1, <2>3 DEF Settling, OnlyRow
  <2>5. rows[i].occ \in BoardOcc
    BY <1>1, OccurrenceAssumption
  <2>6. PICK why \in Reasons, evidence \in BOOLEAN, complete \in BOOLEAN :
          rows' = ArbitratedRows(rows, i, why, evidence, complete)
    BY <2>1, <2>3, <2>4, <2>5 DEF Settling
  <2> QED BY <1>1, <2>6, ArbitrationDecides DEF IInv
<1>2. IInv /\ [Next]_vars => [Decision]_vars
  BY <1>1
<1> QED BY <1>2, Invariance, PTL DEF Spec, ReceiptsDecide
=============================================================================
