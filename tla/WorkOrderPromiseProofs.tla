------------------------ MODULE WorkOrderPromiseProofs ------------------------
(***************************************************************************)
(* The workorder consumer implements WorkOrderPromise.                     *)
(*                                                                         *)
(* The job of a key is its latest row, so that the proof needs to know     *)
(* which row that is: a row that is still open is the latest of its key,   *)
(* since an insert finds the slot of the key free.  Every step does one of *)
(* four things to the table, each to one key: it accepts an order, starts  *)
(* it, ends it, or ends it and puts its next attempt in line.              *)
(***************************************************************************)
EXTENDS MCWorkOrders, WorkOrderProofs, WellFoundedInduction

RowsIn(rs, o) == {i \in DOMAIN rs : rs[i].occ = o}

LatestIn(rs, o, i) == i \in RowsIn(rs, o) /\ \A j \in RowsIn(rs, o) : j <= i

OpenLast(rs) == \A i \in DOMAIN rs : rs[i].status \in Open => LatestIn(rs, rs[i].occ, i)

NoJob    == [phase |-> "none", attempt |-> 0]
Job(row) == [phase |-> PhaseOf[row.status], attempt |-> row.attempts]

(* JobOf, of any table.                                                    *)
JobIn(rs, o) ==
  IF RowsIn(rs, o) = {} THEN NoJob
  ELSE Job(rs[CHOOSE i \in RowsIn(rs, o) : \A j \in RowsIn(rs, o) : j <= i])

----------------------------------------------------------------------------
(* What a step does to a table.                                            *)
Changed(rs, rt, i) ==
  /\ i \in DOMAIN rs /\ DOMAIN rt = DOMAIN rs
  /\ \A j \in DOMAIN rs : j # i => rt[j] = rs[j]
  /\ rt[i].occ = rs[i].occ /\ rt[i].attempts = rs[i].attempts

Accepted(rs, rt, o) == Holders(rs, o) = {} /\ Extended(rs, rt, o, 1)

Started(rs, rt, i) ==
  Changed(rs, rt, i) /\ rs[i].status = "pending" /\ rt[i].status = "in_progress"

Ended(rs, rt, i) ==
  Changed(rs, rt, i) /\ rs[i].status \in Open /\ rt[i].status \in Terminal

Retried(rs, rt, i) ==
  LET n == Len(rs) + 1 IN
  /\ i \in DOMAIN rs /\ DOMAIN rt = DOMAIN rs \cup {n}
  /\ \A j \in DOMAIN rs : j # i => rt[j] = rs[j]
  /\ rs[i].status \in Open /\ rt[i].occ = rs[i].occ /\ rt[i].status = "failed"
  /\ rs[i].attempts < 2 /\ rs[i].occ \in WikiOcc \cup CandidateOcc
  /\ rt[n].occ = rs[i].occ /\ rt[n].attempts = rs[i].attempts + 1 /\ rt[n].status = "pending"

TableStep(rs, rt) ==
  \/ rt = rs
  \/ \E o \in Occ : Accepted(rs, rt, o)
  \/ \E i \in DOMAIN rs : Started(rs, rt, i) \/ Ended(rs, rt, i) \/ Retried(rs, rt, i)

----------------------------------------------------------------------------
(***************************************************************************)
(* The latest row of a key.                                                *)
(***************************************************************************)

(* Some numbers up to n have a greatest.                                   *)
LEMMA Greatest ==
  ASSUME NEW n \in Nat, NEW S, S \subseteq 1..n, S # {}
  PROVE  \E i \in S : \A j \in S : j <= i
<1> DEFINE T == {n - i : i \in S}
           R == {ss \in Nat \X Nat : ss[1] < ss[2]}
<1>1. IsWellFoundedOn(R, Nat)
  BY NatLessThanWellFounded DEF OpToRel
<1>2. T \subseteq Nat /\ T # {}
  <2>1. PICK s \in S : TRUE
    OBVIOUS
  <2>2. n - s \in T
    BY <2>1
  <2>3. \A i \in S : n - i \in Nat
    OBVIOUS
  <2> QED
    BY <2>2, <2>3
<1>3. \A x, y \in Nat : <<y, x>> \in R <=> y < x
  OBVIOUS
<1> HIDE DEF T, R
<1>4. PICK x \in T : \A y \in T : <<y, x>> \notin R
  BY <1>1, <1>2, WFMin
<1>5. \A y \in T : ~(y < x)
  BY <1>2, <1>3, <1>4
<1>6. PICK i \in S : x = n - i
  BY <1>4 DEF T
<1>7. ASSUME NEW j \in S
      PROVE  j <= i
  <2>1. n - j \in T
    BY DEF T
  <2> QED
    BY <1>5, <1>6, <2>1
<1> QED
  BY <1>7

(* It is the one that is chosen as the greatest.                           *)
LEMMA GreatestChosen ==
  ASSUME NEW S, S \subseteq Nat, NEW i \in S, \A j \in S : j <= i
  PROVE  (CHOOSE x \in S : \A j \in S : j <= x) = i
<1>1. \A x \in S : (\A j \in S : j <= x) => x = i
  <2> SUFFICES ASSUME NEW x \in S, \A j \in S : j <= x
               PROVE  x = i
    OBVIOUS
  <2>1. x <= i /\ i <= x /\ x \in Nat /\ i \in Nat
    OBVIOUS
  <2> QED
    BY <2>1
<1> QED
  BY <1>1

(* A key without rows has no job, and one with rows that of its latest.    *)
LEMMA JobFacts ==
  ASSUME NEW rs \in Seq(Row), NEW o
  PROVE  /\ RowsIn(rs, o) = {} => JobIn(rs, o) = NoJob
         /\ RowsIn(rs, o) # {} => \E i : LatestIn(rs, o, i)
         /\ \A i : LatestIn(rs, o, i) => JobIn(rs, o) = Job(rs[i])
<1>1. DOMAIN rs = 1..Len(rs) /\ Len(rs) \in Nat
  BY LenProperties
<1> DEFINE S == RowsIn(rs, o)
<1>2. S \subseteq 1..Len(rs) /\ S \subseteq Nat
  BY <1>1 DEF RowsIn
<1>3. S = {} => JobIn(rs, o) = NoJob
  BY DEF JobIn
<1>4. ASSUME S # {}
      PROVE  \E i : LatestIn(rs, o, i)
  <2> HIDE DEF S
  <2>1. PICK i \in S : \A j \in S : j <= i
    BY <1>1, <1>2, <1>4, Greatest
  <2> QED
    BY <2>1 DEF LatestIn, S
<1>5. ASSUME NEW i, LatestIn(rs, o, i)
      PROVE  JobIn(rs, o) = Job(rs[i])
  <2>1. i \in S /\ \A j \in S : j <= i
    BY <1>5 DEF LatestIn
  <2>2. JobIn(rs, o) = Job(rs[CHOOSE x \in S : \A j \in S : j <= x])
    BY <2>1 DEF JobIn
  <2> HIDE DEF S
  <2>3. (CHOOSE x \in S : \A j \in S : j <= x) = i
    BY <1>2, <2>1, GreatestChosen
  <2> QED
    BY <2>2, <2>3
<1> QED
  BY <1>3, <1>4, <1>5

(* A key whose rows stay keeps its job.                                    *)
LEMMA JobKept ==
  ASSUME NEW rs \in Seq(Row), NEW rt \in Seq(Row), NEW o,
         RowsIn(rt, o) = RowsIn(rs, o), \A i \in RowsIn(rs, o) : rt[i] = rs[i]
  PROVE  JobIn(rt, o) = JobIn(rs, o)
<1>1. CASE RowsIn(rs, o) = {}
  BY <1>1, JobFacts
<1>2. CASE RowsIn(rs, o) # {}
  <2>1. PICK i : LatestIn(rs, o, i)
    BY <1>2, JobFacts
  <2>2. LatestIn(rt, o, i) /\ rt[i] = rs[i]
    BY <2>1 DEF LatestIn
  <2> QED
    BY <2>1, <2>2, JobFacts
<1> QED
  BY <1>1, <1>2

----------------------------------------------------------------------------
(***************************************************************************)
(* The transactions as steps of a table.                                   *)
(***************************************************************************)

(* A claim, a completion and a failure change one row.                     *)
LEMMA UpdateChanges ==
  ASSUME NEW rs \in Seq(Row), NEW i \in DOMAIN rs, NEW why \in Reasons,
         rs[i].status \in Open
  PROVE  /\ Changed(rs, Claimed(rs, i), i) /\ Claimed(rs, i)[i].status = "in_progress"
         /\ Ended(rs, Completed(rs, i), i)
         /\ Ended(rs, FailedRow(rs, i, why), i) /\ FailedRow(rs, i, why)[i].status = "failed"
  BY UpdateShapes DEF Updated, Changed, Ended, Terminal

(* A requeue fails the row and puts its next attempt in line, or ends an   *)
(* owner event's row whose slot is not free again.                         *)
LEMMA RequeueMoves ==
  ASSUME NEW rs \in Seq(Row), NEW i \in DOMAIN rs, rs[i].status \in Open,
         NEW why \in Reasons, rs[i].attempts < 2, rs[i].occ \in WikiOcc \cup CandidateOcc
  PROVE  Ended(rs, Requeued(rs, i, why), i) \/ Retried(rs, Requeued(rs, i, why), i)
<1> DEFINE rf == FailedRow(rs, i, why)
           o  == rs[i].occ
           k  == rs[i].attempts + 1
           rt == Inserted(rf, o, rs[i].rank, k)
<1>1. /\ DOMAIN rs = 1..Len(rs) /\ Len(rs) \in Nat
      /\ o \in Occ /\ rs[i].rank \in Ranks /\ k \in Nat \ {0}
  BY LenProperties, RowAt
<1>2. Updated(rs, rf, i, "failed", why)
  BY UpdateShapes
<1>3. rf \in Seq(Row) /\ Len(rf) = Len(rs) /\ Ended(rs, rf, i) /\ rf[i].status = "failed"
  BY <1>2, UpdateChanges DEF Updated
<1>4. Requeued(rs, i, why) = rt
  BY DEF Requeued
<1> HIDE DEF rf
<1>5. \/ rt = rf
      \/ Extended(rf, rt, o, k)
  <2> HIDE DEF o, k
  <2> QED
    BY <1>1, <1>3, InsertShape
<1> HIDE DEF rt
<1>6. CASE rt = rf
  BY <1>3, <1>4, <1>6
<1>7. CASE Extended(rf, rt, o, k)
  <2>1. /\ DOMAIN rf = DOMAIN rs /\ \A j \in DOMAIN rs : j # i => rf[j] = rs[j]
        /\ rf[i].occ = o
    BY <1>3 DEF Ended, Changed
  <2>2. /\ DOMAIN rt = DOMAIN rs \cup {Len(rs) + 1}
        /\ \A j \in DOMAIN rs : rt[j] = rf[j]
        /\ rt[Len(rs) + 1].occ = o /\ rt[Len(rs) + 1].attempts = k
        /\ rt[Len(rs) + 1].status = "pending"
    BY <1>3, <1>7, <2>1 DEF Extended
  <2>3. Retried(rs, rt, i)
    BY <1>3, <2>1, <2>2 DEF Retried
  <2> QED
    BY <1>4, <2>3
<1> QED
  BY <1>5, <1>6, <1>7

(* The failure policy ends an attempt, or ends and retries it.             *)
LEMMA OrdinaryFailureMoves ==
  ASSUME NEW rs \in Seq(Row), NEW i \in DOMAIN rs, rs[i].status \in Open,
         NEW why \in Reasons, NEW allowRetry \in BOOLEAN
  PROVE  \/ Ended(rs, OrdinaryFailure(rs, i, why, allowRetry), i)
         \/ Retried(rs, OrdinaryFailure(rs, i, why, allowRetry), i)
<1>1. rs[i].attempts \in Nat \ {0}
  BY RowAt
<1>2. CASE allowRetry /\ rs[i].attempts < MaxAttempts(rs[i].occ)
  <2>1. rs[i].occ \in WikiOcc /\ rs[i].attempts < 2
    BY <1>1, <1>2 DEF MaxAttempts
  <2>2. OrdinaryFailure(rs, i, why, allowRetry) = Requeued(rs, i, why)
    BY <1>2 DEF OrdinaryFailure
  <2> QED
    BY <2>1, <2>2, RequeueMoves
<1>3. CASE ~(allowRetry /\ rs[i].attempts < MaxAttempts(rs[i].occ))
  <2>1. OrdinaryFailure(rs, i, why, allowRetry) = FailedRow(rs, i, why)
    BY <1>3 DEF OrdinaryFailure
  <2> QED
    BY <2>1, UpdateChanges
<1> QED
  BY <1>2, <1>3

(* So does the arbitration by receipts.                                    *)
LEMMA ArbitrationMoves ==
  ASSUME NEW rs \in Seq(Row), NEW i \in DOMAIN rs, rs[i].status \in Open,
         NEW why \in Reasons, NEW evidence \in BOOLEAN, NEW complete \in BOOLEAN
  PROVE  \/ Ended(rs, ArbitratedRows(rs, i, why, evidence, complete), i)
         \/ Retried(rs, ArbitratedRows(rs, i, why, evidence, complete), i)
<1> DEFINE d  == Disposition(rs[i].occ)
           rt == ArbitratedRows(rs, i, why, evidence, complete)
<1>0. "receipts" \in Reasons
  BY DEF Reasons
<1>1. \/ rt = Completed(rs, i) \/ rt = FailedRow(rs, i, "receipts")
      \/ rt = OrdinaryFailure(rs, i, why, TRUE)
      \/ d = "zero" /\ rs[i].attempts < 2 /\ rt = Requeued(rs, i, why)
  BY DEF ArbitratedRows
<1>2. d = "zero" => rs[i].occ \in CandidateOcc
  BY DEF Disposition
<1> HIDE DEF d, rt
<1>3. Ended(rs, rt, i) \/ Retried(rs, rt, i)
  <2>1. CASE rt = Completed(rs, i) \/ rt = FailedRow(rs, i, "receipts")
    BY <1>0, <2>1, UpdateChanges
  <2>2. CASE rt = OrdinaryFailure(rs, i, why, TRUE)
    BY <2>2, OrdinaryFailureMoves
  <2>3. CASE d = "zero" /\ rs[i].attempts < 2 /\ rt = Requeued(rs, i, why)
    BY <1>2, <2>3, RequeueMoves
  <2> QED
    BY <1>1, <2>1, <2>2, <2>3
<1> QED
  BY <1>3 DEF rt

(* And handleFailure, which may defer a board order and change nothing.    *)
LEMMA FailureMoves ==
  ASSUME NEW rs \in Seq(Row), NEW i \in DOMAIN rs, rs[i].status \in Open,
         NEW why \in Reasons, NEW allowRetry \in BOOLEAN, NEW evidence \in BOOLEAN,
         HandleFailure(rs, i, why, allowRetry, evidence)
  PROVE  rows' = rs \/ Ended(rs, rows', i) \/ Retried(rs, rows', i)
<1>1. \/ rows' = rs
      \/ rows' = ArbitratedRows(rs, i, why, evidence, FALSE)
      \/ rows' = OrdinaryFailure(rs, i, why, allowRetry)
  BY DEF HandleFailure, Arbitrate
<1> QED
  BY <1>1, ArbitrationMoves, OrdinaryFailureMoves

(* What happens to a row after its claim, in the same block, happens to it. *)
LEMMA ClaimedMoves ==
  ASSUME NEW rs \in Seq(Row), NEW i \in DOMAIN rs, rs[i].status = "pending", NEW rt,
         LET rc == Claimed(rs, i) IN
           rt = rc \/ Ended(rc, rt, i) \/ Retried(rc, rt, i)
  PROVE  Started(rs, rt, i) \/ Ended(rs, rt, i) \/ Retried(rs, rt, i)
<1> DEFINE rc == Claimed(rs, i)
<1>1. Changed(rs, rc, i) /\ rc[i].status = "in_progress" /\ rs[i].status \in Open
      /\ Len(rc) = Len(rs)
  <2>1. rs[i].status \in Open /\ "none" \in Reasons
    BY DEF Open, Reasons
  <2>2. Changed(rs, rc, i) /\ rc[i].status = "in_progress"
    BY <2>1, UpdateChanges
  <2>3. Updated(rs, rc, i, "in_progress", rs[i].reason)
    BY <2>1, UpdateShapes
  <2> QED
    BY <2>1, <2>2, <2>3 DEF Updated
<1>2. rt = rc \/ Ended(rc, rt, i) \/ Retried(rc, rt, i)
  OBVIOUS
<1> HIDE DEF rc
<1>3. CASE rt = rc
  BY <1>1, <1>3 DEF Started
<1>4. CASE Ended(rc, rt, i)
  BY <1>1, <1>4 DEF Ended, Changed
<1>5. CASE Retried(rc, rt, i)
  BY <1>1, <1>5 DEF Retried, Changed
<1> QED
  BY <1>2, <1>3, <1>4, <1>5

(* Every step does one of these to the table.                              *)
LEMMA EveryStepMoves ==
  ASSUME IInv, [Next]_vars
  PROVE  TableStep(rows, rows')
<1>0. /\ rows \in Seq(Row)
      /\ {"failure", "pre-run", "ambiguous", "receipts"} \subseteq Reasons
      /\ \A i \in InProgress : i \in DOMAIN rows /\ rows[i].status = "in_progress"
  BY DEF IInv, TypeOK, LedgerTypeOK, InProgress, WithStatus, Reasons
<1>1. ASSUME NEW o \in Occ, NEW rank \in Ranks, Enqueue(o, rank)
      PROVE  TableStep(rows, rows')
  <2>1. rows' = Inserted(rows, o, rank, 1)
    BY <1>1 DEF Enqueue
  <2>2. rows' = rows \/ Accepted(rows, rows', o)
    BY <1>0, <2>1, InsertShape DEF Accepted
  <2> QED
    BY <2>2 DEF TableStep
<1>2. ASSUME NEW i \in DOMAIN rows, rows[i].status = "in_progress",
             \/ \E why \in Reasons, allowRetry, evidence \in BOOLEAN :
                  HandleFailure(rows, i, why, allowRetry, evidence)
             \/ \E why \in Reasons, evidence, complete \in BOOLEAN :
                  Arbitrate(rows, i, why, evidence, complete)
             \/ rows' = Completed(rows, i)
      PROVE  TableStep(rows, rows')
  <2>0. rows[i].status \in Open /\ "failure" \in Reasons
    BY <1>0, <1>2 DEF Open
  <2>1. CASE \E why \in Reasons, allowRetry, evidence \in BOOLEAN :
               HandleFailure(rows, i, why, allowRetry, evidence)
    BY <1>0, <2>0, <2>1, FailureMoves DEF TableStep
  <2>2. CASE \E why \in Reasons, evidence, complete \in BOOLEAN :
               Arbitrate(rows, i, why, evidence, complete)
    <3>1. PICK why \in Reasons, evidence \in BOOLEAN, complete \in BOOLEAN :
                 Arbitrate(rows, i, why, evidence, complete)
      BY <2>2
    <3>2. rows' = rows \/ rows' = ArbitratedRows(rows, i, why, evidence, complete)
      BY <3>1 DEF Arbitrate
    <3> QED
      BY <1>0, <2>0, <3>2, ArbitrationMoves DEF TableStep
  <2>3. CASE rows' = Completed(rows, i)
    BY <1>0, <2>0, <2>3, UpdateChanges DEF TableStep
  <2> QED
    BY <1>2, <2>1, <2>2, <2>3
<1>3. ASSUME NEW i \in DOMAIN rows, RecoverStale(i)
      PROVE  TableStep(rows, rows')
  <2>1. i \in InProgress /\ HandleFailure(rows, i, "failure", TRUE, FALSE)
    BY <1>3 DEF RecoverStale
  <2> QED
    BY <1>0, <1>2, <2>1
<1>4. ASSUME NEW u \in unresolved, Recheck(u)
      PROVE  TableStep(rows, rows')
  <2>1. u.id \in InProgress /\ u.why \in Reasons /\ u.evidence \in BOOLEAN /\ u.complete \in BOOLEAN
    BY DEF IInv, Holding, TypeOK, Deferred
  <2>2. Arbitrate(rows, u.id, u.why, u.evidence, u.complete)
    BY <1>4 DEF Recheck
  <2> QED
    BY <1>0, <1>2, <2>1, <2>2
<1>5. ASSUME NEW i \in DOMAIN rows, Claim(i) \/ ClaimWithoutBrief(i)
      PROVE  TableStep(rows, rows')
  <2> DEFINE rc == Claimed(rows, i)
  <2>1. rows[i].status = "pending"
    BY <1>5 DEF Claim, ClaimWithoutBrief, NextPending, WithStatus
  <2>2. /\ rc \in Seq(Row) /\ DOMAIN rc = DOMAIN rows /\ rc[i].status = "in_progress"
    <3>1. "failure" \in Reasons /\ Updated(rows, rc, i, "in_progress", rows[i].reason)
      BY <1>0, UpdateShapes
    <3> QED
      BY <3>1 DEF Updated
  <2>3. rows' = rc \/ HandleFailure(rc, i, "failure", TRUE, FALSE)
    BY <1>5 DEF Claim, ClaimWithoutBrief
  <2> HIDE DEF rc
  <2>4. rows' = rc \/ Ended(rc, rows', i) \/ Retried(rc, rows', i)
    BY <1>0, <2>2, <2>3, FailureMoves DEF Open
  <2>5. Started(rows, rows', i) \/ Ended(rows, rows', i) \/ Retried(rows, rows', i)
    BY <1>0, <2>1, <2>4, ClaimedMoves DEF rc
  <2> QED
    BY <2>5 DEF TableStep
<1>6. ASSUME PrepFails \/ RunAnswersApiError \/ AfterDone
             \/ \E ambiguous \in BOOLEAN : RunThrows(ambiguous)
      PROVE  TableStep(rows, rows')
  <2>1. cur \in InProgress
    BY <1>6 DEF IInv, TypeOK, Holding, PrepFails, RunAnswersApiError, AfterDone, RunThrows
  <2>2. CASE PrepFails
    <3>1. HandleFailure(rows, cur, "pre-run", TRUE, rows[cur].occ \in BoardOcc)
      BY <2>2 DEF PrepFails
    <3>2. (rows[cur].occ \in BoardOcc) \in BOOLEAN /\ TRUE \in BOOLEAN
      OBVIOUS
    <3> QED
      BY <1>0, <1>2, <2>1, <3>1, <3>2
  <2>3. CASE RunAnswersApiError
    <3>1. HandleFailure(rows, cur, "failure", TRUE, FALSE)
      BY <2>3 DEF RunAnswersApiError
    <3> QED
      BY <1>0, <1>2, <2>1, <3>1
  <2>4. CASE AfterDone
    <3>1. rows' = Completed(rows, cur) \/ Arbitrate(rows, cur, "receipts", FALSE, TRUE)
      BY <2>4 DEF AfterDone
    <3> QED
      BY <1>0, <1>2, <2>1, <3>1
  <2>5. ASSUME NEW ambiguous \in BOOLEAN, RunThrows(ambiguous)
        PROVE  TableStep(rows, rows')
    <3> DEFINE why == IF ambiguous THEN "ambiguous" ELSE "failure"
    <3>1. rows' = rows \/ HandleFailure(rows, cur, why, ~ambiguous, FALSE)
      BY <2>5 DEF RunThrows
    <3>2. why \in Reasons /\ (~ambiguous) \in BOOLEAN /\ FALSE \in BOOLEAN
      <4>1. why \in Reasons
        BY <1>0
      <4>2. (~ambiguous) \in BOOLEAN /\ FALSE \in BOOLEAN
        OBVIOUS
      <4> QED
        BY <4>1, <4>2
    <3> HIDE DEF why
    <3>3. CASE rows' = rows
      BY <3>3 DEF TableStep
    <3>4. CASE HandleFailure(rows, cur, why, ~ambiguous, FALSE)
      BY <1>0, <1>2, <2>1, <3>2, <3>4
    <3> QED
      BY <3>1, <3>3, <3>4
  <2> QED
    BY <1>6, <2>2, <2>3, <2>4, <2>5
<1>7. ASSUME \/ Boot \/ TickStart \/ EndTick \/ PrepDone \/ RunReturns \/ Decides \/ Faults
             \/ Stop \/ Exit \/ Crash \/ UNCHANGED vars
      PROVE  TableStep(rows, rows')
  <2>1. rows' = rows
    BY <1>7 DEF Boot, StartProcess, StartRecovery, BootDone, TickStart, EndTick, PrepDone,
                RunReturns, Decides, Decide, Faults, SettleWriteFails, RecheckWriteFails,
                Stop, Exit, Crash, Dies, vars, ledgerVars
  <2> QED
    BY <2>1 DEF TableStep
<1>8. CASE Publish \/ Recover \/ Rechecks \/ ClaimNext
  BY <1>1, <1>3, <1>4, <1>5, <1>8 DEF Publish, Recover, Rechecks, ClaimNext
<1>9. CASE RunSettles \/ AfterDone
  BY <1>6, <1>7, <1>9 DEF RunSettles
<1> QED
  BY <1>7, <1>8, <1>9 DEF Next

----------------------------------------------------------------------------
(***************************************************************************)
(* The job of a key through a step of the table.                           *)
(***************************************************************************)
Budgets == [o \in Occ |-> IF o \in WikiOcc \cup CandidateOcc THEN 2 ELSE 1]

(* The key o moves as the promise has it, every other key keeps its job.   *)
JobMoves(rs, rt, o) ==
  /\ \A k \in Occ \ {o} : JobIn(rt, k) = JobIn(rs, k)
  /\ \/ Promise!Accept(o, JobIn(rs, o), JobIn(rt, o))
     \/ Promise!Start(o, JobIn(rs, o), JobIn(rt, o))
     \/ Promise!Retry(o, JobIn(rs, o), JobIn(rt, o))
     \/ Promise!End(o, JobIn(rs, o), JobIn(rt, o))

(* The phases of a job's row.                                              *)
LEMMA PhaseFacts ==
  ASSUME NEW row \in Row
  PROVE  /\ row.status = "pending" => Job(row).phase = "waiting"
         /\ row.status = "in_progress" => Job(row).phase = "running"
         /\ row.status \in Terminal => /\ Job(row).phase = row.status
                                       /\ Job(row).phase \in {"done", "failed"}
         /\ row.status \in Open => Job(row).phase \in {"waiting", "running"}
         /\ Job(row).attempt = row.attempts
         /\ Job(row) = [phase |-> Job(row).phase, attempt |-> row.attempts]
<1>1. row.status \in Open \cup Terminal
  BY DEF Row
<1> QED
  BY <1>1 DEF Job, PhaseOf, Open, Terminal

(* A row that is appended is the latest of its key.                        *)
LEMMA AppendedRows ==
  ASSUME NEW rs \in Seq(Row), NEW rt, DOMAIN rt = DOMAIN rs \cup {Len(rs) + 1},
         \A j \in DOMAIN rs : rt[j].occ = rs[j].occ
  PROVE  LET n == Len(rs) + 1 IN
         /\ n \notin DOMAIN rs /\ n \in DOMAIN rt
         /\ RowsIn(rt, rt[n].occ) = RowsIn(rs, rt[n].occ) \cup {n}
         /\ LatestIn(rt, rt[n].occ, n)
         /\ \A k : k # rt[n].occ => RowsIn(rt, k) = RowsIn(rs, k)
<1> DEFINE n == Len(rs) + 1
<1>1. DOMAIN rs = 1..Len(rs) /\ Len(rs) \in Nat
  BY LenProperties
<1>2. n \notin DOMAIN rs /\ n \in DOMAIN rt /\ \A j \in DOMAIN rs : j <= n
  BY <1>1
<1>3. n <= n
  BY <1>1
<1> HIDE DEF n
<1>4. DOMAIN rt = DOMAIN rs \cup {n}
  BY DEF n
<1>5. RowsIn(rt, rt[n].occ) = RowsIn(rs, rt[n].occ) \cup {n}
  BY <1>2, <1>4 DEF RowsIn
<1>6. \A k : k # rt[n].occ => RowsIn(rt, k) = RowsIn(rs, k)
  BY <1>2, <1>4 DEF RowsIn
<1>7. LatestIn(rt, rt[n].occ, n)
  BY <1>2, <1>3, <1>5 DEF LatestIn, RowsIn
<1> QED
  BY <1>2, <1>5, <1>6, <1>7 DEF n

(* An insert into a free slot is an acceptance.                            *)
LEMMA AcceptedMoves ==
  ASSUME NEW rs \in Seq(Row), NEW rt \in Seq(Row), OpenLast(rs),
         NEW o \in Occ, Accepted(rs, rt, o)
  PROVE  OpenLast(rt) /\ JobMoves(rs, rt, o)
<1> DEFINE n == Len(rs) + 1
<1>1. /\ Holders(rs, o) = {} /\ DOMAIN rt = DOMAIN rs \cup {n}
      /\ \A j \in DOMAIN rs : rt[j] = rs[j]
      /\ rt[n].occ = o /\ rt[n].attempts = 1 /\ rt[n].status = "pending"
  BY DEF Accepted, Extended
<1>2. /\ n \notin DOMAIN rs /\ n \in DOMAIN rt
      /\ RowsIn(rt, o) = RowsIn(rs, o) \cup {n}
      /\ LatestIn(rt, o, n)
      /\ \A k : k # o => RowsIn(rt, k) = RowsIn(rs, k)
  BY <1>1, AppendedRows
<1> HIDE DEF n
<1>3. \A j \in DOMAIN rs : rs[j].occ = o => o \notin OwnerEventOcc /\ rs[j].status \notin Open
  BY <1>1 DEF Holders
<1>4. OpenLast(rt)
  <2> SUFFICES ASSUME NEW i \in DOMAIN rt, rt[i].status \in Open
               PROVE  LatestIn(rt, rt[i].occ, i)
    BY DEF OpenLast
  <2>1. CASE i = n
    BY <1>1, <1>2, <2>1
  <2>2. CASE i # n
    <3>1. i \in DOMAIN rs /\ rt[i] = rs[i] /\ rs[i].occ # o /\ LatestIn(rs, rs[i].occ, i)
      BY <1>1, <1>3, <2>2 DEF OpenLast
    <3>2. RowsIn(rt, rs[i].occ) = RowsIn(rs, rs[i].occ)
      BY <1>2, <3>1
    <3> QED
      BY <3>1, <3>2 DEF LatestIn
  <2> QED
    BY <2>1, <2>2
<1>5. ASSUME NEW k \in Occ \ {o}
      PROVE  JobIn(rt, k) = JobIn(rs, k)
  <2>1. RowsIn(rt, k) = RowsIn(rs, k) /\ \A i \in RowsIn(rs, k) : rt[i] = rs[i]
    BY <1>1, <1>2 DEF RowsIn
  <2> QED
    BY <2>1, JobKept
<1>6. JobIn(rt, o) = [phase |-> "waiting", attempt |-> 1]
  <2>1. JobIn(rt, o) = Job(rt[n]) /\ rt[n] \in Row
    BY <1>2, JobFacts, RowAt
  <2> QED
    BY <1>1, <2>1, PhaseFacts
<1>7. JobIn(rs, o).phase = "none" \/ (JobIn(rs, o).phase \in {"done", "failed"} /\ o \notin OwnerEventOcc)
  <2>1. CASE RowsIn(rs, o) = {}
    BY <2>1, JobFacts DEF NoJob
  <2>2. CASE RowsIn(rs, o) # {}
    <3>1. PICK i : LatestIn(rs, o, i)
      BY <2>2, JobFacts
    <3>2. JobIn(rs, o) = Job(rs[i])
      BY <3>1, JobFacts
    <3>3. i \in DOMAIN rs /\ rs[i].occ = o /\ rs[i] \in Row /\ rs[i].status \in Open \cup Terminal
      BY <3>1, RowAt DEF LatestIn, RowsIn
    <3>4. o \notin OwnerEventOcc /\ rs[i].status \in Terminal
      BY <1>3, <3>3
    <3> QED
      BY <3>2, <3>3, <3>4, PhaseFacts
  <2> QED
    BY <2>1, <2>2
<1>8. Promise!Accept(o, JobIn(rs, o), JobIn(rt, o))
  BY <1>6, <1>7 DEF Promise!Accept, Promise!IsEnded
<1> QED
  BY <1>4, <1>5, <1>8 DEF JobMoves

(* A change of the latest row of a key is one of its job.                  *)
LEMMA ChangedMoves ==
  ASSUME NEW rs \in Seq(Row), NEW rt \in Seq(Row), OpenLast(rs),
         NEW i \in DOMAIN rs, Changed(rs, rt, i), rs[i].status \in Open
  PROVE  /\ OpenLast(rt)
         /\ \A k \in Occ \ {rs[i].occ} : JobIn(rt, k) = JobIn(rs, k)
         /\ JobIn(rs, rs[i].occ) = Job(rs[i]) /\ JobIn(rt, rs[i].occ) = Job(rt[i])
         /\ rs[i] \in Row /\ rt[i] \in Row
<1>1. /\ DOMAIN rt = DOMAIN rs /\ \A j \in DOMAIN rs : j # i => rt[j] = rs[j]
      /\ rt[i].occ = rs[i].occ
  BY DEF Changed
<1>2. \A k : RowsIn(rt, k) = RowsIn(rs, k)
  BY <1>1 DEF RowsIn
<1>3. LatestIn(rs, rs[i].occ, i) /\ LatestIn(rt, rs[i].occ, i)
  BY <1>2 DEF OpenLast, LatestIn
<1>4. OpenLast(rt)
  <2> SUFFICES ASSUME NEW j \in DOMAIN rt, rt[j].status \in Open
               PROVE  LatestIn(rt, rt[j].occ, j)
    BY DEF OpenLast
  <2>1. CASE j = i
    BY <1>1, <1>3, <2>1
  <2>2. CASE j # i
    BY <1>1, <1>2, <2>2 DEF OpenLast, LatestIn
  <2> QED
    BY <2>1, <2>2
<1>5. ASSUME NEW k \in Occ \ {rs[i].occ}
      PROVE  JobIn(rt, k) = JobIn(rs, k)
  <2>1. RowsIn(rt, k) = RowsIn(rs, k)
    BY <1>2
  <2>2. \A j \in RowsIn(rs, k) : rt[j] = rs[j]
    BY <1>1 DEF RowsIn
  <2> QED
    BY <2>1, <2>2, JobKept
<1>6. JobIn(rs, rs[i].occ) = Job(rs[i]) /\ JobIn(rt, rs[i].occ) = Job(rt[i])
  BY <1>3, JobFacts
<1>7. rs[i] \in Row /\ rt[i] \in Row
  BY <1>1, RowAt
<1> QED
  BY <1>4, <1>5, <1>6, <1>7

(* A claim starts the job of its key, and the end of an attempt ends it.   *)
LEMMA StartedOrEndedMoves ==
  ASSUME NEW rs \in Seq(Row), NEW rt \in Seq(Row), OpenLast(rs),
         NEW i \in DOMAIN rs, Started(rs, rt, i) \/ Ended(rs, rt, i)
  PROVE  OpenLast(rt) /\ JobMoves(rs, rt, rs[i].occ)
<1> DEFINE o == rs[i].occ
<1>1. Changed(rs, rt, i) /\ rs[i].status \in Open /\ rt[i].attempts = rs[i].attempts
  BY DEF Started, Ended, Changed, Open
<1>2. /\ OpenLast(rt)
      /\ \A k \in Occ \ {o} : JobIn(rt, k) = JobIn(rs, k)
      /\ JobIn(rs, o) = Job(rs[i]) /\ JobIn(rt, o) = Job(rt[i])
      /\ rs[i] \in Row /\ rt[i] \in Row
  BY <1>1, ChangedMoves
<1> DEFINE was == Job(rs[i])
           is  == Job(rt[i])
<1>3. was = [phase |-> was.phase, attempt |-> rs[i].attempts]
      /\ is = [phase |-> is.phase, attempt |-> rs[i].attempts]
  BY <1>1, <1>2, PhaseFacts
<1>4. CASE Started(rs, rt, i)
  <2>1. was.phase = "waiting" /\ is.phase = "running"
    BY <1>2, <1>4, PhaseFacts DEF Started
  <2> HIDE DEF was, is
  <2>2. Promise!Start(o, was, is)
    BY <1>3, <2>1 DEF Promise!Start
  <2> QED
    BY <1>2, <2>2 DEF JobMoves, was, is
<1>5. CASE Ended(rs, rt, i)
  <2>1. was.phase \in {"waiting", "running"} /\ is.phase \in {"done", "failed"}
    BY <1>2, <1>5, PhaseFacts DEF Ended
  <2> HIDE DEF was, is
  <2>2. Promise!End(o, was, is)
    BY <1>3, <2>1 DEF Promise!End, Promise!IsOpen
  <2> QED
    BY <1>2, <2>2 DEF JobMoves, was, is
<1> QED
  BY <1>4, <1>5

(* A requeue is a retry within the budget of the key.                      *)
LEMMA RetriedMoves ==
  ASSUME NEW rs \in Seq(Row), NEW rt \in Seq(Row), OpenLast(rs),
         NEW i \in DOMAIN rs, Retried(rs, rt, i)
  PROVE  OpenLast(rt) /\ JobMoves(rs, rt, rs[i].occ)
<1> DEFINE o == rs[i].occ
           n == Len(rs) + 1
<1>1. /\ DOMAIN rt = DOMAIN rs \cup {n}
      /\ \A j \in DOMAIN rs : j # i => rt[j] = rs[j]
      /\ rs[i].status \in Open /\ rt[i].occ = o /\ rt[i].status = "failed"
      /\ rs[i].attempts < 2 /\ o \in WikiOcc \cup CandidateOcc
      /\ rt[n].occ = o /\ rt[n].attempts = rs[i].attempts + 1 /\ rt[n].status = "pending"
  BY DEF Retried
<1>2. rs[i] \in Row /\ o \in Occ /\ rs[i].attempts \in Nat
  BY RowAt
<1>3. /\ n \notin DOMAIN rs /\ n \in DOMAIN rt
      /\ RowsIn(rt, o) = RowsIn(rs, o) \cup {n}
      /\ LatestIn(rt, o, n)
      /\ \A k : k # o => RowsIn(rt, k) = RowsIn(rs, k)
  <2>1. \A j \in DOMAIN rs : rt[j].occ = rs[j].occ
    BY <1>1
  <2> QED
    BY <1>1, <2>1, AppendedRows
<1>4. LatestIn(rs, o, i)
  BY <1>1 DEF OpenLast
<1> HIDE DEF n
<1>5. \A j \in DOMAIN rs : rs[j].occ = o /\ j # i => rs[j].status \notin Open
  <2> SUFFICES ASSUME NEW j \in DOMAIN rs, rs[j].occ = o, j # i, rs[j].status \in Open
               PROVE  FALSE
    OBVIOUS
  <2>1. LatestIn(rs, o, j)
    BY DEF OpenLast
  <2>2. j <= i /\ i <= j
    BY <1>4, <2>1 DEF LatestIn, RowsIn
  <2>3. i \in Nat /\ j \in Nat
    BY LenProperties
  <2> QED
    BY <2>2, <2>3
<1>6. OpenLast(rt)
  <2> SUFFICES ASSUME NEW j \in DOMAIN rt, rt[j].status \in Open
               PROVE  LatestIn(rt, rt[j].occ, j)
    BY DEF OpenLast
  <2>1. CASE j = n
    BY <1>1, <1>3, <2>1
  <2>2. CASE j # n
    <3>1. j \in DOMAIN rs /\ j # i
      BY <1>1, <2>2 DEF Open
    <3>2. rt[j] = rs[j] /\ rs[j].occ # o /\ LatestIn(rs, rs[j].occ, j)
      BY <1>1, <1>5, <3>1 DEF OpenLast
    <3>3. RowsIn(rt, rs[j].occ) = RowsIn(rs, rs[j].occ)
      BY <1>3, <3>2
    <3> QED
      BY <3>2, <3>3 DEF LatestIn
  <2> QED
    BY <2>1, <2>2
<1>7. ASSUME NEW k \in Occ \ {o}
      PROVE  JobIn(rt, k) = JobIn(rs, k)
  <2>1. RowsIn(rt, k) = RowsIn(rs, k)
    BY <1>3
  <2>2. \A j \in RowsIn(rs, k) : rt[j] = rs[j]
    BY <1>1 DEF RowsIn
  <2> QED
    BY <2>1, <2>2, JobKept
<1>8. /\ JobIn(rs, o).phase \in {"waiting", "running"} /\ JobIn(rs, o).attempt = rs[i].attempts
      /\ JobIn(rt, o) = [phase |-> "waiting", attempt |-> rs[i].attempts + 1]
  <2>1. JobIn(rs, o) = Job(rs[i]) /\ JobIn(rt, o) = Job(rt[n]) /\ rt[n] \in Row
    BY <1>3, <1>4, JobFacts, RowAt
  <2> QED
    BY <1>1, <1>2, <2>1, PhaseFacts
<1>9. Budgets[o] = 2
  BY <1>1, <1>2 DEF Budgets
<1>10. Promise!Retry(o, JobIn(rs, o), JobIn(rt, o))
  BY <1>1, <1>8, <1>9 DEF Promise!Retry, Promise!IsOpen, Budgets
<1> QED
  BY <1>6, <1>7, <1>10 DEF JobMoves

----------------------------------------------------------------------------
(***************************************************************************)
(* The theorem.                                                            *)
(***************************************************************************)
Jobs == [o \in Occ |-> JobOf(o)]

(* The job of a key is that of its table, before and after a step.         *)
LEMMA JobsFacts ==
  /\ DOMAIN Jobs = Occ /\ DOMAIN Jobs' = Occ
  /\ \A o \in Occ : Jobs[o] = JobIn(rows, o) /\ Jobs'[o] = JobIn(rows', o)
  BY DEF Jobs, JobOf, RowsOf, Latest, JobIn, RowsIn, Job, NoJob

(* What a step does to the table it does to one job, or to none.           *)
LEMMA StepMoves ==
  ASSUME IInv, IInv', OpenLast(rows), [Next]_vars
  PROVE  /\ OpenLast(rows')
         /\ rows' = rows \/ \E o \in Occ : JobMoves(rows, rows', o)
<1>1. rows \in Seq(Row) /\ rows' \in Seq(Row)
  BY DEF IInv, TypeOK, LedgerTypeOK
<1>2. TableStep(rows, rows')
  BY EveryStepMoves
<1>3. CASE rows' = rows
  BY <1>3
<1>4. ASSUME NEW o \in Occ, Accepted(rows, rows', o)
      PROVE  OpenLast(rows') /\ JobMoves(rows, rows', o)
  BY <1>1, <1>4, AcceptedMoves
<1>5. ASSUME NEW i \in DOMAIN rows,
             Started(rows, rows', i) \/ Ended(rows, rows', i) \/ Retried(rows, rows', i)
      PROVE  /\ OpenLast(rows') /\ JobMoves(rows, rows', rows[i].occ)
             /\ rows[i].occ \in Occ
  BY <1>1, <1>5, StartedOrEndedMoves, RetriedMoves, RowAt
<1> QED
  BY <1>2, <1>3, <1>4, <1>5 DEF TableStep

(* An open row is the latest of its key, in every state.                   *)
THEOREM LatestIsOpen == Spec => []OpenLast(rows)
<1>1. Init => OpenLast(rows)
  BY DEF Init, LedgerInit, OpenLast
<1>2. IInv /\ IInv' /\ OpenLast(rows) /\ [Next]_vars => OpenLast(rows)'
  BY StepMoves
<1> QED
  BY <1>1, <1>2, Invariance, PTL DEF Spec

(* Publishers, claims, failures, deferred arbitrations, crashes and boot   *)
(* recovery implement WorkOrderPromise: an accepted key waits, runs and    *)
(* ends, is retried within its budget, and an owner event is accepted once.*)
THEOREM Refinement == Spec => KeepsPromise
<1>1. Init => Promise!Init
  <2> SUFFICES ASSUME Init
               PROVE  Promise!Init
    OBVIOUS
  <2>1. rows = <<>> /\ \A o \in Occ : RowsOf(o) = {}
    BY DEF Init, LedgerInit, RowsOf
  <2> QED
    BY <2>1 DEF Promise!Init, JobOf
<1>2. IInv /\ IInv' /\ OpenLast(rows) /\ [Next]_vars => [Promise!Next]_Jobs
  <2> SUFFICES ASSUME IInv, IInv', OpenLast(rows), [Next]_vars
               PROVE  [Promise!Next]_Jobs
    OBVIOUS
  <2>1. CASE rows' = rows
    <3>1. Jobs' = Jobs
      BY <2>1 DEF Jobs, JobOf, RowsOf, Latest
    <3> QED
      BY <3>1
  <2>2. ASSUME NEW o \in Occ, JobMoves(rows, rows', o)
        PROVE  Promise!Next
    <3>1. \A k \in Occ \ {o} : Jobs'[k] = Jobs[k]
      BY <2>2, JobsFacts DEF JobMoves
    <3>2. Jobs[o] = JobIn(rows, o) /\ Jobs'[o] = JobIn(rows', o)
      BY JobsFacts
    <3>3. \/ Promise!Accept(o, Jobs[o], Jobs'[o]) \/ Promise!Start(o, Jobs[o], Jobs'[o])
          \/ Promise!Retry(o, Jobs[o], Jobs'[o]) \/ Promise!End(o, Jobs[o], Jobs'[o])
      BY <2>2, <3>2 DEF JobMoves
    <3> QED
      BY <3>1, <3>3 DEF Promise!Next, Jobs
  <2> QED
    BY <2>1, <2>2, StepMoves
<1> QED
  BY <1>1, <1>2, Invariance, LatestIsOpen, PTL DEF Spec, KeepsPromise, Promise!Spec, Jobs
=============================================================================
