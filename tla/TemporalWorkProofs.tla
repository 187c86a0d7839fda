------------------------- MODULE TemporalWorkProofs -------------------------
(***************************************************************************)
(* The invariants of TemporalWork, and that it keeps TemporalPromise.      *)
(*                                                                         *)
(* The inductive invariant is that the database is sound, and what the     *)
(* process knows of it in each phase: nothing runs in a process that is    *)
(* down, a boot repairs closed owners and gives what is active an open     *)
(* attempt, a stop takes the open attempts away, and an attempt that is    *)
(* being run or is deferred remains one that can be arbitrated.            *)
(***************************************************************************)
EXTENDS MCTemporalWork, TemporalLedgerProofs

Resting ==
  /\ phase \in {"down", "recover"} => cur = 0 /\ ctx = {} /\ late = {}
  /\ phase = "down" => deferred = {}

Owning  == phase # "down" => AllOwned(db)
Opening == phase \in {"recover", "up"} /\ enabled => AllOpen(db)
Halted  == phase # "down" /\ (phase = "stopping" \/ ~enabled) => OpenRows(db) = {}

Unsettled ==
  /\ cur # 0 => Arbitrable(db, cur)
  /\ \A x \in deferred : Arbitrable(db, x.attempt)

Remembered == \A c \in ctx \cup late : c.attempt \in DOMAIN db.rows

IInv ==
  /\ TypeOK /\ Sound(db)
  /\ Resting /\ Owning /\ Opening /\ Halted /\ Unsettled /\ Remembered

(* What a handler does to the database, if anything.                       *)
Transacted ==
  /\ Sound(db') /\ Grown(db, db')
  /\ \A k \in Keys : Promised(db, db', k)

----------------------------------------------------------------------------
(***************************************************************************)
(* Facts that several actions need.                                        *)
(***************************************************************************)

(* A handler that leaves the database alone.                               *)
LEMMA Untouched ==
  ASSUME Sound(db), db' = db
  PROVE  Transacted
<1>1. Grown(db, db)
  BY DEF Grown
<1>2. \A k \in Keys : Promised(db, db, k)
  BY DEF Promised, SameCheck
<1> QED
  BY <1>1, <1>2 DEF Transacted

(* One transaction of the ledger.                                          *)
LEMMA OneTransaction ==
  ASSUME Sound(db), Sound(db'), Grown(db, db'),
         \A k \in Keys : KeyStep(db, db', k) /\ (Begun(db, db', k) => Waits(db, k))
  PROVE  Transacted
<1>1. \A k \in Keys : Promised(db, db', k)
  BY PromiseKept
<1> QED
  BY <1>1 DEF Transacted

(* The database of the type invariant.                                     *)
LEMMA SoundType ==
  ASSUME NEW d, Sound(d)
  PROVE  /\ d.task \in [Tasks -> Task] /\ d.gens \in [Keys -> Gen]
         /\ d.rows \in Seq(Row) /\ d.effects \subseteq Effect
         /\ \A i \in DOMAIN d.rows : i \in Nat \ {0}
<1>1. d \in Database
  BY SoundFacts
<1>2. \A i \in DOMAIN d.rows : i \in Nat \ {0}
  BY <1>1, RowFacts
<1> QED
  BY <1>1, <1>2, DatabaseFacts

(* A handler that changes the database and nothing of the process.         *)
LEMMA ProcessKept ==
  ASSUME IInv, Transacted,
         AllOwned(db) => AllOwned(db'), AllOpen(db) => AllOpen(db'),
         OpenRows(db) = {} => OpenRows(db') = {},
         \A j : Arbitrable(db, j) => Arbitrable(db', j),
         UNCHANGED <<phase, enabled, runVars, deferred, restarts, faults>>,
         now' \in Times, edits' \in 0..MaxEdits
  PROVE  IInv'
<1>0. UNCHANGED <<phase, enabled, cur, step, ctx, late, deferred, restarts, faults>>
  BY DEF runVars
<1>1. Sound(db') /\ \A i \in DOMAIN db.rows : i \in DOMAIN db'.rows
  BY DEF Transacted, Grown
<1>2. TypeOK'
  <2>1. /\ db'.task \in [Tasks -> Task] /\ db'.gens \in [Keys -> Gen]
        /\ db'.rows \in Seq(Row) /\ db'.effects \subseteq Effect
    BY <1>1, SoundType
  <2>2. /\ cur' \in {0} \cup DOMAIN db'.rows
        /\ deferred' \subseteq [attempt : DOMAIN db'.rows, retry : BOOLEAN]
    BY <1>0, <1>1 DEF IInv, TypeOK
  <2> QED
    BY <1>0, <2>1, <2>2 DEF IInv, TypeOK
<1>3. Resting'
  BY <1>0 DEF IInv, Resting
<1>4. Owning'
  BY <1>0 DEF IInv, Owning
<1>5. Opening'
  BY <1>0 DEF IInv, Opening
<1>6. Halted'
  BY <1>0 DEF IInv, Halted
<1>7. Unsettled'
  BY <1>0 DEF IInv, Unsettled
<1>8. Remembered'
  BY <1>0, <1>1 DEF IInv, Remembered
<1> QED
  BY <1>1, <1>2, <1>3, <1>4, <1>5, <1>6, <1>7, <1>8 DEF IInv

(* arbitrateTemporalAttempt on an attempt that may be arbitrated: the      *)
(* outcome is durable already, becomes so, or the attempt is deferred.     *)
LEMMA ArbitrateFacts ==
  ASSUME IInv, NEW i, Arbitrable(db, i), NEW retry \in BOOLEAN, Arbitrate(i, retry)
  PROVE  /\ Transacted /\ db'.effects = db.effects
         /\ AllOwned(db) => AllOwned(db')
         /\ AllOpen(db) => AllOpen(db')
         /\ OpenRows(db) = {} => OpenRows(db') = {}
         /\ \A x \in deferred' : Arbitrable(db', x.attempt) /\ x.retry \in BOOLEAN
         /\ deferred' \subseteq [attempt : DOMAIN db'.rows, retry : BOOLEAN]
         /\ faults' \in 0..MaxFaults
<1> DEFINE kept == Forget(i)
           mine == [attempt |-> i, retry |-> retry]
<1>1. /\ Sound(db) /\ i \in DOMAIN db.rows
      /\ deferred \subseteq [attempt : DOMAIN db.rows, retry : BOOLEAN]
      /\ faults \in 0..MaxFaults /\ MaxFaults \in Nat
      /\ \A x \in deferred : Arbitrable(db, x.attempt)
  BY TemporalBoundAssumption DEF IInv, TypeOK, Unsettled, Arbitrable
<1>2. /\ kept \subseteq deferred /\ \A x \in kept : x.attempt # i
  BY DEF Forget
<1>3. /\ faults' \in 0..MaxFaults
      /\ \/ db' = db /\ deferred' \in {kept, kept \cup {mine}}
         \/ FailAccepted(db, i) /\ db' = FailedWork(db, i, retry) /\ deferred' = kept
  BY <1>1 DEF Arbitrate
<1> HIDE DEF kept
<1>4. CASE db' = db /\ deferred' \in {kept, kept \cup {mine}}
  <2>1. Transacted
    BY <1>1, <1>4, Untouched
  <2>2. \A x \in deferred' : /\ x \in [attempt : DOMAIN db.rows, retry : BOOLEAN]
                             /\ Arbitrable(db, x.attempt)
    <3>1. mine \in [attempt : DOMAIN db.rows, retry : BOOLEAN] /\ mine.attempt = i
      BY <1>1
    <3> HIDE DEF mine
    <3> QED
      BY <1>1, <1>2, <1>4, <3>1
  <2> QED
    BY <1>3, <1>4, <2>1, <2>2
<1>5. CASE FailAccepted(db, i) /\ db' = FailedWork(db, i, retry) /\ deferred' = kept
  <2> DEFINE x == FailedWork(db, i, retry)
  <2>1. /\ i \in OpenRows(db)
        /\ Sound(x) /\ Grown(db, x) /\ x.effects = db.effects
        /\ \A c \in Keys : KeyStep(db, x, c) /\ ~Begun(db, x, c)
        /\ AllOwned(db) => AllOwned(x)
        /\ AllOpen(db) => AllOpen(x)
        /\ \A j : j # i /\ Arbitrable(db, j) => Arbitrable(x, j)
    BY <1>1, <1>5, FailedSound
  <2> HIDE DEF x
  <2>2. db' = x
    BY <1>5 DEF x
  <2>3. Transacted
    BY <1>1, <2>1, <2>2, OneTransaction
  <2>4. ASSUME NEW y \in deferred'
        PROVE  /\ Arbitrable(x, y.attempt) /\ y \in [attempt : DOMAIN x.rows, retry : BOOLEAN]
    <3>1. y \in deferred /\ y.attempt # i /\ Arbitrable(db, y.attempt)
      BY <1>1, <1>2, <1>5
    <3>2. Arbitrable(x, y.attempt)
      BY <2>1, <3>1
    <3>3. y \in [attempt : DOMAIN db.rows, retry : BOOLEAN]
      BY <1>1, <3>1
    <3> QED
      BY <2>1, <3>2, <3>3 DEF Grown
  <2> QED
    BY <1>3, <2>1, <2>2, <2>3, <2>4
<1> QED
  BY <1>3, <1>4, <1>5

(* A handler that arbitrates and then holds no attempt.                    *)
LEMMA Arbitrated ==
  ASSUME IInv, NEW i, Arbitrable(db, i), NEW retry \in BOOLEAN, Arbitrate(i, retry),
         phase # "down", UNCHANGED <<now, phase, enabled, edits, restarts>>,
         cur' = 0, step' = "idle", ctx' = {}, late' \subseteq ctx \cup late
  PROVE  IInv' /\ Transacted /\ db'.effects = db.effects
<1>1. /\ Transacted /\ db'.effects = db.effects
      /\ AllOwned(db) => AllOwned(db')
      /\ AllOpen(db) => AllOpen(db')
      /\ OpenRows(db) = {} => OpenRows(db') = {}
      /\ \A x \in deferred' : Arbitrable(db', x.attempt)
      /\ deferred' \subseteq [attempt : DOMAIN db'.rows, retry : BOOLEAN]
      /\ faults' \in 0..MaxFaults
  BY ArbitrateFacts
<1>2. Sound(db') /\ \A j \in DOMAIN db.rows : j \in DOMAIN db'.rows
  BY <1>1 DEF Transacted, Grown
<1>3. TypeOK'
  <2>1. /\ db'.task \in [Tasks -> Task] /\ db'.gens \in [Keys -> Gen]
        /\ db'.rows \in Seq(Row) /\ db'.effects \subseteq Effect
    BY <1>2, SoundType
  <2>2. ctx' \subseteq Context /\ Cardinality(ctx') <= 1 /\ late' \subseteq Context
    BY FS_EmptySet DEF IInv, TypeOK
  <2> QED
    BY <1>1, <2>1, <2>2 DEF IInv, TypeOK
<1>4. Resting'
  <2>1. phase = "recover" => ctx = {} /\ late = {}
    BY DEF IInv, Resting
  <2> QED
    BY <2>1 DEF Resting
<1>5. Owning' /\ Opening' /\ Halted'
  BY <1>1 DEF IInv, Owning, Opening, Halted
<1>6. Unsettled'
  BY <1>1 DEF Unsettled
<1>7. Remembered'
  BY <1>2 DEF IInv, Remembered
<1> QED
  BY <1>1, <1>2, <1>3, <1>4, <1>5, <1>6, <1>7 DEF IInv

----------------------------------------------------------------------------
(***************************************************************************)
(* The owner, the clock and the scheduler.                                 *)
(***************************************************************************)
LEMMA OwnerEditsKeeps ==
  ASSUME IInv, NEW t \in Tasks, NEW open \in BOOLEAN, NEW touched \in BOOLEAN,
         NEW due \in Times \cup {Never}, OwnerEdits(t, open, due, touched)
  PROVE  IInv' /\ Transacted /\ db'.effects = db.effects
<1> DEFINE x == Edited(db, t, open, due, touched)
<1>1. /\ db' = x /\ edits < MaxEdits /\ edits' = edits + 1
      /\ Moves(db.task[t], open, due) => db.task[t].epoch < MaxEpoch
      /\ UNCHANGED <<now, phase, enabled, runVars, deferred, restarts, faults>>
  BY DEF OwnerEdits
<1>2. Sound(db) /\ now \in Times /\ edits \in 0..MaxEdits /\ MaxEdits \in Nat
  BY TemporalBoundAssumption DEF IInv, TypeOK
<1>3. /\ Sound(x) /\ Superseding(db, x) /\ Grown(db, x) /\ x.effects = db.effects
      /\ AllOwned(db) => AllOwned(x)
  BY <1>1, <1>2, EditedFacts
<1> HIDE DEF x
<1>4. /\ AllOpen(db) => AllOpen(x)
      /\ OpenRows(db) = {} => OpenRows(x) = {}
      /\ \A i : Arbitrable(db, i) => Arbitrable(x, i)
      /\ \A k \in Keys : KeyStep(db, x, k)
  BY <1>2, <1>3, SoundFacts, SupersedingKeeps
<1>5. \A k \in Keys : ~Begun(db, x, k)
  BY <1>3, SupersedingBegins
<1>6. Transacted
  BY <1>1, <1>2, <1>3, <1>4, <1>5, OneTransaction
<1>7. edits' \in 0..MaxEdits
  BY <1>1, <1>2
<1>8. IInv'
  BY <1>1, <1>2, <1>3, <1>4, <1>6, <1>7, ProcessKept
<1> QED
  BY <1>1, <1>3, <1>6, <1>8

(* The clock changes no row.                                               *)
LEMMA ClockKeeps ==
  ASSUME IInv, Clock
  PROVE  IInv' /\ Transacted /\ db'.effects = db.effects
<1>1. /\ now < MaxTime /\ now' = now + 1
      /\ UNCHANGED <<db, phase, enabled, runVars, deferred, edits, restarts, faults>>
  BY DEF Clock, boundVars
<1>2. Sound(db) /\ now \in Times /\ edits \in 0..MaxEdits
  BY DEF IInv, TypeOK
<1>3. now' \in Times
  BY <1>1, <1>2, TemporalAssumption DEF Times
<1>4. Transacted
  BY <1>1, <1>2, Untouched
<1>5. IInv'
  BY <1>1, <1>2, <1>3, <1>4, ProcessKept
<1> QED
  BY <1>1, <1>4, <1>5

(* A scan, be it one that takes nothing.                                   *)
LEMMA AfterScanFacts ==
  ASSUME Sound(db), now \in Times, AllOpen(db), db' = AfterScan
  PROVE  /\ Transacted /\ db'.effects = db.effects
         /\ AllOwned(db) => AllOwned(db')
         /\ AllOpen(db')
         /\ \A j : Arbitrable(db, j) => Arbitrable(db', j)
<1>1. CASE db' = db
  BY <1>1, Untouched
<1>2. CASE db' = Scanned(db, now)
  <2> DEFINE x == Scanned(db, now)
  <2>1. /\ Sound(x) /\ Grown(db, x) /\ x.effects = db.effects
        /\ \A k \in Keys : KeyStep(db, x, k) /\ (Begun(db, x, k) => Waits(db, k))
        /\ AllOwned(db) => AllOwned(x)
        /\ AllOpen(x)
        /\ \A j : Arbitrable(db, j) => Arbitrable(x, j)
    BY ScannedSound
  <2> HIDE DEF x
  <2>2. db' = x
    BY <1>2 DEF x
  <2>3. Transacted
    BY <2>1, <2>2, OneTransaction
  <2> QED
    BY <2>1, <2>2, <2>3
<1> QED
  BY <1>1, <1>2 DEF AfterScan

(* A scan begins checks while the process is up and the flag is on.        *)
LEMMA ScanKeeps ==
  ASSUME IInv, Scan
  PROVE  IInv' /\ Transacted /\ db'.effects = db.effects
<1>1. /\ phase = "up" /\ enabled /\ db' = AfterScan
      /\ UNCHANGED <<now, phase, enabled, runVars, deferred, edits, restarts, faults>>
  BY DEF Scan, boundVars
<1>2. Sound(db) /\ now \in Times /\ edits \in 0..MaxEdits /\ AllOpen(db)
  BY <1>1 DEF IInv, TypeOK, Opening
<1>3. /\ Transacted /\ db'.effects = db.effects
      /\ AllOwned(db) => AllOwned(db')
      /\ AllOpen(db')
      /\ \A j : Arbitrable(db, j) => Arbitrable(db', j)
  BY <1>1, <1>2, AfterScanFacts
<1>0. UNCHANGED <<phase, enabled, cur, step, ctx, late, deferred, restarts, faults>>
  BY <1>1 DEF runVars
<1>4. Sound(db') /\ \A i \in DOMAIN db.rows : i \in DOMAIN db'.rows
  BY <1>3 DEF Transacted, Grown
<1>5. TypeOK'
  <2>1. /\ db'.task \in [Tasks -> Task] /\ db'.gens \in [Keys -> Gen]
        /\ db'.rows \in Seq(Row) /\ db'.effects \subseteq Effect
    BY <1>4, SoundType
  <2>2. /\ cur' \in {0} \cup DOMAIN db'.rows
        /\ deferred' \subseteq [attempt : DOMAIN db'.rows, retry : BOOLEAN]
    BY <1>0, <1>4 DEF IInv, TypeOK
  <2> QED
    BY <1>0, <1>1, <2>1, <2>2 DEF IInv, TypeOK
<1>6. Resting' /\ Owning' /\ Opening' /\ Halted'
  BY <1>0, <1>1, <1>3 DEF IInv, Resting, Owning, Opening, Halted
<1>7. Unsettled'
  BY <1>0, <1>3 DEF IInv, Unsettled
<1>8. Remembered'
  BY <1>0, <1>4 DEF IInv, Remembered
<1> QED
  BY <1>3, <1>4, <1>5, <1>6, <1>7, <1>8 DEF IInv

----------------------------------------------------------------------------
(***************************************************************************)
(* One attempt at a time.                                                  *)
(***************************************************************************)
LEMMA RecheckKeeps ==
  ASSUME IInv, Recheck
  PROVE  IInv' /\ Transacted /\ db'.effects = db.effects
<1>1. PICK x \in deferred : Arbitrate(x.attempt, x.retry)
  BY DEF Recheck
<1>2. /\ phase = "up" /\ step = "idle"
      /\ UNCHANGED <<now, phase, enabled, cur, step, ctx, late, edits, restarts>>
  BY DEF Recheck, runVars
<1>3. x.retry \in BOOLEAN /\ Arbitrable(db, x.attempt)
  BY DEF IInv, TypeOK, Unsettled
<1>4. cur' = 0 /\ step' = "idle" /\ ctx' = {} /\ late' \subseteq ctx \cup late
  BY <1>2 DEF IInv, TypeOK
<1> QED
  BY <1>1, <1>2, <1>3, <1>4, Arbitrated

(* A claim puts one pending attempt in progress.                           *)
LEMMA ClaimKeeps ==
  ASSUME IInv, Claim
  PROVE  IInv' /\ Transacted /\ db'.effects = db.effects
<1>1. PICK i \in DOMAIN db.rows :
        db.rows[i].status = "pending" /\ db' = ClaimedRow(db, i) /\ cur' = i
  BY DEF Claim
<1>2. /\ phase = "up" /\ step = "idle" /\ deferred = {} /\ step' = "prep"
      /\ UNCHANGED <<now, phase, enabled, ctx, late, deferred, edits, restarts, faults>>
  BY DEF Claim, boundVars
<1> DEFINE x == ClaimedRow(db, i)
<1>3. Sound(db) /\ i \in OpenRows(db) /\ ctx = {} /\ i \in Nat \ {0}
  BY <1>1, <1>2, SoundType DEF IInv, TypeOK, OpenRows, IsOpen
<1>4. /\ Sound(x) /\ Grown(db, x) /\ x.effects = db.effects
      /\ \A k \in Keys : KeyStep(db, x, k) /\ ~Begun(db, x, k)
      /\ AllOwned(db) => AllOwned(x)
      /\ AllOpen(db) => AllOpen(x)
      /\ Arbitrable(x, i)
  BY <1>1, <1>3, ClaimedSound
<1> HIDE DEF x
<1>5. db' = x
  BY <1>1 DEF x
<1>6. Transacted
  BY <1>3, <1>4, <1>5, OneTransaction
<1>7. \A j \in DOMAIN db.rows : j \in DOMAIN db'.rows
  BY <1>4, <1>5 DEF Grown
<1>8. TypeOK'
  <2>1. /\ db'.task \in [Tasks -> Task] /\ db'.gens \in [Keys -> Gen]
        /\ db'.rows \in Seq(Row) /\ db'.effects \subseteq Effect
    BY <1>4, <1>5, SoundType
  <2>2. /\ cur' \in DOMAIN db'.rows /\ cur' # 0
        /\ deferred' \subseteq [attempt : DOMAIN db'.rows, retry : BOOLEAN]
    BY <1>1, <1>2, <1>3, <1>7
  <2> QED
    BY <1>2, <1>3, <2>1, <2>2 DEF IInv, TypeOK
<1>9. Resting' /\ Owning' /\ Opening' /\ Halted'
  BY <1>2, <1>3, <1>4, <1>5 DEF IInv, Resting, Owning, Opening, Halted
<1>10. Unsettled'
  BY <1>1, <1>2, <1>4, <1>5 DEF Unsettled
<1>11. Remembered'
  BY <1>2, <1>7 DEF IInv, Remembered
<1> QED
  BY <1>4, <1>5, <1>6, <1>8, <1>9, <1>10, <1>11 DEF IInv

(* The context the run is given is that of the claimed attempt.            *)
LEMMA PrepDoneKeeps ==
  ASSUME IInv, PrepDone
  PROVE  IInv' /\ Transacted /\ db'.effects = db.effects
<1>1. /\ step = "prep" /\ step' = "run" /\ ctx' = {ContextOf(db, cur)}
      /\ UNCHANGED <<db, now, phase, enabled, cur, late, deferred, edits, restarts, faults>>
  BY DEF PrepDone, boundVars
<1>2. Sound(db) /\ cur # 0 /\ cur \in DOMAIN db.rows /\ phase \notin {"down", "recover"}
  BY <1>1 DEF IInv, TypeOK, Resting
<1>3. ContextOf(db, cur) \in Context /\ ContextOf(db, cur).attempt = cur
  <2>1. db \in Database
    BY <1>2, SoundFacts
  <2>2. db.task[db.rows[cur].key.task].rev \in Nat /\ cur \in Nat \ {0}
    BY <1>2, <2>1, RowFacts, KeyFacts, TaskFacts
  <2> QED
    BY <2>2 DEF ContextOf, Context
<1>4. Transacted
  BY <1>1, <1>2, Untouched
<1>5. TypeOK'
  <2>1. ctx' \subseteq Context /\ Cardinality(ctx') <= 1
    BY <1>1, <1>3, FS_Singleton
  <2> QED
    BY <1>1, <2>1 DEF IInv, TypeOK
<1>6. Resting' /\ Owning' /\ Opening' /\ Halted' /\ Unsettled'
  BY <1>1, <1>2 DEF IInv, Resting, Owning, Opening, Halted, Unsettled
<1>7. Remembered'
  BY <1>1, <1>2, <1>3 DEF IInv, Remembered
<1> QED
  BY <1>1, <1>2, <1>4, <1>5, <1>6, <1>7 DEF IInv

(* What the steps of a run have in common.                                 *)
LEMMA RunFacts ==
  ASSUME IInv, step # "idle"
  PROVE  /\ cur # 0 /\ Arbitrable(db, cur) /\ phase \notin {"down", "recover"}
         /\ Sound(db) /\ cur \in DOMAIN db.rows
  BY DEF IInv, TypeOK, Resting, Unsettled

(* A preparation that throws is arbitrated.                                *)
LEMMA PrepFailsKeeps ==
  ASSUME IInv, PrepFails
  PROVE  IInv' /\ Transacted /\ db'.effects = db.effects
<1>1. /\ step = "prep" /\ Arbitrate(cur, TRUE) /\ cur' = 0 /\ step' = "idle" /\ ctx' = {}
      /\ UNCHANGED <<now, phase, enabled, late, edits, restarts>>
  BY DEF PrepFails, RunOneReturns
<1>2. Arbitrable(db, cur) /\ phase # "down"
  BY <1>1, RunFacts
<1>3. late' \subseteq ctx \cup late /\ TRUE \in BOOLEAN
  BY <1>1
<1> QED
  BY <1>1, <1>2, <1>3, Arbitrated

(* A run that answers is arbitrated.                                       *)
LEMMA RunReturnsKeeps ==
  ASSUME IInv, RunReturns
  PROVE  IInv' /\ Transacted /\ db'.effects = db.effects
<1>1. /\ step = "run" /\ Arbitrate(cur, TRUE) /\ cur' = 0 /\ step' = "idle" /\ ctx' = {}
      /\ UNCHANGED <<now, phase, enabled, late, edits, restarts>>
  BY DEF RunReturns, RunOneReturns
<1>2. Arbitrable(db, cur) /\ phase # "down"
  BY <1>1, RunFacts
<1>3. late' \subseteq ctx \cup late /\ TRUE \in BOOLEAN
  BY <1>1
<1> QED
  BY <1>1, <1>2, <1>3, Arbitrated

(* A run that throws is arbitrated; a call of it may still arrive.         *)
LEMMA RunThrowsKeeps ==
  ASSUME IInv, RunThrows
  PROVE  IInv' /\ Transacted /\ db'.effects = db.effects
<1>1. PICK retry \in BOOLEAN : Arbitrate(cur, retry)
  BY DEF RunThrows
<1>2. /\ step = "run" /\ cur' = 0 /\ step' = "idle" /\ ctx' = {}
      /\ UNCHANGED <<now, phase, enabled, edits, restarts>>
  BY DEF RunThrows, RunOneReturns
<1>3. late' \subseteq ctx \cup late
  BY DEF RunThrows, LeftBehind
<1>4. Arbitrable(db, cur) /\ phase # "down"
  BY <1>2, RunFacts
<1> QED
  BY <1>1, <1>2, <1>3, <1>4, Arbitrated

(* While stopping, a run that throws is not arbitrated; it is paused.      *)
LEMMA RunThrowsWhileStoppingKeeps ==
  ASSUME IInv, RunThrowsWhileStopping
  PROVE  IInv' /\ Transacted /\ db'.effects = db.effects
<1>1. /\ step = "run" /\ phase = "stopping" /\ cur' = 0 /\ step' = "idle" /\ ctx' = {}
      /\ late' \subseteq ctx \cup late
      /\ UNCHANGED <<db, now, phase, enabled, deferred, edits, restarts, faults>>
  BY DEF RunThrowsWhileStopping, RunOneReturns, LeftBehind, boundVars
<1>2. Transacted
  BY <1>1, Untouched DEF IInv
<1>3. TypeOK'
  <2>1. ctx' \subseteq Context /\ Cardinality(ctx') <= 1 /\ late' \subseteq Context
    BY <1>1, FS_EmptySet DEF IInv, TypeOK
  <2> QED
    BY <1>1, <2>1 DEF IInv, TypeOK
<1>4. Resting' /\ Owning' /\ Opening' /\ Halted' /\ Unsettled'
  BY <1>1 DEF IInv, Resting, Owning, Opening, Halted, Unsettled
<1>5. Remembered'
  BY <1>1 DEF IInv, Remembered
<1> QED
  BY <1>1, <1>2, <1>3, <1>4, <1>5 DEF IInv

(* An effect is of an open attempt, on the task as its context has it.     *)
LEMMA ReconcileKeeps ==
  ASSUME IInv, NEW c \in ctx \cup late, Reconcile(c)
  PROVE  /\ IInv' /\ Transacted
         /\ OpenRows(db) # {}
         /\ \A e \in db'.effects \ db.effects :
              [attempt |-> e.attempt, rev |-> db.task[db.rows[e.attempt].key.task].rev] = c
<1> DEFINE i == c.attempt
<1>1. PICK a \in Answers(db, i, now) : db' = Applied(db, i, a)
  BY DEF Reconcile
<1>2. /\ Owned(db, i) /\ ContextOf(db, i) = c
      /\ UNCHANGED <<now, phase, enabled, runVars, deferred, edits, restarts, faults>>
  BY DEF Reconcile, ContextHolds, boundVars
<1>3. Sound(db) /\ now \in Times /\ edits \in 0..MaxEdits /\ i \in DOMAIN db.rows
  BY DEF IInv, TypeOK, Remembered
<1>4. OpenRows(db) # {}
  BY <1>2, <1>3 DEF Owned, OpenRows, IsOpen
<1> DEFINE x == Applied(db, i, a)
<1>5. /\ Sound(x) /\ Grown(db, x)
      /\ \A e \in x.effects \ db.effects : e.attempt = i
      /\ \A k \in Keys : KeyStep(db, x, k) /\ ~Begun(db, x, k)
      /\ AllOwned(db) => AllOwned(x)
      /\ AllOpen(db) => AllOpen(x)
      /\ \A j : Arbitrable(db, j) => Arbitrable(x, j)
  BY <1>1, <1>2, <1>3, AppliedSound
<1> HIDE DEF x
<1>6. db' = x
  BY <1>1 DEF x
<1>7. Transacted
  BY <1>3, <1>5, <1>6, OneTransaction
<1>8. IInv'
  BY <1>2, <1>3, <1>4, <1>5, <1>6, <1>7, ProcessKept
<1>9. ASSUME NEW e \in db'.effects \ db.effects
      PROVE  [attempt |-> e.attempt, rev |-> db.task[db.rows[e.attempt].key.task].rev] = c
  <2>1. e.attempt = i
    BY <1>5, <1>6
  <2> QED
    BY <1>2, <2>1 DEF ContextOf
<1> QED
  BY <1>4, <1>7, <1>8, <1>9

----------------------------------------------------------------------------
(***************************************************************************)
(* Boot, stop and death.                                                   *)
(***************************************************************************)

(* A boot repairs what has a closed owner, then resumes what is active or  *)
(* pauses it.                                                              *)
LEMMA BootFacts ==
  ASSUME Sound(db), NEW flag \in BOOLEAN,
         db' = IF flag THEN Resumed(Repaired(db)) ELSE Paused(Repaired(db))
  PROVE  /\ Transacted /\ db'.effects = db.effects /\ AllOwned(db')
         /\ flag => AllOpen(db')
         /\ ~flag => OpenRows(db') = {}
<1> DEFINE y == Repaired(db)
<1>1. /\ Sound(y) /\ Superseding(db, y) /\ Grown(db, y) /\ y.effects = db.effects
      /\ AllOwned(y)
  BY RepairedFacts
<1>2. db' = IF flag THEN Resumed(y) ELSE Paused(y)
  OBVIOUS
<1> HIDE DEF y
<1>3. \A k \in Keys : Promised(db, y, k)
  <2>1. \A k \in Keys : KeyStep(db, y, k)
    BY <1>1, SoundFacts, SupersedingKeeps
  <2>2. \A k \in Keys : ~Begun(db, y, k)
    BY <1>1, SupersedingBegins
  <2> QED
    BY <1>1, <2>1, <2>2, PromiseKept
<1>4. /\ Sound(db') /\ Grown(y, db') /\ db'.effects = y.effects /\ AllOwned(db')
      /\ \A k \in Keys : SameCheck(y, db', k)
      /\ flag => AllOpen(db')
      /\ ~flag => OpenRows(db') = {}
  <2>1. CASE flag
    <3> DEFINE x == Resumed(y)
    <3>1. /\ Sound(x) /\ Grown(y, x) /\ x.effects = y.effects
          /\ AllOwned(y) => AllOwned(x)
          /\ AllOpen(x) /\ \A k \in Keys : SameCheck(y, x, k)
      BY <1>1, ResumedSound
    <3>2. db' = x
      BY <1>2, <2>1
    <3> HIDE DEF x
    <3> QED
      BY <1>1, <2>1, <3>1, <3>2
  <2>2. CASE ~flag
    <3> DEFINE x == Paused(y)
    <3>1. /\ Sound(x) /\ Grown(y, x) /\ x.effects = y.effects
          /\ AllOwned(y) => AllOwned(x)
          /\ OpenRows(x) = {} /\ \A k \in Keys : SameCheck(y, x, k)
      BY <1>1, PausedSound
    <3>2. db' = x
      BY <1>2, <2>2
    <3> HIDE DEF x
    <3> QED
      BY <1>1, <2>2, <3>1, <3>2
  <2> QED
    BY <2>1, <2>2
<1>5. Grown(db, db')
  BY <1>1, <1>4 DEF Grown
<1>6. \A k \in Keys : Promised(db, db', k)
  BY <1>3, <1>4, PromiseKeptTwice
<1> QED
  BY <1>1, <1>4, <1>5, <1>6 DEF Transacted

(* A boot repairs, then resumes or pauses.                                 *)
LEMMA StartKeeps ==
  ASSUME IInv, Start
  PROVE  IInv' /\ Transacted /\ db'.effects = db.effects
<1>1. PICK flag \in BOOLEAN :
        /\ enabled' = flag
        /\ db' = IF flag THEN Resumed(Repaired(db)) ELSE Paused(Repaired(db))
  BY DEF Start
<1>2. /\ phase = "down" /\ phase' = "recover"
      /\ UNCHANGED <<now, cur, step, ctx, late, deferred, edits, restarts, faults>>
  BY DEF Start, runVars, boundVars
<1>3. Sound(db) /\ cur = 0 /\ ctx = {} /\ late = {} /\ deferred = {}
  BY <1>2 DEF IInv, Resting
<1>4. /\ Transacted /\ db'.effects = db.effects /\ AllOwned(db')
      /\ flag => AllOpen(db')
      /\ ~flag => OpenRows(db') = {}
  BY <1>1, <1>3, BootFacts
<1>5. Sound(db')
  BY <1>4 DEF Transacted
<1>6. TypeOK'
  <2>1. /\ db'.task \in [Tasks -> Task] /\ db'.gens \in [Keys -> Gen]
        /\ db'.rows \in Seq(Row) /\ db'.effects \subseteq Effect
    BY <1>5, SoundType
  <2> QED
    BY <1>1, <1>2, <1>3, <2>1 DEF IInv, TypeOK
<1>7. Resting' /\ Owning' /\ Opening' /\ Halted'
  BY <1>1, <1>2, <1>3, <1>4 DEF Resting, Owning, Opening, Halted
<1>8. Unsettled' /\ Remembered'
  BY <1>2, <1>3 DEF Unsettled, Remembered
<1> QED
  BY <1>4, <1>5, <1>6, <1>7, <1>8 DEF IInv

(* bootRecover arbitrates a claim the last process left.                   *)
LEMMA RecoverStaleKeeps ==
  ASSUME IInv, RecoverStale
  PROVE  IInv' /\ Transacted /\ db'.effects = db.effects
<1>1. PICK i \in Stale : Arbitrate(i, TRUE)
  BY DEF RecoverStale
<1>2. /\ phase = "recover"
      /\ UNCHANGED <<now, phase, enabled, cur, step, ctx, late, edits, restarts>>
  BY DEF RecoverStale, runVars
<1>3. Arbitrable(db, i) /\ TRUE \in BOOLEAN
  BY ClaimFacts DEF IInv, Stale
<1>4. cur' = 0 /\ step' = "idle" /\ ctx' = {} /\ late' \subseteq ctx \cup late
  BY <1>2 DEF IInv, TypeOK, Resting
<1> QED
  BY <1>1, <1>2, <1>3, <1>4, Arbitrated

(* The boot ends when no stale claim is left.                              *)
LEMMA BootDoneKeeps ==
  ASSUME IInv, BootDone
  PROVE  IInv' /\ Transacted /\ db'.effects = db.effects
<1>1. /\ phase = "recover" /\ phase' = "up"
      /\ db' = IF enabled THEN AfterScan ELSE db
      /\ UNCHANGED <<now, enabled, cur, step, ctx, late, deferred, edits, restarts, faults>>
  BY DEF BootDone, runVars, boundVars
<1>2. /\ Sound(db) /\ now \in Times /\ cur = 0 /\ ctx = {} /\ late = {} /\ enabled \in BOOLEAN
      /\ AllOwned(db)
      /\ enabled => AllOpen(db)
      /\ ~enabled => OpenRows(db) = {}
      /\ \A x \in deferred : Arbitrable(db, x.attempt)
  BY <1>1 DEF IInv, TypeOK, Resting, Owning, Opening, Halted, Unsettled
<1>3. /\ Transacted /\ db'.effects = db.effects /\ AllOwned(db')
      /\ enabled => AllOpen(db')
      /\ ~enabled => OpenRows(db') = {}
      /\ \A x \in deferred : Arbitrable(db', x.attempt)
  <2>1. CASE enabled
    BY <1>1, <1>2, <2>1, AfterScanFacts
  <2>2. CASE ~enabled
    BY <1>1, <1>2, <2>2, Untouched
  <2> QED
    BY <2>1, <2>2
<1>4. Sound(db') /\ \A i \in DOMAIN db.rows : i \in DOMAIN db'.rows
  BY <1>3 DEF Transacted, Grown
<1>5. TypeOK'
  <2>1. /\ db'.task \in [Tasks -> Task] /\ db'.gens \in [Keys -> Gen]
        /\ db'.rows \in Seq(Row) /\ db'.effects \subseteq Effect
    BY <1>4, SoundType
  <2>2. deferred' \subseteq [attempt : DOMAIN db'.rows, retry : BOOLEAN]
    BY <1>1, <1>4 DEF IInv, TypeOK
  <2> QED
    BY <1>1, <1>2, <2>1, <2>2 DEF IInv, TypeOK
<1>6. Resting' /\ Owning' /\ Opening' /\ Halted'
  BY <1>1, <1>2, <1>3 DEF Resting, Owning, Opening, Halted
<1>7. Unsettled' /\ Remembered'
  BY <1>1, <1>2, <1>3 DEF Unsettled, Remembered
<1> QED
  BY <1>3, <1>4, <1>5, <1>6, <1>7 DEF IInv

(* stop() pauses every active check.                                       *)
LEMMA StopKeeps ==
  ASSUME IInv, Stop
  PROVE  IInv' /\ Transacted /\ db'.effects = db.effects
<1>1. /\ phase = "up" /\ phase' = "stopping" /\ restarts < MaxRestarts
      /\ restarts' = restarts + 1
      /\ db' = IF enabled THEN Paused(db) ELSE db
      /\ UNCHANGED <<now, enabled, cur, step, ctx, late, deferred, edits, faults>>
  BY DEF Stop, runVars
<1>2. /\ Sound(db) /\ AllOwned(db) /\ enabled \in BOOLEAN
      /\ ~enabled => OpenRows(db) = {}
  BY <1>1 DEF IInv, TypeOK, Owning, Halted
<1>3. /\ Transacted /\ db'.effects = db.effects /\ AllOwned(db') /\ OpenRows(db') = {}
      /\ \A j : Arbitrable(db, j) => Arbitrable(db', j)
  <2>1. CASE enabled
    <3> DEFINE x == Paused(db)
    <3>1. /\ Sound(x) /\ Grown(db, x) /\ x.effects = db.effects
          /\ \A k \in Keys : KeyStep(db, x, k) /\ ~Begun(db, x, k)
          /\ AllOwned(db) => AllOwned(x)
          /\ OpenRows(x) = {}
          /\ \A j : Arbitrable(db, j) => Arbitrable(x, j)
      BY <1>2, PausedSound
    <3> HIDE DEF x
    <3>2. db' = x
      BY <1>1, <2>1 DEF x
    <3>3. Transacted
      BY <1>2, <3>1, <3>2, OneTransaction
    <3> QED
      BY <1>2, <3>1, <3>2, <3>3
  <2>2. CASE ~enabled
    BY <1>1, <1>2, <2>2, Untouched
  <2> QED
    BY <2>1, <2>2
<1>4. Sound(db') /\ \A i \in DOMAIN db.rows : i \in DOMAIN db'.rows
  BY <1>3 DEF Transacted, Grown
<1>5. TypeOK'
  <2>1. /\ db'.task \in [Tasks -> Task] /\ db'.gens \in [Keys -> Gen]
        /\ db'.rows \in Seq(Row) /\ db'.effects \subseteq Effect
    BY <1>4, SoundType
  <2>2. deferred' \subseteq [attempt : DOMAIN db'.rows, retry : BOOLEAN]
    BY <1>1, <1>4 DEF IInv, TypeOK
  <2>3. restarts' \in 0..MaxRestarts
    BY <1>1, TemporalBoundAssumption DEF IInv, TypeOK
  <2>4. cur' \in {0} \cup DOMAIN db'.rows
    BY <1>1, <1>4 DEF IInv, TypeOK
  <2> QED
    BY <1>1, <2>1, <2>2, <2>3, <2>4 DEF IInv, TypeOK
<1>6. Resting' /\ Owning' /\ Opening' /\ Halted'
  BY <1>1, <1>3 DEF Resting, Owning, Opening, Halted
<1>7. Unsettled'
  BY <1>1, <1>3 DEF IInv, Unsettled
<1>8. Remembered'
  BY <1>1, <1>4 DEF IInv, Remembered
<1> QED
  BY <1>3, <1>4, <1>5, <1>6, <1>7, <1>8 DEF IInv

(* A process that is gone keeps the database and nothing else.             *)
LEMMA GoneKeeps ==
  ASSUME IInv, Gone, UNCHANGED <<db, now, edits, faults>>, restarts' \in 0..MaxRestarts
  PROVE  IInv' /\ Transacted /\ db'.effects = db.effects
<1>1. /\ phase' = "down" /\ enabled' = FALSE
      /\ cur' = 0 /\ step' = "idle" /\ ctx' = {} /\ late' = {} /\ deferred' = {}
  BY DEF Gone
<1>2. Transacted
  BY Untouched DEF IInv
<1>3. TypeOK'
  <2>1. db' = db /\ now' = now /\ edits' = edits /\ faults' = faults
    OBVIOUS
  <2>2. ctx' \subseteq Context /\ Cardinality(ctx') <= 1 /\ late' \subseteq Context
    BY <1>1, FS_EmptySet
  <2> QED
    BY <1>1, <2>1, <2>2 DEF IInv, TypeOK
<1>4. Resting' /\ Owning' /\ Opening' /\ Halted' /\ Unsettled' /\ Remembered'
  BY <1>1 DEF Resting, Owning, Opening, Halted, Unsettled, Remembered
<1> QED
  BY <1>2, <1>3, <1>4 DEF IInv

(* The exit forgets the process and nothing durable.                       *)
LEMMA ExitKeeps ==
  ASSUME IInv, Exit
  PROVE  IInv' /\ Transacted /\ db'.effects = db.effects
<1>1. Gone /\ UNCHANGED <<db, now, edits, restarts, faults>>
  BY DEF Exit, boundVars
<1>2. restarts' \in 0..MaxRestarts
  BY <1>1 DEF IInv, TypeOK
<1> QED
  BY <1>1, <1>2, GoneKeeps

(* A crash forgets the process and nothing durable.                        *)
LEMMA CrashKeeps ==
  ASSUME IInv, Crash
  PROVE  IInv' /\ Transacted /\ db'.effects = db.effects
<1>1. Gone /\ UNCHANGED <<db, now, edits, faults>>
  BY DEF Crash
<1>2. restarts' \in 0..MaxRestarts
  BY TemporalBoundAssumption DEF Crash, IInv, TypeOK
<1> QED
  BY <1>1, <1>2, GoneKeeps

----------------------------------------------------------------------------
(***************************************************************************)
(* The initial states.                                                     *)
(***************************************************************************)

(* A database without a generation and without a row is sound.             *)
LEMMA FreshSound ==
  ASSUME NEW due \in [Tasks -> {0}]
  PROVE  LET d == Fresh(due) IN
         /\ Sound(d) /\ d \in Database
         /\ \A t \in Tasks : /\ d.task[t] = NewTask(0) /\ d.task[t] \in Task
                             /\ KeyOf(d, t) \in Keys /\ KeyOf(d, t).task = t
                             /\ KeyOf(d, t) = [task |-> t, epoch |-> 1, at |-> 0]
         /\ \A k \in Keys : d.gens[k] = NoGen
         /\ d.rows = <<>> /\ DOMAIN d.rows = {} /\ d.effects = {}
<1> DEFINE d == Fresh(due)
<1>0. 0 \in Times /\ Never \notin Times /\ MaxEpoch \in Nat /\ 1 \in 1..MaxEpoch /\ 0 \in 0..MaxEpoch
  BY TemporalAssumption DEF Times, Never
<1>1. NewTask(0) \in Task
  BY <1>0 DEF NewTask, Task
<1>2. \A t \in Tasks : due[t] = 0
  OBVIOUS
<1>3. /\ d.task = [t \in Tasks |-> NewTask(due[t])] /\ d.gens = [k \in Keys |-> NoGen]
      /\ d.rows = <<>> /\ d.effects = {}
      /\ d = [task |-> d.task, gens |-> d.gens, rows |-> d.rows, effects |-> d.effects]
  BY DEF Fresh
<1> HIDE DEF d
<1>4. \A t \in Tasks : d.task[t] = NewTask(0)
  BY <1>2, <1>3
<1>5. \A k \in Keys : d.gens[k] = NoGen
  BY <1>3
<1>6. DOMAIN d.rows = {} /\ d.rows \in Seq(Row)
  BY <1>3, EmptySeq
<1>7. d \in Database
  <2>1. NoGen \in Gen
    BY DEF NoGen, Gen
  <2>2. d.task \in [Tasks -> Task] /\ d.gens \in [Keys -> Gen]
    BY <1>1, <1>2, <1>3, <2>1
  <2> QED
    BY <1>3, <1>6, <2>2 DEF Database
<1>8. \A t \in Tasks : KeyOf(d, t) = [task |-> t, epoch |-> 1, at |-> 0]
  BY <1>4 DEF KeyOf, CheckAt, NewTask
<1>9. Sound(d)
  <2>1. \A k \in Keys : GenSound(d, k) /\ Current(d, k)
    BY <1>5, <1>6 DEF GenSound, Rowless, Current, NoGen
  <2>2. Receipted(d)
    BY <1>3, <1>6 DEF Receipted
  <2>3. Cardinality(Actives(d)) <= MaxOpen
    <3>1. Actives(d) = {}
      BY <1>5 DEF Actives, NoGen
    <3>2. Cardinality(Actives(d)) = 0
      BY <3>1, FS_EmptySet
    <3> QED
      BY <3>2, TemporalAssumption
  <2> QED
    BY <1>7, <2>1, <2>2, <2>3 DEF Sound
<1>10. \A t \in Tasks : KeyOf(d, t) \in Keys
  BY <1>0, <1>8 DEF Keys
<1>11. \A t \in Tasks : d.task[t] \in Task /\ KeyOf(d, t).task = t
  BY <1>1, <1>4, <1>8
<1>12. \A t \in Tasks : /\ d.task[t] = NewTask(0) /\ d.task[t] \in Task
                        /\ KeyOf(d, t) \in Keys /\ KeyOf(d, t).task = t
                        /\ KeyOf(d, t) = [task |-> t, epoch |-> 1, at |-> 0]
  BY <1>4, <1>8, <1>10, <1>11
<1> QED
  BY <1>3, <1>5, <1>6, <1>7, <1>9, <1>12 DEF d

(* So is one that has begun the check of a task which was closed since.    *)
LEMMA ClosedSound ==
  ASSUME NEW due \in [Tasks -> {0}], NEW t \in Tasks
  PROVE  Sound(ClosedBeforeRepair(Fresh(due), t))
<1> DEFINE d == Fresh(due)
           k == KeyOf(d, t)
           x == WithAttempt(d, k, 1)
           c == [open |-> FALSE, due |-> 0, epoch |-> 1, rev |-> 0,
                 reconciled |-> 0, next |-> Never, last |-> 0]
           task == [x.task EXCEPT ![t].open = FALSE]
           y == [task |-> task, gens |-> x.gens, rows |-> x.rows, effects |-> x.effects]
<1>1. /\ Sound(d) /\ d \in Database /\ d.task[t] = NewTask(0) /\ d.task[t] \in Task
      /\ k \in Keys /\ k = [task |-> t, epoch |-> 1, at |-> 0]
      /\ \A j \in Keys : d.gens[j] = NoGen
      /\ d.rows = <<>> /\ DOMAIN d.rows = {} /\ d.effects = {}
      /\ 1 \in 1..MaxTries
  BY FreshSound, TemporalAssumption
<1>2. ClosedBeforeRepair(d, t) = [x EXCEPT !.task[t].open = FALSE]
  BY DEF ClosedBeforeRepair
<1> HIDE DEF d, k
<1>3. Len(d.rows) + 1 = 1
  BY <1>1
<1>4. /\ x \in Database /\ x.task = d.task /\ x.effects = {}
      /\ x.gens[k] = [disp |-> "active", last |-> 1]
      /\ \A j \in Keys : j # k => x.gens[j] = NoGen
      /\ DOMAIN x.rows = {1}
      /\ x.rows[1] = NewRow(k, 1)
  BY <1>1, <1>3, AttemptFacts
<1> HIDE DEF x
<1>5. ClosedBeforeRepair(d, t) = y
  <2>1. x = [task |-> x.task, gens |-> x.gens, rows |-> x.rows, effects |-> x.effects]
    BY <1>4, DatabaseFacts
  <2>2. [x EXCEPT !.task[t].open = FALSE] = [x EXCEPT !.task = task]
    OBVIOUS
  <2> HIDE DEF task
  <2> QED
    BY <1>2, <2>1, <2>2
<1>6. c \in Task
  BY TemporalAssumption DEF Task, Times, Never
<1>7. y \in Database /\ y.task[t] = c /\ y.gens = x.gens /\ y.rows = x.rows /\ y.effects = {}
  <2>1. x.task \in [Tasks -> Task]
    BY <1>4, DatabaseFacts
  <2>2. task \in [Tasks -> Task] /\ task[t] = c
    <3>1. x.task[t] = NewTask(0) /\ NewTask(0) \in Task
      BY <1>1, <1>4
    <3>2. task[t] = [NewTask(0) EXCEPT !.open = FALSE]
      BY <2>1, <3>1
    <3>3. [NewTask(0) EXCEPT !.open = FALSE] = c
      <4> DEFINE n == NewTask(0)
                 v == [n EXCEPT !.open = FALSE]
      <4>1. n = [f \in TaskFields |-> n[f]]
        BY <3>1, TaskShape
      <4>2. /\ n.due = 0 /\ n.epoch = 1 /\ n.rev = 0 /\ n.reconciled = 0
            /\ n.next = Never /\ n.last = 0
        BY DEF NewTask
      <4> HIDE DEF n
      <4>3. /\ v = [f \in TaskFields |-> v[f]]
            /\ v.open = FALSE /\ v.due = n.due /\ v.epoch = n.epoch /\ v.rev = n.rev
            /\ v.reconciled = n.reconciled /\ v.next = n.next /\ v.last = n.last
        BY <4>1 DEF TaskFields
      <4> HIDE DEF v
      <4>4. v = [open |-> v.open, due |-> v.due, epoch |-> v.epoch, rev |-> v.rev,
                 reconciled |-> v.reconciled, next |-> v.next, last |-> v.last]
        BY <4>3, TaskShape
      <4>5. v = c
        BY <4>2, <4>3, <4>4
      <4> QED
        BY <4>5 DEF v, n
    <3>4. task[t] = c
      BY <3>2, <3>3
    <3>5. \A u \in Tasks : u # t => task[u] = x.task[u]
      BY <2>1
    <3>6. task = [u \in Tasks |-> task[u]]
      BY <2>1
    <3> HIDE DEF task
    <3> QED
      BY <1>6, <2>1, <3>4, <3>5, <3>6
  <2> HIDE DEF task, c
  <2> QED
    BY <1>4, <2>2, DatabaseFacts DEF Database
<1>8. CheckAt(y.task[t]) = 0 /\ y.task[t].epoch = 1
  BY <1>7 DEF CheckAt
<1> HIDE DEF y, c
<1>9. \A j \in Keys : j # k => GenSound(y, j) /\ Current(y, j)
  BY <1>4, <1>7 DEF GenSound, Rowless, Current, NoGen, NewRow
<1>10. GenSound(y, k)
  <2>1. y.gens[k].last = 1 /\ y.gens[k].disp = "active" /\ DOMAIN y.rows = {1}
        /\ y.rows[1].key = k /\ y.rows[1].tries = 1 /\ y.rows[1].status = "pending"
    BY <1>4, <1>7 DEF NewRow
  <2>2. FailedBefore(y, k) = {}
    BY <2>1 DEF FailedBefore
  <2>3. Cardinality(FailedBefore(y, k)) = 0
    BY <2>2, FS_EmptySet
  <2>4. Attempted(y, k)
    BY <2>1, <2>3 DEF Attempted, Fits
  <2> QED
    BY <2>1, <2>4 DEF GenSound
<1>11. Current(y, k)
  <2>1. y.gens[k].disp = "active" /\ k.task = t /\ k.epoch = 1 /\ k.at = 0
    BY <1>1, <1>4, <1>7
  <2> QED
    BY <1>8, <2>1 DEF Current
<1>12. Receipted(y)
  BY <1>4, <1>7 DEF Receipted, NewRow
<1>13. Cardinality(Actives(y)) <= MaxOpen
  <2>1. Actives(y) = {k}
    BY <1>1, <1>4, <1>7 DEF Actives, NoGen
  <2>2. Cardinality(Actives(y)) = 1
    BY <2>1, FS_Singleton
  <2> QED
    BY <2>2, TemporalAssumption
<1>14. Sound(y)
  BY <1>7, <1>9, <1>10, <1>11, <1>12, <1>13 DEF Sound
<1> QED
  BY <1>5, <1>14 DEF d

(* The initial states satisfy the inductive invariant.                     *)
LEMMA InitHolds ==
  ASSUME Init
  PROVE  IInv
<1>1. Sound(db)
  BY FreshSound, ClosedSound DEF Init
<1>2. /\ now = 0 /\ phase = "down" /\ enabled = FALSE
      /\ cur = 0 /\ step = "idle" /\ ctx = {} /\ late = {} /\ deferred = {}
      /\ edits = 0 /\ restarts = 0 /\ faults = 0
  BY DEF Init
<1>3. TypeOK
  <2>1. ctx \subseteq Context /\ Cardinality(ctx) <= 1 /\ late \subseteq Context
    BY <1>2, FS_EmptySet
  <2>2. /\ db.task \in [Tasks -> Task] /\ db.gens \in [Keys -> Gen]
        /\ db.rows \in Seq(Row) /\ db.effects \subseteq Effect
    BY <1>1, SoundType
  <2>3. 0 \in Times
    BY TemporalAssumption DEF Times
  <2>4. /\ edits \in 0..MaxEdits /\ restarts \in 0..MaxRestarts /\ faults \in 0..MaxFaults
        /\ deferred \subseteq [attempt : DOMAIN db.rows, retry : BOOLEAN]
    BY <1>2, TemporalBoundAssumption
  <2> QED
    BY <1>2, <2>1, <2>2, <2>3, <2>4 DEF TypeOK
<1>4. Resting /\ Owning /\ Opening /\ Halted /\ Unsettled /\ Remembered
  BY <1>2 DEF Resting, Owning, Opening, Halted, Unsettled, Remembered
<1> QED
  BY <1>1, <1>3, <1>4 DEF IInv

----------------------------------------------------------------------------
(***************************************************************************)
(* The steps together.                                                     *)
(***************************************************************************)

(* The effects of a step: from open attempts only, and each on the task as *)
(* the context of a run has it.                                            *)
Effective ==
  /\ OpenRows(db) = {} => db'.effects = db.effects
  /\ \A e \in db'.effects \ db.effects :
       [attempt |-> e.attempt, rev |-> db.task[db.rows[e.attempt].key.task].rev] \in ctx \cup late

(* Every step keeps the invariant, and is a transaction or none.           *)
LEMMA StepKeeps ==
  ASSUME IInv, [Next]_vars
  PROVE  IInv' /\ Transacted /\ Effective
<1>0. db'.effects = db.effects => Effective
  BY DEF Effective
<1>1. ASSUME NEW t \in Tasks, NEW open \in BOOLEAN, NEW touched \in BOOLEAN,
             NEW due \in Times \cup {Never}, OwnerEdits(t, open, due, touched)
      PROVE  IInv' /\ Transacted /\ db'.effects = db.effects
  BY <1>1, OwnerEditsKeeps
<1>2. ASSUME NEW c \in ctx \cup late, Reconcile(c)
      PROVE  IInv' /\ Transacted /\ Effective
  <2>1. /\ IInv' /\ Transacted
        /\ OpenRows(db) # {}
        /\ \A e \in db'.effects \ db.effects :
             [attempt |-> e.attempt, rev |-> db.task[db.rows[e.attempt].key.task].rev] = c
    BY <1>2, ReconcileKeeps
  <2> QED
    BY <1>2, <2>1 DEF Effective
<1>3. CASE Clock \/ Scan \/ Recheck \/ Claim \/ Prep
  BY <1>0, <1>3, ClockKeeps, ScanKeeps, RecheckKeeps, ClaimKeeps, PrepDoneKeeps, PrepFailsKeeps
     DEF Prep
<1>4. CASE RunEnds
  BY <1>0, <1>4, RunReturnsKeeps, RunThrowsKeeps, RunThrowsWhileStoppingKeeps DEF RunEnds
<1>5. CASE Start \/ RecoverStale \/ BootDone
  BY <1>0, <1>5, StartKeeps, RecoverStaleKeeps, BootDoneKeeps
<1>6. CASE Stop \/ Exit \/ Crash
  BY <1>0, <1>6, StopKeeps, ExitKeeps, CrashKeeps
<1>7. CASE UNCHANGED vars
  <2>1. UNCHANGED <<db, now, phase, enabled, runVars, deferred, edits, restarts, faults>>
    BY <1>7 DEF vars, boundVars
  <2>2. Sound(db) /\ now \in Times /\ edits \in 0..MaxEdits
    BY DEF IInv, TypeOK
  <2>3. Transacted
    BY <2>1, <2>2, Untouched
  <2>4. IInv'
    BY <2>1, <2>2, <2>3, ProcessKept
  <2> QED
    BY <1>0, <2>1, <2>3, <2>4
<1> QED
  BY <1>0, <1>1, <1>2, <1>3, <1>4, <1>5, <1>6, <1>7 DEF Next

(* The invariant holds throughout.                                         *)
THEOREM Invariance == Spec => []IInv
<1>1. Init => IInv
  BY InitHolds
<1>2. IInv /\ [Next]_vars => IInv'
  BY StepKeeps
<1> QED
  BY <1>1, <1>2, PTL DEF Spec

----------------------------------------------------------------------------
(***************************************************************************)
(* What the invariant says of the properties.                              *)
(***************************************************************************)

(* The variables keep to their types, in particular attempts to their      *)
(* budget of tries, epochs to their range and contexts to one at a time.   *)
THEOREM TypeCorrect == Spec => []TypeOK
<1>1. IInv => TypeOK
  BY DEF IInv
<1> QED
  BY <1>1, Invariance, PTL

(* The invariant implies that open attempts belong to active generations.  *)
LEMMA OpenAttemptFacts ==
  ASSUME IInv
  PROVE  OneOpenAttempt
<1>1. Sound(db) /\ GensSound(db) /\ db \in Database
  BY SoundFacts DEF IInv
<1>2. \A i \in OpenRows(db) : db.gens[db.rows[i].key] = [disp |-> "active", last |-> i]
  BY <1>1, OpenFacts DEF OpenRows
<1> QED
  BY <1>2 DEF OneOpenAttempt, IInv, Opening, AllOpen

(* runOne's attempts: an open attempt is the one its generation points at, *)
(* whatever edits, retries, supersession, pauses and resumes have done;    *)
(* and in a booted daemon every active generation has one.                 *)
THEOREM OwnershipSafety == Spec => []OneOpenAttempt
<1>1. IInv => OneOpenAttempt
  BY OpenAttemptFacts
<1> QED
  BY <1>1, Invariance, PTL

(* The invariant implies that the rows to be arbitrated can be inspected.  *)
LEMMA InspectionFacts ==
  ASSUME IInv
  PROVE  InspectionAnswers
<1>1. ASSUME NEW i \in ToArbitrate
      PROVE  Arbitrable(db, i)
  <2>1. Sound(db)
    BY DEF IInv
  <2>2. CASE i = cur /\ cur # 0
    BY <2>2 DEF IInv, Unsettled
  <2>3. CASE \E x \in deferred : i = x.attempt
    BY <2>3 DEF IInv, Unsettled
  <2>4. CASE i \in Stale
    BY <2>1, <2>4, ClaimFacts DEF Stale
  <2> QED
    BY <2>2, <2>3, <2>4 DEF ToArbitrate
<1>2. Sound(db)
  BY DEF IInv
<1> QED
  BY <1>1, <1>2, CoherentFacts DEF InspectionAnswers

(* inspectTemporalAttempt finds nothing to throw about in any attempt that *)
(* is still to be arbitrated, so that none is deferred for good.           *)
THEOREM InspectionSafety == Spec => []InspectionAnswers
<1>1. IInv => InspectionAnswers
  BY InspectionFacts
<1> QED
  BY <1>1, Invariance, PTL

(* The invariant implies that tries count failures.                        *)
LEMMA CountFacts ==
  ASSUME IInv
  PROVE  FailuresAreCounted
<1>1. ASSUME NEW k \in Keys, db.gens[k].disp # "none"
      PROVE  LET last   == db.gens[k].last
                 failed == {i \in AttemptsOf(k) : db.rows[i].status = "failed"} IN
             /\ \A i \in AttemptsOf(k) : i <= last
             /\ Cardinality(failed \ {last}) = db.rows[last].tries - 1
             /\ db.gens[k].disp = "exhausted" => last \in failed
  <2> DEFINE last   == db.gens[k].last
             failed == {i \in AttemptsOf(k) : db.rows[i].status = "failed"}
  <2>1. db \in Database /\ Attempted(db, k)
    BY <1>1, SoundFacts DEF IInv, GensSound, GenSound
  <2>2. /\ last \in DOMAIN db.rows /\ db.rows[last].key = k /\ last \in Nat
        /\ Fits(db.gens[k].disp, db.rows[last].status)
        /\ \A i \in DOMAIN db.rows : db.rows[i].key = k /\ i # last => i < last
        /\ Cardinality(FailedBefore(db, k)) = db.rows[last].tries - 1
    BY <2>1, RowFacts DEF Attempted
  <2>3. failed \ {last} = FailedBefore(db, k)
    BY DEF AttemptsOf, FailedBefore
  <2>4. \A i \in AttemptsOf(k) : i <= last
    BY <2>1, <2>2, RowFacts DEF AttemptsOf
  <2>5. db.gens[k].disp = "exhausted" => last \in failed
    BY <2>2 DEF AttemptsOf, Fits
  <2> QED
    BY <2>2, <2>3, <2>4, <2>5
<1> QED
  BY <1>1 DEF FailuresAreCounted

(* Failed attempts, and nothing else, spend the tries of a generation.     *)
THEOREM CountSafety == Spec => []FailuresAreCounted
<1>1. IInv => FailuresAreCounted
  BY CountFacts
<1> QED
  BY <1>1, Invariance, PTL

(* The invariant implies the cap on open attempts.                         *)
LEMMA BoundFacts ==
  ASSUME IInv
  PROVE  OpenIsBounded
<1>1. Sound(db) /\ db \in Database /\ Currents(db)
  BY SoundFacts DEF IInv
<1>2. Cardinality(OpenRows(db)) <= MaxOpen
  BY <1>1, OpenBound
<1>3. ASSUME NEW t \in Tasks
      PROVE  Cardinality(ActivesOf(db, t)) <= 1
  <2>1. OnePerTask(Actives(db))
    BY <1>1, ActivesPerTask
  <2>2. CASE ActivesOf(db, t) = {}
    <3>1. Cardinality(ActivesOf(db, t)) = 0
      BY <2>2, FS_EmptySet
    <3> QED
      BY <3>1
  <2>3. ASSUME NEW k \in ActivesOf(db, t)
        PROVE  Cardinality(ActivesOf(db, t)) <= 1
    <3>1. ActivesOf(db, t) = {k}
      BY <2>1 DEF ActivesOf, OnePerTask
    <3>2. Cardinality(ActivesOf(db, t)) = 1
      BY <3>1, FS_Singleton
    <3> QED
      BY <3>2
  <2> QED
    BY <2>2, <2>3
<1> QED
  BY <1>2, <1>3 DEF OpenIsBounded

(* No more than MaxOpen attempts are open, although resumes and retries    *)
(* insert without looking at the cap, and no task has two active checks.   *)
THEOREM BoundSafety == Spec => []OpenIsBounded
<1>1. IInv => OpenIsBounded
  BY BoundFacts
<1> QED
  BY <1>1, Invariance, PTL

(* The invariant implies that the next boot finds every paused attempt.    *)
LEMMA BootFindsAll ==
  ASSUME IInv
  PROVE  BootCanResume
<1>1. Sound(db)
  BY DEF IInv
<1> DEFINE y == Repaired(db)
<1>2. Sound(y)
  BY <1>1, RepairedFacts
<1> HIDE DEF y
<1>3. CanResume(y)
  BY <1>2, ToResumeFacts
<1> QED
  BY <1>3 DEF BootCanResume, y

(* resumePausedTemporalWork never throws at a boot, whatever process died  *)
(* before it and at whichever step.                                        *)
THEOREM BootSafety == Spec => []BootCanResume
<1>1. IInv => BootCanResume
  BY BootFindsAll
<1> QED
  BY <1>1, Invariance, PTL

(* Once the daemon stops, neither the run that drains nor a late call of   *)
(* an earlier one has an effect.                                           *)
THEOREM StopFences == Spec => StopFencesEffects
<1>1. IInv /\ [Next]_vars => (phase = "stopping" /\ enabled => db'.effects = db.effects)
  <2> SUFFICES ASSUME IInv, [Next]_vars, phase = "stopping"
               PROVE  db'.effects = db.effects
    OBVIOUS
  <2>1. OpenRows(db) = {}
    BY DEF IInv, Halted
  <2> QED
    BY <2>1, StepKeeps DEF Effective
<1> QED
  BY <1>1, Invariance, PTL DEF Spec, StopFencesEffects

(* An effect is built on the task as the run that makes it was given it:   *)
(* no edit between the load of the context and the commit is lost.         *)
THEOREM EditsSurvive == Spec => NoLostEdit
<1>1. IInv /\ [Next]_vars =>
        \A e \in db'.effects \ db.effects :
          [attempt |-> e.attempt, rev |-> db.task[db.rows[e.attempt].key.task].rev]
            \in ctx \cup late
  BY StepKeeps DEF Effective
<1> QED
  BY <1>1, Invariance, PTL DEF Spec, NoLostEdit

----------------------------------------------------------------------------
(***************************************************************************)
(* The refinement of TemporalPromise.                                      *)
(***************************************************************************)
Checked == [k \in Keys |-> CheckOf(k)]

(* A check is in the phase of its generation, with the tries of its last   *)
(* attempt.                                                                *)
LEMMA CheckFacts ==
  ASSUME NEW k \in Keys
  PROVE  /\ CheckOf(k).phase = db.gens[k].disp
         /\ CheckOf(k).phase = "none" => CheckOf(k) = [phase |-> "none", tries |-> 0]
         /\ CheckOf(k).phase # "none" =>
              CheckOf(k) = [phase |-> db.gens[k].disp, tries |-> LastTries(db, k)]
  BY DEF CheckOf, LastTries

(* The initial states map to initial states of the promise.                *)
LEMMA PromiseInit ==
  ASSUME Init
  PROVE  Promise!Init
<1>1. ASSUME NEW k \in Keys
      PROVE  CheckOf(k).phase \in {"none", "active"} /\ CheckOf(k).tries <= 1
  <2>1. CASE \E due \in [Tasks -> {0}] : db = Fresh(due)
    <3>1. db.gens[k] = NoGen
      BY <2>1, FreshSound
    <3> QED
      BY <3>1 DEF CheckOf, NoGen
  <2>2. ASSUME NEW due \in [Tasks -> {0}], NEW t \in Tasks,
               db = ClosedBeforeRepair(Fresh(due), t)
        PROVE  CheckOf(k).phase \in {"none", "active"} /\ CheckOf(k).tries <= 1
    <3> DEFINE d == Fresh(due)
               c == KeyOf(d, t)
               x == WithAttempt(d, c, 1)
    <3>1. d \in Database /\ c \in Keys /\ 1 \in 1..MaxTries /\ Len(d.rows) + 1 = 1
          /\ \A j \in Keys : d.gens[j] = NoGen
      BY FreshSound, TemporalAssumption
    <3>2. db = [x EXCEPT !.task[t].open = FALSE]
      BY <2>2 DEF ClosedBeforeRepair
    <3> HIDE DEF d, c
    <3>3. /\ x \in Database /\ x.gens[c] = [disp |-> "active", last |-> 1]
          /\ \A j \in Keys : j # c => x.gens[j] = NoGen
          /\ x.rows[1] = NewRow(c, 1)
      BY <3>1, AttemptFacts
    <3> HIDE DEF x
    <3>4. db.gens = x.gens /\ db.rows = x.rows
      BY <3>2, <3>3, DatabaseFacts
    <3>5. CASE k = c
      BY <3>3, <3>4, <3>5 DEF CheckOf, NewRow
    <3>6. CASE k # c
      BY <3>3, <3>4, <3>6 DEF CheckOf, NoGen
    <3> QED
      BY <3>5, <3>6
  <2> QED
    BY <2>1, <2>2 DEF Init
<1> QED
  BY <1>1 DEF Promise!Init

(* Each check of a step stays, begins, is tried again or ends.             *)
LEMMA CheckSteps ==
  ASSUME Transacted, NEW k \in Keys
  PROVE  \/ Checked'[k] = Checked[k]
         \/ Promise!Begins(k, Checked'[k])
         \/ Promise!TriesAgain(k, Checked'[k])
         \/ Promise!EndsOnce(k, Checked'[k])
<1> DEFINE was == Checked[k]
           is  == Checked'[k]
<1>1. /\ \A j \in Keys : Checked[j] = CheckOf(j)
      /\ is = IF db'.gens[k].disp = "none"
              THEN [phase |-> "none", tries |-> 0]
              ELSE [phase |-> db'.gens[k].disp, tries |-> db'.rows[db'.gens[k].last].tries]
  BY DEF Checked, CheckOf
<1> HIDE DEF is
<1>2. /\ \A j \in Keys : Checked[j].phase = db.gens[j].disp
      /\ was.phase = "none" => was = [phase |-> "none", tries |-> 0]
      /\ was.phase # "none" => was = [phase |-> db.gens[k].disp, tries |-> LastTries(db, k)]
  BY <1>1, CheckFacts
<1>3. /\ is.phase = db'.gens[k].disp
      /\ is.phase = "none" => is = [phase |-> "none", tries |-> 0]
      /\ is.phase # "none" => is = [phase |-> db'.gens[k].disp, tries |-> LastTries(db', k)]
  BY <1>1 DEF LastTries
<1>4. Promised(db, db', k)
  BY DEF Transacted
<1> HIDE DEF was
<1>5. CASE SameCheck(db, db', k)
  <2>1. is = was
    BY <1>2, <1>3, <1>5 DEF SameCheck, was
  <2> QED
    BY <2>1 DEF was, is
<1>6. CASE /\ db.gens[k].disp = "none" /\ db'.gens[k].disp = "active"
           /\ LastTries(db', k) = 1 /\ Waits(db, k)
  <2>1. was.phase = "none" /\ is = [phase |-> "active", tries |-> 1]
    BY <1>2, <1>3, <1>6 DEF was
  <2>2. \A b \in Promise!Others(k) : Checked[b].phase \in {"none", "deferred"}
    BY <1>2, <1>6 DEF Promise!Others, OneOccurrence, Waits
  <2>3. Promise!Begins(k, is)
    BY <2>1, <2>2 DEF Promise!Begins, Checked, was
  <2> QED
    BY <2>3 DEF is
<1>7. CASE /\ db.gens[k].disp = "active" /\ db'.gens[k].disp = "active"
           /\ LastTries(db, k) < MaxTries /\ LastTries(db', k) = LastTries(db, k) + 1
  <2>1. /\ was.phase = "active" /\ was.tries = LastTries(db, k)
        /\ is = [phase |-> "active", tries |-> LastTries(db, k) + 1]
    BY <1>2, <1>3, <1>7 DEF was
  <2>2. Promise!TriesAgain(k, is)
    BY <1>7, <2>1 DEF Promise!TriesAgain, Checked, was
  <2> QED
    BY <2>2 DEF is
<1>8. CASE /\ db.gens[k].disp = "active" /\ db'.gens[k].disp \in Ends
           /\ LastTries(db', k) = LastTries(db, k)
  <2>1. /\ was.phase = "active" /\ was.tries = LastTries(db, k)
        /\ is.phase \in Ends /\ is.tries = LastTries(db, k)
    BY <1>2, <1>3, <1>8 DEF was, Ends
  <2>2. Promise!EndsOnce(k, is)
    BY <2>1 DEF Promise!EndsOnce, Promise!Answers, Ends, Checked, was
  <2> QED
    BY <2>2 DEF is
<1> QED
  BY <1>4, <1>5, <1>6, <1>7, <1>8 DEF Promised

(* Scans, edits, effects, failures, pauses, resumes and crashes implement  *)
(* TemporalPromise: a check begins once, when no other of its occurrence   *)
(* stands in its way, is retried within its budget and ends once.          *)
THEOREM Refinement == Spec => KeepsPromise
<1>1. Init => Promise!Init
  BY PromiseInit
<1>2. IInv /\ [Next]_vars => [Promise!Next]_Checked
  <2> SUFFICES ASSUME IInv, [Next]_vars, Checked' # Checked
               PROVE  Promise!Next
    OBVIOUS
  <2>1. Transacted
    BY StepKeeps
  <2>2. DOMAIN Checked' = Keys /\ DOMAIN Checked = Keys
    BY DEF Checked
  <2>3. \A k \in Keys : \/ Checked'[k] = Checked[k]
                       \/ Promise!Begins(k, Checked'[k])
                       \/ Promise!TriesAgain(k, Checked'[k])
                       \/ Promise!EndsOnce(k, Checked'[k])
    BY <2>1, CheckSteps
  <2> QED
    BY <2>2, <2>3 DEF Promise!Next, Checked
<1> QED
  BY <1>1, <1>2, Invariance, PTL DEF Spec, KeepsPromise, Promise!Spec, Checked
=============================================================================
