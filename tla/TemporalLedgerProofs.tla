------------------------ MODULE TemporalLedgerProofs ------------------------
(***************************************************************************)
(* What the transactions of TemporalLedger do to a database that is sound. *)
(*                                                                         *)
(* Soundness is stated per generation: which rows are its attempts, which  *)
(* of them it points at, what status that one has, and how the task stands *)
(* to it.  A transaction changes a generation in one of four ways          *)
(* (KeyStep): it keeps it, begins it, moves its last attempt, or gives it  *)
(* another attempt.  Each way keeps a generation sound, and each           *)
(* transaction is shown to do nothing else to any generation.              *)
(***************************************************************************)
EXTENDS TemporalLedger, FiniteSetTheorems, SequenceTheorems, TLAPS

Database == [task : [Tasks -> Task], gens : [Keys -> Gen],
             rows : Seq(Row), effects : SUBSET Effect]

----------------------------------------------------------------------------
(* The status of the last attempt of a generation.                         *)
Fits(disp, status) ==
  \/ disp = "active" /\ status \in {"pending", "in_progress", "cancelled"}
  \/ disp = "superseded" /\ status = "cancelled"
  \/ disp = "exhausted" /\ status = "failed"
  \/ disp \in {"resolved", "final_no_update", "deferred"} /\ status = "done"

FailedBefore(d, k) ==
  {i \in DOMAIN d.rows : /\ d.rows[i].key = k /\ d.rows[i].status = "failed"
                         /\ i # d.gens[k].last}

(* The attempts of a generation: the last one is the one it points at, the *)
(* ones before are over, and the failed ones before count its tries.       *)
Rowless(d, k) == \A i \in DOMAIN d.rows : d.rows[i].key # k

Attempted(d, k) ==
  LET last == d.gens[k].last IN
  /\ last \in DOMAIN d.rows /\ d.rows[last].key = k
  /\ Fits(d.gens[k].disp, d.rows[last].status)
  /\ \A i \in DOMAIN d.rows : d.rows[i].key = k /\ i # last =>
       i < last /\ d.rows[i].status \in {"failed", "cancelled"}
  /\ Cardinality(FailedBefore(d, k)) = d.rows[last].tries - 1

GenSound(d, k) ==
  IF d.gens[k].disp = "none" THEN Rowless(d, k) ELSE Attempted(d, k)

(* How the task stands to a generation.  One of the task's present epoch   *)
(* that has begun keeps the next check of that epoch from beginning, until *)
(* it is deferred.                                                         *)
Current(d, k) ==
  LET tk   == d.task[k.task]
      disp == d.gens[k].disp IN
  disp # "none" =>
    /\ k.epoch <= tk.epoch
    /\ disp = "active" => k.epoch = tk.epoch
    /\ k.epoch = tk.epoch =>
         /\ disp \in {"active", "exhausted"} => k.at = CheckAt(tk)
         /\ disp \in {"resolved", "final_no_update"} => tk.reconciled = tk.epoch
         /\ disp = "superseded" => ~tk.open

(* A receipt is of the last attempt of a generation it has ended.          *)
Receipted(d) ==
  /\ \A e \in d.effects :
       /\ e.attempt \in DOMAIN d.rows
       /\ d.gens[d.rows[e.attempt].key] = [disp |-> e.outcome, last |-> e.attempt]
       /\ MarkersAgree(d, e.attempt, e)
  /\ \A i \in DOMAIN d.rows : d.rows[i].status = "done" => ReceiptsOf(d, i) # {}

Sound(d) ==
  /\ d \in Database
  /\ \A k \in Keys : GenSound(d, k) /\ Current(d, k)
  /\ Receipted(d)
  /\ Cardinality(Actives(d)) <= MaxOpen

----------------------------------------------------------------------------
(***************************************************************************)
(* The order candidates are taken in.                                      *)
(***************************************************************************)
OnePerTask(K) == \A j, k \in K : j.task = k.task => j = k

(* A key is a record of numbers.                                           *)
LEMMA KeyFacts ==
  ASSUME NEW k \in Keys
  PROVE  /\ k.task \in Tasks /\ k.task \in Nat
         /\ k.epoch \in 1..MaxEpoch /\ k.epoch \in Nat
         /\ k.at \in Times /\ k.at \in Nat
         /\ k = [task |-> k.task, epoch |-> k.epoch, at |-> k.at]
<1>1. k.task \in Tasks /\ k.epoch \in 1..MaxEpoch /\ k.at \in 0..MaxTime
  BY DEF Keys, Times
<1>2. k = [task |-> k.task, epoch |-> k.epoch, at |-> k.at]
  BY DEF Keys
<1>3. MaxEpoch \in Nat /\ MaxTime \in Nat /\ Tasks \subseteq Nat
  BY TemporalAssumption
<1>4. k.task \in Nat
  BY <1>1, <1>3
<1>5. k.epoch \in Nat
  BY <1>1, <1>3
<1>6. k.at \in Nat
  BY <1>1, <1>3
<1> QED
  BY <1>1, <1>2, <1>4, <1>5, <1>6 DEF Times

(* A set of keys of distinct tasks is finite.                              *)
LEMMA KeysFinite ==
  ASSUME NEW K, K \subseteq Keys, OnePerTask(K)
  PROVE  IsFiniteSet(K)
<1> DEFINE f == [k \in K |-> k.task]
<1>1. f \in [K -> Tasks]
  BY KeyFacts
<1>2. IsInjective(f)
  BY DEF OnePerTask, IsInjective
<1>3. f \in Injection(K, Tasks)
  BY <1>1, <1>2 DEF Injection
<1> QED
  BY <1>3, FS_Injection, TemporalAssumption

(* Sooner is a strict order, total on the keys of distinct tasks.          *)
LEMMA SoonerOrders ==
  /\ \A i, j, k \in Keys : Sooner(i, j) /\ Sooner(j, k) => Sooner(i, k)
  /\ \A k \in Keys : ~Sooner(k, k)
  /\ \A j, k \in Keys : j.task # k.task => Sooner(j, k) \/ Sooner(k, j)
  BY KeyFacts DEF Sooner

(* A key has a place among finitely many, and a sooner one a lower place.  *)
LEMMA PlaceFacts ==
  ASSUME NEW K, K \subseteq Keys, IsFiniteSet(K)
  PROVE  /\ \A k \in K : Place(k, K) \in 1..Cardinality(K)
         /\ \A j, k \in K : Sooner(j, k) => Place(j, K) < Place(k, K)
<1> DEFINE Below(k) == {j \in K : Sooner(j, k)}
<1>0. Cardinality(K) \in Nat
  BY FS_CardinalityType
<1>1. ASSUME NEW k \in K
      PROVE  /\ IsFiniteSet(Below(k)) /\ Cardinality(Below(k)) \in Nat
             /\ Cardinality(Below(k)) < Cardinality(K)
  <2>1. Below(k) \in SUBSET K /\ k \notin Below(k)
    BY SoonerOrders
  <2> HIDE DEF Below
  <2>2. /\ IsFiniteSet(Below(k)) /\ Cardinality(Below(k)) <= Cardinality(K)
        /\ Cardinality(K) = Cardinality(Below(k)) => K = Below(k)
    BY <2>1, FS_Subset
  <2>3. Cardinality(Below(k)) \in Nat
    BY <2>2, FS_CardinalityType
  <2>4. K # Below(k)
    BY <2>1
  <2> QED
    BY <2>2, <2>3, <2>4, <1>0
<1>2. ASSUME NEW j \in K, NEW k \in K, Sooner(j, k)
      PROVE  Cardinality(Below(j)) < Cardinality(Below(k))
  <2>1. Below(j) \in SUBSET Below(k) /\ j \in Below(k) /\ j \notin Below(j)
    BY <1>2, SoonerOrders
  <2>2. /\ IsFiniteSet(Below(k)) /\ Cardinality(Below(k)) \in Nat
        /\ Cardinality(Below(j)) \in Nat
    BY <1>1
  <2> HIDE DEF Below
  <2>3. /\ Cardinality(Below(j)) <= Cardinality(Below(k))
        /\ Cardinality(Below(k)) = Cardinality(Below(j)) => Below(k) = Below(j)
    BY <2>1, <2>2, FS_Subset
  <2> QED
    BY <2>1, <2>2, <2>3
<1>3. \A k \in K : Place(k, K) = Cardinality(Below(k)) + 1
  BY DEF Place
<1> HIDE DEF Below
<1>4. \A k \in K : Place(k, K) \in 1..Cardinality(K)
  BY <1>0, <1>1, <1>3
<1>5. \A j, k \in K : Sooner(j, k) => Place(j, K) < Place(k, K)
  BY <1>1, <1>2, <1>3
<1> QED
  BY <1>4, <1>5

(* Keys of distinct tasks have distinct places.                            *)
LEMMA PlaceInjective ==
  ASSUME NEW K, K \subseteq Keys, OnePerTask(K),
         NEW j \in K, NEW k \in K, Place(j, K) = Place(k, K)
  PROVE  j = k
<1>1. IsFiniteSet(K)
  BY KeysFinite
<1>2. /\ Place(j, K) \in Nat /\ Place(k, K) \in Nat
      /\ Sooner(j, k) => Place(j, K) < Place(k, K)
      /\ Sooner(k, j) => Place(k, K) < Place(j, K)
  <2>1. Cardinality(K) \in Nat
    BY <1>1, FS_CardinalityType
  <2> QED
    BY <2>1, <1>1, PlaceFacts
<1>3. ~Sooner(j, k) /\ ~Sooner(k, j)
  BY <1>2
<1>4. j.task = k.task
  BY <1>3, SoonerOrders
<1> QED
  BY <1>4 DEF OnePerTask

(* Every place is that of one of the keys.                                 *)
LEMMA PlaceOnto ==
  ASSUME NEW K, K \subseteq Keys, OnePerTask(K), NEW i \in 1..Cardinality(K)
  PROVE  \E k \in K : Place(k, K) = i
<1> DEFINE f == [k \in K |-> Place(k, K)]
           N == 1..Cardinality(K)
<1>1. IsFiniteSet(K) /\ Cardinality(K) \in Nat
  BY KeysFinite, FS_CardinalityType
<1>2. f \in [K -> N]
  BY <1>1, PlaceFacts
<1>3. IsInjective(f)
  BY PlaceInjective DEF IsInjective
<1>4. f \in Injection(K, N)
  BY <1>2, <1>3 DEF Injection
<1>5. IsFiniteSet(N) /\ Cardinality(N) = Cardinality(K)
  BY <1>1, FS_Interval
<1> HIDE DEF f, N
<1>6. f \in Surjection(K, N)
  BY <1>4, <1>5, FS_Injection
<1> USE DEF f, N
<1>7. \E k \in K : f[k] = i
  BY <1>6 DEF Surjection
<1> QED
  BY <1>7

(* No more than n keys are taken as the first n.                           *)
LEMMA FirstBounded ==
  ASSUME NEW K, K \subseteq Keys, OnePerTask(K), NEW n \in Nat
  PROVE  /\ First(n, K) \subseteq K
         /\ IsFiniteSet(First(n, K))
         /\ Cardinality(First(n, K)) <= n
<1> DEFINE F == First(n, K)
           f == [k \in F |-> Place(k, K)]
<1>1. IsFiniteSet(K) /\ Cardinality(K) \in Nat
  BY KeysFinite, FS_CardinalityType
<1>2. F \subseteq K
  BY DEF First
<1>3. \A k \in F : Place(k, K) \in Nat /\ 1 <= Place(k, K) /\ Place(k, K) <= n
  BY <1>1, PlaceFacts DEF First
<1>4. f \in [F -> 1..n]
  BY <1>3
<1>5. IsInjective(f)
  BY <1>2, PlaceInjective DEF IsInjective
<1>6. f \in Injection(F, 1..n)
  BY <1>4, <1>5 DEF Injection
<1>7. IsFiniteSet(1..n) /\ Cardinality(1..n) = n
  BY FS_Interval
<1> HIDE DEF F, f
<1>8. Cardinality(F) <= n
  BY <1>6, <1>7, FS_Injection
<1>9. IsFiniteSet(F)
  BY <1>6, <1>7, FS_Injection
<1> QED
  BY <1>2, <1>8, <1>9 DEF F

----------------------------------------------------------------------------
(***************************************************************************)
(* The parts of a database.                                                *)
(***************************************************************************)
LEMMA DatabaseFacts ==
  ASSUME NEW d \in Database
  PROVE  /\ d.task \in [Tasks -> Task] /\ d.gens \in [Keys -> Gen]
         /\ d.rows \in Seq(Row) /\ d.effects \subseteq Effect
         /\ d = [task |-> d.task, gens |-> d.gens, rows |-> d.rows, effects |-> d.effects]
  BY DEF Database

(* The attempts of a database and the types of their fields.               *)
LEMMA RowFacts ==
  ASSUME NEW d \in Database
  PROVE  /\ Len(d.rows) \in Nat /\ DOMAIN d.rows = 1..Len(d.rows)
         /\ \A i \in DOMAIN d.rows :
              /\ i \in Nat /\ d.rows[i] \in Row /\ d.rows[i].key \in Keys
              /\ d.rows[i].tries \in 1..MaxTries /\ d.rows[i].tries \in Nat
              /\ d.rows[i].status \in Statuses
<1>1. d.rows \in Seq(Row)
  BY DatabaseFacts
<1>2. Len(d.rows) \in Nat /\ DOMAIN d.rows = 1..Len(d.rows)
  BY <1>1, LenProperties
<1>3. \A i \in DOMAIN d.rows : d.rows[i] \in Row
  BY <1>1, <1>2, ElementOfSeq
<1>4. MaxTries \in Nat
  BY TemporalAssumption
<1>5. \A i \in DOMAIN d.rows : d.rows[i].tries \in 1..MaxTries
  BY <1>3 DEF Row
<1>6. \A i \in DOMAIN d.rows : d.rows[i].tries \in Nat
  BY <1>4, <1>5
<1>7. \A i \in DOMAIN d.rows : d.rows[i].key \in Keys /\ d.rows[i].status \in Statuses
  BY <1>3 DEF Row
<1>8. \A i \in DOMAIN d.rows : i \in Nat
  BY <1>2
<1> QED
  BY <1>2, <1>3, <1>5, <1>6, <1>7, <1>8

(* The types of the fields of a generation.                                *)
LEMMA GenFacts ==
  ASSUME NEW d \in Database, NEW k \in Keys
  PROVE  /\ d.gens[k] \in Gen /\ d.gens[k].disp \in Ends \cup {"none", "active"}
         /\ d.gens[k].last \in Nat
         /\ d.gens[k] = [disp |-> d.gens[k].disp, last |-> d.gens[k].last]
  BY DatabaseFacts DEF Gen

(* The task of a key.                                                      *)
LEMMA TaskFacts ==
  ASSUME NEW d \in Database, NEW t \in Tasks
  PROVE  /\ d.task[t] \in Task /\ d.task[t].open \in BOOLEAN
         /\ d.task[t].due \in Times \cup {Never} /\ d.task[t].next \in Times \cup {Never}
         /\ d.task[t].epoch \in 1..MaxEpoch /\ d.task[t].reconciled \in 0..MaxEpoch
         /\ d.task[t].rev \in Nat /\ d.task[t].last \in Nat
         /\ d.task[t] = [open |-> d.task[t].open, due |-> d.task[t].due,
                         epoch |-> d.task[t].epoch, rev |-> d.task[t].rev,
                         reconciled |-> d.task[t].reconciled, next |-> d.task[t].next,
                         last |-> d.task[t].last]
<1>1. d.task[t] \in Task
  BY DatabaseFacts
<1> QED
  BY <1>1 DEF Task

(* An attempt of a generation keeps its failed ones in a finite set.       *)
LEMMA FailedFinite ==
  ASSUME NEW d \in Database, NEW k \in Keys
  PROVE  IsFiniteSet(FailedBefore(d, k)) /\ Cardinality(FailedBefore(d, k)) \in Nat
<1>1. FailedBefore(d, k) \in SUBSET (1..Len(d.rows)) /\ Len(d.rows) \in Nat
  BY RowFacts DEF FailedBefore
<1>2. IsFiniteSet(1..Len(d.rows))
  BY <1>1, FS_Interval
<1>3. IsFiniteSet(FailedBefore(d, k))
  BY <1>1, <1>2, FS_Subset
<1> QED
  BY <1>3, FS_CardinalityType

----------------------------------------------------------------------------
(***************************************************************************)
(* What a transaction does to a generation.                                *)
(***************************************************************************)
Grown(d, x) ==
  \A i \in DOMAIN d.rows :
    i \in DOMAIN x.rows /\ x.rows[i].key = d.rows[i].key /\ x.rows[i].tries = d.rows[i].tries

(* its rows but one keep their status                                      *)
KeptBut(d, x, k, j) ==
  \A i \in DOMAIN d.rows : d.rows[i].key = k /\ i # j => x.rows[i].status = d.rows[i].status

(* it gets no new row                                                      *)
NoneNew(d, x, k) == \A i \in DOMAIN x.rows : x.rows[i].key = k => i \in DOMAIN d.rows

(* row j is new, and no other of its rows                                  *)
OneNew(d, x, k, j) ==
  /\ j \in DOMAIN x.rows /\ x.rows[j].key = k /\ x.rows[j].status = "pending"
  /\ \A i \in DOMAIN d.rows : i < j
  /\ \A i \in DOMAIN x.rows : x.rows[i].key = k => i = j \/ i \in DOMAIN d.rows

Kept(d, x, k) ==
  x.gens[k] = d.gens[k] /\ KeptBut(d, x, k, 0) /\ NoneNew(d, x, k)

Moved(d, x, k, disp, status) ==
  LET last == d.gens[k].last IN
  /\ d.gens[k].disp = "active" /\ disp # "none" /\ Fits(disp, status)
  /\ x.gens[k] = [disp |-> disp, last |-> last]
  /\ x.rows[last].status = status
  /\ KeptBut(d, x, k, last) /\ NoneNew(d, x, k)

Begun(d, x, k) ==
  LET j == x.gens[k].last IN
  /\ d.gens[k].disp = "none" /\ x.gens[k].disp = "active"
  /\ OneNew(d, x, k, j) /\ x.rows[j].tries = 1

Renewed(d, x, k, status) ==
  LET last == d.gens[k].last
      j    == x.gens[k].last IN
  /\ d.gens[k].disp = "active" /\ x.gens[k].disp = "active"
  /\ x.rows[last].status = status /\ KeptBut(d, x, k, last)
  /\ OneNew(d, x, k, j)
  /\ \/ status = "cancelled" /\ x.rows[j].tries = d.rows[last].tries
     \/ status = "failed" /\ x.rows[j].tries = d.rows[last].tries + 1

KeyStep(d, x, k) ==
  \/ Kept(d, x, k)
  \/ \E disp \in Ends \cup {"active"}, status \in Statuses : Moved(d, x, k, disp, status)
  \/ Begun(d, x, k)
  \/ \E status \in {"cancelled", "failed"} : Renewed(d, x, k, status)

(* A generation that is kept stays sound.                                  *)
LEMMA KeptSound ==
  ASSUME NEW d \in Database, NEW x \in Database, NEW k \in Keys,
         Grown(d, x), GenSound(d, k), Kept(d, x, k)
  PROVE  GenSound(x, k)
<1>0. /\ \A i \in DOMAIN d.rows : i \in Nat /\ i # 0
      /\ x.gens[k] = d.gens[k]
  BY RowFacts DEF Kept
<1>1. \A i \in DOMAIN x.rows : x.rows[i].key = k =>
        /\ i \in DOMAIN d.rows /\ d.rows[i].key = k
        /\ x.rows[i].status = d.rows[i].status /\ x.rows[i].tries = d.rows[i].tries
  BY <1>0 DEF Kept, KeptBut, NoneNew, Grown
<1>2. \A i \in DOMAIN d.rows : d.rows[i].key = k =>
        /\ i \in DOMAIN x.rows /\ x.rows[i].key = k
        /\ x.rows[i].status = d.rows[i].status /\ x.rows[i].tries = d.rows[i].tries
  BY <1>0 DEF Kept, KeptBut, Grown
<1>3. FailedBefore(x, k) = FailedBefore(d, k)
  BY <1>0, <1>1, <1>2 DEF FailedBefore
<1>4. CASE d.gens[k].disp = "none"
  BY <1>0, <1>1, <1>4 DEF GenSound, Rowless
<1>5. CASE d.gens[k].disp # "none"
  <2>1. Attempted(d, k)
    BY <1>5 DEF GenSound
  <2>2. Attempted(x, k)
    BY <2>1, <1>0, <1>1, <1>2, <1>3 DEF Attempted
  <2> QED
    BY <2>2, <1>0, <1>5 DEF GenSound
<1> QED
  BY <1>4, <1>5

(* One whose last attempt has moved stays sound.                           *)
LEMMA MovedSound ==
  ASSUME NEW d \in Database, NEW x \in Database, NEW k \in Keys, NEW disp, NEW status,
         Grown(d, x), GenSound(d, k), Moved(d, x, k, disp, status)
  PROVE  GenSound(x, k)
<1> DEFINE last == d.gens[k].last
<1>0. /\ d.gens[k].disp = "active" /\ disp # "none" /\ Fits(disp, status)
      /\ x.gens[k].disp = disp /\ x.gens[k].last = last
      /\ x.rows[last].status = status
  BY DEF Moved
<1>1. Attempted(d, k)
  BY <1>0 DEF GenSound
<1>2. \A i \in DOMAIN x.rows : x.rows[i].key = k =>
        /\ i \in DOMAIN d.rows /\ d.rows[i].key = k
        /\ i # last => x.rows[i].status = d.rows[i].status
  BY DEF Moved, KeptBut, NoneNew, Grown
<1>3. \A i \in DOMAIN d.rows : d.rows[i].key = k =>
        /\ i \in DOMAIN x.rows /\ x.rows[i].key = k /\ x.rows[i].tries = d.rows[i].tries
        /\ i # last => x.rows[i].status = d.rows[i].status
  BY DEF Moved, KeptBut, Grown
<1>4. FailedBefore(x, k) = FailedBefore(d, k)
  BY <1>0, <1>2, <1>3 DEF FailedBefore
<1>5. Attempted(x, k)
  BY <1>0, <1>1, <1>2, <1>3, <1>4 DEF Attempted
<1> QED
  BY <1>0, <1>5 DEF GenSound

(* One that has begun is sound.                                            *)
LEMMA BegunSound ==
  ASSUME NEW d \in Database, NEW x \in Database, NEW k \in Keys,
         Grown(d, x), GenSound(d, k), Begun(d, x, k)
  PROVE  GenSound(x, k)
<1> DEFINE j == x.gens[k].last
<1>0. /\ d.gens[k].disp = "none" /\ x.gens[k].disp = "active"
      /\ j \in DOMAIN x.rows /\ x.rows[j].key = k /\ x.rows[j].status = "pending"
      /\ x.rows[j].tries = 1
      /\ \A i \in DOMAIN x.rows : x.rows[i].key = k => i = j \/ i \in DOMAIN d.rows
  BY DEF Begun, OneNew
<1>1. \A i \in DOMAIN x.rows : x.rows[i].key = k => i = j
  BY <1>0 DEF GenSound, Rowless, Grown
<1>2. FailedBefore(x, k) = {}
  BY <1>1 DEF FailedBefore
<1>3. Cardinality(FailedBefore(x, k)) = 1 - 1
  BY <1>2, FS_EmptySet
<1>4. Attempted(x, k)
  BY <1>0, <1>1, <1>3 DEF Attempted, Fits
<1> QED
  BY <1>0, <1>4 DEF GenSound

(* One that has got another attempt stays sound.                           *)
LEMMA RenewedSound ==
  ASSUME NEW d \in Database, NEW x \in Database, NEW k \in Keys, NEW status,
         Grown(d, x), GenSound(d, k), Renewed(d, x, k, status)
  PROVE  GenSound(x, k)
<1> DEFINE last == d.gens[k].last
           j    == x.gens[k].last
<1>0. /\ d.gens[k].disp = "active" /\ x.gens[k].disp = "active"
      /\ x.rows[last].status = status
      /\ j \in DOMAIN x.rows /\ x.rows[j].key = k /\ x.rows[j].status = "pending"
      /\ \A i \in DOMAIN d.rows : i < j
      /\ \A i \in DOMAIN x.rows : x.rows[i].key = k => i = j \/ i \in DOMAIN d.rows
      /\ status \in {"cancelled", "failed"}
  BY DEF Renewed, OneNew
<1>1. Attempted(d, k) /\ last \in DOMAIN d.rows /\ d.rows[last].key = k
  BY <1>0 DEF GenSound, Attempted
<1>2. j \notin DOMAIN d.rows /\ last # j
  BY <1>0, <1>1, RowFacts
<1>3. \A i \in DOMAIN x.rows : x.rows[i].key = k /\ i # j =>
        /\ i \in DOMAIN d.rows /\ d.rows[i].key = k
        /\ i # last => x.rows[i].status = d.rows[i].status
  BY <1>0 DEF Renewed, KeptBut, Grown
<1>4. \A i \in DOMAIN d.rows : d.rows[i].key = k =>
        /\ i \in DOMAIN x.rows /\ x.rows[i].key = k /\ x.rows[i].tries = d.rows[i].tries
        /\ i # last => x.rows[i].status = d.rows[i].status
  BY DEF Renewed, KeptBut, Grown
<1>5. \A i \in DOMAIN x.rows : x.rows[i].key = k /\ i # j =>
        i < j /\ x.rows[i].status \in {"failed", "cancelled"}
  BY <1>0, <1>1, <1>3 DEF Attempted
<1>6. /\ IsFiniteSet(FailedBefore(d, k)) /\ Cardinality(FailedBefore(d, k)) \in Nat
      /\ d.rows[last].tries \in Nat
      /\ Cardinality(FailedBefore(d, k)) = d.rows[last].tries - 1
  BY <1>1, FailedFinite, RowFacts DEF Attempted
<1>7. Cardinality(FailedBefore(x, k)) = x.rows[j].tries - 1
  <2>1. CASE status = "cancelled"
    <3>1. FailedBefore(x, k) = FailedBefore(d, k)
      BY <2>1, <1>0, <1>1, <1>2, <1>3, <1>4 DEF FailedBefore
    <3>2. x.rows[j].tries = d.rows[last].tries
      BY <2>1 DEF Renewed
    <3> QED
      BY <3>1, <3>2, <1>6
  <2>2. CASE status = "failed"
    <3>1. FailedBefore(x, k) = FailedBefore(d, k) \cup {last}
      BY <2>2, <1>0, <1>1, <1>2, <1>3, <1>4 DEF FailedBefore
    <3>2. last \notin FailedBefore(d, k)
      BY DEF FailedBefore
    <3>3. Cardinality(FailedBefore(d, k) \cup {last}) = Cardinality(FailedBefore(d, k)) + 1
      BY <3>2, <1>6, FS_AddElement
    <3>4. x.rows[j].tries = d.rows[last].tries + 1
      BY <2>2 DEF Renewed
    <3> QED
      BY <3>1, <3>3, <3>4, <1>6
  <2> QED
    BY <1>0, <2>1, <2>2
<1>8. Attempted(x, k)
  BY <1>0, <1>5, <1>7 DEF Attempted, Fits
<1> QED
  BY <1>0, <1>8 DEF GenSound

(* Whatever a transaction does to a generation keeps it sound.             *)
LEMMA StepSound ==
  ASSUME NEW d \in Database, NEW x \in Database, NEW k \in Keys,
         Grown(d, x), GenSound(d, k), KeyStep(d, x, k)
  PROVE  GenSound(x, k)
  BY KeptSound, MovedSound, BegunSound, RenewedSound DEF KeyStep

----------------------------------------------------------------------------
(***************************************************************************)
(* The transactions.                                                       *)
(***************************************************************************)
GensSound(d) == \A k \in Keys : GenSound(d, k)

(* An active generation points at an attempt of its own, which is open or  *)
(* cancelled; and an open row is the last attempt of an active generation. *)
LEMMA ActiveFacts ==
  ASSUME NEW d \in Database, GensSound(d), NEW k \in Actives(d)
  PROVE  /\ k \in Keys /\ d.gens[k].disp = "active"
         /\ d.gens[k] = [disp |-> "active", last |-> d.gens[k].last]
         /\ d.gens[k].last \in DOMAIN d.rows /\ d.rows[d.gens[k].last].key = k
         /\ d.rows[d.gens[k].last].status \in {"pending", "in_progress", "cancelled"}
         /\ \A i \in DOMAIN d.rows : d.rows[i].key = k /\ i # d.gens[k].last => ~IsOpen(d.rows[i])
<1>1. k \in Keys /\ d.gens[k].disp = "active"
  BY DEF Actives
<1>2. Attempted(d, k)
  BY <1>1 DEF GensSound, GenSound
<1>3. d.gens[k] = [disp |-> "active", last |-> d.gens[k].last]
  BY <1>1, GenFacts
<1> QED
  BY <1>1, <1>2, <1>3 DEF Attempted, Fits, IsOpen

(* An open attempt is the one its active generation points at.             *)
LEMMA OpenFacts ==
  ASSUME NEW d \in Database, GensSound(d), NEW i \in DOMAIN d.rows, IsOpen(d.rows[i])
  PROVE  /\ d.rows[i].key \in Keys /\ d.rows[i].key \in Actives(d)
         /\ d.gens[d.rows[i].key] = [disp |-> "active", last |-> i]
<1> DEFINE k == d.rows[i].key
<1>1. k \in Keys
  BY RowFacts
<1>2. Attempted(d, k)
  BY <1>1 DEF GensSound, GenSound, Rowless
<1>3. i = d.gens[k].last
  BY <1>2 DEF Attempted, IsOpen
<1>4. d.gens[k].disp = "active"
  BY <1>2, <1>3 DEF Attempted, Fits, IsOpen
<1>5. d.gens[k] = [disp |-> d.gens[k].disp, last |-> d.gens[k].last]
  BY <1>1, GenFacts
<1> QED
  BY <1>1, <1>3, <1>4, <1>5 DEF Actives

(* As many rows as before.                                                 *)
LEMMA RowsKept ==
  ASSUME NEW d \in Database, NEW rows \in [DOMAIN d.rows -> Row]
  PROVE  rows \in Seq(Row)
<1>1. Len(d.rows) \in Nat /\ DOMAIN d.rows = 1..Len(d.rows)
  BY RowFacts
<1> QED
  BY <1>1, SeqDef

(* Superseding active generations cancels their open attempts and touches  *)
(* no other generation.                                                    *)
LEMMA SupersededFacts ==
  ASSUME NEW d \in Database, GensSound(d), NEW K, K \subseteq Actives(d)
  PROVE  LET x == Superseded(d, K) IN
         /\ x \in Database /\ x.task = d.task /\ x.effects = d.effects
         /\ DOMAIN x.rows = DOMAIN d.rows /\ Grown(d, x)
         /\ \A k \in K : Moved(d, x, k, "superseded", "cancelled")
         /\ \A k \in Keys \ K : Kept(d, x, k)
         /\ \A i \in DOMAIN d.rows :
              x.rows[i].status = d.rows[i].status \/ x.rows[i].status = "cancelled"
<1> DEFINE hit(i) == IsOpen(d.rows[i]) /\ \E k \in K : d.gens[k].last = i
           rows == [i \in DOMAIN d.rows |->
                      IF hit(i) THEN [d.rows[i] EXCEPT !.status = "cancelled"] ELSE d.rows[i]]
           gens == [k \in Keys |->
                      IF k \in K THEN [d.gens[k] EXCEPT !.disp = "superseded"] ELSE d.gens[k]]
           x == Superseded(d, K)
<1>1. x = [task |-> d.task, gens |-> gens, rows |-> rows, effects |-> d.effects]
  <2>1. d = [task |-> d.task, gens |-> d.gens, rows |-> d.rows, effects |-> d.effects]
    BY DatabaseFacts
  <2>2. x = [d EXCEPT !.rows = rows, !.gens = gens]
    BY DEF Superseded
  <2> HIDE DEF rows, gens, x
  <2> QED
    BY <2>1, <2>2
<1>2. K \subseteq Keys
  BY DEF Actives
<1>3. gens \in [Keys -> Gen]
  <2>1. \A k \in Keys : gens[k] \in Gen
    BY GenFacts DEF Gen, Ends
  <2> QED
    BY <2>1
<1>4. /\ DOMAIN rows = DOMAIN d.rows
      /\ \A i \in DOMAIN d.rows :
           rows[i] = IF hit(i) THEN [d.rows[i] EXCEPT !.status = "cancelled"] ELSE d.rows[i]
      /\ rows = [i \in DOMAIN rows |-> rows[i]]
  OBVIOUS
<1>5. \A k \in Keys : gens[k] = IF k \in K THEN [d.gens[k] EXCEPT !.disp = "superseded"]
                                ELSE d.gens[k]
  OBVIOUS
<1> HIDE DEF rows, gens, hit, x
<1>6. \A i \in DOMAIN d.rows : d.rows[i] \in Row
  BY RowFacts
<1>7. \A i \in DOMAIN d.rows :
        rows[i].status = IF hit(i) THEN "cancelled" ELSE d.rows[i].status
  BY <1>4, <1>6 DEF Row
<1>8. /\ rows \in Seq(Row)
      /\ \A i \in DOMAIN d.rows : rows[i].key = d.rows[i].key /\ rows[i].tries = d.rows[i].tries
  <2>1. ASSUME NEW i \in DOMAIN d.rows
        PROVE  /\ rows[i] \in Row
               /\ rows[i].key = d.rows[i].key /\ rows[i].tries = d.rows[i].tries
    BY <1>4, <1>6 DEF Row, Statuses
  <2>2. rows \in [DOMAIN d.rows -> Row]
    BY <1>4, <2>1
  <2> QED
    BY <2>1, <2>2, RowsKept
<1>9. x \in Database
  BY <1>1, <1>3, <1>8, DatabaseFacts DEF Database
<1>10. ASSUME NEW k \in K
       PROVE  Moved(d, x, k, "superseded", "cancelled")
  <2> DEFINE last == d.gens[k].last
  <2>1. /\ k \in Keys /\ d.gens[k] = [disp |-> "active", last |-> last]
        /\ last \in DOMAIN d.rows
        /\ d.rows[last].status \in {"pending", "in_progress", "cancelled"}
        /\ \A i \in DOMAIN d.rows : d.rows[i].key = k /\ i # last => ~IsOpen(d.rows[i])
    BY ActiveFacts
  <2>2. x.gens[k] = [disp |-> "superseded", last |-> last]
    BY <1>1, <1>5, <2>1
  <2>3. x.rows[last].status = "cancelled"
    BY <1>1, <1>7, <2>1 DEF hit, IsOpen
  <2>4. \A i \in DOMAIN d.rows : d.rows[i].key = k /\ i # last =>
          x.rows[i].status = d.rows[i].status
    BY <1>1, <1>7, <2>1 DEF hit
  <2> QED
    BY <1>1, <1>4, <2>1, <2>2, <2>3, <2>4 DEF Moved, Fits, KeptBut, NoneNew
<1>11. ASSUME NEW k \in Keys \ K
       PROVE  Kept(d, x, k)
  <2>1. \A j \in K : d.rows[d.gens[j].last].key = j
    BY ActiveFacts
  <2>2. \A i \in DOMAIN d.rows : d.rows[i].key = k => ~hit(i)
    BY <2>1 DEF hit
  <2>3. \A i \in DOMAIN d.rows : d.rows[i].key = k => x.rows[i].status = d.rows[i].status
    BY <1>1, <1>7, <2>2
  <2>4. x.gens[k] = d.gens[k]
    BY <1>1, <1>5
  <2> QED
    BY <1>1, <1>4, <2>3, <2>4 DEF Kept, KeptBut, NoneNew
<1>12. /\ x.task = d.task /\ x.effects = d.effects
       /\ DOMAIN x.rows = DOMAIN d.rows /\ Grown(d, x)
       /\ \A i \in DOMAIN d.rows :
            x.rows[i].status = d.rows[i].status \/ x.rows[i].status = "cancelled"
  BY <1>1, <1>4, <1>7, <1>8 DEF Grown
<1> QED
  BY <1>9, <1>10, <1>11, <1>12 DEF x

(* Superseding nothing changes nothing.                                    *)
LEMMA SupersededNone ==
  ASSUME NEW d \in Database
  PROVE  Superseded(d, {}) = d
<1> DEFINE rows == [i \in DOMAIN d.rows |->
                      IF IsOpen(d.rows[i]) /\ \E k \in {} : d.gens[k].last = i
                      THEN [d.rows[i] EXCEPT !.status = "cancelled"] ELSE d.rows[i]]
           gens == [k \in Keys |->
                      IF k \in {} THEN [d.gens[k] EXCEPT !.disp = "superseded"] ELSE d.gens[k]]
<1>1. d = [task |-> d.task, gens |-> d.gens, rows |-> d.rows, effects |-> d.effects]
  BY DatabaseFacts
<1>2. rows = d.rows
  <2>1. d.rows = [i \in DOMAIN d.rows |-> d.rows[i]]
    BY DatabaseFacts, LenProperties
  <2>2. rows = [i \in DOMAIN d.rows |-> d.rows[i]]
    OBVIOUS
  <2> QED
    BY <2>1, <2>2
<1>3. gens = d.gens
  BY DatabaseFacts
<1>4. Superseded(d, {}) = [d EXCEPT !.rows = rows, !.gens = gens]
  BY DEF Superseded
<1> HIDE DEF rows, gens
<1> QED
  BY <1>1, <1>2, <1>3, <1>4

(* Pausing cancels the open attempts and leaves the generations.           *)
LEMMA PausedFacts ==
  ASSUME NEW d \in Database, GensSound(d)
  PROVE  LET x == Paused(d) IN
         /\ x \in Database /\ x.task = d.task /\ x.effects = d.effects /\ x.gens = d.gens
         /\ DOMAIN x.rows = DOMAIN d.rows /\ Grown(d, x)
         /\ \A k \in Actives(d) : Moved(d, x, k, "active", "cancelled")
         /\ \A k \in Keys \ Actives(d) : Kept(d, x, k)
         /\ OpenRows(x) = {}
         /\ \A i \in DOMAIN d.rows :
              x.rows[i].status = d.rows[i].status \/ x.rows[i].status = "cancelled"
<1> DEFINE rows == [i \in DOMAIN d.rows |->
                      IF IsOpen(d.rows[i]) THEN [d.rows[i] EXCEPT !.status = "cancelled"]
                      ELSE d.rows[i]]
           x == Paused(d)
<1>1. x = [task |-> d.task, gens |-> d.gens, rows |-> rows, effects |-> d.effects]
  <2>1. d = [task |-> d.task, gens |-> d.gens, rows |-> d.rows, effects |-> d.effects]
    BY DatabaseFacts
  <2>2. x = [d EXCEPT !.rows = rows]
    BY DEF Paused
  <2> HIDE DEF rows, x
  <2> QED
    BY <2>1, <2>2
<1>2. /\ DOMAIN rows = DOMAIN d.rows
      /\ \A i \in DOMAIN d.rows :
           rows[i] = IF IsOpen(d.rows[i]) THEN [d.rows[i] EXCEPT !.status = "cancelled"]
                     ELSE d.rows[i]
      /\ rows = [i \in DOMAIN rows |-> rows[i]]
  OBVIOUS
<1> HIDE DEF rows, x
<1>3. \A i \in DOMAIN d.rows : d.rows[i] \in Row
  BY RowFacts
<1>4. \A i \in DOMAIN d.rows :
        rows[i].status = IF IsOpen(d.rows[i]) THEN "cancelled" ELSE d.rows[i].status
  BY <1>2, <1>3 DEF Row
<1>5. /\ rows \in Seq(Row)
      /\ \A i \in DOMAIN d.rows : rows[i].key = d.rows[i].key /\ rows[i].tries = d.rows[i].tries
  <2>1. ASSUME NEW i \in DOMAIN d.rows
        PROVE  /\ rows[i] \in Row
               /\ rows[i].key = d.rows[i].key /\ rows[i].tries = d.rows[i].tries
    BY <1>2, <1>3 DEF Row, Statuses
  <2>2. rows \in [DOMAIN d.rows -> Row]
    BY <1>2, <2>1
  <2> QED
    BY <2>1, <2>2, RowsKept
<1>6. x \in Database
  BY <1>1, <1>5, DatabaseFacts DEF Database
<1>7. ASSUME NEW k \in Actives(d)
      PROVE  Moved(d, x, k, "active", "cancelled")
  <2> DEFINE last == d.gens[k].last
  <2>1. /\ k \in Keys /\ d.gens[k] = [disp |-> "active", last |-> last]
        /\ last \in DOMAIN d.rows
        /\ d.rows[last].status \in {"pending", "in_progress", "cancelled"}
        /\ \A i \in DOMAIN d.rows : d.rows[i].key = k /\ i # last => ~IsOpen(d.rows[i])
    BY ActiveFacts
  <2>2. x.rows[last].status = "cancelled"
    BY <1>1, <1>4, <2>1 DEF IsOpen
  <2>3. \A i \in DOMAIN d.rows : d.rows[i].key = k /\ i # last =>
          x.rows[i].status = d.rows[i].status
    BY <1>1, <1>4, <2>1
  <2> QED
    BY <1>1, <1>2, <2>1, <2>2, <2>3 DEF Moved, Fits, KeptBut, NoneNew
<1>8. ASSUME NEW k \in Keys \ Actives(d)
      PROVE  Kept(d, x, k)
  <2>1. \A i \in DOMAIN d.rows : d.rows[i].key = k => ~IsOpen(d.rows[i])
    BY OpenFacts
  <2>2. \A i \in DOMAIN d.rows : d.rows[i].key = k => x.rows[i].status = d.rows[i].status
    BY <1>1, <1>4, <2>1
  <2> QED
    BY <1>1, <1>2, <2>2 DEF Kept, KeptBut, NoneNew
<1>9. OpenRows(x) = {}
  BY <1>1, <1>2, <1>4 DEF OpenRows, IsOpen
<1>10. /\ x.task = d.task /\ x.effects = d.effects /\ x.gens = d.gens
       /\ DOMAIN x.rows = DOMAIN d.rows /\ Grown(d, x)
       /\ \A i \in DOMAIN d.rows :
            x.rows[i].status = d.rows[i].status \/ x.rows[i].status = "cancelled"
  BY <1>1, <1>2, <1>4, <1>5 DEF Grown
<1> QED
  BY <1>6, <1>7, <1>8, <1>9, <1>10 DEF x

(* A row with another status, and the rows of that database.               *)
LEMMA StatusShape ==
  ASSUME NEW d \in Database, NEW i, NEW s,
         NEW rows, rows = [d.rows EXCEPT ![i].status = s]
  PROVE  [d EXCEPT !.rows[i].status = s]
           = [task |-> d.task, gens |-> d.gens, rows |-> rows, effects |-> d.effects]
<1>1. d = [task |-> d.task, gens |-> d.gens, rows |-> d.rows, effects |-> d.effects]
  BY DatabaseFacts
<1>2. [d EXCEPT !.rows[i].status = s] = [d EXCEPT !.rows = rows]
  OBVIOUS
<1> QED
  BY <1>1, <1>2

WithRowStatus(rows, i, s) == [rows EXCEPT ![i].status = s]

(* They keep keys and tries, and all but one of them its status.           *)
LEMMA StatusFacts ==
  ASSUME NEW d \in Database, NEW i \in DOMAIN d.rows, NEW s \in Statuses,
         NEW rows, rows = WithRowStatus(d.rows, i, s)
  PROVE  /\ rows \in Seq(Row) /\ DOMAIN rows = DOMAIN d.rows
         /\ rows[i].status = s
         /\ \A j \in DOMAIN d.rows :
              /\ rows[j].key = d.rows[j].key /\ rows[j].tries = d.rows[j].tries
              /\ j # i => rows[j] = d.rows[j]
<1>1. rows = [d.rows EXCEPT ![i].status = s]
  BY DEF WithRowStatus
<1>2. DOMAIN rows = DOMAIN d.rows
  BY <1>1
<1>3. \A j \in DOMAIN d.rows : d.rows[j] \in Row
  BY RowFacts
<1>4. rows[i] = [d.rows[i] EXCEPT !.status = s]
  BY <1>1
<1>5. \A j \in DOMAIN d.rows : j # i => rows[j] = d.rows[j]
  BY <1>1
<1>6. rows = [j \in DOMAIN d.rows |-> rows[j]]
  BY <1>1
<1>7. /\ rows[i] \in Row /\ rows[i].status = s
      /\ rows[i].key = d.rows[i].key /\ rows[i].tries = d.rows[i].tries
  BY <1>3, <1>4 DEF Row
<1>8. rows \in [DOMAIN d.rows -> Row]
  <2>1. \A j \in DOMAIN d.rows : rows[j] \in Row
    BY <1>3, <1>5, <1>7
  <2> QED
    BY <2>1, <1>6
<1>9. rows \in Seq(Row)
  BY <1>8, RowsKept
<1> QED
  BY <1>2, <1>5, <1>7, <1>9

(* Claiming a pending row moves its generation's attempt.                  *)
LEMMA ClaimedFacts ==
  ASSUME NEW d \in Database, GensSound(d), NEW i \in DOMAIN d.rows,
         d.rows[i].status = "pending"
  PROVE  LET x == ClaimedRow(d, i)
             k == d.rows[i].key IN
         /\ x \in Database /\ x.task = d.task /\ x.effects = d.effects /\ x.gens = d.gens
         /\ DOMAIN x.rows = DOMAIN d.rows /\ Grown(d, x)
         /\ k \in Keys /\ d.gens[k] = [disp |-> "active", last |-> i]
         /\ Moved(d, x, k, "active", "in_progress")
         /\ \A j \in Keys \ {k} : Kept(d, x, j)
         /\ x.rows[i].status = "in_progress"
         /\ \A j \in DOMAIN d.rows : j # i => x.rows[j] = d.rows[j]
<1> DEFINE x    == ClaimedRow(d, i)
           k    == d.rows[i].key
           rows == [d.rows EXCEPT ![i].status = "in_progress"]
<1>1. "in_progress" \in Statuses
  BY DEF Statuses
<1>2. /\ x = [task |-> d.task, gens |-> d.gens, rows |-> rows, effects |-> d.effects]
      /\ rows \in Seq(Row) /\ DOMAIN rows = DOMAIN d.rows
      /\ rows[i].status = "in_progress"
      /\ \A j \in DOMAIN d.rows :
           /\ rows[j].key = d.rows[j].key /\ rows[j].tries = d.rows[j].tries
           /\ j # i => rows[j] = d.rows[j]
  <2>1. rows = [d.rows EXCEPT ![i].status = "in_progress"]
    OBVIOUS
  <2>5. rows = WithRowStatus(d.rows, i, "in_progress")
    BY DEF WithRowStatus
  <2>2. x = [d EXCEPT !.rows[i].status = "in_progress"]
    BY DEF ClaimedRow
  <2> HIDE DEF rows, x
  <2>3. x = [task |-> d.task, gens |-> d.gens, rows |-> rows, effects |-> d.effects]
    BY <2>1, <2>2, StatusShape
  <2>4. /\ rows \in Seq(Row) /\ DOMAIN rows = DOMAIN d.rows
        /\ rows[i].status = "in_progress"
        /\ \A j \in DOMAIN d.rows :
             /\ rows[j].key = d.rows[j].key /\ rows[j].tries = d.rows[j].tries
             /\ j # i => rows[j] = d.rows[j]
    BY <1>1, <2>5, StatusFacts
  <2> QED
    BY <2>3, <2>4
<1> HIDE DEF x, rows
<1>3. k \in Keys /\ d.gens[k] = [disp |-> "active", last |-> i]
  BY OpenFacts DEF IsOpen
<1>4. x \in Database
  BY <1>2, DatabaseFacts DEF Database
<1>5. Moved(d, x, k, "active", "in_progress")
  BY <1>2, <1>3 DEF Moved, Fits, KeptBut, NoneNew
<1>6. \A j \in Keys \ {k} : Kept(d, x, j)
  BY <1>2, <1>3 DEF Kept, KeptBut, NoneNew
<1>7. Grown(d, x)
  BY <1>2 DEF Grown
<1> QED
  BY <1>2, <1>3, <1>4, <1>5, <1>6, <1>7 DEF x

(* Another attempt of a generation.                                        *)
LEMMA AttemptFacts ==
  ASSUME NEW d \in Database, NEW k \in Keys, NEW n \in 1..MaxTries
  PROVE  LET x == WithAttempt(d, k, n)
             j == Len(d.rows) + 1 IN
         /\ x \in Database /\ x.task = d.task /\ x.effects = d.effects
         /\ x.gens[k] = [disp |-> "active", last |-> j]
         /\ \A c \in Keys : c # k => x.gens[c] = d.gens[c]
         /\ DOMAIN x.rows = DOMAIN d.rows \cup {j}
         /\ \A i \in DOMAIN d.rows : i < j /\ x.rows[i] = d.rows[i]
         /\ x.rows[j] = NewRow(k, n)
<1> DEFINE x    == WithAttempt(d, k, n)
           j    == Len(d.rows) + 1
           row  == NewRow(k, n)
           rows == Append(d.rows, row)
           gens == [d.gens EXCEPT ![k] = [disp |-> "active", last |-> j]]
<1>1. x = [task |-> d.task, gens |-> gens, rows |-> rows, effects |-> d.effects]
  <2>1. d = [task |-> d.task, gens |-> d.gens, rows |-> d.rows, effects |-> d.effects]
    BY DatabaseFacts
  <2>2. x = [d EXCEPT !.rows = rows, !.gens = gens]
    BY DEF WithAttempt
  <2> HIDE DEF rows, gens, x
  <2> QED
    BY <2>1, <2>2
<1>2. /\ d.rows \in Seq(Row) /\ Len(d.rows) \in Nat /\ DOMAIN d.rows = 1..Len(d.rows)
      /\ \A i \in DOMAIN d.rows : i \in Nat
  BY RowFacts, DatabaseFacts
<1>3. row \in Row
  BY DEF NewRow, Row, Statuses
<1>4. gens \in [Keys -> Gen]
  <2>1. [disp |-> "active", last |-> j] \in Gen
    BY <1>2 DEF Gen
  <2> QED
    BY <2>1, DatabaseFacts
<1>5. gens[k] = [disp |-> "active", last |-> j] /\ \A c \in Keys : c # k => gens[c] = d.gens[c]
  BY DatabaseFacts
<1> HIDE DEF x, gens, row
<1>6. /\ rows \in Seq(Row) /\ Len(rows) = j
      /\ \A i \in 1..Len(d.rows) : rows[i] = d.rows[i]
      /\ rows[j] = row
  BY <1>2, <1>3, AppendProperties
<1>7. DOMAIN rows = 1..j
  BY <1>6, LenProperties
<1> HIDE DEF rows
<1>8. DOMAIN rows = DOMAIN d.rows \cup {j}
  BY <1>2, <1>7
<1>9. \A i \in DOMAIN d.rows : i < j
  BY <1>2
<1>10. x \in Database
  BY <1>1, <1>4, <1>6, DatabaseFacts DEF Database
<1> QED
  BY <1>1, <1>2, <1>5, <1>6, <1>8, <1>9, <1>10 DEF x, row

(* Attempts of several generations of distinct tasks.                      *)
LEMMA AttemptsFacts ==
  ASSUME NEW d \in Database, NEW K, K \subseteq Keys, OnePerTask(K),
         NEW tries, \A k \in K : tries[k] \in 1..MaxTries
  PROVE  LET x == WithAttempts(d, K, tries) IN
         /\ x \in Database /\ x.task = d.task /\ x.effects = d.effects
         /\ Grown(d, x) /\ \A i \in DOMAIN d.rows : x.rows[i] = d.rows[i]
         /\ \A k \in K :
              LET j == x.gens[k].last IN
              /\ x.gens[k].disp = "active" /\ OneNew(d, x, k, j) /\ x.rows[j] = NewRow(k, tries[k])
         /\ \A k \in Keys \ K : Kept(d, x, k)
<1> DEFINE x     == WithAttempts(d, K, tries)
           n     == Len(d.rows)
           c     == Cardinality(K)
           At(i) == CHOOSE k \in K : Place(k, K) = i
           tail  == [i \in 1..c |-> NewRow(At(i), tries[At(i)])]
           rows  == d.rows \o tail
           gens  == [k \in Keys |-> IF k \in K
                                    THEN [disp |-> "active", last |-> n + Place(k, K)]
                                    ELSE d.gens[k]]
<1>1. x = [task |-> d.task, gens |-> gens, rows |-> rows, effects |-> d.effects]
  <2>1. d = [task |-> d.task, gens |-> d.gens, rows |-> d.rows, effects |-> d.effects]
    BY DatabaseFacts
  <2>2. x = [d EXCEPT !.rows = rows, !.gens = gens]
    BY DEF WithAttempts
  <2> HIDE DEF rows, gens, x
  <2> QED
    BY <2>1, <2>2
<1>2. /\ d.rows \in Seq(Row) /\ n \in Nat /\ DOMAIN d.rows = 1..n
      /\ \A i \in DOMAIN d.rows : i \in Nat
  BY RowFacts, DatabaseFacts
<1>3. c \in Nat
  BY KeysFinite, FS_CardinalityType
<1>4. \A k \in K : Place(k, K) \in 1..c
  BY KeysFinite, PlaceFacts
<1>5. \A i \in 1..c : At(i) \in K /\ Place(At(i), K) = i
  BY PlaceOnto
<1>6. \A k \in K : At(Place(k, K)) = k
  BY <1>4, <1>5, PlaceInjective
<1>7. \A i \in 1..c : tail[i] = NewRow(At(i), tries[At(i)])
  OBVIOUS
<1>8. \A k \in Keys : gens[k] = IF k \in K THEN [disp |-> "active", last |-> n + Place(k, K)]
                                ELSE d.gens[k]
  OBVIOUS
<1>9. gens \in [Keys -> Gen]
  <2>1. \A k \in K : n + Place(k, K) \in Nat
    BY <1>2, <1>3, <1>4
  <2> HIDE DEF n
  <2>2. \A k \in Keys : gens[k] \in Gen
    BY <2>1, <1>8, GenFacts DEF Gen
  <2> QED
    BY <2>2
<1>10. tail \in Seq(Row) /\ Len(tail) = c
  <2>1. \A i \in 1..c : tail[i] \in Row
    BY <1>5, <1>7 DEF NewRow, Row, Statuses
  <2>2. tail = [i \in 1..c |-> tail[i]]
    OBVIOUS
  <2> HIDE DEF tail
  <2>3. tail \in [1..c -> Row]
    BY <2>1, <2>2
  <2>4. tail \in Seq(Row)
    BY <2>3, <1>3, SeqDef
  <2>5. DOMAIN tail = 1..c
    BY <2>3
  <2> QED
    BY <2>4, <2>5, <1>3, LenProperties
<1> HIDE DEF x, c, At, tail, gens
<1>11. /\ rows \in Seq(Row) /\ Len(rows) = n + c
       /\ \A i \in 1..(n + c) : rows[i] = IF i <= n THEN d.rows[i] ELSE tail[i - n]
  BY <1>2, <1>10, ConcatProperties
<1>12. DOMAIN rows = 1..(n + c)
  BY <1>11, LenProperties
<1> HIDE DEF rows, n
<1>13. \A i \in 1..n : i \in DOMAIN rows /\ rows[i] = d.rows[i]
  <2>1. SUFFICES ASSUME NEW i \in 1..n PROVE i \in 1..(n + c) /\ i <= n
    BY <1>11, <1>12
  <2> QED
    BY <1>2, <1>3
<1>14. \A k \in K : /\ n + Place(k, K) \in DOMAIN rows /\ n + Place(k, K) > n
                    /\ rows[n + Place(k, K)] = NewRow(k, tries[k])
  <2>1. SUFFICES ASSUME NEW k \in K
                 PROVE  /\ n + Place(k, K) \in DOMAIN rows /\ n + Place(k, K) > n
                        /\ rows[n + Place(k, K)] = NewRow(k, tries[k])
    OBVIOUS
  <2>2. Place(k, K) \in 1..c /\ Place(k, K) \in Nat /\ At(Place(k, K)) = k
    BY <1>3, <1>4, <1>6
  <2>3. /\ n + Place(k, K) \in 1..(n + c) /\ n + Place(k, K) > n
        /\ ~(n + Place(k, K) <= n) /\ (n + Place(k, K)) - n = Place(k, K)
    BY <2>2, <1>2, <1>3
  <2>4. rows[n + Place(k, K)] = tail[Place(k, K)]
    BY <2>3, <1>11
  <2> QED
    BY <2>2, <2>3, <2>4, <1>7, <1>12
<1>15. \A i \in DOMAIN rows : i > n => rows[i].key \in K /\ i = n + Place(rows[i].key, K)
  <2>1. SUFFICES ASSUME NEW i \in DOMAIN rows, i > n
                 PROVE  rows[i].key \in K /\ i = n + Place(rows[i].key, K)
    OBVIOUS
  <2>2. i \in 1..(n + c) /\ i \in Nat /\ i - n \in 1..c /\ ~(i <= n) /\ i = n + (i - n)
    BY <2>1, <1>2, <1>3, <1>12
  <2>3. rows[i] = tail[i - n]
    BY <2>2, <1>11
  <2>4. rows[i].key = At(i - n)
    <3>1. tail[i - n] = NewRow(At(i - n), tries[At(i - n)])
      BY <2>2, <1>7
    <3> QED
      BY <2>3, <3>1 DEF NewRow
  <2> QED
    BY <2>2, <2>4, <1>5
<1>16. x \in Database
  BY <1>1, <1>9, <1>11, DatabaseFacts DEF Database
<1>17. Grown(d, x) /\ \A i \in DOMAIN d.rows : x.rows[i] = d.rows[i]
  BY <1>1, <1>2, <1>13 DEF Grown
<1>18. ASSUME NEW k \in K
       PROVE  LET j == x.gens[k].last IN
              /\ x.gens[k].disp = "active" /\ OneNew(d, x, k, j)
              /\ x.rows[j] = NewRow(k, tries[k])
  <2> DEFINE j == x.gens[k].last
  <2>1. k \in Keys /\ x.gens[k].disp = "active" /\ j = n + Place(k, K)
    <3>1. x.gens = gens
      BY <1>1
    <3>2. gens[k] = [disp |-> "active", last |-> n + Place(k, K)]
      BY <1>8
    <3> QED
      BY <3>1, <3>2
  <2>2. j \in DOMAIN x.rows /\ j > n /\ x.rows[j] = NewRow(k, tries[k])
    BY <2>1, <1>1, <1>14
  <2>3. x.rows[j].key = k /\ x.rows[j].status = "pending"
    BY <2>2 DEF NewRow
  <2>4. \A i \in DOMAIN d.rows : i < j
    <3>1. j \in Nat /\ DOMAIN x.rows = 1..(n + c)
      BY <2>2, <1>1, <1>2, <1>3, <1>12
    <3> HIDE DEF j
    <3> QED
      BY <3>1, <2>2, <1>2
  <2>5. \A i \in DOMAIN x.rows : x.rows[i].key = k => i = j \/ i \in DOMAIN d.rows
    <3>1. SUFFICES ASSUME NEW i \in DOMAIN x.rows, x.rows[i].key = k, i \notin DOMAIN d.rows
                   PROVE  i = j
      OBVIOUS
    <3>2. i \in DOMAIN rows /\ i > n
      BY <3>1, <1>1, <1>2, <1>3, <1>12
    <3> QED
      BY <3>1, <3>2, <2>1, <1>1, <1>15
  <2> QED
    BY <2>1, <2>2, <2>3, <2>4, <2>5 DEF OneNew
<1>19. ASSUME NEW k \in Keys \ K
       PROVE  Kept(d, x, k)
  <2>1. x.gens[k] = d.gens[k]
    BY <1>1, <1>8
  <2>2. ASSUME NEW i \in DOMAIN x.rows, x.rows[i].key = k
        PROVE  i \in DOMAIN d.rows
    <3>1. i \in DOMAIN rows /\ ~(i > n)
      BY <2>2, <1>1, <1>15
    <3> QED
      BY <3>1, <1>2, <1>3, <1>12
  <2> QED
    BY <2>1, <2>2, <1>17 DEF Kept, KeptBut, NoneNew
<1> QED
  BY <1>1, <1>16, <1>17, <1>18, <1>19 DEF x

----------------------------------------------------------------------------
(***************************************************************************)
(* How soundness is kept.                                                  *)
(***************************************************************************)
Currents(d) == \A k \in Keys : Current(d, k)

(* rows that are answered in x were answered in d                          *)
NoneAnswered(d, x) ==
  \A i \in DOMAIN d.rows : x.rows[i].status = "done" => d.rows[i].status = "done"

(* a task is the same, or of a later revision                              *)
TaskMovesOn(d, x) ==
  \A t \in Tasks : x.task[t] = d.task[t] \/ x.task[t].rev > d.task[t].rev

(* The task and the disposition decide on how they stand to one another.   *)
LEMMA CurrentKept ==
  ASSUME NEW d, NEW x, NEW k, Current(d, k), x.task[k.task] = d.task[k.task],
         \/ x.gens[k].disp = d.gens[k].disp
         \/ d.gens[k].disp = "active" /\ x.gens[k].disp = "exhausted"
  PROVE  Current(x, k)
  BY DEF Current

(* A task has at most one active generation, the one of its next check.    *)
LEMMA ActivesPerTask ==
  ASSUME NEW d \in Database, Currents(d)
  PROVE  /\ Actives(d) \subseteq Keys /\ OnePerTask(Actives(d))
         /\ IsFiniteSet(Actives(d)) /\ Cardinality(Actives(d)) \in Nat
         /\ \A k \in Actives(d) : k.epoch = d.task[k.task].epoch
<1>1. Actives(d) \subseteq Keys
  BY DEF Actives
<1>2. \A k \in Actives(d) :
        k.epoch = d.task[k.task].epoch /\ k.at = CheckAt(d.task[k.task])
  BY DEF Actives, Currents, Current
<1>3. OnePerTask(Actives(d))
  <2>1. SUFFICES ASSUME NEW j \in Actives(d), NEW k \in Actives(d), j.task = k.task
                 PROVE  j = k
    BY DEF OnePerTask
  <2>2. j \in Keys /\ k \in Keys /\ j.epoch = k.epoch /\ j.at = k.at
    BY <1>1, <1>2, <2>1
  <2>3. /\ j = [task |-> j.task, epoch |-> j.epoch, at |-> j.at]
        /\ k = [task |-> k.task, epoch |-> k.epoch, at |-> k.at]
    BY <2>2, KeyFacts
  <2> QED
    BY <2>1, <2>2, <2>3
<1>4. IsFiniteSet(Actives(d))
  BY <1>1, <1>3, KeysFinite
<1> QED
  BY <1>1, <1>2, <1>3, <1>4, FS_CardinalityType

(* The marks of an effect stay as they are, or are of an earlier revision. *)
LEMMA MarkersKept ==
  ASSUME NEW d \in Database, NEW x \in Database, Grown(d, x), TaskMovesOn(d, x),
         NEW e \in Effect, NEW i \in DOMAIN d.rows, MarkersAgree(d, i, e)
  PROVE  MarkersAgree(x, i, e)
<1> DEFINE k == d.rows[i].key
           t == k.task
<1>1. k \in Keys /\ t \in Tasks /\ e.before \in Nat
  BY RowFacts, KeyFacts DEF Effect
<1>2. i \in DOMAIN x.rows /\ x.rows[i].key = k
  BY DEF Grown
<1>3. CASE x.task[t] = d.task[t]
  BY <1>2, <1>3 DEF MarkersAgree
<1>4. CASE x.task[t].rev > d.task[t].rev
  <2>1. d.task[t].rev \in Nat /\ x.task[t].rev \in Nat /\ d.task[t].rev > e.before
    BY <1>1, TaskFacts DEF MarkersAgree
  <2>2. x.task[t].rev > e.before /\ x.task[t].rev # e.before + 1
    BY <1>1, <1>4, <2>1
  <2> QED
    BY <1>2, <2>2 DEF MarkersAgree
<1> QED
  BY <1>1, <1>3, <1>4 DEF TaskMovesOn

(* A receipt stays true as long as nothing else is answered.               *)
LEMMA ReceiptsKept ==
  ASSUME NEW d \in Database, NEW x \in Database, GensSound(d), Receipted(d), Grown(d, x),
         \A k \in Keys : KeyStep(d, x, k),
         x.effects = d.effects, NoneAnswered(d, x), TaskMovesOn(d, x)
  PROVE  Receipted(x)
<1>1. ASSUME NEW e \in x.effects
      PROVE  /\ e.attempt \in DOMAIN x.rows
             /\ x.gens[x.rows[e.attempt].key] = [disp |-> e.outcome, last |-> e.attempt]
             /\ MarkersAgree(x, e.attempt, e)
  <2> DEFINE i == e.attempt
             k == d.rows[i].key
             t == k.task
  <2>1. /\ e \in d.effects /\ i \in DOMAIN d.rows /\ MarkersAgree(d, i, e)
        /\ d.gens[k] = [disp |-> e.outcome, last |-> i]
    BY DEF Receipted
  <2>2. e \in Effect /\ e.outcome \in {"resolved", "final_no_update", "deferred"} /\ e.before \in Nat
    BY <2>1, DatabaseFacts DEF Effect
  <2>3. k \in Keys /\ t \in Tasks
    BY <2>1, RowFacts, KeyFacts
  <2>4. i \in DOMAIN x.rows /\ x.rows[i].key = k
    BY <2>1 DEF Grown
  <2>5. Kept(d, x, k)
    <3>1. d.gens[k].disp \notin {"active", "none"}
      BY <2>1, <2>2
    <3>2. KeyStep(d, x, k)
      BY <2>3
    <3> HIDE DEF i, k
    <3> QED
      BY <3>1, <3>2 DEF KeyStep, Moved, Begun, Renewed
  <2>6. x.gens[k] = [disp |-> e.outcome, last |-> i]
    BY <2>1, <2>5 DEF Kept
  <2>7. MarkersAgree(x, i, e)
    BY <2>1, <2>2, MarkersKept
  <2> QED
    BY <2>4, <2>6, <2>7
<1>2. ASSUME NEW i \in DOMAIN x.rows, x.rows[i].status = "done"
      PROVE  ReceiptsOf(x, i) # {}
  <2> DEFINE k == x.rows[i].key
  <2>1. k \in Keys /\ KeyStep(d, x, k)
    BY RowFacts
  <2>2. i \in DOMAIN d.rows
    BY <2>1, <1>2 DEF KeyStep, Kept, Moved, Begun, Renewed, NoneNew, OneNew
  <2>3. d.rows[i].status = "done"
    BY <1>2, <2>2 DEF NoneAnswered
  <2>4. ReceiptsOf(d, i) # {}
    BY <2>2, <2>3 DEF Receipted
  <2> QED
    BY <2>4 DEF ReceiptsOf
<1> QED
  BY <1>1, <1>2 DEF Receipted

(* A transaction that answers nothing keeps the database sound.            *)
LEMMA SoundStep ==
  ASSUME NEW d, NEW x, Sound(d), x \in Database, Grown(d, x),
         \A k \in Keys : KeyStep(d, x, k), Currents(x),
         x.effects = d.effects, NoneAnswered(d, x), TaskMovesOn(d, x),
         Cardinality(Actives(x)) <= MaxOpen
  PROVE  Sound(x)
<1>1. d \in Database /\ GensSound(d) /\ Receipted(d)
  BY DEF Sound, GensSound
<1>2. GensSound(x)
  BY <1>1, StepSound DEF GensSound
<1>3. Receipted(x)
  BY <1>1, ReceiptsKept
<1> QED
  BY <1>2, <1>3 DEF Sound, GensSound, Currents

(* The parts of soundness.                                                 *)
LEMMA SoundFacts ==
  ASSUME NEW d, Sound(d)
  PROVE  /\ d \in Database /\ GensSound(d) /\ Currents(d) /\ Receipted(d)
         /\ Cardinality(Actives(d)) <= MaxOpen /\ MaxOpen \in Nat /\ MaxOpen > 0
  BY TemporalAssumption DEF Sound, GensSound, Currents

(* Fewer active generations are within the bound.                          *)
LEMMA FewerActives ==
  ASSUME NEW d, Sound(d), NEW x, Actives(x) \subseteq Actives(d)
  PROVE  Cardinality(Actives(x)) <= MaxOpen
<1>1. /\ IsFiniteSet(Actives(d)) /\ Cardinality(Actives(d)) \in Nat
      /\ Cardinality(Actives(d)) <= MaxOpen /\ MaxOpen \in Nat
  BY SoundFacts, ActivesPerTask
<1>2. IsFiniteSet(Actives(x)) /\ Cardinality(Actives(x)) <= Cardinality(Actives(d))
  BY <1>1, FS_Subset
<1>3. Cardinality(Actives(x)) \in Nat
  BY <1>2, FS_CardinalityType
<1> QED
  BY <1>1, <1>2, <1>3

----------------------------------------------------------------------------
(***************************************************************************)
(* What else a transaction may rely on, and what it leaves to the next.    *)
(***************************************************************************)
AllOwned(d) == \A k \in Actives(d) : d.task[k.task].open
AllOpen(d)  == \A k \in Actives(d) : IsOpen(d.rows[d.gens[k].last])

(* An attempt whose outcome is still to be arbitrated.                     *)
Arbitrable(d, i) ==
  /\ i \in DOMAIN d.rows
  /\ d.gens[d.rows[i].key].last = i
  /\ d.rows[i].status \in {"in_progress", "done", "cancelled"}

Superseding(d, x) == \A k \in Keys : Kept(d, x, k) \/ Moved(d, x, k, "superseded", "cancelled")

(* The two dispositions a move is between.                                 *)
LEMMA MovedFacts ==
  ASSUME NEW d, NEW x, NEW k, NEW disp, NEW status, Moved(d, x, k, disp, status)
  PROVE  /\ d.gens[k].disp = "active" /\ x.gens[k].disp = disp
         /\ x.gens[k].last = d.gens[k].last
  BY DEF Moved

(***************************************************************************)
(* What a check may do: a check is a generation with the tries of its last *)
(* attempt.                                                                *)
(***************************************************************************)
SameCheck(d, x, k) ==
  /\ x.gens[k].disp = d.gens[k].disp
  /\ d.gens[k].disp # "none" => LastTries(x, k) = LastTries(d, k)

(* The other checks of an occurrence have not begun, or were deferred.     *)
Waits(d, k) ==
  \A b \in Keys \ {k} : b.task = k.task /\ b.epoch = k.epoch =>
    d.gens[b].disp \in {"none", "deferred"}

Promised(d, x, k) ==
  \/ SameCheck(d, x, k)
  \/ /\ d.gens[k].disp = "none" /\ x.gens[k].disp = "active"
     /\ LastTries(x, k) = 1 /\ Waits(d, k)
  \/ /\ d.gens[k].disp = "active" /\ x.gens[k].disp = "active"
     /\ LastTries(d, k) < MaxTries /\ LastTries(x, k) = LastTries(d, k) + 1
  \/ /\ d.gens[k].disp = "active" /\ x.gens[k].disp \in Ends
     /\ LastTries(x, k) = LastTries(d, k)

(* What a transaction does to a generation is what a check may do.         *)
LEMMA PromiseKept ==
  ASSUME NEW d, NEW x, Sound(d), Sound(x), Grown(d, x), NEW k \in Keys,
         KeyStep(d, x, k), Begun(d, x, k) => Waits(d, k)
  PROVE  Promised(d, x, k)
<1>1. d \in Database /\ x \in Database /\ GenSound(d, k) /\ GenSound(x, k)
  BY DEF Sound
<1>2. ASSUME NEW y \in Database, GenSound(y, k), y.gens[k].disp # "none"
      PROVE  /\ y.gens[k].last \in DOMAIN y.rows
             /\ LastTries(y, k) = y.rows[y.gens[k].last].tries
             /\ LastTries(y, k) \in 1..MaxTries
  <2>1. y.gens[k].last \in DOMAIN y.rows
    BY <1>2 DEF GenSound, Attempted
  <2> QED
    BY <2>1, RowFacts DEF LastTries
<1>3. CASE Kept(d, x, k)
  <2>1. x.gens[k] = d.gens[k]
    BY <1>3 DEF Kept
  <2>2. d.gens[k].disp # "none" => LastTries(x, k) = LastTries(d, k)
    BY <1>1, <1>2, <2>1 DEF Grown
  <2> QED
    BY <2>1, <2>2 DEF Promised, SameCheck
<1>4. ASSUME NEW disp \in Ends \cup {"active"}, NEW status \in Statuses,
             Moved(d, x, k, disp, status)
      PROVE  Promised(d, x, k)
  <2>1. /\ d.gens[k].disp = "active" /\ x.gens[k].disp = disp
        /\ x.gens[k].last = d.gens[k].last
    BY <1>4, MovedFacts
  <2>2. x.gens[k].disp # "none"
    BY <1>4, <2>1 DEF Moved
  <2>3. LastTries(x, k) = LastTries(d, k)
    BY <1>1, <1>2, <2>1, <2>2 DEF Grown
  <2> QED
    BY <2>1, <2>3 DEF Promised, SameCheck
<1>5. CASE Begun(d, x, k)
  <2>1. /\ d.gens[k].disp = "none" /\ x.gens[k].disp = "active"
        /\ x.rows[x.gens[k].last].tries = 1
    BY <1>5 DEF Begun
  <2> QED
    BY <1>5, <2>1 DEF Promised, LastTries
<1>6. ASSUME NEW status \in {"cancelled", "failed"}, Renewed(d, x, k, status)
      PROVE  Promised(d, x, k)
  <2>1. /\ d.gens[k].disp = "active" /\ x.gens[k].disp = "active"
        /\ \/ LastTries(x, k) = LastTries(d, k)
           \/ LastTries(x, k) = LastTries(d, k) + 1
    BY <1>6 DEF Renewed, LastTries
  <2>2. LastTries(x, k) \in 1..MaxTries /\ LastTries(d, k) \in 1..MaxTries /\ MaxTries \in Nat
    BY <1>1, <1>2, <2>1, TemporalAssumption
  <2> QED
    BY <2>1, <2>2 DEF Promised, SameCheck
<1> QED
  BY <1>3, <1>4, <1>5, <1>6 DEF KeyStep

(* It may do it in two transactions, of which the second leaves it be.     *)
LEMMA PromiseKeptTwice ==
  ASSUME NEW d, NEW y, NEW x, NEW k \in Keys, Promised(d, y, k), SameCheck(y, x, k)
  PROVE  Promised(d, x, k)
  BY DEF Promised, SameCheck, Ends

(* Of the keys that are kept, or whose last attempt is moved to a status   *)
(* other than open and failed.                                             *)
LEMMA ArbitrableKept ==
  ASSUME NEW d \in Database, NEW x \in Database, Grown(d, x), NEW i, Arbitrable(d, i),
         \/ Kept(d, x, d.rows[i].key)
         \/ \E disp, status : /\ Moved(d, x, d.rows[i].key, disp, status)
                              /\ status \in {"in_progress", "done", "cancelled"}
  PROVE  Arbitrable(x, i)
<1> DEFINE k == d.rows[i].key
<1>1. /\ i \in DOMAIN d.rows /\ d.gens[k].last = i
      /\ d.rows[i].status \in {"in_progress", "done", "cancelled"}
  BY DEF Arbitrable
<1>2. i \in DOMAIN x.rows /\ x.rows[i].key = k /\ i # 0
  BY <1>1, RowFacts DEF Grown
<1>3. CASE Kept(d, x, k)
  <2>1. x.gens[k] = d.gens[k] /\ x.rows[i].status = d.rows[i].status
    BY <1>1, <1>2, <1>3 DEF Kept, KeptBut
  <2> QED
    BY <2>1, <1>1, <1>2 DEF Arbitrable
<1>4. CASE \E disp, status : /\ Moved(d, x, k, disp, status)
                             /\ status \in {"in_progress", "done", "cancelled"}
  <2>1. PICK disp, status : /\ Moved(d, x, k, disp, status)
                            /\ status \in {"in_progress", "done", "cancelled"}
    BY <1>4
  <2>2. x.gens[k] = [disp |-> disp, last |-> i] /\ x.rows[i].status = status
    BY <1>1, <2>1 DEF Moved
  <2> QED
    BY <2>1, <2>2, <1>1, <1>2 DEF Arbitrable
<1> QED
  BY <1>3, <1>4

(* A transaction that supersedes and does nothing else to a generation     *)
(* keeps what is open or still to be arbitrated as it needs to be.         *)
LEMMA SupersedingKeeps ==
  ASSUME NEW d \in Database, NEW x \in Database, GensSound(d), Grown(d, x), Superseding(d, x)
  PROVE  /\ Actives(x) \subseteq Actives(d)
         /\ AllOpen(d) => AllOpen(x)
         /\ OpenRows(d) = {} => OpenRows(x) = {}
         /\ \A i : Arbitrable(d, i) => Arbitrable(x, i)
         /\ NoneAnswered(d, x)
         /\ \A k \in Keys : KeyStep(d, x, k)
         /\ \A k \in Actives(x) : Kept(d, x, k)
<1>0. \A i \in DOMAIN d.rows : d.rows[i].key \in Keys /\ i # 0
  BY RowFacts
<1>1. ASSUME NEW k \in Actives(x)
      PROVE  Kept(d, x, k) /\ k \in Keys /\ x.gens[k].disp = "active"
  <2>1. k \in Keys /\ x.gens[k].disp = "active"
    BY DEF Actives
  <2>2. ~Moved(d, x, k, "superseded", "cancelled")
    BY <2>1 DEF Moved
  <2> QED
    BY <2>1, <2>2 DEF Superseding
<1>2. Actives(x) \subseteq Actives(d)
  BY <1>1 DEF Actives, Kept
<1>3. ASSUME AllOpen(d)
      PROVE  AllOpen(x)
  <2>1. SUFFICES ASSUME NEW k \in Actives(x)
                 PROVE  IsOpen(x.rows[x.gens[k].last])
    BY DEF AllOpen
  <2>2. /\ k \in Actives(d) /\ x.gens[k] = d.gens[k]
        /\ KeptBut(d, x, k, 0)
    BY <1>1, <1>2 DEF Kept
  <2>3. d.gens[k].last \in DOMAIN d.rows /\ d.rows[d.gens[k].last].key = k
    BY <2>2, ActiveFacts
  <2>4. IsOpen(d.rows[d.gens[k].last])
    BY <1>3, <2>2 DEF AllOpen
  <2>5. x.rows[d.gens[k].last].status = d.rows[d.gens[k].last].status
    BY <1>0, <2>2, <2>3 DEF KeptBut
  <2> QED
    BY <2>2, <2>4, <2>5 DEF IsOpen
<1>4. ASSUME NEW i \in DOMAIN d.rows
      PROVE  x.rows[i].status = d.rows[i].status \/ x.rows[i].status = "cancelled"
  <2>1. d.rows[i].key \in Keys /\ i # 0
    BY <1>0
  <2>2. CASE Kept(d, x, d.rows[i].key)
    BY <2>1, <2>2 DEF Kept, KeptBut
  <2>3. CASE Moved(d, x, d.rows[i].key, "superseded", "cancelled")
    <3>1. CASE i = d.gens[d.rows[i].key].last
      BY <2>3, <3>1 DEF Moved
    <3>2. CASE i # d.gens[d.rows[i].key].last
      BY <2>3, <3>2 DEF Moved, KeptBut
    <3> QED
      BY <3>1, <3>2
  <2> QED
    BY <2>1, <2>2, <2>3 DEF Superseding
<1>5. \A i \in DOMAIN x.rows : i \in DOMAIN d.rows
  <2>1. \A i \in DOMAIN x.rows : x.rows[i].key \in Keys
    BY RowFacts
  <2> QED
    BY <2>1 DEF Superseding, Kept, Moved, NoneNew
<1>6. ASSUME OpenRows(d) = {}
      PROVE  OpenRows(x) = {}
  BY <1>4, <1>5, <1>6 DEF OpenRows, IsOpen
<1>7. ASSUME NEW i, Arbitrable(d, i)
      PROVE  Arbitrable(x, i)
  <2>1. d.rows[i].key \in Keys
    BY <1>0, <1>7 DEF Arbitrable
  <2> QED
    BY <2>1, <1>7, ArbitrableKept DEF Superseding
<1>8. NoneAnswered(d, x)
  BY <1>4 DEF NoneAnswered
<1>9. \A k \in Keys : KeyStep(d, x, k)
  BY DEF Superseding, KeyStep, Ends, Statuses
<1> QED
  BY <1>1, <1>2, <1>3, <1>6, <1>7, <1>8, <1>9

----------------------------------------------------------------------------
(***************************************************************************)
(* Repair of closed owners.                                                *)
(***************************************************************************)
LEMMA ClosedSuperseded ==
  ASSUME NEW d, Sound(d), NEW K, K \subseteq Actives(d), \A k \in K : ~d.task[k.task].open
  PROVE  LET x == Superseded(d, K) IN
         /\ Sound(x) /\ Superseding(d, x) /\ Grown(d, x)
         /\ x.task = d.task /\ x.effects = d.effects /\ DOMAIN x.rows = DOMAIN d.rows
         /\ Actives(x) = Actives(d) \ K
<1> DEFINE x == Superseded(d, K)
<1>1. d \in Database /\ GensSound(d) /\ Currents(d)
  BY SoundFacts
<1>2. /\ x \in Database /\ x.task = d.task /\ x.effects = d.effects
      /\ DOMAIN x.rows = DOMAIN d.rows /\ Grown(d, x)
      /\ \A k \in K : Moved(d, x, k, "superseded", "cancelled")
      /\ \A k \in Keys \ K : Kept(d, x, k)
  BY <1>1, SupersededFacts
<1> HIDE DEF x
<1>3. Superseding(d, x)
  BY <1>2 DEF Superseding
<1>4. Actives(x) = Actives(d) \ K
  <2>1. \A k \in K : x.gens[k].disp = "superseded"
    BY <1>2, MovedFacts
  <2>2. \A k \in Keys \ K : x.gens[k] = d.gens[k]
    BY <1>2 DEF Kept
  <2> QED
    BY <2>1, <2>2 DEF Actives
<1>5. ASSUME NEW k \in Keys
      PROVE  Current(x, k)
  <2>1. CASE k \in K
    <3>1. /\ x.gens[k].disp = "superseded" /\ d.gens[k].disp = "active"
          /\ x.task[k.task] = d.task[k.task] /\ ~d.task[k.task].open
      BY <1>1, <1>2, <2>1, MovedFacts
    <3> QED
      BY <1>1, <3>1 DEF Currents, Current
  <2>2. CASE k \notin K
    <3>1. x.gens[k] = d.gens[k] /\ x.task[k.task] = d.task[k.task]
      BY <1>2, <2>2 DEF Kept
    <3> QED
      BY <1>1, <3>1, CurrentKept DEF Currents
  <2> QED
    BY <2>1, <2>2
<1>6. Cardinality(Actives(x)) <= MaxOpen
  BY <1>4, FewerActives
<1>7. TaskMovesOn(d, x)
  BY <1>2 DEF TaskMovesOn
<1>8. NoneAnswered(d, x) /\ \A k \in Keys : KeyStep(d, x, k)
  BY <1>1, <1>2, <1>3, SupersedingKeeps
<1>9. Currents(x)
  BY <1>5 DEF Currents
<1>10. Sound(x)
  BY <1>2, <1>6, <1>7, <1>8, <1>9, SoundStep
<1> QED
  BY <1>2, <1>3, <1>4, <1>10 DEF x

(* repairClosedTemporalGenerations: it supersedes, and every active check  *)
(* is of an open task.                                                     *)
LEMMA RepairedFacts ==
  ASSUME NEW d, Sound(d)
  PROVE  LET x == Repaired(d) IN
         /\ Sound(x) /\ Superseding(d, x) /\ Grown(d, x)
         /\ x.task = d.task /\ x.effects = d.effects /\ DOMAIN x.rows = DOMAIN d.rows
         /\ AllOwned(x)
<1> DEFINE K == {k \in Actives(d) : ~d.task[k.task].open}
           x == Superseded(d, K)
<1>1. K \subseteq Actives(d) /\ \A k \in K : ~d.task[k.task].open
  OBVIOUS
<1> HIDE DEF K
<1>2. /\ Sound(x) /\ Superseding(d, x) /\ Grown(d, x)
      /\ x.task = d.task /\ x.effects = d.effects /\ DOMAIN x.rows = DOMAIN d.rows
      /\ Actives(x) = Actives(d) \ K
  BY <1>1, ClosedSuperseded
<1> HIDE DEF x
<1>3. AllOwned(x)
  BY <1>2 DEF AllOwned, K
<1>4. x = Repaired(d)
  BY DEF x, K, Repaired
<1> QED
  BY <1>2, <1>3, <1>4

----------------------------------------------------------------------------
(***************************************************************************)
(* Edits of the owner.                                                     *)
(***************************************************************************)

(* A database whose ledger is the same is as sound in it.                  *)
LEMMA SameLedger ==
  ASSUME NEW d, NEW s, s.gens = d.gens, s.rows = d.rows
  PROVE  /\ GensSound(d) => GensSound(s)
         /\ Actives(s) = Actives(d) /\ OpenRows(s) = OpenRows(d)
         /\ \A x : Grown(s, x) => Grown(d, x)
         /\ \A x, k : Kept(s, x, k) => Kept(d, x, k)
         /\ \A x, k : Moved(s, x, k, "superseded", "cancelled")
                        => Moved(d, x, k, "superseded", "cancelled")
<1>1. GensSound(d) => GensSound(s)
  BY DEF GensSound, GenSound, Rowless, Attempted, FailedBefore
<1>2. Actives(s) = Actives(d) /\ OpenRows(s) = OpenRows(d)
  BY DEF Actives, OpenRows
<1>3. \A x : Grown(s, x) => Grown(d, x)
  BY DEF Grown
<1>4. \A x, k : Kept(s, x, k) => Kept(d, x, k)
  BY DEF Kept, KeptBut, NoneNew
<1>5. \A x, k : Moved(s, x, k, "superseded", "cancelled")
                  => Moved(d, x, k, "superseded", "cancelled")
  BY DEF Moved, KeptBut, NoneNew
<1> QED
  BY <1>1, <1>2, <1>3, <1>4, <1>5

(* Saving a task and superseding generations.                              *)
LEMMA SavedFacts ==
  ASSUME NEW d \in Database, GensSound(d), NEW t \in Tasks, NEW new \in Task,
         NEW K, K \subseteq Actives(d),
         NEW x, x = Superseded([d EXCEPT !.task[t] = new], K)
  PROVE  /\ x \in Database /\ x.effects = d.effects /\ Grown(d, x) /\ Superseding(d, x)
         /\ x.task[t] = new /\ \A u \in Tasks : u # t => x.task[u] = d.task[u]
         /\ \A k \in K : x.gens[k].disp = "superseded"
         /\ \A k \in Keys \ K : x.gens[k] = d.gens[k]
<1> DEFINE saved == [d EXCEPT !.task[t] = new]
           y     == Superseded(saved, K)
<1>0. x = y
  OBVIOUS
<1>1. saved = [task |-> [d.task EXCEPT ![t] = new], gens |-> d.gens,
               rows |-> d.rows, effects |-> d.effects]
  <2>1. d = [task |-> d.task, gens |-> d.gens, rows |-> d.rows, effects |-> d.effects]
    BY DatabaseFacts
  <2>2. saved = [d EXCEPT !.task = [d.task EXCEPT ![t] = new]]
    OBVIOUS
  <2> HIDE DEF saved
  <2> QED
    BY <2>1, <2>2
<1> HIDE DEF saved, y
<1>2. saved \in Database
  <2>1. [d.task EXCEPT ![t] = new] \in [Tasks -> Task]
    BY DatabaseFacts
  <2> QED
    BY <1>1, <2>1, DatabaseFacts DEF Database
<1>3. GensSound(saved) /\ Actives(saved) = Actives(d)
  BY <1>1, SameLedger
<1>4. /\ y \in Database /\ y.task = saved.task /\ y.effects = saved.effects
      /\ Grown(saved, y)
      /\ \A k \in K : Moved(saved, y, k, "superseded", "cancelled")
      /\ \A k \in Keys \ K : Kept(saved, y, k)
  BY <1>2, <1>3, SupersededFacts DEF y
<1>5. /\ Grown(d, y)
      /\ \A k \in K : Moved(d, y, k, "superseded", "cancelled")
      /\ \A k \in Keys \ K : Kept(d, y, k)
  <2>1. saved.gens = d.gens /\ saved.rows = d.rows
    BY <1>1
  <2> QED
    BY <2>1, <1>4, SameLedger
<1>6. Superseding(d, y)
  BY <1>5 DEF Superseding
<1>7. y.task = [d.task EXCEPT ![t] = new] /\ y.effects = d.effects
  BY <1>1, <1>4
<1>8. y.task[t] = new /\ \A u \in Tasks : u # t => y.task[u] = d.task[u]
  BY <1>7, DatabaseFacts
<1>9. \A k \in K : y.gens[k].disp = "superseded"
  BY <1>5, MovedFacts
<1>10. \A k \in Keys \ K : y.gens[k] = d.gens[k]
  BY <1>5 DEF Kept
<1> QED
  BY <1>0, <1>4, <1>5, <1>6, <1>7, <1>8, <1>9, <1>10

(* It keeps the database sound when what remains of the task's generations *)
(* stands to the saved task as it should.                                  *)
LEMMA SavedSound ==
  ASSUME NEW d, Sound(d), NEW t \in Tasks, NEW new \in Task,
         new.rev > d.task[t].rev,
         NEW K, K \subseteq ActivesOf(d, t),
         NEW x, x = Superseded([d EXCEPT !.task[t] = new], K),
         \A k \in Keys : k.task = t => Current(x, k),
         ~new.open /\ d.task[t].open => ActivesOf(d, t) \subseteq K
  PROVE  /\ Sound(x) /\ Superseding(d, x) /\ Grown(d, x) /\ x.effects = d.effects
         /\ AllOwned(d) => AllOwned(x)
<1>1. d \in Database /\ GensSound(d) /\ Currents(d) /\ K \subseteq Actives(d)
  BY SoundFacts DEF ActivesOf
<1>2. /\ x \in Database /\ x.effects = d.effects /\ Grown(d, x) /\ Superseding(d, x)
      /\ x.task[t] = new /\ \A u \in Tasks : u # t => x.task[u] = d.task[u]
      /\ \A k \in K : x.gens[k].disp = "superseded"
      /\ \A k \in Keys \ K : x.gens[k] = d.gens[k]
  BY <1>1, SavedFacts
<1>3. /\ Actives(x) \subseteq Actives(d) /\ NoneAnswered(d, x)
      /\ \A k \in Keys : KeyStep(d, x, k)
  BY <1>1, <1>2, SupersedingKeeps
<1>4. ASSUME NEW k \in Keys
      PROVE  Current(x, k)
  <2>1. CASE k.task = t
    BY <2>1
  <2>2. CASE k.task # t
    <3>1. k \notin K /\ k.task \in Tasks
      BY <2>2, KeyFacts DEF ActivesOf
    <3>2. x.gens[k] = d.gens[k] /\ x.task[k.task] = d.task[k.task]
      BY <3>1, <2>2, <1>2
    <3> QED
      BY <1>1, <3>2, CurrentKept DEF Currents
  <2> QED
    BY <2>1, <2>2
<1>5. Cardinality(Actives(x)) <= MaxOpen
  BY <1>3, FewerActives
<1>6. TaskMovesOn(d, x)
  BY <1>2 DEF TaskMovesOn
<1>7. Currents(x)
  BY <1>4 DEF Currents
<1>8. Sound(x)
  BY <1>2, <1>3, <1>5, <1>6, <1>7, SoundStep
<1>9. ASSUME AllOwned(d)
      PROVE  AllOwned(x)
  <2>1. SUFFICES ASSUME NEW k \in Actives(x) PROVE x.task[k.task].open
    BY DEF AllOwned
  <2>2. k \in Keys /\ k \in Actives(d) /\ k.task \in Tasks /\ d.task[k.task].open
    BY <1>3, <1>9, KeyFacts DEF AllOwned, Actives
  <2>3. k \notin K
    BY <1>2 DEF Actives
  <2>4. CASE k.task = t
    <3>1. k \in ActivesOf(d, t) /\ d.task[t].open
      BY <2>2, <2>4 DEF ActivesOf
    <3>2. new.open
      BY <2>3, <3>1
    <3> QED
      BY <2>4, <3>2, <1>2
  <2>5. CASE k.task # t
    BY <2>2, <2>5, <1>2
  <2> QED
    BY <2>4, <2>5
<1> QED
  BY <1>2, <1>8, <1>9

(* A record with the fields of a task.                                     *)
TaskFields == {"open", "due", "epoch", "rev", "reconciled", "next", "last"}

(* A task is the record of its seven fields.                               *)
LEMMA TaskShape ==
  /\ \A tk \in Task : tk = [f \in TaskFields |-> tk[f]]
  /\ \A y : y = [f \in TaskFields |-> y[f]] =>
       y = [open |-> y.open, due |-> y.due, epoch |-> y.epoch, rev |-> y.rev,
            reconciled |-> y.reconciled, next |-> y.next, last |-> y.last]
<1>1. ASSUME NEW tk \in Task
      PROVE  tk = [f \in TaskFields |-> tk[f]]
  BY DEF Task, TaskFields
<1>2. ASSUME NEW y, y = [f \in TaskFields |-> y[f]]
      PROVE  y = [open |-> y.open, due |-> y.due, epoch |-> y.epoch, rev |-> y.rev,
                  reconciled |-> y.reconciled, next |-> y.next, last |-> y.last]
  BY <1>2 DEF TaskFields
<1> QED
  BY <1>1, <1>2

(* What an edit makes of a task.                                           *)
LEMMA EditOf ==
  ASSUME NEW tk \in Task, NEW open, NEW due
  PROVE  /\ [tk EXCEPT !.open = open, !.rev = @ + 1]
              = [open |-> open, due |-> tk.due, epoch |-> tk.epoch, rev |-> tk.rev + 1,
                 reconciled |-> tk.reconciled, next |-> tk.next, last |-> tk.last]
         /\ [tk EXCEPT !.open = open, !.due = due, !.rev = @ + 1, !.epoch = @ + 1,
                       !.reconciled = 0, !.next = Never, !.last = 0]
              = [open |-> open, due |-> due, epoch |-> tk.epoch + 1, rev |-> tk.rev + 1,
                 reconciled |-> 0, next |-> Never, last |-> 0]
<1> DEFINE same == [tk EXCEPT !.open = open, !.rev = @ + 1]
           anew == [tk EXCEPT !.open = open, !.due = due, !.rev = @ + 1, !.epoch = @ + 1,
                              !.reconciled = 0, !.next = Never, !.last = 0]
<1>0. tk = [f \in TaskFields |-> tk[f]]
  BY TaskShape
<1>1. /\ same = [f \in TaskFields |-> same[f]]
      /\ same.open = open /\ same.due = tk.due /\ same.epoch = tk.epoch
      /\ same.rev = tk.rev + 1 /\ same.reconciled = tk.reconciled
      /\ same.next = tk.next /\ same.last = tk.last
  BY <1>0 DEF TaskFields
<1>2. /\ anew = [f \in TaskFields |-> anew[f]]
      /\ anew.open = open /\ anew.due = due /\ anew.epoch = tk.epoch + 1
      /\ anew.rev = tk.rev + 1 /\ anew.reconciled = 0 /\ anew.next = Never /\ anew.last = 0
  BY <1>0 DEF TaskFields
<1> HIDE DEF same, anew
<1>3. same = [open |-> open, due |-> tk.due, epoch |-> tk.epoch, rev |-> tk.rev + 1,
              reconciled |-> tk.reconciled, next |-> tk.next, last |-> tk.last]
  BY <1>1, TaskShape
<1>4. anew = [open |-> open, due |-> due, epoch |-> tk.epoch + 1, rev |-> tk.rev + 1,
              reconciled |-> 0, next |-> Never, last |-> 0]
  BY <1>2, TaskShape
<1> QED
  BY <1>3, <1>4 DEF same, anew

(* Whatever the owner changes, the database stays sound.                   *)
LEMMA EditedFacts ==
  ASSUME NEW d, Sound(d), NEW t \in Tasks, NEW open \in BOOLEAN, NEW touched \in BOOLEAN,
         NEW due \in Times \cup {Never},
         Moves(d.task[t], open, due) => d.task[t].epoch < MaxEpoch
  PROVE  LET x == Edited(d, t, open, due, touched) IN
         /\ Sound(x) /\ Superseding(d, x) /\ Grown(d, x) /\ x.effects = d.effects
         /\ AllOwned(d) => AllOwned(x)
<1> DEFINE tk    == d.task[t]
           anew  == [tk EXCEPT !.open = open, !.due = due, !.rev = @ + 1, !.epoch = @ + 1,
                               !.reconciled = 0, !.next = Never, !.last = 0]
           same  == [tk EXCEPT !.open = open, !.rev = @ + 1]
           x     == Edited(d, t, open, due, touched)
<1>0. d \in Database /\ GensSound(d) /\ Currents(d)
  BY SoundFacts
<1>1. /\ tk.open \in BOOLEAN /\ tk.due \in Times \cup {Never} /\ tk.next \in Times \cup {Never}
      /\ tk.epoch \in 1..MaxEpoch /\ tk.epoch \in Nat /\ tk.reconciled \in 0..MaxEpoch
      /\ tk.rev \in Nat /\ tk.last \in Nat /\ MaxEpoch \in Nat
      /\ tk = [open |-> tk.open, due |-> tk.due, epoch |-> tk.epoch, rev |-> tk.rev,
               reconciled |-> tk.reconciled, next |-> tk.next, last |-> tk.last]
  <2>1. MaxEpoch \in Nat
    BY TemporalAssumption
  <2>2. \A e \in 1..MaxEpoch : e \in Nat
    BY <2>1
  <2>3. /\ tk.open \in BOOLEAN /\ tk.due \in Times \cup {Never} /\ tk.next \in Times \cup {Never}
        /\ tk.epoch \in 1..MaxEpoch /\ tk.reconciled \in 0..MaxEpoch
        /\ tk.rev \in Nat /\ tk.last \in Nat
        /\ tk = [open |-> tk.open, due |-> tk.due, epoch |-> tk.epoch, rev |-> tk.rev,
                 reconciled |-> tk.reconciled, next |-> tk.next, last |-> tk.last]
    BY <1>0, TaskFacts
  <2> HIDE DEF tk
  <2> QED
    BY <2>1, <2>2, <2>3
<1>2. \A k \in ActivesOf(d, t) : k \in Keys /\ k.task = t /\ k.epoch = tk.epoch
  BY <1>0, ActivesPerTask DEF ActivesOf
<1>3. ActivesOf(d, t) \subseteq Actives(d)
  BY DEF ActivesOf
(* the present state of the task's generations                             *)
<1>4. ASSUME NEW k \in Keys, k.task = t, d.gens[k].disp # "none"
      PROVE  /\ k.epoch \in Nat /\ k.epoch <= tk.epoch
             /\ k.epoch = tk.epoch =>
                  /\ d.gens[k].disp \in {"active", "exhausted"} => k.at = CheckAt(tk)
                  /\ d.gens[k].disp \in {"resolved", "final_no_update"}
                       => tk.reconciled = tk.epoch
                  /\ d.gens[k].disp = "superseded" => ~tk.open
  BY <1>0, <1>4, KeyFacts DEF Currents, Current
<1>5. ASSUME NEW k \in Keys \ ActivesOf(d, t), k.task = t
      PROVE  d.gens[k].disp # "active"
  BY <1>5 DEF ActivesOf, Actives
<1>6. same = [open |-> open, due |-> tk.due, epoch |-> tk.epoch, rev |-> tk.rev + 1,
              reconciled |-> tk.reconciled, next |-> tk.next, last |-> tk.last]
  BY <1>0, TaskFacts, EditOf
<1>7. anew = [open |-> open, due |-> due, epoch |-> tk.epoch + 1, rev |-> tk.rev + 1,
              reconciled |-> 0, next |-> Never, last |-> 0]
  BY <1>0, TaskFacts, EditOf
<1>8. CASE Moves(tk, open, due)
  <2> DEFINE K == OlderThan(d, t, anew.epoch)
  <2>1. x = Superseded([d EXCEPT !.task[t] = anew], K)
    BY <1>8 DEF Edited
  <2>2. tk.epoch < MaxEpoch
    BY <1>8
  <2> HIDE DEF anew, x, tk
  <2>3. anew \in Task
    <3>1. tk.epoch + 1 \in 1..MaxEpoch
      BY <1>1, <2>2
    <3>2. 0 \in 0..MaxEpoch
      BY <1>1
    <3> QED
      BY <1>7, <3>1, <3>2, <1>1 DEF Task
  <2>4. K = ActivesOf(d, t)
    BY <1>1, <1>2, <1>7 DEF OlderThan
  <2> HIDE DEF K
  <2>5. /\ x.task[t] = anew
        /\ \A k \in K : x.gens[k].disp = "superseded"
        /\ \A k \in Keys \ K : x.gens[k] = d.gens[k]
    BY <1>0, <1>3, <2>1, <2>3, <2>4, SavedFacts
  <2>6. ASSUME NEW k \in Keys, k.task = t
        PROVE  Current(x, k)
    <3>1. CASE k \in K
      <4>1. k.epoch = tk.epoch
        BY <3>1, <2>4, <1>2
      <4>2. k.epoch <= anew.epoch /\ k.epoch # anew.epoch
        BY <4>1, <1>1, <1>7
      <4>3. x.gens[k].disp = "superseded" /\ x.task[k.task] = anew
        BY <2>5, <2>6, <3>1
      <4> QED
        BY <4>2, <4>3 DEF Current
    <3>2. CASE k \notin K /\ d.gens[k].disp # "none"
      <4>1. k.epoch \in Nat /\ k.epoch <= tk.epoch /\ d.gens[k].disp # "active"
        BY <3>2, <2>4, <2>6, <1>4, <1>5
      <4>2. k.epoch <= anew.epoch /\ k.epoch # anew.epoch
        BY <4>1, <1>1, <1>7
      <4>3. x.gens[k].disp # "active" /\ x.task[k.task] = anew
        BY <4>1, <2>5, <2>6, <3>2
      <4> QED
        BY <4>2, <4>3 DEF Current
    <3>3. CASE k \notin K /\ d.gens[k].disp = "none"
      BY <2>5, <3>3 DEF Current
    <3> QED
      BY <3>1, <3>2, <3>3
  <2>7. anew.rev > d.task[t].rev
    BY <1>1, <1>7 DEF tk
  <2>8. Sound(x) /\ Superseding(d, x) /\ Grown(d, x) /\ x.effects = d.effects
    BY <2>1, <2>3, <2>4, <2>6, <2>7, SavedSound
  <2>9. AllOwned(d) => AllOwned(x)
    BY <2>1, <2>3, <2>4, <2>6, <2>7, SavedSound
  <2> QED
    BY <2>8, <2>9 DEF x
<1>9. CASE ~Moves(tk, open, due) /\ tk.open /\ ~open
  <2> DEFINE K == ActivesOf(d, t)
  <2>1. x = Superseded([d EXCEPT !.task[t] = same], K)
    BY <1>9 DEF Edited
  <2> HIDE DEF same, x, tk
  <2>2. same \in Task
    BY <1>1, <1>6 DEF Task
  <2> HIDE DEF K
  <2>3. K \subseteq Actives(d)
    BY <1>3 DEF K
  <2>4. /\ x.task[t] = same
        /\ \A k \in K : x.gens[k].disp = "superseded"
        /\ \A k \in Keys \ K : x.gens[k] = d.gens[k]
    BY <1>0, <2>1, <2>2, <2>3, SavedFacts
  <2>5. CheckAt(same) = CheckAt(tk) /\ ~same.open
    BY <1>6, <1>9 DEF CheckAt
  <2>6. ASSUME NEW k \in Keys, k.task = t
        PROVE  Current(x, k)
    <3>1. CASE k \in K
      <4>1. k.epoch = tk.epoch
        BY <3>1, <1>2 DEF K
      <4>2. k.epoch <= same.epoch
        BY <4>1, <1>1, <1>6
      <4>3. x.gens[k].disp = "superseded" /\ x.task[k.task] = same
        BY <2>4, <2>6, <3>1
      <4> QED
        BY <2>5, <4>2, <4>3 DEF Current
    <3>2. CASE k \notin K /\ d.gens[k].disp # "none"
      <4>1. /\ k.epoch <= tk.epoch /\ d.gens[k].disp # "active"
            /\ k.epoch = tk.epoch =>
                 /\ d.gens[k].disp = "exhausted" => k.at = CheckAt(tk)
                 /\ d.gens[k].disp \in {"resolved", "final_no_update"}
                      => tk.reconciled = tk.epoch
        BY <3>2, <2>6, <1>4, <1>5 DEF K
      <4>2. x.gens[k] = d.gens[k] /\ x.task[k.task] = same
        BY <2>4, <2>6, <3>2
      <4>3. same.epoch = tk.epoch /\ same.reconciled = tk.reconciled
        BY <1>6
      <4> QED
        BY <4>1, <4>2, <4>3, <2>5 DEF Current
    <3>3. CASE k \notin K /\ d.gens[k].disp = "none"
      BY <2>4, <3>3 DEF Current
    <3> QED
      BY <3>1, <3>2, <3>3
  <2>7. same.rev > d.task[t].rev
    BY <1>1, <1>6 DEF tk
  <2>8. Sound(x) /\ Superseding(d, x) /\ Grown(d, x) /\ x.effects = d.effects
    BY <2>1, <2>2, <2>6, <2>7, SavedSound DEF K
  <2>9. AllOwned(d) => AllOwned(x)
    BY <2>1, <2>2, <2>6, <2>7, SavedSound DEF K
  <2> QED
    BY <2>8, <2>9 DEF x
<1>10. CASE ~Moves(tk, open, due) /\ ~(tk.open /\ ~open)
  <2>1. open = tk.open
    BY <1>1, <1>10 DEF Moves
  <2>2. CASE ~touched
    <3>1. x = d
      BY <1>10, <2>1, <2>2 DEF Edited
    <3>2. Superseding(d, d) /\ Grown(d, d)
      BY DEF Superseding, Kept, KeptBut, NoneNew, Grown
    <3> QED
      BY <3>1, <3>2
  <2>3. CASE touched
    <3>1. x = [d EXCEPT !.task[t] = same]
      BY <1>10, <2>3 DEF Edited
    <3> HIDE DEF same, x, tk
    <3>2. same \in Task
      BY <1>1, <1>6 DEF Task
    <3>3. x \in Database
      <4>1. d = [task |-> d.task, gens |-> d.gens, rows |-> d.rows, effects |-> d.effects]
        BY <1>0, DatabaseFacts
      <4>2. [d.task EXCEPT ![t] = same] \in [Tasks -> Task]
        BY <1>0, <3>2, DatabaseFacts
      <4>3. x = [d EXCEPT !.task = [d.task EXCEPT ![t] = same]]
        BY <3>1
      <4>4. x = [task |-> [d.task EXCEPT ![t] = same], gens |-> d.gens,
                 rows |-> d.rows, effects |-> d.effects]
        BY <4>1, <4>3
      <4> QED
        BY <1>0, <4>2, <4>4, DatabaseFacts DEF Database
    <3>4. x = Superseded([d EXCEPT !.task[t] = same], {})
      BY <3>1, <3>3, SupersededNone
    <3>5. /\ x.task[t] = same /\ \A k \in Keys : x.gens[k] = d.gens[k]
      BY <1>0, <3>2, <3>4, SavedFacts
    <3>6. /\ CheckAt(same) = CheckAt(tk) /\ same.open = tk.open
          /\ same.epoch = tk.epoch /\ same.reconciled = tk.reconciled
      BY <1>6, <2>1 DEF CheckAt
    <3>7. ASSUME NEW k \in Keys, k.task = t
          PROVE  Current(x, k)
      <4>1. x.gens[k] = d.gens[k] /\ x.task[k.task] = same /\ d.task[k.task] = tk
        BY <3>5, <3>7 DEF tk
      <4>2. Current(d, k)
        BY <1>0 DEF Currents
      <4> QED
        BY <3>6, <4>1, <4>2 DEF Current
    <3>8. same.rev > d.task[t].rev
      BY <1>1, <1>6 DEF tk
    <3>9. ~same.open /\ d.task[t].open => ActivesOf(d, t) \subseteq {}
      BY <3>6 DEF tk
    <3>10. Sound(x) /\ Superseding(d, x) /\ Grown(d, x) /\ x.effects = d.effects
      BY <3>2, <3>4, <3>7, <3>8, <3>9, SavedSound
    <3>11. AllOwned(d) => AllOwned(x)
      BY <3>2, <3>4, <3>7, <3>8, <3>9, SavedSound
    <3> QED
      BY <3>10, <3>11 DEF x
  <2> QED
    BY <2>2, <2>3
<1> QED
  BY <1>8, <1>9, <1>10

----------------------------------------------------------------------------
(***************************************************************************)
(* Claims, pauses, scans and resumes.                                      *)
(***************************************************************************)

(* Tasks stay, the active generations stay or become fewer or exhausted:   *)
(* how tasks stand to generations is kept.                                 *)
LEMMA CurrentsKept ==
  ASSUME NEW d, NEW x, Currents(d), x.task = d.task,
         \A k \in Keys : \/ x.gens[k].disp = d.gens[k].disp
                         \/ d.gens[k].disp = "active" /\ x.gens[k].disp = "exhausted"
  PROVE  Currents(x)
<1>1. SUFFICES ASSUME NEW k \in Keys PROVE Current(x, k)
  BY DEF Currents
<1>2. Current(d, k) /\ x.task[k.task] = d.task[k.task]
  BY DEF Currents
<1> QED
  BY <1>2, CurrentKept

(* claimNextWorkOrder keeps the database sound.                            *)
LEMMA ClaimedSound ==
  ASSUME NEW d, Sound(d), NEW i \in DOMAIN d.rows, d.rows[i].status = "pending"
  PROVE  LET x == ClaimedRow(d, i) IN
         /\ Sound(x) /\ Grown(d, x) /\ x.effects = d.effects
         /\ \A k \in Keys : KeyStep(d, x, k) /\ ~Begun(d, x, k)
         /\ AllOwned(d) => AllOwned(x)
         /\ AllOpen(d) => AllOpen(x)
         /\ \A j : Arbitrable(d, j) => Arbitrable(x, j)
         /\ Arbitrable(x, i)
<1> DEFINE x == ClaimedRow(d, i)
           k == d.rows[i].key
<1>1. d \in Database /\ GensSound(d) /\ Currents(d)
  BY SoundFacts
<1>2. /\ x \in Database /\ x.task = d.task /\ x.effects = d.effects /\ x.gens = d.gens
      /\ DOMAIN x.rows = DOMAIN d.rows /\ Grown(d, x)
      /\ k \in Keys /\ d.gens[k] = [disp |-> "active", last |-> i]
      /\ Moved(d, x, k, "active", "in_progress")
      /\ \A j \in Keys \ {k} : Kept(d, x, j)
      /\ x.rows[i].status = "in_progress"
      /\ \A j \in DOMAIN d.rows : j # i => x.rows[j] = d.rows[j]
  BY <1>1, ClaimedFacts
<1> HIDE DEF x
<1>3. \A j \in Keys : KeyStep(d, x, j)
  BY <1>2 DEF KeyStep, Statuses
<1>4. \A j \in Keys : ~Begun(d, x, j)
  BY <1>2 DEF Begun
<1>5. Actives(x) = Actives(d)
  BY <1>2 DEF Actives
<1>6. Currents(x)
  BY <1>1, <1>2, CurrentsKept
<1>7. NoneAnswered(d, x) /\ TaskMovesOn(d, x)
  BY <1>2 DEF NoneAnswered, TaskMovesOn
<1>8. Cardinality(Actives(x)) <= MaxOpen
  BY <1>5, FewerActives
<1>9. Sound(x)
  BY <1>2, <1>3, <1>6, <1>7, <1>8, SoundStep
<1>10. AllOwned(d) => AllOwned(x)
  BY <1>2, <1>5 DEF AllOwned
<1>11. ASSUME AllOpen(d)
       PROVE  AllOpen(x)
  <2>1. SUFFICES ASSUME NEW j \in Actives(d) PROVE IsOpen(x.rows[d.gens[j].last])
    BY <1>2, <1>5 DEF AllOpen
  <2>2. d.gens[j].last \in DOMAIN d.rows /\ IsOpen(d.rows[d.gens[j].last])
    BY <1>1, <1>11, ActiveFacts DEF AllOpen
  <2> QED
    BY <1>2, <2>2 DEF IsOpen
<1>12. ASSUME NEW j, Arbitrable(d, j)
       PROVE  Arbitrable(x, j)
  <2>1. d.rows[j].key \in Keys
    BY <1>1, <1>12, RowFacts DEF Arbitrable
  <2> QED
    BY <1>1, <1>2, <1>12, <2>1, ArbitrableKept
<1>13. Arbitrable(x, i)
  BY <1>2 DEF Arbitrable, Grown
<1> QED
  BY <1>2, <1>3, <1>4, <1>9, <1>10, <1>11, <1>12, <1>13 DEF x

(* pauseActiveTemporalWork keeps the database sound: every check stays     *)
(* with its last attempt.                                                  *)
LEMMA PausedSound ==
  ASSUME NEW d, Sound(d)
  PROVE  LET x == Paused(d) IN
         /\ Sound(x) /\ Grown(d, x) /\ x.effects = d.effects
         /\ \A k \in Keys : KeyStep(d, x, k) /\ ~Begun(d, x, k)
         /\ AllOwned(d) => AllOwned(x)
         /\ OpenRows(x) = {}
         /\ \A j : Arbitrable(d, j) => Arbitrable(x, j)
         /\ \A k \in Keys : SameCheck(d, x, k)
<1> DEFINE x == Paused(d)
<1>1. d \in Database /\ GensSound(d) /\ Currents(d)
  BY SoundFacts
<1>2. /\ x \in Database /\ x.task = d.task /\ x.effects = d.effects /\ x.gens = d.gens
      /\ DOMAIN x.rows = DOMAIN d.rows /\ Grown(d, x)
      /\ \A k \in Actives(d) : Moved(d, x, k, "active", "cancelled")
      /\ \A k \in Keys \ Actives(d) : Kept(d, x, k)
      /\ OpenRows(x) = {}
      /\ \A i \in DOMAIN d.rows :
           x.rows[i].status = d.rows[i].status \/ x.rows[i].status = "cancelled"
  BY <1>1, PausedFacts
<1> HIDE DEF x
<1>3. \A k \in Keys : KeyStep(d, x, k)
  BY <1>2 DEF KeyStep, Statuses
<1>4. \A k \in Keys : ~Begun(d, x, k)
  BY <1>2 DEF Begun
<1>5. Actives(x) = Actives(d)
  BY <1>2 DEF Actives
<1>6. Currents(x)
  BY <1>1, <1>2, CurrentsKept
<1>7. NoneAnswered(d, x) /\ TaskMovesOn(d, x)
  BY <1>2 DEF NoneAnswered, TaskMovesOn
<1>8. Cardinality(Actives(x)) <= MaxOpen
  BY <1>5, FewerActives
<1>9. Sound(x)
  BY <1>2, <1>3, <1>6, <1>7, <1>8, SoundStep
<1>10. AllOwned(d) => AllOwned(x)
  BY <1>2, <1>5 DEF AllOwned
<1>11. ASSUME NEW j, Arbitrable(d, j)
       PROVE  Arbitrable(x, j)
  <2>1. d.rows[j].key \in Keys
    BY <1>1, <1>11, RowFacts DEF Arbitrable
  <2> QED
    BY <1>1, <1>2, <1>11, <2>1, ArbitrableKept
<1>12. ASSUME NEW k \in Keys
       PROVE  SameCheck(d, x, k)
  <2>1. d.gens[k].disp # "none" => d.gens[k].last \in DOMAIN d.rows
    BY <1>1 DEF GensSound, GenSound, Attempted
  <2> QED
    BY <1>2, <2>1 DEF SameCheck, LastTries, Grown
<1> QED
  BY <1>2, <1>3, <1>4, <1>9, <1>10, <1>11, <1>12 DEF x

(* Open attempts and active generations bound one another.                 *)
LEMMA OpenCount ==
  ASSUME NEW d, Sound(d)
  PROVE  /\ IsFiniteSet(OpenRows(d)) /\ Cardinality(OpenRows(d)) \in Nat
         /\ Cardinality(OpenRows(d)) <= Cardinality(Actives(d))
         /\ AllOpen(d) => Cardinality(Actives(d)) <= Cardinality(OpenRows(d))
<1>1. d \in Database /\ GensSound(d) /\ Currents(d)
  BY SoundFacts
<1>2. IsFiniteSet(Actives(d)) /\ Actives(d) \subseteq Keys
  BY <1>1, ActivesPerTask
<1>3. /\ IsFiniteSet(OpenRows(d)) /\ Cardinality(OpenRows(d)) <= Cardinality(Actives(d))
  <2> DEFINE f == [i \in OpenRows(d) |-> d.rows[i].key]
  <2>1. ASSUME NEW i \in OpenRows(d)
        PROVE  d.rows[i].key \in Actives(d) /\ d.gens[d.rows[i].key].last = i
    <3>1. i \in DOMAIN d.rows /\ IsOpen(d.rows[i])
      BY DEF OpenRows
    <3>2. /\ d.rows[i].key \in Actives(d)
          /\ d.gens[d.rows[i].key] = [disp |-> "active", last |-> i]
      BY <1>1, <3>1, OpenFacts
    <3> QED
      BY <3>2
  <2>2. f \in [OpenRows(d) -> Actives(d)] /\ IsInjective(f)
    BY <2>1 DEF IsInjective
  <2>3. f \in Injection(OpenRows(d), Actives(d))
    BY <2>2 DEF Injection
  <2> HIDE DEF f
  <2> QED
    BY <2>3, <1>2, FS_Injection
<1>4. ASSUME AllOpen(d)
      PROVE  Cardinality(Actives(d)) <= Cardinality(OpenRows(d))
  <2>0. ASSUME NEW k \in Actives(d)
        PROVE  d.gens[k].last \in OpenRows(d) /\ d.rows[d.gens[k].last].key = k
    <3>1. d.gens[k].last \in DOMAIN d.rows /\ d.rows[d.gens[k].last].key = k
      BY <1>1, ActiveFacts
    <3>2. IsOpen(d.rows[d.gens[k].last])
      BY <1>4 DEF AllOpen
    <3> QED
      BY <3>1, <3>2 DEF OpenRows
  <2> DEFINE f == [k \in Actives(d) |-> d.gens[k].last]
  <2>1. \A k \in Actives(d) : /\ d.gens[k].last \in OpenRows(d)
                              /\ d.rows[d.gens[k].last].key = k
    BY <2>0
  <2>2. f \in [Actives(d) -> OpenRows(d)] /\ IsInjective(f)
    BY <2>1 DEF IsInjective
  <2>3. f \in Injection(Actives(d), OpenRows(d))
    BY <2>2 DEF Injection
  <2> HIDE DEF f
  <2> QED
    BY <2>3, <1>3, FS_Injection
<1> QED
  BY <1>3, <1>4, FS_CardinalityType

(* At most MaxOpen attempts are open.                                      *)
LEMMA OpenBound ==
  ASSUME NEW d, Sound(d)
  PROVE  Cardinality(OpenRows(d)) <= MaxOpen
<1>1. /\ Cardinality(OpenRows(d)) \in Nat
      /\ Cardinality(OpenRows(d)) <= Cardinality(Actives(d))
  BY OpenCount
<1>2. Cardinality(Actives(d)) <= MaxOpen /\ MaxOpen \in Nat /\ Cardinality(Actives(d)) \in Nat
  BY SoundFacts, ActivesPerTask
<1> QED
  BY <1>1, <1>2

(* What a scan takes: the next checks of open tasks, of distinct tasks,    *)
(* not begun and with none of their occurrence to wait for.                *)
LEMMA TakenFacts ==
  ASSUME NEW d, Sound(d), NEW now \in Times
  PROVE  LET K == Taken(d, now) IN
         /\ K \subseteq Keys /\ OnePerTask(K) /\ IsFiniteSet(K)
         /\ Cardinality(K) \in Nat /\ Room(d) \in Nat /\ Cardinality(K) <= Room(d)
         /\ \A k \in K : /\ d.gens[k].disp = "none" /\ d.task[k.task].open
                         /\ k.epoch = d.task[k.task].epoch
                         /\ k.at = CheckAt(d.task[k.task])
                         /\ Waits(d, k)
<1> DEFINE C == Candidates(d, now)
           K == Taken(d, now)
<1>1. d \in Database /\ GensSound(d) /\ Currents(d)
  BY SoundFacts
<1>2. ASSUME NEW k \in C
      PROVE  /\ k \in Keys /\ d.gens[k].disp = "none" /\ IsDue(d.task[k.task], now)
             /\ k = KeyOf(d, k.task) /\ k.epoch = d.task[k.task].epoch
             /\ k.at = CheckAt(d.task[k.task])
  <2>1. PICK t \in Tasks : /\ IsDue(d.task[t], now) /\ k = KeyOf(d, t)
                           /\ d.gens[KeyOf(d, t)].disp = "none"
    BY DEF Candidates
  <2>2. k.task = t /\ k.epoch = d.task[t].epoch /\ k.at = CheckAt(d.task[t])
    BY <2>1 DEF KeyOf
  <2>3. /\ d.task[t].epoch \in 1..MaxEpoch
        /\ d.task[t].due \in Times \cup {Never} /\ d.task[t].next \in Times \cup {Never}
    BY <1>1, TaskFacts
  <2>4. CheckAt(d.task[t]) \in Times
    <3>1. /\ CheckAt(d.task[t]) \in Times \cup {Never}
          /\ CheckAt(d.task[t]) <= now
      BY <2>1, <2>3 DEF CheckAt, IsDue
    <3>2. ~(Never <= now)
      BY TemporalAssumption DEF Never, Times
    <3> QED
      BY <3>1, <3>2
  <2>5. k \in Keys
    BY <2>1, <2>3, <2>4 DEF Keys, KeyOf
  <2> QED
    BY <2>1, <2>2, <2>5
<1>3. C \subseteq Keys
  BY <1>2
<1>4. OnePerTask(C)
  <2>1. SUFFICES ASSUME NEW j \in C, NEW k \in C, j.task = k.task PROVE j = k
    BY DEF OnePerTask
  <2>2. j = KeyOf(d, j.task) /\ k = KeyOf(d, k.task)
    BY <1>2
  <2> QED
    BY <2>1, <2>2
<1>5. ScanLimit \in Nat
  BY TemporalAssumption
<1>6. Room(d) \in Nat
  <2>1. Cardinality(OpenRows(d)) \in Nat /\ MaxOpen \in Nat
    BY OpenCount, SoundFacts
  <2> QED
    BY <2>1 DEF Room
<1> DEFINE F == First(ScanLimit, C)
<1> HIDE DEF C
<1>7. F \subseteq C
  BY <1>3, <1>4, <1>5, FirstBounded
<1>8. F \subseteq Keys /\ OnePerTask(F)
  BY <1>3, <1>4, <1>7 DEF OnePerTask
<1> HIDE DEF F
<1>9. K = First(Room(d), F)
  BY DEF Taken, F, C
<1> HIDE DEF K
<1>10. K \subseteq F /\ IsFiniteSet(K) /\ Cardinality(K) <= Room(d)
  BY <1>6, <1>8, <1>9, FirstBounded
<1>11. Cardinality(K) \in Nat
  BY <1>10, FS_CardinalityType
<1>12. K \subseteq Keys /\ OnePerTask(K)
  BY <1>8, <1>10 DEF OnePerTask
<1>13. ASSUME NEW k \in K
       PROVE  /\ d.gens[k].disp = "none" /\ d.task[k.task].open
              /\ k.epoch = d.task[k.task].epoch /\ k.at = CheckAt(d.task[k.task])
              /\ Waits(d, k)
  <2>1. /\ k \in Keys /\ d.gens[k].disp = "none" /\ IsDue(d.task[k.task], now)
        /\ k.epoch = d.task[k.task].epoch /\ k.at = CheckAt(d.task[k.task])
    BY <1>2, <1>7, <1>10
  <2>2. ASSUME NEW b \in Keys \ {k}, b.task = k.task, b.epoch = k.epoch,
               d.gens[b].disp \notin {"none", "deferred"}
        PROVE  FALSE
    <3>1. /\ b.epoch = d.task[b.task].epoch /\ d.task[b.task].open
          /\ d.task[b.task].reconciled # d.task[b.task].epoch
      BY <2>1, <2>2 DEF IsDue
    <3>2. d.gens[b].disp \in Ends \cup {"none", "active"}
      BY <1>1, GenFacts
    <3>3. d.gens[b].disp \in {"active", "exhausted"}
      BY <1>1, <2>2, <3>1, <3>2 DEF Currents, Current, Ends
    <3>4. b.at = k.at
      BY <1>1, <2>1, <2>2, <3>1, <3>3 DEF Currents, Current
    <3>5. /\ b = [task |-> b.task, epoch |-> b.epoch, at |-> b.at]
          /\ k = [task |-> k.task, epoch |-> k.epoch, at |-> k.at]
      BY <2>1, KeyFacts
    <3> QED
      BY <2>2, <3>4, <3>5
  <2> QED
    BY <2>1, <2>2 DEF IsDue, Waits
<1> QED
  BY <1>6, <1>10, <1>11, <1>12, <1>13 DEF K

(* A scan keeps the database sound and only begins checks.                 *)
LEMMA ScannedSound ==
  ASSUME NEW d, Sound(d), NEW now \in Times, AllOpen(d)
  PROVE  LET x == Scanned(d, now) IN
         /\ Sound(x) /\ Grown(d, x) /\ x.effects = d.effects
         /\ \A k \in Keys : KeyStep(d, x, k) /\ (Begun(d, x, k) => Waits(d, k))
         /\ AllOwned(d) => AllOwned(x)
         /\ AllOpen(x)
         /\ \A j : Arbitrable(d, j) => Arbitrable(x, j)
<1> DEFINE K  == Taken(d, now)
           tr == [k \in Keys |-> 1]
           x  == WithAttempts(d, K, tr)
<1>0. x = Scanned(d, now)
  BY DEF Scanned
<1>1. d \in Database /\ GensSound(d) /\ Currents(d)
  BY SoundFacts
<1>2. /\ K \subseteq Keys /\ OnePerTask(K) /\ IsFiniteSet(K)
      /\ Cardinality(K) \in Nat /\ Room(d) \in Nat /\ Cardinality(K) <= Room(d)
      /\ \A k \in K : /\ d.gens[k].disp = "none" /\ d.task[k.task].open
                      /\ k.epoch = d.task[k.task].epoch
                      /\ k.at = CheckAt(d.task[k.task])
                      /\ Waits(d, k)
  BY TakenFacts
<1>3. 1 \in 1..MaxTries
  BY TemporalAssumption
<1> HIDE DEF K
<1>4. \A k \in K : tr[k] = 1 /\ tr[k] \in 1..MaxTries
  BY <1>2, <1>3
<1> HIDE DEF tr
<1>5. /\ x \in Database /\ x.task = d.task /\ x.effects = d.effects
      /\ Grown(d, x) /\ \A i \in DOMAIN d.rows : x.rows[i] = d.rows[i]
      /\ \A k \in K :
           LET j == x.gens[k].last IN
           /\ x.gens[k].disp = "active" /\ OneNew(d, x, k, j) /\ x.rows[j] = NewRow(k, tr[k])
      /\ \A k \in Keys \ K : Kept(d, x, k)
  BY <1>1, <1>2, <1>4, AttemptsFacts
<1> HIDE DEF x
<1>6. ASSUME NEW k \in K
      PROVE  /\ Begun(d, x, k) /\ x.gens[k].disp = "active"
             /\ x.rows[x.gens[k].last].status = "pending"
  <2>1. /\ d.gens[k].disp = "none" /\ tr[k] = 1 /\ x.gens[k].disp = "active"
        /\ OneNew(d, x, k, x.gens[k].last)
        /\ x.rows[x.gens[k].last] = NewRow(k, tr[k])
    BY <1>2, <1>4, <1>5
  <2>2. x.rows[x.gens[k].last].tries = 1 /\ x.rows[x.gens[k].last].status = "pending"
    BY <2>1 DEF NewRow
  <2> QED
    BY <2>1, <2>2 DEF Begun
<1>7. \A k \in Keys : KeyStep(d, x, k)
  BY <1>5, <1>6 DEF KeyStep
<1>8. \A k \in Keys \ K : x.gens[k] = d.gens[k]
  BY <1>5 DEF Kept
<1>9. \A k \in Keys : Begun(d, x, k) => Waits(d, k)
  BY <1>2, <1>8 DEF Begun
<1>10. Actives(x) = Actives(d) \cup K
  BY <1>2, <1>5, <1>8 DEF Actives
<1>11. Currents(x)
  <2>1. SUFFICES ASSUME NEW k \in Keys PROVE Current(x, k)
    BY DEF Currents
  <2>2. CASE k \in K
    <3>1. k.epoch \in Nat /\ x.gens[k].disp = "active" /\ x.task[k.task] = d.task[k.task]
      BY <1>5, <2>2, KeyFacts
    <3>2. k.epoch <= d.task[k.task].epoch
      BY <1>2, <2>2, <3>1
    <3> QED
      BY <1>2, <2>2, <3>1, <3>2 DEF Current
  <2>3. CASE k \notin K
    <3>1. x.gens[k] = d.gens[k] /\ x.task[k.task] = d.task[k.task] /\ Current(d, k)
      BY <1>1, <1>5, <1>8, <2>3 DEF Currents
    <3> QED
      BY <3>1, CurrentKept
  <2> QED
    BY <2>2, <2>3
<1>12. Cardinality(Actives(x)) <= MaxOpen
  <2>1. /\ IsFiniteSet(Actives(d)) /\ Cardinality(Actives(d)) \in Nat
        /\ Cardinality(Actives(d)) <= MaxOpen /\ MaxOpen \in Nat
    BY <1>1, ActivesPerTask, SoundFacts
  <2>2. /\ Cardinality(OpenRows(d)) \in Nat
        /\ Cardinality(Actives(d)) <= Cardinality(OpenRows(d))
    BY OpenCount
  <2>3. Actives(d) \cap K = {}
    BY <1>2 DEF Actives
  <2>4. Cardinality(Actives(x)) =
          Cardinality(Actives(d)) + Cardinality(K) - Cardinality(Actives(d) \cap K)
    BY <1>2, <1>10, <2>1, FS_Union
  <2>5. Cardinality(Actives(d) \cap K) = 0
    BY <2>3, FS_EmptySet
  <2>6. Cardinality(Actives(x)) = Cardinality(Actives(d)) + Cardinality(K)
    BY <1>2, <2>1, <2>4, <2>5
  <2> QED
    BY <1>2, <2>1, <2>2, <2>6 DEF Room
<1>13. NoneAnswered(d, x) /\ TaskMovesOn(d, x)
  BY <1>5 DEF NoneAnswered, TaskMovesOn
<1>14. Sound(x)
  BY <1>5, <1>7, <1>11, <1>12, <1>13, SoundStep
<1>15. AllOwned(d) => AllOwned(x)
  BY <1>2, <1>5, <1>10 DEF AllOwned
<1>16. AllOpen(x)
  <2>1. SUFFICES ASSUME NEW k \in Actives(d) \cup K PROVE IsOpen(x.rows[x.gens[k].last])
    BY <1>10 DEF AllOpen
  <2>2. CASE k \in K
    BY <1>6, <2>2 DEF IsOpen
  <2>3. CASE k \notin K
    <3>1. k \in Keys /\ k \in Actives(d) /\ x.gens[k] = d.gens[k]
      BY <1>8, <2>1, <2>3 DEF Actives
    <3>2. d.gens[k].last \in DOMAIN d.rows /\ IsOpen(d.rows[d.gens[k].last])
      BY <1>1, <3>1, ActiveFacts DEF AllOpen
    <3> QED
      BY <1>5, <3>1, <3>2
  <2> QED
    BY <2>2, <2>3
<1>17. ASSUME NEW j, Arbitrable(d, j)
       PROVE  Arbitrable(x, j)
  <2>1. d.rows[j].key \in Keys /\ j \in DOMAIN d.rows
    BY <1>1, <1>17, RowFacts DEF Arbitrable
  <2>2. d.gens[d.rows[j].key].disp # "none"
    BY <1>1, <2>1 DEF GensSound, GenSound, Rowless
  <2>3. d.rows[j].key \notin K
    BY <1>2, <2>2
  <2> QED
    BY <1>1, <1>5, <1>17, <2>1, <2>3, ArbitrableKept
<1> QED
  BY <1>0, <1>5, <1>7, <1>9, <1>14, <1>15, <1>16, <1>17

(* A sound database can always be resumed.                                 *)
LEMMA ToResumeFacts ==
  ASSUME NEW d, Sound(d)
  PROVE  /\ CanResume(d) /\ ToResume(d) \subseteq Actives(d) /\ OnePerTask(ToResume(d))
         /\ \A k \in ToResume(d) :
              /\ k \in Keys /\ d.gens[k].disp = "active" /\ d.gens[k].last \in DOMAIN d.rows
              /\ d.rows[d.gens[k].last].status = "cancelled"
              /\ LastTries(d, k) \in 1..MaxTries
         /\ \A k \in Actives(d) \ ToResume(d) : IsOpen(d.rows[d.gens[k].last])
<1>1. d \in Database /\ GensSound(d) /\ Currents(d)
  BY SoundFacts
<1>2. ToResume(d) \subseteq Actives(d)
  BY DEF ToResume
<1>3. OnePerTask(ToResume(d))
  BY <1>1, <1>2, ActivesPerTask DEF OnePerTask
<1>4. ASSUME NEW k \in ToResume(d)
      PROVE  /\ k \in Keys /\ d.gens[k].disp = "active" /\ d.gens[k].last \in DOMAIN d.rows
             /\ d.rows[d.gens[k].last].status = "cancelled"
             /\ LastTries(d, k) \in 1..MaxTries
  <2>1. /\ k \in Keys /\ d.gens[k].disp = "active"
        /\ d.gens[k].last \in DOMAIN d.rows /\ d.rows[d.gens[k].last].key = k
        /\ d.rows[d.gens[k].last].status \in {"pending", "in_progress", "cancelled"}
    BY <1>1, <1>2, ActiveFacts
  <2>2. ~IsOpen(d.rows[d.gens[k].last])
    BY <2>1 DEF ToResume, OpenRows
  <2>3. LastTries(d, k) \in 1..MaxTries
    BY <1>1, <2>1, RowFacts DEF LastTries
  <2> QED
    BY <2>1, <2>2, <2>3 DEF IsOpen
<1>5. ASSUME NEW k \in Actives(d) \ ToResume(d)
      PROVE  IsOpen(d.rows[d.gens[k].last])
  <2>1. PICK i \in OpenRows(d) : d.rows[i].key = k
    BY DEF ToResume
  <2>2. i \in DOMAIN d.rows /\ IsOpen(d.rows[i])
    BY DEF OpenRows
  <2>3. d.gens[k] = [disp |-> "active", last |-> i]
    BY <1>1, <2>1, <2>2, OpenFacts
  <2> QED
    BY <2>2, <2>3
<1>6. CanResume(d)
  BY <1>4 DEF CanResume
<1> QED
  BY <1>2, <1>3, <1>4, <1>5, <1>6

(* What is resumed gets an attempt of the same try, and everything active  *)
(* has an open attempt again.                                              *)
LEMMA ResumedSound ==
  ASSUME NEW d, Sound(d)
  PROVE  LET x == Resumed(d) IN
         /\ Sound(x) /\ Grown(d, x) /\ x.effects = d.effects
         /\ \A k \in Keys : KeyStep(d, x, k) /\ ~Begun(d, x, k)
         /\ AllOwned(d) => AllOwned(x)
         /\ AllOpen(x)
         /\ \A k \in Keys : SameCheck(d, x, k)
<1> DEFINE K  == ToResume(d)
           tr == [k \in K |-> LastTries(d, k)]
           x  == WithAttempts(d, K, tr)
<1>0. x = Resumed(d)
  BY DEF Resumed
<1>1. d \in Database /\ GensSound(d) /\ Currents(d)
  BY SoundFacts
<1>2. /\ K \subseteq Actives(d) /\ K \subseteq Keys /\ OnePerTask(K)
      /\ \A k \in K :
           /\ k \in Keys /\ d.gens[k].disp = "active" /\ d.gens[k].last \in DOMAIN d.rows
           /\ d.rows[d.gens[k].last].status = "cancelled"
           /\ LastTries(d, k) \in 1..MaxTries
      /\ \A k \in Actives(d) \ K : IsOpen(d.rows[d.gens[k].last])
  BY ToResumeFacts DEF Actives
<1> HIDE DEF K
<1>3. \A k \in K : tr[k] = LastTries(d, k) /\ tr[k] \in 1..MaxTries
  BY <1>2
<1> HIDE DEF tr
<1>4. /\ x \in Database /\ x.task = d.task /\ x.effects = d.effects
      /\ Grown(d, x) /\ \A i \in DOMAIN d.rows : x.rows[i] = d.rows[i]
      /\ \A k \in K :
           LET j == x.gens[k].last IN
           /\ x.gens[k].disp = "active" /\ OneNew(d, x, k, j) /\ x.rows[j] = NewRow(k, tr[k])
      /\ \A k \in Keys \ K : Kept(d, x, k)
  BY <1>1, <1>2, <1>3, AttemptsFacts
<1> HIDE DEF x
<1>5. ASSUME NEW k \in K
      PROVE  /\ Renewed(d, x, k, "cancelled") /\ x.gens[k].disp = "active"
             /\ IsOpen(x.rows[x.gens[k].last]) /\ LastTries(x, k) = LastTries(d, k)
  <2>1. /\ d.gens[k].disp = "active" /\ x.gens[k].disp = "active"
        /\ tr[k] = d.rows[d.gens[k].last].tries
        /\ OneNew(d, x, k, x.gens[k].last)
        /\ x.rows[x.gens[k].last] = NewRow(k, tr[k])
    BY <1>2, <1>3, <1>4 DEF LastTries
  <2>2. /\ x.rows[x.gens[k].last].tries = d.rows[d.gens[k].last].tries
        /\ x.rows[x.gens[k].last].status = "pending"
    BY <2>1 DEF NewRow
  <2>3. x.rows[d.gens[k].last].status = "cancelled"
    BY <1>2, <1>4
  <2>4. KeptBut(d, x, k, d.gens[k].last)
    BY <1>4 DEF KeptBut
  <2> QED
    BY <2>1, <2>2, <2>3, <2>4 DEF Renewed, IsOpen, LastTries
<1>6. \A k \in Keys : KeyStep(d, x, k)
  BY <1>4, <1>5 DEF KeyStep
<1>7. \A k \in Keys \ K : x.gens[k] = d.gens[k]
  BY <1>4 DEF Kept
<1>8. \A k \in Keys : x.gens[k].disp = d.gens[k].disp
  BY <1>2, <1>5, <1>7
<1>9. \A k \in Keys : ~Begun(d, x, k)
  BY <1>8 DEF Begun
<1>10. Actives(x) = Actives(d)
  BY <1>8 DEF Actives
<1>11. Currents(x)
  BY <1>1, <1>4, <1>8, CurrentsKept
<1>12. NoneAnswered(d, x) /\ TaskMovesOn(d, x)
  BY <1>4 DEF NoneAnswered, TaskMovesOn
<1>13. Cardinality(Actives(x)) <= MaxOpen
  BY <1>10, FewerActives
<1>14. Sound(x)
  BY <1>4, <1>6, <1>11, <1>12, <1>13, SoundStep
<1>15. AllOwned(d) => AllOwned(x)
  BY <1>4, <1>10 DEF AllOwned
<1>16. AllOpen(x)
  <2>1. SUFFICES ASSUME NEW k \in Actives(d) PROVE IsOpen(x.rows[x.gens[k].last])
    BY <1>10 DEF AllOpen
  <2>2. CASE k \in K
    BY <1>5, <2>2
  <2>3. CASE k \notin K
    <3>1. k \in Keys /\ x.gens[k] = d.gens[k] /\ IsOpen(d.rows[d.gens[k].last])
      BY <1>2, <1>7, <2>3 DEF Actives
    <3>2. d.gens[k].last \in DOMAIN d.rows
      BY <1>1, ActiveFacts
    <3> QED
      BY <1>4, <3>1, <3>2
  <2> QED
    BY <2>2, <2>3
<1>17. ASSUME NEW k \in Keys
       PROVE  SameCheck(d, x, k)
  <2>1. CASE k \in K
    BY <1>5, <1>8, <2>1 DEF SameCheck
  <2>2. CASE k \notin K
    <3>1. d.gens[k].disp # "none" => d.gens[k].last \in DOMAIN d.rows
      BY <1>1 DEF GensSound, GenSound, Attempted
    <3> QED
      BY <1>4, <1>7, <2>2, <3>1 DEF SameCheck, LastTries
  <2> QED
    BY <2>1, <2>2
<1> QED
  BY <1>0, <1>4, <1>6, <1>9, <1>14, <1>15, <1>16, <1>17

----------------------------------------------------------------------------
(***************************************************************************)
(* Failures.                                                               *)
(***************************************************************************)

(* Superseding begins nothing.                                             *)
LEMMA SupersedingBegins ==
  ASSUME NEW d, NEW x, Superseding(d, x), NEW k \in Keys
  PROVE  ~Begun(d, x, k)
<1>1. CASE Kept(d, x, k)
  BY <1>1 DEF Kept, Begun
<1>2. CASE Moved(d, x, k, "superseded", "cancelled")
  BY <1>2, MovedFacts DEF Begun
<1> QED
  BY <1>1, <1>2 DEF Superseding

(* A transaction that fails the open attempt of one generation, exhausting *)
(* it or giving it another attempt, and keeps all others.                  *)
LEMMA OneFailed ==
  ASSUME NEW d, Sound(d), NEW i \in DOMAIN d.rows, NEW k \in Keys, d.rows[i].key = k,
         d.gens[k] = [disp |-> "active", last |-> i],
         NEW x \in Database, x.task = d.task, x.effects = d.effects, Grown(d, x),
         \/ Renewed(d, x, k, "failed")
         \/ Moved(d, x, k, "exhausted", "failed"),
         \A c \in Keys \ {k} : Kept(d, x, c)
  PROVE  /\ Sound(x)
         /\ \A c \in Keys : KeyStep(d, x, c) /\ ~Begun(d, x, c)
         /\ AllOwned(d) => AllOwned(x)
         /\ AllOpen(d) => AllOpen(x)
         /\ \A j : j # i /\ Arbitrable(d, j) => Arbitrable(x, j)
<1>1. d \in Database /\ GensSound(d) /\ Currents(d)
  BY SoundFacts
<1>2. /\ x.rows[i].status = "failed" /\ KeptBut(d, x, k, i)
      /\ x.gens[k].disp \in {"active", "exhausted"}
      /\ x.gens[k].disp = "active" => x.rows[x.gens[k].last].status = "pending"
  BY DEF Renewed, Moved, OneNew
<1>3. \A c \in Keys \ {k} : x.gens[c] = d.gens[c]
  BY DEF Kept
<1>4. \A j \in DOMAIN d.rows : j # 0 /\ d.rows[j].key \in Keys
  BY <1>1, RowFacts
<1>5. \A j \in DOMAIN d.rows : j # i => x.rows[j].status = d.rows[j].status
  BY <1>2, <1>4 DEF Kept, KeptBut
<1>6. \A c \in Keys : KeyStep(d, x, c)
  BY DEF KeyStep, Ends, Statuses
<1>7. \A c \in Keys : ~Begun(d, x, c)
  BY <1>3 DEF Begun
<1>8. Actives(x) \subseteq Actives(d)
  BY <1>3 DEF Actives
<1>9. Currents(x)
  BY <1>1, <1>2, <1>3, CurrentsKept
<1>10. NoneAnswered(d, x) /\ TaskMovesOn(d, x)
  BY <1>2, <1>5 DEF NoneAnswered, TaskMovesOn
<1>11. Cardinality(Actives(x)) <= MaxOpen
  BY <1>8, FewerActives
<1>12. Sound(x)
  BY <1>6, <1>9, <1>10, <1>11, SoundStep
<1>13. AllOwned(d) => AllOwned(x)
  BY <1>8 DEF AllOwned
<1>14. ASSUME AllOpen(d)
       PROVE  AllOpen(x)
  <2>1. SUFFICES ASSUME NEW c \in Actives(x) PROVE IsOpen(x.rows[x.gens[c].last])
    BY DEF AllOpen
  <2>2. CASE c = k
    BY <1>2, <2>2 DEF Actives, IsOpen
  <2>3. CASE c # k
    <3>1. c \in Actives(d) /\ x.gens[c] = d.gens[c]
      BY <1>3, <1>8, <2>3 DEF Actives
    <3>2. /\ d.gens[c].last \in DOMAIN d.rows /\ d.rows[d.gens[c].last].key = c
          /\ IsOpen(d.rows[d.gens[c].last])
      BY <1>1, <1>14, <3>1, ActiveFacts DEF AllOpen
    <3>3. x.rows[d.gens[c].last].status = d.rows[d.gens[c].last].status
      BY <1>5, <2>3, <3>2
    <3> QED
      BY <3>1, <3>2, <3>3 DEF IsOpen
  <2> QED
    BY <2>2, <2>3
<1>15. ASSUME NEW j, j # i, Arbitrable(d, j)
       PROVE  Arbitrable(x, j)
  <2>1. /\ j \in DOMAIN d.rows /\ d.rows[j].key \in Keys
        /\ d.gens[d.rows[j].key].last = j
    BY <1>4, <1>15 DEF Arbitrable
  <2>2. d.rows[j].key # k
    BY <1>15, <2>1
  <2> QED
    BY <1>1, <1>15, <2>1, <2>2, ArbitrableKept
<1> QED
  BY <1>6, <1>7, <1>12, <1>13, <1>14, <1>15

(* A failure that is accepted is of an open attempt.  It supersedes what a *)
(* closed task still has, or fails that attempt alone.                     *)
LEMMA FailedSound ==
  ASSUME NEW d, Sound(d), NEW i \in DOMAIN d.rows, FailAccepted(d, i), NEW retry \in BOOLEAN
  PROVE  LET x == FailedWork(d, i, retry) IN
         /\ i \in OpenRows(d)
         /\ Sound(x) /\ Grown(d, x) /\ x.effects = d.effects
         /\ \A c \in Keys : KeyStep(d, x, c) /\ ~Begun(d, x, c)
         /\ AllOwned(d) => AllOwned(x)
         /\ AllOpen(d) => AllOpen(x)
         /\ \A j : j # i /\ Arbitrable(d, j) => Arbitrable(x, j)
<1> DEFINE k == d.rows[i].key
           n == d.rows[i].tries
           x == FailedWork(d, i, retry)
<1>1. d \in Database /\ GensSound(d) /\ Currents(d)
  BY SoundFacts
<1>2. k \in Keys /\ n \in 1..MaxTries /\ MaxTries \in Nat
  BY <1>1, RowFacts, TemporalAssumption
<1>3. i \in OpenRows(d) /\ d.gens[k] = [disp |-> "active", last |-> i]
  BY DEF FailAccepted, ClosedOwner, Owned, OpenRows, IsOpen
<1>4. CASE ClosedOwner(d, i)
  <2> DEFINE K == ActivesOf(d, k.task)
             y == Superseded(d, K)
  <2>1. K \subseteq Actives(d) /\ \A c \in K : ~d.task[c.task].open
    BY <1>4 DEF ActivesOf, ClosedOwner
  <2>2. y = x
    BY <1>4 DEF FailedWork
  <2> HIDE DEF K, x
  <2>3. Sound(y) /\ Superseding(d, y) /\ Grown(d, y) /\ y.task = d.task /\ y.effects = d.effects
    BY <2>1, ClosedSuperseded
  <2> HIDE DEF y
  <2>4. y \in Database
    BY <2>3, SoundFacts
  <2>5. /\ Actives(y) \subseteq Actives(d)
        /\ AllOpen(d) => AllOpen(y)
        /\ \A j : Arbitrable(d, j) => Arbitrable(y, j)
        /\ \A c \in Keys : KeyStep(d, y, c)
    BY <1>1, <2>3, <2>4, SupersedingKeeps
  <2>6. \A c \in Keys : ~Begun(d, y, c)
    BY <2>3, SupersedingBegins
  <2>7. AllOwned(d) => AllOwned(y)
    BY <2>3, <2>5 DEF AllOwned
  <2> QED
    BY <1>3, <2>2, <2>3, <2>5, <2>6, <2>7 DEF x
<1>5. CASE ~ClosedOwner(d, i)
  <2> DEFINE rows == [d.rows EXCEPT ![i].status = "failed"]
             y    == WithFailed(d, i)
  <2>1. /\ y = [task |-> d.task, gens |-> d.gens, rows |-> rows, effects |-> d.effects]
        /\ rows \in Seq(Row) /\ DOMAIN rows = DOMAIN d.rows
        /\ rows[i].status = "failed"
        /\ \A j \in DOMAIN d.rows :
             /\ rows[j].key = d.rows[j].key /\ rows[j].tries = d.rows[j].tries
             /\ j # i => rows[j] = d.rows[j]
    <3>1. rows = [d.rows EXCEPT ![i].status = "failed"]
      OBVIOUS
    <3>5. "failed" \in Statuses /\ rows = WithRowStatus(d.rows, i, "failed")
      BY DEF Statuses, WithRowStatus
    <3>2. y = [d EXCEPT !.rows[i].status = "failed"]
      BY DEF WithFailed
    <3> HIDE DEF rows, y
    <3>3. y = [task |-> d.task, gens |-> d.gens, rows |-> rows, effects |-> d.effects]
      BY <1>1, <3>1, <3>2, StatusShape
    <3>4. /\ rows \in Seq(Row) /\ DOMAIN rows = DOMAIN d.rows
          /\ rows[i].status = "failed"
          /\ \A j \in DOMAIN d.rows :
               /\ rows[j].key = d.rows[j].key /\ rows[j].tries = d.rows[j].tries
               /\ j # i => rows[j] = d.rows[j]
      BY <1>1, <3>5, StatusFacts
    <3> QED
      BY <3>3, <3>4
  <2> HIDE DEF rows, y
  <2>2. y \in Database
    BY <1>1, <2>1, DatabaseFacts DEF Database
  <2>3. /\ y.task = d.task /\ y.gens = d.gens /\ y.rows = rows /\ y.effects = d.effects
    BY <2>1
  <2>4. \A j \in DOMAIN d.rows : d.rows[j].key # k => j # i
    OBVIOUS
  <2>5. CASE retry /\ n < MaxTries
    <3>1. x = WithAttempt(y, k, n + 1)
      BY <1>5, <2>5 DEF FailedWork, y
    <3>2. n + 1 \in 1..MaxTries
      BY <1>2, <2>5
    <3> DEFINE j == Len(y.rows) + 1
    <3> HIDE DEF x, k, n
    <3>3. /\ x \in Database /\ x.task = y.task /\ x.effects = y.effects
          /\ x.gens[k] = [disp |-> "active", last |-> j]
          /\ \A c \in Keys : c # k => x.gens[c] = y.gens[c]
          /\ DOMAIN x.rows = DOMAIN y.rows \cup {j}
          /\ \A m \in DOMAIN y.rows : m < j /\ x.rows[m] = y.rows[m]
          /\ x.rows[j] = NewRow(k, n + 1)
      BY <1>2, <2>2, <3>1, <3>2, AttemptFacts
    <3> HIDE DEF j
    <3>4. /\ Grown(d, x)
      BY <2>1, <2>3, <3>3 DEF Grown
    <3>5. x.rows[j].key = k /\ x.rows[j].tries = n + 1 /\ x.rows[j].status = "pending"
      BY <3>3 DEF NewRow
    <3>6. Renewed(d, x, k, "failed")
      <4>1. OneNew(d, x, k, j)
        BY <2>1, <2>3, <3>3, <3>5 DEF OneNew
      <4>2. KeptBut(d, x, k, i) /\ x.rows[i].status = "failed"
        BY <2>1, <2>3, <3>3 DEF KeptBut
      <4> QED
        BY <1>3, <3>3, <3>5, <4>1, <4>2 DEF Renewed, k, n
    <3>7. ASSUME NEW c \in Keys \ {k}
          PROVE  Kept(d, x, c)
      <4>1. x.gens[c] = d.gens[c]
        BY <2>3, <3>3
      <4>2. KeptBut(d, x, c, 0)
        BY <2>1, <2>3, <3>3 DEF KeptBut, k
      <4>3. NoneNew(d, x, c)
        BY <2>1, <2>3, <3>3, <3>5 DEF NoneNew
      <4> QED
        BY <4>1, <4>2, <4>3 DEF Kept
    <3>8. x.task = d.task /\ x.effects = d.effects /\ d.rows[i].key = k
      BY <2>3, <3>3 DEF k
    <3>9. /\ Sound(x)
          /\ \A c \in Keys : KeyStep(d, x, c) /\ ~Begun(d, x, c)
          /\ AllOwned(d) => AllOwned(x)
          /\ AllOpen(d) => AllOpen(x)
          /\ \A m : m # i /\ Arbitrable(d, m) => Arbitrable(x, m)
      BY <1>2, <1>3, <3>3, <3>4, <3>6, <3>7, <3>8, OneFailed DEF k
    <3> QED
      BY <1>3, <3>4, <3>8, <3>9 DEF x
  <2>6. CASE ~(retry /\ n < MaxTries)
    <3> DEFINE gens == [d.gens EXCEPT ![k].disp = "exhausted"]
    <3>1. x = [task |-> d.task, gens |-> gens, rows |-> rows, effects |-> d.effects]
      <4>1. x = [y EXCEPT !.gens[k].disp = "exhausted"]
        BY <1>5, <2>6 DEF FailedWork, y
      <4>2. x = [y EXCEPT !.gens = gens]
        BY <4>1, <2>3
      <4> HIDE DEF gens, x
      <4> QED
        BY <2>1, <4>2
    <3>2. /\ gens \in [Keys -> Gen]
          /\ gens[k] = [disp |-> "exhausted", last |-> i]
          /\ \A c \in Keys \ {k} : gens[c] = d.gens[c]
      <4>1. d.gens \in [Keys -> Gen]
        BY <1>1, DatabaseFacts
      <4>2. [d.gens[k] EXCEPT !.disp = "exhausted"] = [disp |-> "exhausted", last |-> i]
        BY <1>3
      <4>3. gens = [d.gens EXCEPT ![k] = [disp |-> "exhausted", last |-> i]]
        BY <4>2
      <4>4. [disp |-> "exhausted", last |-> i] \in Gen
        BY <1>1, RowFacts DEF Gen, Ends
      <4> HIDE DEF gens
      <4> QED
        BY <1>2, <4>1, <4>3, <4>4
    <3> HIDE DEF x, gens
    <3>3. x.task = d.task /\ x.gens = gens /\ x.rows = rows /\ x.effects = d.effects
      BY <3>1
    <3>4. x \in Database
      BY <1>1, <2>1, <3>1, <3>2, DatabaseFacts DEF Database
    <3>5. Grown(d, x)
      BY <2>1, <3>3 DEF Grown
    <3>6. Moved(d, x, k, "exhausted", "failed")
      <4>1. KeptBut(d, x, k, i) /\ NoneNew(d, x, k)
        BY <2>1, <3>3 DEF KeptBut, NoneNew
      <4> QED
        BY <1>3, <2>1, <3>2, <3>3, <4>1 DEF Moved, Fits
    <3>7. ASSUME NEW c \in Keys \ {k}
          PROVE  Kept(d, x, c)
      BY <2>1, <3>2, <3>3 DEF Kept, KeptBut, NoneNew
    <3>8. /\ Sound(x)
          /\ \A c \in Keys : KeyStep(d, x, c) /\ ~Begun(d, x, c)
          /\ AllOwned(d) => AllOwned(x)
          /\ AllOpen(d) => AllOpen(x)
          /\ \A m : m # i /\ Arbitrable(d, m) => Arbitrable(x, m)
      BY <1>2, <1>3, <3>3, <3>4, <3>5, <3>6, <3>7, OneFailed
    <3> QED
      BY <1>3, <3>3, <3>5, <3>8 DEF x
  <2> QED
    BY <2>5, <2>6
<1> QED
  BY <1>4, <1>5

----------------------------------------------------------------------------
(***************************************************************************)
(* Effects.                                                                *)
(***************************************************************************)

(* What an answer may be.                                                  *)
LEMMA AnswerFacts ==
  ASSUME NEW d \in Database, NEW i \in DOMAIN d.rows, NEW now \in Times,
         NEW a \in Answers(d, i, now)
  PROVE  LET tk == d.task[d.rows[i].key.task] IN
         /\ a.outcome \in {"resolved", "final_no_update", "deferred"}
         /\ a.open \in BOOLEAN
         /\ a.due \in Times \cup {Never} /\ a.next \in Times \cup {Never}
         /\ a.due # tk.due => a.outcome = "resolved" /\ tk.epoch < MaxEpoch
         /\ a.outcome # "deferred" => a.next = Never
  BY DEF Answers, Answer

(* The task after an answer, and the receipt of it.                        *)
TaskAfter(d, i, a) ==
  LET k  == d.rows[i].key
      tk == d.task[k.task] IN
  [open |-> a.open, due |-> a.due,
   epoch |-> IF a.due # tk.due THEN tk.epoch + 1 ELSE tk.epoch,
   rev |-> tk.rev + 1,
   reconciled |-> IF a.outcome = "deferred" THEN tk.reconciled ELSE k.epoch,
   next |-> a.next, last |-> i]

Receipt(d, i, a) ==
  [attempt |-> i, outcome |-> a.outcome,
   before |-> d.task[d.rows[i].key.task].rev, next |-> a.next]

(* The commit of an answer: the task is saved, the generation ends, its    *)
(* attempt is done and the receipt is written.  No other generation of the *)
(* task is active, so that none is left to supersede.                      *)
LEMMA AppliedFacts ==
  ASSUME NEW d, Sound(d), NEW i \in DOMAIN d.rows, Owned(d, i),
         NEW now \in Times, NEW a \in Answers(d, i, now)
  PROVE  LET x  == Applied(d, i, a)
             k  == d.rows[i].key
             t  == k.task IN
         /\ x \in Database /\ Grown(d, x)
         /\ x.task[t] = TaskAfter(d, i, a)
         /\ \A u \in Tasks : u # t => x.task[u] = d.task[u]
         /\ Moved(d, x, k, a.outcome, "done")
         /\ \A c \in Keys \ {k} : Kept(d, x, c)
         /\ \A j \in DOMAIN d.rows : j # i => x.rows[j] = d.rows[j]
         /\ x.effects = d.effects \cup {Receipt(d, i, a)}
<1> DEFINE k  == d.rows[i].key
           t  == k.task
           tk == d.task[t]
           moved == a.due # tk.due
           new == [tk EXCEPT !.open = a.open, !.due = a.due, !.rev = @ + 1,
                             !.epoch = IF moved THEN @ + 1 ELSE @,
                             !.reconciled = IF a.outcome = "deferred" THEN @ ELSE k.epoch,
                             !.next = a.next, !.last = i]
           after == [open |-> a.open, due |-> a.due,
                     epoch |-> IF a.due # tk.due THEN tk.epoch + 1 ELSE tk.epoch,
                     rev |-> tk.rev + 1,
                     reconciled |-> IF a.outcome = "deferred" THEN tk.reconciled ELSE k.epoch,
                     next |-> a.next, last |-> i]
           e == [attempt |-> i, outcome |-> a.outcome, before |-> tk.rev, next |-> a.next]
           saved == [d EXCEPT !.task[t] = new]
           older == IF moved THEN Superseded(saved, OlderThan(saved, t, new.epoch) \ {k})
                    ELSE saved
           Own(s) == [s EXCEPT !.gens[k].disp = a.outcome, !.rows[i].status = "done",
                               !.effects = @ \cup {e}]
           own == Own(saved)
           x == Applied(d, i, a)
           tasks == [d.task EXCEPT ![t] = after]
           gens  == [d.gens EXCEPT ![k].disp = a.outcome]
           rows  == [d.rows EXCEPT ![i].status = "done"]
<1>1. d \in Database /\ GensSound(d) /\ Currents(d)
  BY SoundFacts
<1>2. /\ k \in Keys /\ t \in Tasks /\ k.epoch \in 1..MaxEpoch /\ i \in Nat
      /\ d.gens[k] = [disp |-> "active", last |-> i]
  BY <1>1, RowFacts, KeyFacts DEF Owned
<1>3. /\ tk \in Task /\ tk.epoch \in 1..MaxEpoch /\ tk.rev \in Nat
      /\ tk.reconciled \in 0..MaxEpoch
  BY <1>1, <1>2, TaskFacts
<1>4. /\ a.outcome \in {"resolved", "final_no_update", "deferred"} /\ a.open \in BOOLEAN
      /\ a.due \in Times \cup {Never} /\ a.next \in Times \cup {Never}
      /\ a.due # tk.due => tk.epoch < MaxEpoch
  BY <1>1, AnswerFacts
<1>5. new = after
  <2> DEFINE E == IF moved THEN tk.epoch + 1 ELSE tk.epoch
             R == IF a.outcome = "deferred" THEN tk.reconciled ELSE k.epoch
  <2>1. new = [tk EXCEPT !.open = a.open, !.due = a.due, !.rev = @ + 1, !.epoch = E,
                         !.reconciled = R, !.next = a.next, !.last = i]
    OBVIOUS
  <2>2. after = [open |-> a.open, due |-> a.due, epoch |-> E, rev |-> tk.rev + 1,
                 reconciled |-> R, next |-> a.next, last |-> i]
    OBVIOUS
  <2> HIDE DEF E, R, after, tk, new
  <2>3. tk = [f \in TaskFields |-> tk[f]]
    BY <1>3, TaskShape
  <2>6. "open" \in DOMAIN tk /\ "due" \in DOMAIN tk /\ "rev" \in DOMAIN tk /\ "epoch" \in DOMAIN tk
        /\ "reconciled" \in DOMAIN tk /\ "next" \in DOMAIN tk /\ "last" \in DOMAIN tk
        /\ DOMAIN tk = TaskFields
    BY <2>3 DEF TaskFields
  <2>7. new = [f \in TaskFields |-> new[f]]
    BY <2>1, <2>6
  <2>4. /\ new = [f \in TaskFields |-> new[f]]
        /\ new.open = a.open /\ new.due = a.due /\ new.rev = tk.rev + 1
        /\ new.epoch = E /\ new.reconciled = R
        /\ new.next = a.next /\ new.last = i
    <3>1. new.open = a.open /\ new.due = a.due /\ new.rev = tk.rev + 1
      BY <2>1, <2>6
    <3>2. new.epoch = E /\ new.reconciled = R
      BY <2>1, <2>6
    <3>3. new.next = a.next /\ new.last = i
      BY <2>1, <2>6
    <3> QED
      BY <2>7, <3>1, <3>2, <3>3
  <2>5. new = [open |-> new.open, due |-> new.due, epoch |-> new.epoch, rev |-> new.rev,
               reconciled |-> new.reconciled, next |-> new.next, last |-> new.last]
    BY <2>4, TaskShape
  <2> QED
    BY <2>2, <2>4, <2>5
<1>6. after \in Task
  <2>1. MaxEpoch \in Nat
    BY TemporalAssumption
  <2>2. (IF a.due # tk.due THEN tk.epoch + 1 ELSE tk.epoch) \in 1..MaxEpoch
    <3> DEFINE n == tk.epoch
    <3>1. n \in 1..MaxEpoch /\ (a.due # tk.due => n < MaxEpoch)
      BY <1>3, <1>4
    <3> HIDE DEF n
    <3>2. n \in 1..MaxEpoch /\ (n < MaxEpoch => n + 1 \in 1..MaxEpoch)
      BY <2>1, <3>1
    <3> QED
      BY <3>1, <3>2 DEF n
  <2>3. (IF a.outcome = "deferred" THEN tk.reconciled ELSE k.epoch) \in 0..MaxEpoch
    BY <1>2, <1>3, <2>1
  <2>4. tk.rev + 1 \in Nat
    BY <1>3
  <2> DEFINE E == IF a.due # tk.due THEN tk.epoch + 1 ELSE tk.epoch
             R == IF a.outcome = "deferred" THEN tk.reconciled ELSE k.epoch
  <2>5. E \in 1..MaxEpoch /\ R \in 0..MaxEpoch
    BY <2>2, <2>3
  <2>6. after = [open |-> a.open, due |-> a.due, epoch |-> E, rev |-> tk.rev + 1,
                 reconciled |-> R, next |-> a.next, last |-> i]
    OBVIOUS
  <2> HIDE DEF tk, k, E, R, after
  <2> QED
    BY <1>2, <1>4, <2>4, <2>5, <2>6 DEF Task
<1>7. ActivesOf(d, t) = {k}
  <2>1. OnePerTask(Actives(d)) /\ k \in Actives(d)
    BY <1>1, <1>2, ActivesPerTask DEF Actives
  <2> QED
    BY <2>1 DEF ActivesOf, OnePerTask
<1>8. x = IF a.open THEN Own(older) ELSE Superseded(Own(older), ActivesOf(Own(older), t))
  BY DEF Applied
<1> HIDE DEF new, after, x, e, tk
<1>9. saved = [task |-> tasks, gens |-> d.gens, rows |-> d.rows, effects |-> d.effects]
  <2>1. d = [task |-> d.task, gens |-> d.gens, rows |-> d.rows, effects |-> d.effects]
    BY <1>1, DatabaseFacts
  <2>2. saved = [d EXCEPT !.task = tasks]
    BY <1>5
  <2> HIDE DEF saved, tasks
  <2> QED
    BY <2>1, <2>2
<1>10. tasks \in [Tasks -> Task] /\ tasks[t] = after /\ \A u \in Tasks : u # t => tasks[u] = d.task[u]
  BY <1>1, <1>2, <1>6, DatabaseFacts
<1> HIDE DEF tasks
<1>11. saved \in Database
  BY <1>1, <1>9, <1>10, DatabaseFacts DEF Database
<1>12. OlderThan(saved, t, new.epoch) \ {k} = {}
  <2>1. Actives(saved) = Actives(d)
    BY <1>9 DEF Actives
  <2>2. ActivesOf(saved, t) = {k}
    BY <1>7, <2>1 DEF ActivesOf
  <2> QED
    BY <2>2 DEF OlderThan
<1>13. x = IF a.open THEN own ELSE Superseded(own, ActivesOf(own, t))
  <2>1. Superseded(saved, {}) = saved
    BY <1>11, SupersededNone
  <2>2. older = saved
    BY <1>12, <2>1
  <2> HIDE DEF older, Own, saved
  <2> QED
    BY <1>8, <2>2
<1>14. own = [task |-> tasks, gens |-> gens, rows |-> rows, effects |-> d.effects \cup {e}]
  <2> DEFINE efs == d.effects \cup {e}
  <2>1. own = [saved EXCEPT !.gens = gens, !.rows = rows, !.effects = efs]
    BY <1>9
  <2> HIDE DEF own, saved, gens, rows, efs
  <2>2. own = [task |-> tasks, gens |-> gens, rows |-> rows, effects |-> efs]
    BY <1>9, <2>1
  <2> QED
    BY <2>2 DEF efs
<1>15. /\ gens \in [Keys -> Gen] /\ gens[k] = [disp |-> a.outcome, last |-> i]
       /\ \A c \in Keys \ {k} : gens[c] = d.gens[c]
  <2>1. d.gens \in [Keys -> Gen]
    BY <1>1, DatabaseFacts
  <2>2. [d.gens[k] EXCEPT !.disp = a.outcome] = [disp |-> a.outcome, last |-> i]
    BY <1>2
  <2>3. gens = [d.gens EXCEPT ![k] = [disp |-> a.outcome, last |-> i]]
    BY <2>2
  <2>4. [disp |-> a.outcome, last |-> i] \in Gen
    BY <1>2, <1>4 DEF Gen, Ends
  <2> HIDE DEF gens
  <2> QED
    BY <1>2, <2>1, <2>3, <2>4
<1>16. /\ rows \in Seq(Row) /\ DOMAIN rows = DOMAIN d.rows /\ rows[i].status = "done"
       /\ \A j \in DOMAIN d.rows :
            /\ rows[j].key = d.rows[j].key /\ rows[j].tries = d.rows[j].tries
            /\ j # i => rows[j] = d.rows[j]
  <2>1. rows = WithRowStatus(d.rows, i, "done") /\ "done" \in Statuses
    BY DEF Statuses, WithRowStatus
  <2> HIDE DEF rows
  <2> QED
    BY <1>1, <2>1, StatusFacts
<1>17. d.effects \cup {e} \subseteq Effect
  <2>1. e \in Effect
    BY <1>2, <1>3, <1>4 DEF e, Effect
  <2> QED
    BY <1>1, <2>1, DatabaseFacts
<1> HIDE DEF gens, rows, own
<1>18. own \in Database
  BY <1>10, <1>14, <1>15, <1>16, <1>17 DEF Database
<1>19. x = own
  <2>1. own.gens = gens
    BY <1>14
  <2>2. ActivesOf(own, t) = {}
    <3>1. \A c \in ActivesOf(own, t) : c = k
      BY <1>7, <1>15, <2>1 DEF ActivesOf, Actives
    <3>2. k \notin ActivesOf(own, t)
      BY <1>4, <1>15, <2>1 DEF ActivesOf, Actives
    <3> QED
      BY <3>1, <3>2
  <2>3. Superseded(own, {}) = own
    BY <1>18, SupersededNone
  <2> QED
    BY <1>13, <2>2, <2>3
<1>20. /\ x.task = tasks /\ x.gens = gens /\ x.rows = rows /\ x.effects = d.effects \cup {e}
  BY <1>14, <1>19
<1>21. x \in Database /\ Grown(d, x)
  BY <1>16, <1>18, <1>19, <1>20 DEF Grown
<1>22. Moved(d, x, k, a.outcome, "done")
  <2>1. KeptBut(d, x, k, i) /\ NoneNew(d, x, k)
    BY <1>16, <1>20 DEF KeptBut, NoneNew
  <2> HIDE DEF k
  <2> QED
    BY <1>2, <1>4, <1>15, <1>16, <1>20, <2>1 DEF Moved, Fits
<1>23. ASSUME NEW c \in Keys \ {k}
       PROVE  Kept(d, x, c)
  BY <1>15, <1>16, <1>20 DEF Kept, KeptBut, NoneNew
<1>24. /\ x.task[t] = after /\ \A u \in Tasks : u # t => x.task[u] = d.task[u]
  BY <1>10, <1>20
<1>25. \A j \in DOMAIN d.rows : j # i => x.rows[j] = d.rows[j]
  BY <1>16, <1>20
<1> QED
  <2>1. after = TaskAfter(d, i, a) /\ e = Receipt(d, i, a)
    BY DEF after, tk, e, TaskAfter, Receipt
  <2> HIDE DEF k
  <2> QED
    BY <2>1, <1>20, <1>21, <1>22, <1>23, <1>24, <1>25 DEF x, k

(* An effect ends the check it answers and keeps the database sound.       *)
LEMMA AppliedSound ==
  ASSUME NEW d, Sound(d), NEW i \in DOMAIN d.rows, Owned(d, i),
         NEW now \in Times, NEW a \in Answers(d, i, now)
  PROVE  LET x == Applied(d, i, a) IN
         /\ Sound(x) /\ Grown(d, x)
         /\ \A e \in x.effects \ d.effects : e.attempt = i
         /\ \A c \in Keys : KeyStep(d, x, c) /\ ~Begun(d, x, c)
         /\ AllOwned(d) => AllOwned(x)
         /\ AllOpen(d) => AllOpen(x)
         /\ \A j : Arbitrable(d, j) => Arbitrable(x, j)
<1> DEFINE x  == Applied(d, i, a)
           k  == d.rows[i].key
           t  == k.task
           tk == d.task[t]
           new == TaskAfter(d, i, a)
           receipt == Receipt(d, i, a)
<1>1. d \in Database /\ GensSound(d) /\ Currents(d) /\ Receipted(d)
  BY SoundFacts
<1>2. /\ k \in Keys /\ t \in Tasks /\ k.epoch \in Nat /\ i # 0
      /\ d.gens[k] = [disp |-> "active", last |-> i]
      /\ tk.open /\ tk.epoch = k.epoch
  BY <1>1, RowFacts, KeyFacts DEF Owned
<1>3. /\ tk.rev \in Nat
  BY <1>1, <1>2, TaskFacts
<1>4. /\ a.outcome \in {"resolved", "final_no_update", "deferred"}
      /\ a.due # tk.due => a.outcome = "resolved"
      /\ a.outcome # "deferred" => a.next = Never
  BY <1>1, AnswerFacts
<1>5. /\ x \in Database /\ Grown(d, x)
      /\ x.task[t] = new
      /\ \A u \in Tasks : u # t => x.task[u] = d.task[u]
      /\ Moved(d, x, k, a.outcome, "done")
      /\ \A c \in Keys \ {k} : Kept(d, x, c)
      /\ \A j \in DOMAIN d.rows : j # i => x.rows[j] = d.rows[j]
      /\ x.effects = d.effects \cup {receipt}
  BY AppliedFacts
<1> HIDE DEF x
<1>6. /\ new.epoch \in Nat /\ k.epoch <= new.epoch
      /\ new.epoch = k.epoch => a.due = tk.due
      /\ a.due = tk.due => new.epoch = k.epoch
      /\ new.rev = tk.rev + 1 /\ new.last = i /\ new.next = a.next
      /\ a.outcome = "deferred" => new.reconciled = tk.reconciled
      /\ a.outcome # "deferred" => new.reconciled = k.epoch
  <2>1. /\ new.epoch = IF a.due # tk.due THEN tk.epoch + 1 ELSE tk.epoch
        /\ new.rev = tk.rev + 1 /\ new.last = i /\ new.next = a.next
        /\ new.reconciled = IF a.outcome = "deferred" THEN tk.reconciled ELSE k.epoch
    BY DEF TaskAfter
  <2> HIDE DEF new, tk, k
  <2> QED
    BY <1>2, <2>1
<1> HIDE DEF new
<1>7. /\ x.gens[k] = [disp |-> a.outcome, last |-> i] /\ x.rows[i].status = "done"
      /\ x.rows[i].key = k
  <2>1. x.gens[k] = [disp |-> a.outcome, last |-> i] /\ x.rows[i].status = "done"
    BY <1>2, <1>5 DEF Moved
  <2>2. x.rows[i].key = k
    BY <1>5 DEF Grown
  <2> QED
    BY <2>1, <2>2
<1>8. \A c \in Keys \ {k} : x.gens[c] = d.gens[c]
  BY <1>5 DEF Kept
<1>9. \A c \in Keys : KeyStep(d, x, c)
  BY <1>4, <1>5 DEF KeyStep, Ends, Statuses
<1>10. \A c \in Keys : ~Begun(d, x, c)
  BY <1>2, <1>8 DEF Begun
<1>11. GensSound(x)
  BY <1>1, <1>5, <1>9, StepSound DEF GensSound
<1>12. Actives(x) \subseteq Actives(d) /\ k \notin Actives(x)
  BY <1>4, <1>7, <1>8 DEF Actives
<1>13. \A c \in Actives(x) : c \in Keys /\ c.task \in Tasks /\ c.task # t
  <2>1. OnePerTask(Actives(d)) /\ k \in Actives(d)
    BY <1>1, <1>2, ActivesPerTask DEF Actives
  <2> QED
    BY <2>1, <1>12, KeyFacts DEF OnePerTask, Actives
<1>14. ASSUME NEW c \in Keys
       PROVE  Current(x, c)
  <2>1. c.task \in Tasks /\ c.epoch \in Nat
    BY KeyFacts
  <2>2. CASE c.task # t
    <3>1. x.task[c.task] = d.task[c.task] /\ x.gens[c] = d.gens[c]
      BY <1>5, <1>8, <2>1, <2>2
    <3> QED
      BY <1>1, <3>1, CurrentKept DEF Currents
  <2>3. CASE c = k
    <3>1. x.task[c.task] = new /\ x.gens[c].disp = a.outcome
      BY <1>5, <1>7, <2>3
    <3> HIDE DEF k
    <3> QED
      BY <1>4, <1>6, <2>3, <3>1 DEF Current
  <2>4. CASE c # k /\ c.task = t /\ d.gens[c].disp # "none"
    <3>1. x.task[c.task] = new /\ x.gens[c] = d.gens[c] /\ d.task[c.task] = tk
      BY <1>5, <1>8, <2>4
    <3>2. d.gens[c].disp # "active"
      BY <1>8, <1>13, <2>4 DEF Actives
    <3>3. /\ c.epoch <= tk.epoch
          /\ c.epoch = tk.epoch =>
               /\ d.gens[c].disp = "exhausted" => c.at = CheckAt(tk)
               /\ d.gens[c].disp \in {"resolved", "final_no_update"} => tk.reconciled = tk.epoch
               /\ d.gens[c].disp = "superseded" => ~tk.open
      BY <1>1, <2>4 DEF Currents, Current
    <3>4. ~(c.epoch = tk.epoch /\ d.gens[c].disp = "exhausted")
      <4>1. SUFFICES ASSUME c.epoch = tk.epoch, d.gens[c].disp = "exhausted" PROVE FALSE
        OBVIOUS
      <4>2. c.at = CheckAt(tk) /\ k.at = CheckAt(tk) /\ c.epoch = k.epoch
        BY <1>1, <1>2, <3>3, <4>1 DEF Currents, Current
      <4>3. /\ c = [task |-> c.task, epoch |-> c.epoch, at |-> c.at]
            /\ k = [task |-> k.task, epoch |-> k.epoch, at |-> k.at]
        BY <1>2, KeyFacts
      <4> QED
        BY <2>4, <4>2, <4>3
    <3> HIDE DEF tk, t, k
    <3>5. c.epoch <= new.epoch
      BY <1>2, <1>6, <2>1, <3>3
    <3>6. c.epoch = new.epoch => c.epoch = tk.epoch /\ new.epoch = tk.epoch
      BY <1>2, <1>6, <2>1, <3>3
    <3>7. c.epoch = new.epoch =>
            /\ d.gens[c].disp # "exhausted" /\ d.gens[c].disp # "superseded"
            /\ d.gens[c].disp \in {"resolved", "final_no_update"} => new.reconciled = new.epoch
      BY <1>2, <1>6, <3>3, <3>4, <3>6
    <3> QED
      BY <3>1, <3>2, <3>5, <3>7 DEF Current
  <2>5. CASE c # k /\ d.gens[c].disp = "none"
    BY <1>8, <2>5 DEF Current
  <2> QED
    BY <2>2, <2>3, <2>4, <2>5
<1>15. TaskMovesOn(d, x)
  <2>1. x.task[t].rev > d.task[t].rev
    BY <1>3, <1>5, <1>6
  <2> QED
    BY <1>5, <2>1 DEF TaskMovesOn
<1>16. ASSUME NEW e \in x.effects
       PROVE  /\ e.attempt \in DOMAIN x.rows
              /\ x.gens[x.rows[e.attempt].key] = [disp |-> e.outcome, last |-> e.attempt]
              /\ MarkersAgree(x, e.attempt, e)
  <2>1. CASE e = receipt
    <3>1. e.attempt = i /\ e.outcome = a.outcome /\ e.before = tk.rev /\ e.next = a.next
      BY <2>1 DEF Receipt
    <3>2. i \in DOMAIN x.rows
      BY <1>5 DEF Grown
    <3>3. x.task[x.rows[i].key.task] = new
      BY <1>5, <1>7
    <3> HIDE DEF receipt, tk, t, k
    <3>4. MarkersAgree(x, i, e)
      BY <1>3, <1>4, <1>6, <1>7, <3>1, <3>3 DEF MarkersAgree
    <3> QED
      BY <1>7, <3>1, <3>2, <3>4
  <2>2. CASE e \in d.effects
    <3> DEFINE j == e.attempt
    <3>1. /\ j \in DOMAIN d.rows /\ MarkersAgree(d, j, e)
          /\ d.gens[d.rows[j].key] = [disp |-> e.outcome, last |-> j]
          /\ e \in Effect /\ d.rows[j].key \in Keys
      BY <1>1, <2>2, DatabaseFacts, RowFacts DEF Receipted
    <3>2. d.rows[j].key # k
      BY <1>2, <3>1 DEF Effect
    <3>3. j \in DOMAIN x.rows /\ x.rows[j].key = d.rows[j].key
      BY <1>5, <3>1 DEF Grown
    <3>4. MarkersAgree(x, j, e)
      BY <1>1, <1>5, <1>15, <3>1, MarkersKept
    <3> QED
      BY <1>8, <3>1, <3>2, <3>3, <3>4
  <2> QED
    BY <1>5, <2>1, <2>2
<1>17. ASSUME NEW j \in DOMAIN x.rows, x.rows[j].status = "done"
       PROVE  ReceiptsOf(x, j) # {}
  <2>1. CASE j = i
    <3>1. receipt \in x.effects /\ receipt.attempt = i
      BY <1>5 DEF Receipt
    <3> QED
      BY <2>1, <3>1 DEF ReceiptsOf
  <2>2. CASE j # i
    <3>1. j \in DOMAIN d.rows
      <4>1. x.rows[j].key \in Keys
        BY <1>5, RowFacts
      <4> QED
        BY <1>5, <4>1 DEF Moved, Kept, NoneNew
    <3>2. d.rows[j].status = "done"
      BY <1>5, <1>17, <2>2, <3>1
    <3>3. ReceiptsOf(d, j) # {}
      BY <1>1, <3>1, <3>2 DEF Receipted
    <3> QED
      BY <1>5, <3>3 DEF ReceiptsOf
  <2> QED
    BY <2>1, <2>2
<1>18. Receipted(x)
  BY <1>16, <1>17 DEF Receipted
<1>19. Cardinality(Actives(x)) <= MaxOpen
  BY <1>12, FewerActives
<1>20. Sound(x)
  BY <1>5, <1>11, <1>14, <1>18, <1>19 DEF Sound, GensSound
<1>21. AllOwned(d) => AllOwned(x)
  BY <1>5, <1>12, <1>13 DEF AllOwned
<1>22. ASSUME AllOpen(d)
       PROVE  AllOpen(x)
  <2>1. SUFFICES ASSUME NEW c \in Actives(x) PROVE IsOpen(x.rows[x.gens[c].last])
    BY DEF AllOpen
  <2>2. c \in Actives(d) /\ c \in Keys /\ c # k /\ x.gens[c] = d.gens[c]
    BY <1>8, <1>12, <1>13
  <2>3. /\ d.gens[c].last \in DOMAIN d.rows /\ d.rows[d.gens[c].last].key = c
        /\ IsOpen(d.rows[d.gens[c].last])
    BY <1>1, <1>22, <2>2, ActiveFacts DEF AllOpen
  <2>4. d.gens[c].last # i
    BY <2>2, <2>3
  <2> QED
    BY <1>5, <2>2, <2>3, <2>4
<1>23. ASSUME NEW j, Arbitrable(d, j)
       PROVE  Arbitrable(x, j)
  <2>1. d.rows[j].key \in Keys
    BY <1>1, <1>23, RowFacts DEF Arbitrable
  <2>2. \/ Kept(d, x, d.rows[j].key)
        \/ Moved(d, x, d.rows[j].key, a.outcome, "done")
    BY <1>5, <2>1
  <2> HIDE DEF k
  <2> QED
    BY <1>1, <1>5, <1>23, <2>2, ArbitrableKept
<1>24. \A e \in x.effects \ d.effects : e.attempt = i
  BY <1>5 DEF Receipt
<1> QED
  BY <1>5, <1>9, <1>10, <1>20, <1>21, <1>22, <1>23, <1>24 DEF x

----------------------------------------------------------------------------
(***************************************************************************)
(* What soundness means to a reader of the database.                       *)
(***************************************************************************)

(* inspectTemporalAttempt makes sense of an attempt to be arbitrated.      *)
LEMMA CoherentFacts ==
  ASSUME NEW d, Sound(d), NEW i, Arbitrable(d, i)
  PROVE  Coherent(d, i)
<1> DEFINE k == d.rows[i].key
           r == d.rows[i]
           g == d.gens[k]
<1>1. d \in Database /\ GensSound(d) /\ Receipted(d)
  BY SoundFacts
<1>2. /\ i \in DOMAIN d.rows /\ g.last = i
      /\ r.status \in {"in_progress", "done", "cancelled"}
  BY DEF Arbitrable
<1>3. k \in Keys /\ g = [disp |-> g.disp, last |-> g.last]
  BY <1>1, <1>2, RowFacts, GenFacts
<1>4. g.disp # "none"
  BY <1>1, <1>2, <1>3 DEF GensSound, GenSound, Rowless
<1>5. Attempted(d, k)
  BY <1>1, <1>3, <1>4 DEF GensSound, GenSound
<1>6. Fits(g.disp, r.status)
  BY <1>2, <1>5 DEF Attempted
<1>7. ASSUME NEW e \in ReceiptsOf(d, i)
      PROVE  /\ e.outcome \in {"resolved", "final_no_update", "deferred"}
             /\ g = [disp |-> e.outcome, last |-> i] /\ MarkersAgree(d, i, e)
             /\ r.status = "done"
  <2>1. e \in d.effects /\ e.attempt = i
    BY DEF ReceiptsOf
  <2>2. e.outcome \in {"resolved", "final_no_update", "deferred"}
    BY <1>1, <2>1, DatabaseFacts DEF Effect
  <2>3. g = [disp |-> e.outcome, last |-> i] /\ MarkersAgree(d, i, e)
    BY <1>1, <2>1 DEF Receipted
  <2>4. r.status = "done"
    BY <1>6, <2>2, <2>3 DEF Fits
  <2> QED
    BY <2>2, <2>3, <2>4
<1>8. r.status = "done" => ReceiptsOf(d, i) # {}
  BY <1>1, <1>2 DEF Receipted
<1> HIDE DEF r, g, k
<1>9. /\ r.status = "done" <=> ReceiptsOf(d, i) # {}
      /\ \A e \in ReceiptsOf(d, i) :
           g = [disp |-> e.outcome, last |-> i] /\ MarkersAgree(d, i, e)
  BY <1>7, <1>8
<1>10. /\ r.status = "in_progress" => g = [disp |-> "active", last |-> i]
       /\ r.status = "cancelled" => g.disp = "superseded" \/ g = [disp |-> "active", last |-> i]
       /\ r.status = "failed" /\ g.disp = "active" /\ g.last # i => IsOpen(d.rows[g.last])
       /\ g.disp = "superseded" => r.status \in {"cancelled", "failed"}
  BY <1>2, <1>3, <1>6 DEF Fits
<1> QED
  BY <1>9, <1>10 DEF Coherent, r, g, k

(* A claim in progress is one to be arbitrated.                            *)
LEMMA ClaimFacts ==
  ASSUME NEW d, Sound(d), NEW i \in DOMAIN d.rows, d.rows[i].status = "in_progress"
  PROVE  Arbitrable(d, i)
<1>1. d \in Database /\ GensSound(d) /\ IsOpen(d.rows[i])
  BY SoundFacts DEF IsOpen
<1>2. d.gens[d.rows[i].key] = [disp |-> "active", last |-> i]
  BY <1>1, OpenFacts
<1> QED
  BY <1>2 DEF Arbitrable
=============================================================================
