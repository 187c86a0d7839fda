-------------------------- MODULE OwnerReportProofs --------------------------
(***************************************************************************)
(* TLAPS proofs about the delivery of owner reports: type correctness and  *)
(* the three safety properties, for any number of events, hours, reports,  *)
(* operator actions, crashes and faults.                                   *)
(*                                                                         *)
(* None of the properties is inductive.  What carries them is the order in *)
(* which the three stores are written: while a report is on its way its    *)
(* row is retryable (InFlight), its entry is pinned from before the send   *)
(* until after the row says delivered (Proven), and the window of the next *)
(* digest holds only what the pending one tells, or what was drained       *)
(* behind it (Covered).                                                    *)
(***************************************************************************)
EXTENDS OwnerReports, FiniteSetTheorems, TLAPS

(* TypeOK, with the bound on the pending file said without cardinalities.  *)
Types ==
  /\ at \in {"idle", "recover", "drain", "commit", "digest", "full", "demand"}
  /\ recovered \in BOOLEAN
  /\ send \in {"no", "submit", "leased", "pinned", "sending", "confirmed", "delivered"}
  /\ at = "idle" => send = "no" /\ ~recovered
  /\ send # "no" => pend # {}
  /\ taken \in 0..MaxEvents /\ cursor \in 0..MaxEvents /\ cursor + taken <= MaxEvents
  /\ (taken # 0 => at = "commit")
  /\ window \subseteq Events
  /\ pend \subseteq Report /\ request \subseteq Hours
  /\ row \in [Ids -> Row] /\ entry \in [Ids -> Entry]
  /\ hour \in Hours /\ fired \in 0..MaxHours
  /\ serial \in 0..MaxReports
  /\ copies \in [Ids -> Nat]
  /\ doubted \subseteq Ids /\ told \subseteq Events /\ behind \subseteq Events
  /\ acts \in 0..MaxActs
  /\ crashes \in 0..MaxCrashes /\ faults \in 0..MaxFaults

(* The pending file holds one report, or one request, or neither.          *)
OneReport ==
  /\ \A p, q \in pend : p = q
  /\ \A g, h \in request : g = h
  /\ pend = {} \/ request = {}

(* Nothing is delivered while events are drained; a request is composed    *)
(* before anything else of the run.                                        *)
Placed ==
  /\ send # "no" => at \notin {"idle", "drain", "commit"}
  /\ request # {} => at \in {"idle", "recover", "demand"}

(* The stores while the report p is on its way.                            *)
InFlight ==
  \A p \in pend :
    /\ send \in {"leased", "pinned", "sending", "confirmed"} =>
         row[p.id].state = "retryable" /\ row[p.id].rep = p.rep
    /\ send \in {"pinned", "sending", "confirmed"} =>
         entry[p.id].pinned /\ entry[p.id].state # "none"
    /\ send = "sending" => entry[p.id].state = "unsure"
    /\ send = "confirmed" => entry[p.id].state = "delivered"
    /\ send = "delivered" => row[p.id].state = "delivered"

(* What is known of the chat: a message that is certainly there is proven  *)
(* by its row or, until the row says so, by a pinned entry.                *)
Proven ==
  \A i \in Ids :
    /\ entry[i].state = "delivered" \/ row[i].state = "delivered" => copies[i] > 0
    /\ \/ i \in doubted
       \/ copies[i] = 0
       \/ /\ copies[i] = 1
          /\ \/ row[i].state = "delivered"
             \/ /\ row[i].state = "retryable"
                /\ entry[i].state = "delivered" /\ entry[i].pinned

(* A report that is not settled is in the pending file.                    *)
Kept ==
  \A i \in Ids : Nonterminal(row[i]) => \E p \in pend : p.id = i /\ p.rep = row[i].rep

(* Drained events, committed or not, and those of the pending digest.      *)
Covered ==
  /\ 1..(cursor + taken) \subseteq window \cup told \cup behind
  /\ \A p \in pend : p.mode = "digest" => window \subseteq p.events \cup behind

Deliveries == InFlight /\ Proven /\ Kept

IInv == Types /\ OneReport /\ Placed /\ Deliveries /\ Covered

----------------------------------------------------------------------------
(* The pending file, in terms of cardinalities.                            *)
LEMMA FileBound ==
  ASSUME Types, OneReport
  PROVE  Cardinality(pend) + Cardinality(request) <= 1
<1>1. ASSUME NEW S, \A x, y \in S : x = y
      PROVE  Cardinality(S) \in {0, 1} /\ (S = {} => Cardinality(S) = 0)
  <2>1. CASE S = {}
    BY <2>1, FS_EmptySet
  <2>2. CASE S # {}
    <3>1. PICK x \in S : S = {x}
      BY <1>1, <2>2
    <3> QED BY <2>2, <3>1, FS_Singleton
  <2> QED BY <2>1, <2>2
<1>2. Cardinality(pend) \in {0, 1} /\ (pend = {} => Cardinality(pend) = 0)
  BY <1>1 DEF OneReport
<1>3. Cardinality(request) \in {0, 1} /\ (request = {} => Cardinality(request) = 0)
  BY <1>1 DEF OneReport
<1> QED BY <1>2, <1>3 DEF OneReport

(* The initial states satisfy the inductive invariant.                     *)
LEMMA InitIInv == Init => IInv
<1> SUFFICES ASSUME Init PROVE IInv
  OBVIOUS
<1> USE DEF Init
<1>1. NoRow \in Row /\ NoEntry \in Entry /\ NoRow.state = "none" /\ NoEntry.state = "none"
  BY ReportBoundAssumption DEF NoRow, NoEntry, Row, Entry
<1>2. \A i \in Ids : row[i] = NoRow /\ entry[i] = NoEntry /\ copies[i] = 0
  OBVIOUS
<1>3. Types
  <2>1. MaxEvents \in Nat /\ MaxReports \in Nat /\ 0 \in 0..MaxActs
        /\ 0 \in 0..MaxCrashes /\ 0 \in 0..MaxFaults /\ 0 \in 0..MaxHours /\ 1 \in Hours
    BY ReportBoundAssumption DEF Hours
  <2>2. row \in [Ids -> Row] /\ entry \in [Ids -> Entry] /\ copies \in [Ids -> Nat]
    BY <1>1
  <2>3. 0 + 0 <= MaxEvents /\ 0 \in 0..MaxEvents /\ 0 \in 0..MaxReports
    BY <2>1
  <2> QED BY <2>1, <2>2, <2>3 DEF Types
<1>4. OneReport /\ Placed /\ InFlight /\ Covered
  BY DEF OneReport, Placed, InFlight, Covered
<1>5. Proven /\ Kept
  BY <1>1, <1>2 DEF Proven, Kept, Nonterminal
<1> QED BY <1>3, <1>4, <1>5 DEF IInv, Deliveries

----------------------------------------------------------------------------
(* What the deliveries rest on.                                            *)
storeVars == <<pend, row, entry, copies, doubted>>

(* A step that leaves the stores alone and starts, ends or breaks off a    *)
(* submission changes nothing about deliveries.                            *)
LEMMA StoresRest ==
  ASSUME Deliveries, UNCHANGED storeVars, send' \in {"no", "submit", send}
  PROVE  Deliveries'
BY DEF Deliveries, InFlight, Proven, Kept, Nonterminal, storeVars

(* A run goes on, or ends, with nothing under way.                         *)
LEMMA RunMoves ==
  ASSUME Types, RunThrows \/ (request' = {} /\ \E r \in BOOLEAN : RunGoesOnWith(r)),
         request' \subseteq request
  PROVE  /\ at' \in {"idle", "drain", "commit", "digest", "full"}
         /\ recovered' \in BOOLEAN /\ send' = "no"
         /\ at' = "idle" => ~recovered'
         /\ at' = "commit" => at = "drain"
         /\ Placed'
BY DEF Types, RunThrows, RunGoesOnWith, NextLeg, Placed

(* Intervals grow with their end.                                          *)
LEMMA IntervalGrows ==
  ASSUME NEW m \in Nat, NEW n \in Nat, m <= n
  PROVE  1..m \subseteq 1..n
OBVIOUS

(* Events already covered stay so when no event is drained.                *)
LEMMA CoverRests ==
  ASSUME Types, Covered, UNCHANGED <<window, told, behind, cursor>>,
         pend' \subseteq pend, taken' \in {0, taken}
  PROVE  Covered'
<1>1. 1..(cursor' + taken') \subseteq 1..(cursor + taken)
  <2>1. cursor \in Nat /\ taken \in Nat /\ cursor' = cursor
    BY ReportBoundAssumption DEF Types
  <2>2. CASE taken' = taken
    BY <2>1, <2>2
  <2>3. CASE taken' = 0
    <3>1. cursor' + taken' = cursor
      BY <2>1, <2>3
    <3>2. cursor + taken \in Nat /\ cursor <= cursor + taken
      BY <2>1
    <3> QED BY <2>1, <3>1, <3>2, IntervalGrows
  <2> QED BY <2>2, <2>3
<1>2. \A p \in pend' : p.mode = "digest" => window' \subseteq p.events \cup behind'
  BY DEF Covered
<1> QED BY <1>1, <1>2 DEF Covered

----------------------------------------------------------------------------
(* The loop: recovery, drain, commit, the legs that compose nothing.       *)
LEMMA LoopIInv ==
  ASSUME IInv,
         \/ Tick \/ Collects \/ SuppressDigest \/ SkipFull \/ NoReport
         \/ Demand \/ RequestFails \/ HourPasses \/ StepThrows
         \/ \E p \in pend : Refused(p) \/ Conflicts(p) \/ Waits(p)
  PROVE  IInv'
<1> USE DEF fileVars, clockVars, ghostVars, boundVars
<1>0. Types /\ OneReport /\ Placed /\ Deliveries /\ Covered
  BY DEF IInv
<1>1. CASE Tick
  <2>1. Types' /\ OneReport' /\ Placed'
    BY <1>0, <1>1 DEF Tick, Types, OneReport, Placed
  <2>2. Deliveries'
    BY <1>0, <1>1, StoresRest DEF Tick, storeVars
  <2>3. Covered'
    BY <1>0, <1>1, CoverRests DEF Tick
  <2> QED BY <2>1, <2>2, <2>3 DEF IInv
<1>2. ASSUME NEW k \in 0..MaxEvents, Drain(k) PROVE IInv'
  <2> DEFINE fresh == (cursor + 1 .. cursor + k) \ window
  <2>1. /\ at = "drain" /\ cursor + k <= MaxEvents /\ taken' = k
        /\ at' = IF k = 0 THEN "digest" ELSE "commit"
        /\ window' = window \cup fresh
        /\ behind' = IF \E p \in pend : p.mode = "digest" THEN behind \cup fresh ELSE behind
        /\ UNCHANGED <<recovered, send, cursor, pend, request, row, entry, clockVars, serial,
                       copies, doubted, told, boundVars>>
    BY <1>2 DEF Drain
  <2>2. fresh \subseteq Events
    BY <1>0, <2>1, ReportBoundAssumption DEF Types, Events
  <2>3. send = "no"
    BY <1>0, <2>1 DEF Placed
  <2>4. Types'
    BY <1>0, <2>1, <2>2, <2>3 DEF Types
  <2>5. OneReport' /\ Placed'
    BY <1>0, <2>1, <2>3 DEF OneReport, Placed
  <2>6. Deliveries'
    BY <1>0, <2>1, StoresRest DEF storeVars
  <2>7. Covered'
    <3>1. taken = 0
      BY <1>0, <2>1 DEF Types
    <3>2. 1..(cursor' + taken') \subseteq (1..cursor) \cup fresh \cup window
      BY <1>0, <2>1 DEF Types
    <3>3. 1..cursor \subseteq window \cup told \cup behind
      BY <1>0, <3>1 DEF Covered, Types
    <3>4. 1..(cursor' + taken') \subseteq window' \cup told' \cup behind'
      BY <3>2, <3>3, <2>1
    <3>5. ASSUME NEW p \in pend', p.mode = "digest"
          PROVE  window' \subseteq p.events \cup behind'
      BY <1>0, <2>1, <3>5 DEF Covered
    <3> QED BY <3>4, <3>5 DEF Covered
  <2> QED BY <2>4, <2>5, <2>6, <2>7 DEF IInv
<1>3. CASE Commit
  <2>0. request = {}
    BY <1>0, <1>3 DEF Commit, Placed
  <2>1. /\ at = "commit" /\ cursor' = cursor + taken /\ taken' = 0
        /\ RunGoesOnWith(recovered)
        /\ UNCHANGED <<fileVars, row, entry, clockVars, serial, copies, ghostVars, boundVars>>
    BY <1>3 DEF Commit, RunGoesOn
  <2>2. /\ at' \in {"idle", "drain", "commit", "digest", "full"}
        /\ recovered' \in BOOLEAN /\ send' = "no" /\ (at' = "idle" => ~recovered') /\ Placed'
    BY <1>0, <2>0, <2>1, RunMoves DEF Types
  <2>3. cursor' \in 0..MaxEvents /\ cursor' + taken' = cursor + taken /\ cursor' + 0 <= MaxEvents
    BY <1>0, <2>1, ReportBoundAssumption DEF Types
  <2>4. Types'
    BY <1>0, <2>1, <2>2, <2>3, ReportBoundAssumption DEF Types
  <2>5. OneReport' /\ Covered'
    BY <1>0, <2>1, <2>3 DEF OneReport, Covered
  <2>6. Deliveries'
    BY <1>0, <2>1, <2>2, StoresRest DEF storeVars
  <2> QED BY <2>2, <2>4, <2>5, <2>6 DEF IInv
<1>4. CASE SuppressDigest
  <2>1. /\ at = "digest" /\ pend = {} /\ window' = {} /\ told' = told \cup window
        /\ RunGoesOnWith(recovered)
        /\ UNCHANGED <<taken, cursor, pend, request, row, entry, clockVars, serial,
                       copies, doubted, behind, boundVars>>
    BY <1>4 DEF SuppressDigest, RunGoesOn
  <2>2. /\ at' = "full" /\ recovered' \in BOOLEAN /\ send' = "no" /\ Placed'
    BY <1>0, <2>1 DEF Types, RunGoesOnWith, NextLeg, Placed
  <2>3. Types'
    BY <1>0, <2>1, <2>2 DEF Types
  <2>4. OneReport' /\ Covered'
    BY <1>0, <2>1 DEF OneReport, Covered
  <2>5. Deliveries'
    BY <1>0, <2>1, <2>2, StoresRest DEF storeVars
  <2> QED BY <2>2, <2>3, <2>4, <2>5 DEF IInv
<1>5. CASE Demand
  <2>1. Types' /\ OneReport' /\ Placed'
    BY <1>0, <1>5 DEF Demand, Types, OneReport, Placed
  <2>2. Deliveries'
    BY <1>0, <1>5, StoresRest DEF Demand, storeVars
  <2>3. Covered'
    BY <1>0, <1>5, CoverRests DEF Demand
  <2> QED BY <2>1, <2>2, <2>3 DEF IInv
<1>6. CASE HourPasses
  <2>1. hour' \in Hours
    BY <1>0, <1>6, ReportBoundAssumption DEF HourPasses, Types, Hours
  <2>2. Types' /\ OneReport' /\ Placed'
    BY <1>0, <1>6, <2>1 DEF HourPasses, Types, OneReport, Placed
  <2>3. Deliveries'
    BY <1>0, <1>6, StoresRest DEF HourPasses, storeVars
  <2>4. Covered'
    BY <1>0, <1>6, CoverRests DEF HourPasses
  <2> QED BY <2>2, <2>3, <2>4 DEF IInv
<1>7. ASSUME RunThrows \/ (RunGoesOn /\ request = {}),
             taken' \in {0, taken}, taken' # 0 => at # "commit",
             fired' \in {fired, hour}, faults' \in {faults, faults + 1}, faults' \in 0..MaxFaults,
             UNCHANGED <<cursor, fileVars, row, entry, hour, serial, copies, ghostVars,
                         acts, crashes>>
      PROVE  IInv'
  <2>1. /\ at' \in {"idle", "drain", "commit", "digest", "full"}
        /\ recovered' \in BOOLEAN /\ send' = "no" /\ (at' = "idle" => ~recovered') /\ Placed'
    BY <1>0, <1>7, RunMoves DEF Types, RunGoesOn
  <2>2. taken' = 0 /\ cursor + 0 <= MaxEvents /\ fired' \in 0..MaxHours
    BY <1>0, <1>7, ReportBoundAssumption DEF Types, Hours
  <2>3. Types'
    BY <1>0, <1>7, <2>1, <2>2, ReportBoundAssumption DEF Types
  <2>4. OneReport'
    BY <1>0, <1>7 DEF OneReport
  <2>5. Deliveries'
    BY <1>0, <1>7, <2>1, StoresRest DEF storeVars
  <2>6. Covered'
    BY <1>0, <1>7, CoverRests
  <2> QED BY <2>1, <2>3, <2>4, <2>5, <2>6 DEF IInv
<1>8. faults \in Nat /\ MaxFaults \in Nat /\ (faults < MaxFaults => faults + 1 \in 0..MaxFaults)
  BY <1>0, ReportBoundAssumption DEF Types
<1>9. at # "commit" => taken = 0
  BY <1>0 DEF Types
<1>10. /\ send # "no" => at # "commit"
       /\ request # {} => pend = {} /\ at \in {"idle", "recover", "demand"}
  BY <1>0 DEF Placed, OneReport
<1>11. CASE CommitFails
  BY <1>0, <1>7, <1>8, <1>11 DEF CommitFails, Types
<1>12. CASE SkipFull
  BY <1>0, <1>7, <1>10, <1>12 DEF SkipFull, Types
<1>13. CASE NoReport
  BY <1>0, <1>7, <1>10, <1>13 DEF NoReport, Types
<1>14. CASE RequestFails
  BY <1>0, <1>7, <1>8, <1>14 DEF RequestFails, Types
<1>15. CASE StepThrows
  BY <1>0, <1>7, <1>8, <1>10, <1>15 DEF StepThrows, Types
<1>16. ASSUME NEW p \in pend, Refused(p) \/ Conflicts(p) \/ Waits(p) PROVE IInv'
  BY <1>0, <1>7, <1>8, <1>10, <1>16 DEF Refused, Conflicts, Waits, Types
<1> QED BY <1>1, <1>2, <1>3, <1>4, <1>5, <1>6, <1>11, <1>12, <1>13, <1>14, <1>15, <1>16
        DEF Collects

----------------------------------------------------------------------------
(* A new report enters an empty file, so no row is nonterminal.            *)
LEMMA ComposeIInv ==
  ASSUME IInv, ComposeDigest \/ ComposeFull \/ ComposeRequest
  PROVE  IInv'
<1> USE DEF fileVars, clockVars, ghostVars, boundVars
<1>0. Types /\ OneReport /\ Placed /\ Deliveries /\ Covered
  BY DEF IInv
<1>1. PICK id \in Ids, mode \in Modes, h \in Hours :
        /\ Prepared(id, mode, h) /\ request' = {} /\ pend = {}
        /\ at \in {"digest", "full", "demand", "recover"} /\ Composes
  <2>1. Composes => Uuid \in Ids
    BY <1>0, ReportBoundAssumption DEF Composes, Uuid, Ids, Types
  <2>2. <<"hour", hour>> \in Ids /\ hour \in Hours /\ "digest" \in Modes /\ "full" \in Modes
    BY <1>0 DEF Ids, Types, Modes
  <2>3. CASE ComposeDigest
    BY <1>0, <2>1, <2>2, <2>3 DEF ComposeDigest, Placed
  <2>4. CASE ComposeFull
    BY <1>0, <2>1, <2>2, <2>4 DEF ComposeFull, FullDue, Placed
  <2>5. CASE ComposeRequest
    BY <1>0, <2>1, <2>2, <2>5 DEF ComposeRequest, Types, OneReport
  <2> QED BY <2>3, <2>4, <2>5
<1> DEFINE new == [id |-> id, rep |-> serial + 1, mode |-> mode, hour |-> h,
                   events |-> IF mode = "digest" THEN window ELSE {}]
<1>2. /\ pend' = {new} /\ serial' = serial + 1 /\ send = "no" /\ send' = "submit"
      /\ UNCHANGED <<at, recovered, taken, cursor, window, row, entry, clockVars, copies,
                     ghostVars, boundVars>>
  BY <1>1 DEF Prepared, Composes
<1>3. serial' \in 1..MaxReports /\ serial' \in 0..MaxReports
  BY <1>0, <1>1, <1>2, ReportBoundAssumption DEF Composes, Types
<1>4. new \in Report
  BY <1>0, <1>2, <1>3 DEF Report, Types
<1>5. Types'
  BY <1>0, <1>1, <1>2, <1>3, <1>4 DEF Types
<1>6. OneReport' /\ Placed'
  BY <1>1, <1>2 DEF OneReport, Placed
<1>7. InFlight' /\ Proven' /\ Kept'
  BY <1>0, <1>1, <1>2 DEF Deliveries, InFlight, Proven, Kept, Nonterminal
<1>8. Covered'
  BY <1>0, <1>2 DEF Covered
<1> QED BY <1>5, <1>6, <1>7, <1>8 DEF IInv, Deliveries

(* The row is reserved and leased, or tells of the outcome.                *)
LEMMA SubmitIInv ==
  ASSUME IInv, NEW p \in pend, Leases(p) \/ WasCancelled(p) \/ WasDelivered(p)
  PROVE  IInv'
<1> USE DEF fileVars, clockVars, ghostVars, boundVars
<1>0. Types /\ OneReport /\ Placed /\ Deliveries /\ Covered
  BY DEF IInv
<1>1. /\ pend = {p} /\ request = {} /\ p \in Report /\ p.id \in Ids /\ p.rep \in 0..MaxReports
  BY <1>0, ReportBoundAssumption DEF OneReport, Types, Report
<1>2. CASE Leases(p)
  <2> DEFINE leased == [state |-> "retryable", rep |-> p.rep, lease |-> "live", backoff |-> FALSE]
  <2>1. /\ row[p.id].state = "none" \/ (row[p.id].rep = p.rep /\ row[p.id].state = "retryable")
        /\ row' = [row EXCEPT ![p.id] = leased]
        /\ send = "submit" /\ send' = "leased"
        /\ UNCHANGED <<at, recovered, taken, cursor, fileVars, entry, clockVars, serial,
                       copies, ghostVars, boundVars>>
    BY <1>2 DEF Leases, Claimable
  <2>2. leased \in Row
    BY <1>1 DEF Row
  <2>3. row' \in [Ids -> Row] /\ row'[p.id] = leased
        /\ \A i \in Ids : i # p.id => row'[i] = row[i]
    BY <1>0, <1>1, <2>1, <2>2 DEF Types
  <2>4. Types'
    BY <1>0, <1>1, <2>1, <2>3 DEF Types
  <2>5. OneReport' /\ Placed' /\ Covered'
    BY <1>0, <2>1 DEF OneReport, Placed, Covered
  <2>6. InFlight' /\ Kept'
    BY <1>0, <1>1, <2>1, <2>3 DEF Deliveries, InFlight, Kept, Nonterminal
  <2>7. Proven'
    BY <1>0, <1>1, <2>1, <2>3 DEF Deliveries, Proven
  <2> QED BY <2>4, <2>5, <2>6, <2>7 DEF IInv, Deliveries
<1>3. CASE WasCancelled(p)
  <2>1. /\ row[p.id].state = "cancelled" /\ row[p.id].rep = p.rep
        /\ pend' = {} /\ RunGoesOnWith(recovered)
        /\ UNCHANGED <<taken, cursor, window, request, row, entry, clockVars, serial,
                       copies, ghostVars, boundVars>>
    BY <1>3 DEF WasCancelled, RunGoesOn
  <2>2. /\ at' \in {"idle", "drain", "commit", "digest", "full"}
        /\ recovered' \in BOOLEAN /\ send' = "no" /\ (at' = "idle" => ~recovered') /\ Placed'
        /\ at # "commit"
    BY <1>0, <1>1, <1>3, <2>1, RunMoves DEF Types, Placed, WasCancelled
  <2>3. Types' /\ OneReport'
    BY <1>0, <1>1, <2>1, <2>2 DEF Types, OneReport
  <2>4. InFlight' /\ Proven' /\ Kept'
    BY <1>0, <1>1, <2>1, <2>2 DEF Deliveries, InFlight, Proven, Kept, Nonterminal
  <2>5. Covered'
    BY <1>0, <2>1, CoverRests
  <2> QED BY <2>2, <2>3, <2>4, <2>5 DEF IInv, Deliveries
<1>4. CASE WasDelivered(p)
  <2>1. Types' /\ OneReport' /\ Placed' /\ Covered'
    BY <1>0, <1>4 DEF WasDelivered, Types, OneReport, Placed, Covered
  <2>2. InFlight' /\ Proven' /\ Kept'
    BY <1>0, <1>1, <1>4 DEF WasDelivered, Deliveries, InFlight, Proven, Kept, Nonterminal
  <2> QED BY <2>1, <2>2 DEF IInv, Deliveries
<1> QED BY <1>2, <1>3, <1>4

(* The send, between the entry that is pinned and the row that tells.      *)
LEMMA SendIInv ==
  ASSUME IInv, NEW p \in pend,
         \/ Pins(p) \/ Transmits(p) \/ Accepted(p) \/ NoAnswer(p) \/ Rejected(p)
         \/ MarksDelivered(p)
  PROVE  IInv'
<1> USE DEF fileVars, clockVars, ghostVars, boundVars
<1>0. Types /\ OneReport /\ Placed /\ Deliveries /\ Covered
  BY DEF IInv
<1>1. /\ pend = {p} /\ request = {} /\ p \in Report /\ p.id \in Ids
      /\ row[p.id] \in Row /\ entry[p.id] \in Entry /\ copies[p.id] \in Nat
  BY <1>0 DEF OneReport, Types, Report
<1>2. ASSUME NEW e \in Entry, entry' = [entry EXCEPT ![p.id] = e]
      PROVE  /\ entry' \in [Ids -> Entry] /\ entry'[p.id] = e
             /\ \A i \in Ids : i # p.id => entry'[i] = entry[i]
  BY <1>0, <1>1, <1>2 DEF Types
<1>3. ASSUME NEW r \in Row, row' = [row EXCEPT ![p.id] = r]
      PROVE  /\ row' \in [Ids -> Row] /\ row'[p.id] = r
             /\ \A i \in Ids : i # p.id => row'[i] = row[i]
  BY <1>0, <1>1, <1>3 DEF Types
<1>4. ASSUME NEW n \in Nat, copies' = [copies EXCEPT ![p.id] = n]
      PROVE  /\ copies' \in [Ids -> Nat] /\ copies'[p.id] = n
             /\ \A i \in Ids : i # p.id => copies'[i] = copies[i]
  BY <1>0, <1>1, <1>4 DEF Types
<1>5. CASE Pins(p)
  <2> DEFINE e == [state |-> IF entry[p.id].state = "none" THEN "processing" ELSE entry[p.id].state,
                   pinned |-> TRUE]
  <2>1. e \in Entry /\ e.pinned /\ e.state # "none"
        /\ (e.state = "delivered" <=> entry[p.id].state = "delivered")
    BY <1>1 DEF Entry
  <2>2. /\ entry' = [entry EXCEPT ![p.id] = e] /\ send = "leased" /\ send' = "pinned"
        /\ UNCHANGED <<at, recovered, taken, cursor, fileVars, row, clockVars, serial,
                       copies, ghostVars, boundVars>>
    BY <1>5 DEF Pins
  <2> HIDE DEF e
  <2>3. /\ entry' \in [Ids -> Entry] /\ entry'[p.id] = e
        /\ \A i \in Ids : i # p.id => entry'[i] = entry[i]
    BY <1>2, <2>1, <2>2
  <2>4. Types' /\ OneReport' /\ Placed' /\ Covered'
    BY <1>0, <2>2, <2>3 DEF Types, OneReport, Placed, Covered
  <2>5. InFlight' /\ Proven' /\ Kept'
    BY <1>0, <1>1, <2>1, <2>2, <2>3 DEF Deliveries, InFlight, Proven, Kept
  <2> QED BY <2>4, <2>5 DEF IInv, Deliveries
<1>6. CASE Transmits(p)
  <2>1. /\ send = "pinned" /\ send' \in {"confirmed", "sending"}
        /\ UNCHANGED <<at, recovered, taken, cursor, fileVars, row, clockVars, serial,
                       copies, ghostVars, boundVars>>
    BY <1>6 DEF Transmits
  <2>2. CASE entry[p.id].state = "delivered"
    <3>1. send' = "confirmed" /\ entry' = entry
      BY <1>6, <2>2 DEF Transmits
    <3>2. Types' /\ OneReport' /\ Placed' /\ Covered'
      BY <1>0, <2>1, <3>1 DEF Types, OneReport, Placed, Covered
    <3>3. InFlight' /\ Proven' /\ Kept'
      BY <1>0, <1>1, <2>1, <2>2, <3>1 DEF Deliveries, InFlight, Proven, Kept
    <3> QED BY <3>2, <3>3 DEF IInv, Deliveries
  <2>3. CASE entry[p.id].state # "delivered"
    <3> DEFINE e == [entry[p.id] EXCEPT !.state = "unsure"]
    <3>1. e \in Entry /\ e.state = "unsure" /\ e.pinned = entry[p.id].pinned
      BY <1>1 DEF Entry
    <3>2. send' = "sending" /\ entry' = [entry EXCEPT ![p.id] = e]
      BY <1>6, <2>3 DEF Transmits
    <3> HIDE DEF e
    <3>3. /\ entry' \in [Ids -> Entry] /\ entry'[p.id] = e
          /\ \A i \in Ids : i # p.id => entry'[i] = entry[i]
      BY <1>2, <3>1, <3>2
    <3>4. Types' /\ OneReport' /\ Placed' /\ Covered'
      BY <1>0, <2>1, <3>2, <3>3 DEF Types, OneReport, Placed, Covered
    <3>5. InFlight' /\ Proven' /\ Kept'
      BY <1>0, <1>1, <2>1, <2>3, <3>1, <3>2, <3>3 DEF Deliveries, InFlight, Proven, Kept
    <3> QED BY <3>4, <3>5 DEF IInv, Deliveries
  <2> QED BY <2>2, <2>3
<1>7. CASE Accepted(p)
  <2> DEFINE e == [entry[p.id] EXCEPT !.state = "delivered"]
  <2>1. e \in Entry /\ e.state = "delivered" /\ e.pinned = entry[p.id].pinned
    BY <1>1 DEF Entry
  <2>2. /\ send = "sending" /\ send' = "confirmed"
        /\ copies' = [copies EXCEPT ![p.id] = copies[p.id] + 1]
        /\ entry' = [entry EXCEPT ![p.id] = e]
        /\ UNCHANGED <<at, recovered, taken, cursor, fileVars, row, clockVars, serial,
                       ghostVars, boundVars>>
    BY <1>7 DEF Accepted
  <2> HIDE DEF e
  <2>3. /\ entry' \in [Ids -> Entry] /\ entry'[p.id] = e
        /\ \A i \in Ids : i # p.id => entry'[i] = entry[i]
    BY <1>2, <2>1, <2>2
  <2>4. copies[p.id] + 1 \in Nat /\ copies[p.id] + 1 > 0
    BY <1>1
  <2>5. /\ copies' \in [Ids -> Nat] /\ copies'[p.id] = copies[p.id] + 1
        /\ \A i \in Ids : i # p.id => copies'[i] = copies[i]
    BY <1>4, <2>2, <2>4
  <2>6. Types' /\ OneReport' /\ Placed' /\ Covered'
    BY <1>0, <2>2, <2>3, <2>5 DEF Types, OneReport, Placed, Covered
  <2>7. InFlight' /\ Kept'
    BY <1>0, <1>1, <2>1, <2>2, <2>3 DEF Deliveries, InFlight, Kept
  <2>8. /\ row[p.id].state = "retryable" /\ entry[p.id].state = "unsure" /\ entry[p.id].pinned
        /\ (p.id \in doubted \/ copies[p.id] = 0)
    BY <1>0, <1>1, <2>2 DEF Deliveries, InFlight, Proven
  <2>9. Proven'
    <3>1. \A i \in Ids : i # p.id =>
            entry'[i] = entry[i] /\ row'[i] = row[i] /\ copies'[i] = copies[i]
      BY <2>2, <2>3, <2>5
    <3>2. row'[p.id].state = "retryable" /\ entry'[p.id].state = "delivered" /\ entry'[p.id].pinned
      BY <2>1, <2>2, <2>3, <2>8
    <3>3. doubted' = doubted
      BY <2>2
    <3>4. copies'[p.id] > 0 /\ (copies[p.id] = 0 => copies'[p.id] = 1)
      BY <2>4, <2>5
    <3> QED BY <1>0, <2>8, <3>1, <3>2, <3>3, <3>4 DEF Deliveries, Proven
  <2> QED BY <2>6, <2>7, <2>9 DEF IInv, Deliveries
<1>8. CASE NoAnswer(p)
  <2> DEFINE r == Freed(row[p.id], "retryable", TRUE)
  <2>1. r \in Row /\ r.state = "retryable" /\ r.rep = row[p.id].rep
    BY <1>1 DEF Freed, Row
  <2>2. PICK n \in {0, 1} : copies' = [copies EXCEPT ![p.id] = copies[p.id] + n]
    BY <1>8 DEF NoAnswer
  <2>3. /\ send = "sending" /\ faults < MaxFaults /\ faults' = faults + 1
        /\ doubted' = doubted \cup {p.id}
        /\ row' = [row EXCEPT ![p.id] = r]
        /\ RunGoesOnWith(recovered)
        /\ UNCHANGED <<taken, cursor, fileVars, entry, clockVars, serial, told, behind,
                       acts, crashes>>
    BY <1>8 DEF NoAnswer, RunGoesOn
  <2> HIDE DEF r
  <2>4. /\ row' \in [Ids -> Row] /\ row'[p.id] = r
        /\ \A i \in Ids : i # p.id => row'[i] = row[i]
    BY <1>3, <2>1, <2>3
  <2>5. copies[p.id] + n \in Nat /\ (copies[p.id] > 0 => copies[p.id] + n > 0)
    BY <1>1, <2>2
  <2>6. /\ copies' \in [Ids -> Nat] /\ copies'[p.id] = copies[p.id] + n
        /\ \A i \in Ids : i # p.id => copies'[i] = copies[i]
    BY <1>4, <2>2, <2>5
  <2>7. /\ at' \in {"idle", "drain", "commit", "digest", "full"}
        /\ recovered' \in BOOLEAN /\ send' = "no" /\ (at' = "idle" => ~recovered') /\ Placed'
        /\ at # "commit"
    BY <1>0, <1>1, <2>3, RunMoves DEF Types, Placed
  <2>8. Types'
    BY <1>0, <1>1, <2>3, <2>4, <2>6, <2>7, ReportBoundAssumption DEF Types
  <2>9. OneReport' /\ Covered'
    BY <1>0, <2>3 DEF OneReport, Covered
  <2>10. InFlight' /\ Kept'
    BY <1>0, <1>1, <2>1, <2>3, <2>4, <2>7 DEF Deliveries, InFlight, Kept, Nonterminal
  <2>11. Proven'
    BY <1>0, <1>1, <2>1, <2>3, <2>4, <2>5, <2>6 DEF Deliveries, Proven
  <2> QED BY <2>7, <2>8, <2>9, <2>10, <2>11 DEF IInv, Deliveries
<1>9. CASE Rejected(p)
  <2>1. PICK final \in BOOLEAN :
          row' = [row EXCEPT ![p.id] =
                    Freed(row[p.id], IF final THEN "rejected" ELSE "retryable", ~final)]
    BY <1>9 DEF Rejected
  <2> DEFINE r == Freed(row[p.id], IF final THEN "rejected" ELSE "retryable", ~final)
             e == [entry[p.id] EXCEPT !.state = "sure"]
  <2>2. r \in Row /\ r.state \in {"rejected", "retryable"} /\ r.rep = row[p.id].rep
    BY <1>1 DEF Freed, Row
  <2>3. e \in Entry /\ e.state = "sure"
    BY <1>1 DEF Entry
  <2>4. /\ send = "sending" /\ faults < MaxFaults /\ faults' = faults + 1
        /\ entry' = [entry EXCEPT ![p.id] = e]
        /\ RunGoesOnWith(recovered)
        /\ UNCHANGED <<taken, cursor, fileVars, clockVars, serial, copies, ghostVars,
                       acts, crashes>>
    BY <1>9 DEF Rejected, RunGoesOn
  <2>5. row' = [row EXCEPT ![p.id] = r]
    BY <2>1
  <2> HIDE DEF r, e
  <2>6. /\ row' \in [Ids -> Row] /\ row'[p.id] = r
        /\ \A i \in Ids : i # p.id => row'[i] = row[i]
    BY <1>3, <2>2, <2>5
  <2>7. /\ entry' \in [Ids -> Entry] /\ entry'[p.id] = e
        /\ \A i \in Ids : i # p.id => entry'[i] = entry[i]
    BY <1>2, <2>3, <2>4
  <2>8. /\ at' \in {"idle", "drain", "commit", "digest", "full"}
        /\ recovered' \in BOOLEAN /\ send' = "no" /\ (at' = "idle" => ~recovered') /\ Placed'
        /\ at # "commit"
    BY <1>0, <1>1, <2>4, RunMoves DEF Types, Placed
  <2>9. Types'
    BY <1>0, <1>1, <2>4, <2>6, <2>7, <2>8, ReportBoundAssumption DEF Types
  <2>10. OneReport' /\ Covered'
    BY <1>0, <2>4 DEF OneReport, Covered
  <2>11. InFlight' /\ Kept'
    BY <1>0, <1>1, <2>2, <2>4, <2>6, <2>8 DEF Deliveries, InFlight, Kept, Nonterminal
  <2>12. Proven'
    BY <1>0, <1>1, <2>2, <2>3, <2>4, <2>6, <2>7 DEF Deliveries, InFlight, Proven
  <2> QED BY <2>8, <2>9, <2>10, <2>11, <2>12 DEF IInv, Deliveries
<1>10. CASE MarksDelivered(p)
  <2> DEFINE r == [row[p.id] EXCEPT !.state = "delivered"]
  <2>1. r \in Row /\ r.state = "delivered"
    BY <1>1 DEF Row
  <2>2. /\ row' = [row EXCEPT ![p.id] = r] /\ send = "confirmed" /\ send' = "delivered"
        /\ UNCHANGED <<at, recovered, taken, cursor, fileVars, entry, clockVars, serial,
                       copies, ghostVars, boundVars>>
    BY <1>10 DEF MarksDelivered
  <2> HIDE DEF r
  <2>3. /\ row' \in [Ids -> Row] /\ row'[p.id] = r
        /\ \A i \in Ids : i # p.id => row'[i] = row[i]
    BY <1>3, <2>1, <2>2
  <2>4. Types' /\ OneReport' /\ Placed' /\ Covered'
    BY <1>0, <2>2, <2>3 DEF Types, OneReport, Placed, Covered
  <2>5. InFlight' /\ Proven' /\ Kept'
    BY <1>0, <1>1, <2>1, <2>2, <2>3 DEF Deliveries, InFlight, Proven, Kept, Nonterminal
  <2> QED BY <2>4, <2>5 DEF IInv, Deliveries
<1> QED BY <1>5, <1>6, <1>7, <1>8, <1>9, <1>10

(* The report is settled: its window goes with it.                         *)
LEMMA SettleIInv ==
  ASSUME IInv, NEW p \in pend, Settles(p)
  PROVE  IInv'
<1> USE DEF fileVars, clockVars, ghostVars, boundVars
<1>0. Types /\ OneReport /\ Placed /\ Deliveries /\ Covered
  BY DEF IInv
<1>1. /\ pend = {p} /\ request = {} /\ p \in Report /\ p.id \in Ids /\ p.events \subseteq Events
      /\ p.hour \in 0..MaxHours /\ entry[p.id] \in Entry
  BY <1>0, ReportBoundAssumption DEF OneReport, Types, Report, Hours
<1> DEFINE e == Unpinned(entry[p.id])
<1>2. e \in Entry /\ e.state = entry[p.id].state
  BY <1>1 DEF Unpinned, Entry
<1>3. /\ send = "delivered" /\ pend' = {}
      /\ entry' = [entry EXCEPT ![p.id] = e]
      /\ \/ p.mode = "digest" /\ window' = {} /\ told' = told \cup p.events /\ fired' = fired
         \/ p.mode # "digest" /\ fired' = p.hour /\ UNCHANGED <<window, told>>
      /\ RunGoesOnWith(recovered \/ at = "recover")
      /\ UNCHANGED <<taken, cursor, request, row, hour, serial, copies, doubted, behind, boundVars>>
  BY DEF Settles
<1> HIDE DEF e
<1>4. /\ entry' \in [Ids -> Entry] /\ entry'[p.id] = e
      /\ \A i \in Ids : i # p.id => entry'[i] = entry[i]
  BY <1>0, <1>1, <1>2, <1>3 DEF Types
<1>5. /\ at' \in {"idle", "drain", "commit", "digest", "full"}
      /\ recovered' \in BOOLEAN /\ send' = "no" /\ (at' = "idle" => ~recovered') /\ Placed'
      /\ at # "commit"
  BY <1>0, <1>1, <1>3, RunMoves DEF Types, Placed
<1>6. Types' /\ OneReport'
  BY <1>0, <1>1, <1>3, <1>4, <1>5 DEF Types, OneReport
<1>7. row[p.id].state = "delivered"
  BY <1>0, <1>3 DEF Deliveries, InFlight
<1>8. InFlight' /\ Kept'
  BY <1>0, <1>1, <1>3, <1>7 DEF Deliveries, InFlight, Kept, Nonterminal
<1>9. Proven'
  BY <1>0, <1>2, <1>3, <1>4, <1>7 DEF Deliveries, Proven
<1>10. Covered'
  BY <1>0, <1>3 DEF Covered
<1> QED BY <1>5, <1>6, <1>8, <1>9, <1>10 DEF IInv, Deliveries

----------------------------------------------------------------------------
(* Time and the operator: one row or one entry changes, and none that is   *)
(* on its way.                                                             *)
LEMMA WorldIInv ==
  ASSUME IInv, NEW i \in Ids,
         BackoffEnds(i) \/ LeaseEnds(i) \/ Prune(i) \/ Cancel(i) \/ Reactivate(i)
  PROVE  IInv'
<1> USE DEF fileVars, clockVars, ghostVars, boundVars
<1>0. Types /\ OneReport /\ Placed /\ Deliveries /\ Covered
  BY DEF IInv
<1>1. row[i] \in Row
  BY <1>0 DEF Types
<1>2. ASSUME NEW r \in Row, row' = [row EXCEPT ![i] = r], r.rep = row[i].rep,
             acts' \in 0..MaxActs,
             \/ r.state = row[i].state
             \/ row[i].state = "rejected" /\ r.state \in {"retryable", "cancelled"},
             UNCHANGED <<at, recovered, send, taken, cursor, fileVars, entry, clockVars, serial,
                         copies, ghostVars, crashes, faults>>
      PROVE  IInv'
  <2>1. /\ row' \in [Ids -> Row] /\ row'[i] = r
        /\ \A j \in Ids : j # i => row'[j] = row[j]
    BY <1>0, <1>2 DEF Types
  <2>2. Types'
    BY <1>0, <1>2, <2>1 DEF Types
  <2>3. OneReport' /\ Placed' /\ Covered'
    BY <1>0, <1>2 DEF OneReport, Placed, Covered
  <2>4. \A p \in pend : p.id \in Ids
    BY <1>0 DEF Types, Report
  <2>5. InFlight'
    BY <1>0, <1>2, <2>1, <2>4 DEF Deliveries, InFlight
  <2>6. Proven'
    BY <1>0, <1>2, <2>1 DEF Deliveries, Proven
  <2>7. Kept'
    BY <1>0, <1>2, <2>1 DEF Deliveries, Kept, Nonterminal
  <2> QED BY <2>2, <2>3, <2>5, <2>6, <2>7 DEF IInv, Deliveries
<1>3. CASE BackoffEnds(i)
  <2> DEFINE r == [row[i] EXCEPT !.backoff = FALSE]
  <2>1. r \in Row /\ r.rep = row[i].rep /\ r.state = row[i].state
    BY <1>1 DEF Row
  <2>2. row' = [row EXCEPT ![i] = r]
    BY <1>3 DEF BackoffEnds
  <2> HIDE DEF r
  <2> QED BY <1>0, <1>2, <1>3, <2>1, <2>2 DEF BackoffEnds, Types
<1>4. CASE LeaseEnds(i)
  <2> DEFINE r == [row[i] EXCEPT !.lease = "expired"]
  <2>1. r \in Row /\ r.rep = row[i].rep /\ r.state = row[i].state
    BY <1>1 DEF Row
  <2>2. row' = [row EXCEPT ![i] = r]
    BY <1>4 DEF LeaseEnds
  <2> HIDE DEF r
  <2> QED BY <1>0, <1>2, <1>4, <2>1, <2>2 DEF LeaseEnds, Types
<1>5. ASSUME NEW state \in {"cancelled", "retryable"}, Operator(i, state) PROVE IInv'
  <2> DEFINE r == [row[i] EXCEPT !.state = state]
  <2>1. r \in Row /\ r.rep = row[i].rep /\ r.state \in {"retryable", "cancelled"}
    BY <1>1 DEF Row
  <2>2. row' = [row EXCEPT ![i] = r] /\ row[i].state = "rejected"
    BY <1>5 DEF Operator
  <2>3. acts' \in 0..MaxActs
    BY <1>0, <1>5, ReportBoundAssumption DEF Operator, Types
  <2> HIDE DEF r
  <2> QED BY <1>2, <1>5, <2>1, <2>2, <2>3 DEF Operator
<1>6. CASE Prune(i)
  <2>1. /\ entry[i].state = "delivered" /\ ~entry[i].pinned
        /\ entry' = [entry EXCEPT ![i] = NoEntry]
        /\ UNCHANGED <<at, recovered, send, taken, cursor, fileVars, row, clockVars, serial,
                       copies, ghostVars, boundVars>>
    BY <1>6 DEF Prune
  <2>2. NoEntry \in Entry /\ NoEntry.state = "none"
    BY DEF NoEntry, Entry
  <2>3. /\ entry' \in [Ids -> Entry] /\ entry'[i] = NoEntry
        /\ \A j \in Ids : j # i => entry'[j] = entry[j]
    BY <1>0, <2>1, <2>2 DEF Types
  <2>4. Types' /\ OneReport' /\ Placed' /\ Covered'
    BY <1>0, <2>1, <2>3 DEF Types, OneReport, Placed, Covered
  <2>5. \A p \in pend : p.id \in Ids
    BY <1>0 DEF Types, Report
  <2>6. InFlight' /\ Kept'
    BY <1>0, <2>1, <2>3, <2>5 DEF Deliveries, InFlight, Kept
  <2>7. Proven'
    BY <1>0, <2>1, <2>2, <2>3 DEF Deliveries, Proven
  <2> QED BY <2>4, <2>6, <2>7 DEF IInv, Deliveries
<1> QED BY <1>3, <1>4, <1>5, <1>6 DEF Cancel, Reactivate

(* A death: what was on the wire becomes doubtful, pins follow the rows.   *)
LEMMA RestartIInv ==
  ASSUME IInv, Restart
  PROVE  IInv'
<1> USE DEF fileVars, clockVars, ghostVars, boundVars
<1>0. Types /\ OneReport /\ Placed /\ Deliveries /\ Covered
  BY DEF IInv
<1> DEFINE onTheWire == IF send = "sending" THEN {p.id : p \in pend} ELSE {}
<1>1. /\ crashes < MaxCrashes /\ crashes' = crashes + 1
      /\ RunThrows /\ taken' = 0
      /\ doubted' = doubted \cup onTheWire
      /\ \E landed \in SUBSET onTheWire :
           copies' = [i \in Ids |-> IF i \in landed THEN copies[i] + 1 ELSE copies[i]]
      /\ entry' = [i \in Ids |-> Reconciled(i)]
      /\ UNCHANGED <<cursor, fileVars, row, clockVars, serial, told, behind, acts, faults>>
  BY DEF Restart
<1>2. onTheWire \subseteq Ids
  BY <1>0 DEF Types, Report
<1> HIDE DEF onTheWire
<1>3. /\ copies' \in [Ids -> Nat]
      /\ \A i \in Ids : /\ i \notin onTheWire => copies'[i] = copies[i]
                        /\ copies[i] > 0 => copies'[i] > 0
  BY <1>0, <1>1 DEF Types
<1>4. ASSUME NEW i \in Ids
      PROVE  /\ entry'[i] \in Entry
             /\ entry'[i].state = entry[i].state
             /\ Nonterminal(row[i]) /\ entry[i].state # "none" => entry'[i].pinned
  <2>1. entry'[i] = Reconciled(i) /\ entry[i] \in Entry
    BY <1>0, <1>1 DEF Types
  <2>2. CASE row[i].state = "none"
    BY <2>1, <2>2 DEF Reconciled, Nonterminal
  <2>3. CASE row[i].state # "none"
    BY <2>1, <2>3 DEF Reconciled, Nonterminal, Entry
  <2> QED BY <2>2, <2>3
<1>5. entry' \in [Ids -> Entry]
  BY <1>1, <1>4
<1>6. /\ at' = "idle" /\ send' = "no" /\ recovered' = FALSE
  BY <1>1 DEF RunThrows
<1>7. crashes' \in 0..MaxCrashes /\ cursor + 0 <= MaxEvents
  BY <1>0, <1>1, ReportBoundAssumption DEF Types
<1>8. Types'
  <2>1. doubted' \subseteq Ids
    BY <1>0, <1>1, <1>2 DEF Types
  <2>2. taken' \in 0..MaxEvents /\ cursor' \in 0..MaxEvents /\ cursor' + taken' <= MaxEvents
    BY <1>0, <1>1, <1>7, ReportBoundAssumption DEF Types
  <2>3. taken' = 0
    BY <1>1
  <2> QED BY <1>0, <1>1, <1>3, <1>5, <1>6, <1>7, <2>1, <2>2, <2>3 DEF Types
<1>9. OneReport' /\ Placed' /\ InFlight' /\ Kept'
  BY <1>0, <1>1, <1>6 DEF OneReport, Placed, Deliveries, InFlight, Kept, Nonterminal
<1>10. Proven'
  <2> SUFFICES ASSUME NEW i \in Ids
               PROVE  /\ (entry'[i].state = "delivered" \/ row'[i].state = "delivered")
                            => copies'[i] > 0
                      /\ \/ i \in doubted'
                         \/ copies'[i] = 0
                         \/ /\ copies'[i] = 1
                            /\ \/ row'[i].state = "delivered"
                               \/ /\ row'[i].state = "retryable"
                                  /\ entry'[i].state = "delivered" /\ entry'[i].pinned
    BY DEF Proven
  <2>1. row'[i] = row[i] /\ entry'[i].state = entry[i].state
    BY <1>1, <1>4
  <2>2. (entry'[i].state = "delivered" \/ row'[i].state = "delivered") => copies'[i] > 0
    BY <1>0, <1>3, <2>1 DEF Deliveries, Proven
  <2>3. CASE i \in onTheWire
    BY <1>1, <2>2, <2>3
  <2>4. CASE i \notin onTheWire
    BY <1>0, <1>1, <1>3, <1>4, <2>1, <2>2, <2>4 DEF Deliveries, Proven, Nonterminal
  <2> QED BY <2>3, <2>4
<1>11. Covered'
  BY <1>0, <1>1, CoverRests
<1> QED BY <1>8, <1>9, <1>10, <1>11 DEF IInv, Deliveries

----------------------------------------------------------------------------
(* Every step preserves the inductive invariant.                           *)
LEMMA NextIInv == IInv /\ [Next]_vars => IInv'
<1> SUFFICES ASSUME IInv, [Next]_vars PROVE IInv'
  OBVIOUS
<1>1. ASSUME NEW i \in Ids,
             BackoffEnds(i) \/ LeaseEnds(i) \/ Prune(i) \/ Cancel(i) \/ Reactivate(i)
      PROVE  IInv'
  BY <1>1, WorldIInv
<1>2. CASE Restart
  BY <1>2, RestartIInv
<1>3. CASE Tick \/ Collects \/ Demand \/ HourPasses
  BY <1>3, LoopIInv
<1>4. CASE Composing
  BY <1>4, LoopIInv, ComposeIInv DEF Composing
<1>5. CASE Submits
  <2>1. PICK p \in pend : \/ Leases(p) \/ Refused(p) \/ Conflicts(p) \/ Waits(p)
                          \/ WasCancelled(p) \/ WasDelivered(p)
    BY <1>5 DEF Submits
  <2> QED BY <2>1, LoopIInv, SubmitIInv
<1>6. CASE Sends
  <2>1. CASE StepThrows
    BY <2>1, LoopIInv
  <2>2. CASE \E p \in pend : \/ Pins(p) \/ Transmits(p) \/ Accepted(p) \/ NoAnswer(p)
                            \/ Rejected(p) \/ MarksDelivered(p)
    BY <2>2, SendIInv
  <2>3. CASE \E p \in pend : Settles(p)
    BY <2>3, SettleIInv
  <2> QED BY <1>6, <2>1, <2>2, <2>3 DEF Sends, Answers
<1>7. CASE UNCHANGED vars
  BY <1>7 DEF IInv, Types, OneReport, Placed, Deliveries, InFlight, Proven, Kept, Nonterminal,
              Covered, vars, fileVars, clockVars, ghostVars, boundVars
<1> QED BY <1>1, <1>2, <1>3, <1>4, <1>5, <1>6, <1>7 DEF Next

(***************************************************************************)
(* The inductive invariant behind the theorems below.                      *)
(***************************************************************************)
THEOREM Invariance == Spec => []IInv
BY InitIInv, NextIInv, PTL DEF Spec

(***************************************************************************)
(* Every variable keeps its type; in particular the pending file never     *)
(* holds more than one report or request (pending-report-store.ts).        *)
(***************************************************************************)
THEOREM TypeCorrect == Spec => []TypeOK
<1>1. IInv => TypeOK
  <2> SUFFICES ASSUME IInv PROVE TypeOK
    OBVIOUS
  <2>1. Types /\ OneReport
    BY DEF IInv
  <2>2. Cardinality(pend) + Cardinality(request) <= 1
    BY <2>1, FileBound
  <2> QED BY <2>1, <2>2 DEF TypeOK, Types
<1> QED BY <1>1, Invariance, PTL

(***************************************************************************)
(* No message that is known to be in the chat is sent again: two copies    *)
(* mean that an attempt ended without an answer.                           *)
(***************************************************************************)
THEOREM RepeatSafety == Spec => []RepeatNeedsDoubt
<1>1. IInv => RepeatNeedsDoubt
  BY DEF IInv, Deliveries, Proven, RepeatNeedsDoubt
<1> QED BY <1>1, Invariance, PTL

(***************************************************************************)
(* A row that says delivered or cancelled tells the truth, and one that is *)
(* neither has its report in the pending file.                             *)
(***************************************************************************)
THEOREM OutcomeSafety == Spec => []OutcomeIsTrue
<1>1. IInv => OutcomeIsTrue
  BY DEF IInv, Deliveries, Proven, Kept, OutcomeIsTrue
<1> QED BY <1>1, Invariance, PTL

(***************************************************************************)
(* Committed events are in the window, told, or were drained while a       *)
(* digest was pending.                                                     *)
(***************************************************************************)
THEOREM CoverSafety == Spec => []LostOnlyBehind
<1>1. IInv => LostOnlyBehind
  BY DEF IInv, Types, Covered, LostOnlyBehind
<1> QED BY <1>1, Invariance, PTL
=============================================================================
