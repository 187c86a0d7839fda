---------------------------- MODULE BoardRefresh ----------------------------
(***************************************************************************)
(* The board: what has to be reconciled, and what may be called repaired.  *)
(*                                                                         *)
(* board-refresh-gate.ts (the dirt), board-reconcile.ts (debounce, budget, *)
(* retry), the publishers and the completion hook of api-routes-init.ts,   *)
(* workorder-hooks.ts and the owner's board request of start.ts.  Gate and *)
(* scheduler live in memory and die with the process; orders are durable.  *)
(*                                                                         *)
(* Orders are run one at a time, high priority first (WorkOrderConsumer).  *)
(* A board order without candidates has one attempt, and the only caller   *)
(* of the scheduler passes no event ids: no reconcile here has candidates. *)
(*                                                                         *)
(* A posted batch of lines is named by the generation its mark received,   *)
(* so the generation of a coalesced batch is that of its last element.     *)
(***************************************************************************)
EXTENDS Naturals, Sequences, FiniteSets

CONSTANTS
  Channels,    \* the channels a reconcile is posted for
  Private,     \* the private partitions this boot may not project
  Batches,     \* owner-event batches that delegate a board refresh
  MaxPending,  \* lines kept per channel while deferred
  Budget,      \* reconcile runs per hour
  MaxPosts,    \* bound: posted batches of lines
  MaxForced,   \* bound: forced refreshes, the delegated ones among them
  MaxCrashes,  \* bound: deaths and stops of the process
  MaxFaults    \* bound: enqueues that throw

ASSUME BoardAssumption ==
  /\ Private \subseteq Channels
  /\ MaxPending \in Nat \ {0} /\ Budget \in Nat \ {0}
  /\ {MaxPosts, MaxForced, MaxCrashes, MaxFaults} \subseteq Nat

Host  == "host"      \* api-routes' pseudo channel of a manual refresh
Owner == "owner"     \* start.ts' pseudo channel of the owner's request
Marked == Channels \cup {Host, Owner}

VARIABLES
  up,        \* the process runs
  gate,      \* generation, boot generation, boot dirt, generation per channel
  pending,   \* pendingLines per channel
  armed,     \* channels whose firing is due: debounce timer set, or retried
  retry,     \* the retry timer is set
  spent,     \* runTimestamps within the hour
  queue,     \* pending board orders, in the order of their claims
  run,       \* the order in progress: none, or one
  accepted,  \* owner-event batches whose key is reserved
  waiting,   \* history: lines whose run has not ended and no repair covered
  unproven,  \* history: lines whose run ended without a verdict, uncovered
  posts, forced, crashes, faults

schedulerVars == <<pending, armed, retry, spent>>
orderVars     == <<queue, run, accepted>>
ghostVars     == <<waiting, unproven>>
boundVars     == <<posts, forced, crashes, faults>>
vars == <<up, gate, schedulerVars, orderVars, ghostVars, boundVars>>

MaxGen == 1 + MaxPosts + MaxForced + MaxCrashes
Gens   == 0..MaxGen
Order  == [mode : {"full", "reconcile"}, chan : Marked, gen : Gens,
           lines : Seq(Gens), force : BOOLEAN, repair : BOOLEAN]

TypeOK ==
  /\ up \in BOOLEAN
  /\ gate \in [gen : Gens, boot : Gens, bootDirty : BOOLEAN, dirty : [Marked -> Gens]]
  /\ \A c \in Marked : gate.dirty[c] <= gate.gen
  /\ pending \in [Channels -> Seq(1..gate.gen)]
  /\ \A c \in Channels : Len(pending[c]) <= MaxPending
  /\ armed \subseteq Channels /\ retry \in BOOLEAN
  /\ spent \in 0..Budget
  /\ queue \in Seq(Order) /\ run \subseteq Order /\ Cardinality(run) <= 1
  /\ accepted \subseteq Batches
  /\ waiting \subseteq [chan : Channels, gen : Gens]
  /\ unproven \subseteq [chan : Channels, gen : Gens]
  /\ posts \in 0..MaxPosts /\ forced \in 0..MaxForced
  /\ crashes \in 0..MaxCrashes /\ faults \in 0..MaxFaults

NewGate(g) == [gen |-> g, boot |-> g, bootDirty |-> TRUE, dirty |-> [c \in Marked |-> 0]]

Idle == /\ pending = [c \in Channels |-> <<>>]
        /\ armed = {} /\ retry = FALSE /\ spent = 0

Init ==
  /\ up = TRUE /\ gate = NewGate(1) /\ Idle
  /\ queue = <<>> /\ run = {} /\ accepted = {}
  /\ waiting = {} /\ unproven = {}
  /\ posts = 0 /\ forced = 0 /\ crashes = 0 /\ faults = 0

----------------------------------------------------------------------------
(***************************************************************************)
(* BoardRefreshGate.                                                       *)
(***************************************************************************)
NeedsFull(g) == g.bootDirty \/ \E c \in Marked : g.dirty[c] # 0

WithMark(g, c) == [g EXCEPT !.gen = @ + 1, !.dirty[c] = g.gen + 1]

\* Fault: the completion of a reconcile cleans its channel whatever came later.
ClearedWhatever(g, c, captured) == [g EXCEPT !.dirty[c] = 0]

Cleared(g, c, captured) ==
  IF g.dirty[c] <= captured THEN [g EXCEPT !.dirty[c] = 0] ELSE g

ClearedByFull(g, captured) ==
  [g EXCEPT !.bootDirty = @ /\ captured < g.boot,
            !.dirty = [c \in Marked |-> IF @[c] <= captured THEN 0 ELSE @[c]]]

----------------------------------------------------------------------------
(***************************************************************************)
(* Orders.  High priority goes before normal; the repair key is held while *)
(* its order is open, the other keys are unique or reserved for good.      *)
(***************************************************************************)
(* the claim takes the highest priority, and the oldest order of that      *)
Ahead(q, o) == IF o.force THEN {i \in DOMAIN q : q[i].force} ELSE DOMAIN q

Placed(q, o) ==
  LET n == Cardinality(Ahead(q, o)) IN
    SubSeq(q, 1, n) \o <<o>> \o SubSeq(q, n + 1, Len(q))

FullOrder(g, force) ==
  [mode |-> "full", chan |-> Host, gen |-> g.gen, lines |-> <<>>,
   force |-> force, repair |-> ~force]

ReconcileOrder(c, lines) ==
  [mode |-> "reconcile", chan |-> c, gen |-> lines[Len(lines)], lines |-> lines,
   force |-> FALSE, repair |-> FALSE]

RepairOpen == \E o \in run \cup {queue[i] : i \in DOMAIN queue} : o.repair

(* an enqueue commits, or throws and leaves the table as it was            *)
EnqueuesOrThrows(o) ==
  \/ queue' = Placed(queue, o) /\ UNCHANGED faults
  \/ faults < MaxFaults /\ faults' = faults + 1 /\ UNCHANGED queue

----------------------------------------------------------------------------
(***************************************************************************)
(* ReconcileScheduler.  enqueue re-arms the trailing debounce; the timers  *)
(* fire at any moment.  The retry timer fires its channels in one block;   *)
(* here one after the other, and other actions may come between.           *)
(***************************************************************************)
\* Fault: the lines kept while deferred are not bounded.
NewestUnbounded(s) == s

Newest(s) == IF Len(s) > MaxPending THEN SubSeq(s, Len(s) - MaxPending + 1, Len(s)) ELSE s

Carries(s) == {s[i] : i \in DOMAIN s}

(* the lines of c that stop waiting: dropped, consumed, or judged          *)
Without(c, gens) == {u \in waiting : u.chan = c /\ u.gen \in gens}

Post(c) ==
  /\ up /\ posts < MaxPosts
  /\ gate' = WithMark(gate, c)
  /\ LET all  == Append(pending[c], gate'.gen)
         kept == Newest(all) IN
       /\ pending' = [pending EXCEPT ![c] = kept]
       /\ waiting' = (waiting \ Without(c, Carries(all) \ Carries(kept)))
                       \cup {[chan |-> c, gen |-> gate'.gen]}
  /\ armed' = armed \cup {c}
  /\ posts' = posts + 1
  /\ UNCHANGED <<up, retry, spent, orderVars, unproven, forced, crashes, faults>>

RetryTimer ==
  /\ up /\ retry
  /\ retry' = FALSE
  /\ armed' = armed \cup {c \in Channels : pending[c] # <<>>}
  /\ UNCHANGED <<up, gate, pending, spent, orderVars, ghostVars, boundVars>>

FireNothing(c) ==
  /\ pending[c] = <<>>
  /\ UNCHANGED <<gate, pending, retry, spent, queue, waiting, faults>>

\* Fault: what is over budget is kept and nothing is set to take it up.
FireDefersForGood(c) ==
  /\ pending[c] # <<>> /\ spent >= Budget
  /\ UNCHANGED <<gate, pending, retry, spent, queue, waiting, faults>>

FireDefers(c) ==
  /\ pending[c] # <<>> /\ spent >= Budget
  /\ retry' = TRUE
  /\ UNCHANGED <<gate, pending, spent, queue, waiting, faults>>

(* an unauthorized private partition is consumed without an order          *)
FireConsumes(c) ==
  /\ pending[c] # <<>> /\ spent < Budget /\ c \in Private
  /\ gate' = Cleared(gate, c, pending[c][Len(pending[c])])
  /\ waiting' = waiting \ Without(c, Carries(pending[c]))
  /\ pending' = [pending EXCEPT ![c] = <<>>]
  /\ spent' = spent + 1
  /\ UNCHANGED <<retry, queue, faults>>

\* Fault: the lines stay pending once they have been ordered.
FireRunsKeeping(c) ==
  /\ pending[c] # <<>> /\ spent < Budget /\ c \notin Private
  /\ EnqueuesOrThrows(ReconcileOrder(c, pending[c]))
  /\ pending' = pending
  /\ retry' = TRUE
  /\ spent' = spent + 1
  /\ UNCHANGED <<gate, waiting>>

(* The rejection of run puts the lines back before anything else can add   *)
(* to them.  The run is counted against the budget all the same.           *)
FireRuns(c) ==
  /\ pending[c] # <<>> /\ spent < Budget /\ c \notin Private
  /\ EnqueuesOrThrows(ReconcileOrder(c, pending[c]))
  /\ pending' = IF faults' = faults THEN [pending EXCEPT ![c] = <<>>] ELSE pending
  /\ retry' = (retry \/ faults' # faults)
  /\ spent' = spent + 1
  /\ UNCHANGED <<gate, waiting>>

Fire(c) ==
  /\ up /\ c \in armed
  /\ armed' = armed \ {c}
  /\ FireNothing(c) \/ FireDefers(c) \/ FireConsumes(c) \/ FireRuns(c)
  /\ UNCHANGED <<up, run, accepted, unproven, posts, forced, crashes>>

HourPasses ==
  /\ up /\ spent > 0
  /\ spent' = spent - 1
  /\ UNCHANGED <<up, gate, pending, armed, retry, orderVars, ghostVars, boundVars>>

----------------------------------------------------------------------------
(***************************************************************************)
(* Full refreshes: the 30-minute timer (and the one after boot), a manual  *)
(* refresh, a request of the owner, the delegation of an owner event.      *)
(***************************************************************************)
\* Fault: only the boot earns a full repair.
FullTimerAtBoot ==
  /\ up /\ gate.bootDirty
  /\ IF RepairOpen THEN UNCHANGED <<queue, faults>>
     ELSE EnqueuesOrThrows(FullOrder(gate, FALSE))
  /\ UNCHANGED <<up, gate, schedulerVars, run, accepted, ghostVars, posts, forced, crashes>>

FullTimer ==
  /\ up /\ NeedsFull(gate)
  /\ IF RepairOpen THEN UNCHANGED <<queue, faults>>
     ELSE EnqueuesOrThrows(FullOrder(gate, FALSE))
  /\ UNCHANGED <<up, gate, schedulerVars, run, accepted, ghostVars, posts, forced, crashes>>

ForceRefresh(h) ==
  /\ up /\ forced < MaxForced
  /\ gate' = WithMark(gate, h)
  /\ EnqueuesOrThrows(FullOrder(gate', TRUE))
  /\ forced' = forced + 1
  /\ UNCHANGED <<up, schedulerVars, run, accepted, ghostVars, posts, crashes>>

(* a batch asks again when its owner event is replayed: its key is taken   *)
EventAsks(b) ==
  /\ up /\ forced < MaxForced
  /\ gate' = WithMark(gate, Owner)
  /\ IF b \in accepted
     THEN UNCHANGED <<queue, accepted, faults>>
     ELSE /\ EnqueuesOrThrows(FullOrder(gate', TRUE))
          /\ accepted' = IF faults' = faults THEN accepted \cup {b} ELSE accepted
  /\ forced' = forced + 1
  /\ UNCHANGED <<up, schedulerVars, run, ghostVars, posts, crashes>>

----------------------------------------------------------------------------
(***************************************************************************)
(* The consumer, and the completion hook of the board.                     *)
(***************************************************************************)
Claim ==
  /\ up /\ run = {} /\ queue # <<>>
  /\ run' = {queue[1]}
  /\ queue' = Tail(queue)
  /\ UNCHANGED <<up, gate, schedulerVars, accepted, ghostVars, boundVars>>

(* effect: an obligated call was traced; note: only a no-update note.  A   *)
(* note does not verify a forced refresh.                                  *)
Verified(o, verdict) == verdict = "effect" \/ (verdict = "note" /\ ~o.force)

CoveredBy(o, u) ==
  IF o.mode = "full" THEN u.gen <= o.gen ELSE u.chan = o.chan /\ u.gen \in Carries(o.lines)

AfterVerdict(g, o) ==
  IF o.mode = "full" THEN ClearedByFull(g, o.gen) ELSE Cleared(g, o.chan, o.gen)

RunVerified(o, verdict) ==
  /\ up /\ o \in run /\ Verified(o, verdict)
  /\ gate' = AfterVerdict(gate, o)
  /\ waiting' = {u \in waiting : ~CoveredBy(o, u)}
  /\ unproven' = {u \in unproven : ~CoveredBy(o, u)}
  /\ run' = {}
  /\ UNCHANGED <<up, schedulerVars, queue, accepted, boundVars>>

(* prose without an effect, or a failure: there is no second attempt       *)
RunUnproven(o) ==
  /\ up /\ o \in run
  /\ run' = {}
  /\ LET judged == {u \in waiting : o.mode = "reconcile" /\ CoveredBy(o, u)} IN
       waiting' = waiting \ judged /\ unproven' = unproven \cup judged
  /\ UNCHANGED <<up, gate, schedulerVars, queue, accepted, boundVars>>

----------------------------------------------------------------------------
(* The process dies or stops: timers, lines and dirt are gone.  The next   *)
(* one seeds its gate with a later generation and fails the stale claim.   *)
Crash ==
  /\ up /\ crashes < MaxCrashes
  /\ up' = FALSE
  /\ crashes' = crashes + 1
  /\ pending' = [c \in Channels |-> <<>>] /\ armed' = {} /\ retry' = FALSE
  /\ spent' = 0
  /\ UNCHANGED <<gate, orderVars, ghostVars, posts, forced, faults>>

Boot ==
  /\ ~up
  /\ up' = TRUE
  /\ gate' = NewGate(gate.gen + 1)
  /\ run' = {}
  /\ UNCHANGED <<schedulerVars, queue, accepted, ghostVars, boundVars>>

----------------------------------------------------------------------------
RunEnds == \E o \in run : RunUnproven(o) \/ \E v \in {"effect", "note"} : RunVerified(o, v)

Next ==
  \/ \E c \in Channels : Post(c) \/ Fire(c)
  \/ RetryTimer \/ HourPasses
  \/ FullTimer
  \/ \E h \in {Host, Owner} : ForceRefresh(h)
  \/ \E b \in Batches : EventAsks(b)
  \/ Claim \/ RunEnds
  \/ Crash \/ Boot

Spec == Init /\ [][Next]_vars

(***************************************************************************)
(* Timers fire, the clock goes on, the consumer works its queue off, the   *)
(* daemon is restarted.  Nothing makes a run prove its effect.             *)
(***************************************************************************)
Fairness ==
  /\ \A c \in Channels : WF_vars(Fire(c))
  /\ WF_vars(RetryTimer) /\ WF_vars(HourPasses) /\ WF_vars(FullTimer)
  /\ WF_vars(Claim) /\ WF_vars(RunEnds) /\ WF_vars(Boot)

FairSpec == Spec /\ Fairness
----------------------------------------------------------------------------
(***************************************************************************)
(* Properties.                                                             *)
(***************************************************************************)
(* the dirt of a line: its channel's mark, or that of the boot after it    *)
IsDirty(u) == gate.dirty[u.chan] >= u.gen \/ (gate.bootDirty /\ u.gen < gate.boot)

(***************************************************************************)
(* Until its run has ended, a posted line that was neither dropped nor     *)
(* consumed keeps the gate dirty, whatever else completes in the meantime: *)
(* an earlier reconcile of its channel, a full refresh captured before it, *)
(* an order of an earlier boot.                                            *)
(***************************************************************************)
WaitingKeepsDirt == up => \A u \in waiting : IsDirty(u)

(***************************************************************************)
(* A line of this boot that waits is in exactly one place: pending, in one *)
(* queued order, or in the order in progress.  Coalescing, deferral, the   *)
(* budget and a rejected enqueue neither lose nor double it.               *)
(***************************************************************************)
CarriersOf(u) ==
  Cardinality({i \in DOMAIN pending[u.chan] : pending[u.chan][i] = u.gen})
    + Cardinality({i \in DOMAIN queue : queue[i].mode = "reconcile" /\ CoveredBy(queue[i], u)})
    + Cardinality({o \in run : o.mode = "reconcile" /\ CoveredBy(o, u)})

CarriedOnce ==
  up => \A u \in waiting : u.gen > gate.boot => CarriersOf(u) = 1

(***************************************************************************)
(* Lines do not stay pending for ever: the budget frees, a rejected        *)
(* enqueue is retried.                                                     *)
(***************************************************************************)
PendingIsSent == \A c \in Channels : pending[c] # <<>> ~> pending[c] = <<>>

(***************************************************************************)
(* A dirty gate is cleaned, or a full refresh is run that would clean all  *)
(* of it: no open order of an earlier generation, no reserved key and no   *)
(* unproven run keeps the repair from catching up.                         *)
(***************************************************************************)
RepairCatchesUp ==
  (up /\ NeedsFull(gate)) ~>
    (~NeedsFull(gate) \/ \E o \in run : o.mode = "full" /\ o.gen = gate.gen)

(***************************************************************************)
(* A line whose run ended without a verdict leaves the scheduled repair    *)
(* something to do: as long as no verified run covered the line, the gate  *)
(* asks for a full refresh.                                                *)
(***************************************************************************)
UnprovenKeepsDirt == up /\ unproven # {} => NeedsFull(gate)
=============================================================================
