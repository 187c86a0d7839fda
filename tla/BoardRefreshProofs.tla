-------------------------- MODULE BoardRefreshProofs --------------------------
(***************************************************************************)
(* Proofs about BoardRefresh: the dirt of the gate and the lines on their  *)
(* way stay in step, over coalescing, deferral, the budget, rejected       *)
(* enqueues, forced refreshes that overtake, and boots.                    *)
(*                                                                         *)
(* The argument is one order.  A generation is handed out once, so along   *)
(* the way of a channel - the order in progress, the queue, the pending    *)
(* lines - generations ascend.  Hence no line is carried twice, and a run  *)
(* that cleans its channel up to its own generation leaves the dirt of     *)
(* everything behind it.                                                   *)
(***************************************************************************)
EXTENDS BoardRefresh, SequenceTheorems, FiniteSetTheorems, TLAPS

(* every mark, and every boot that was or is to come, takes a generation   *)
Numbered ==
  /\ gate.gen + (IF up THEN 0 ELSE 1) <= 1 + posts + forced + crashes
  /\ gate.boot <= gate.gen
  /\ \A o, p \in run : o = p

Types == TypeOK /\ Numbered

(* what an order that is open may say of the gate and its channel          *)
Fits(o) ==
  /\ o.gen <= gate.gen
  /\ o.mode = "reconcile" =>
       /\ o.chan \in Channels \ Private
       /\ \A i \in DOMAIN o.lines : o.lines[i] <= o.gen

OpenOrders == run \cup Carries(queue)

AllFit == \A o \in OpenOrders : Fits(o)

(* o goes before p, and both may be reconciles of one channel              *)
Before(o, p) ==
  o.mode = "reconcile" /\ p.mode = "reconcile" /\ o.chan = p.chan =>
    \A i \in DOMAIN p.lines : o.gen < p.lines[i]

Ascends(s) == \A i, j \in DOMAIN s : i < j => s[i] < s[j]

Sorted(q) == \A i, j \in DOMAIN q : i < j => Before(q[i], q[j])

InOrder ==
  /\ \A c \in Channels : Ascends(pending[c])
  /\ Sorted(queue)
  /\ \A o \in run : \A p \in Carries(queue) : Before(o, p)
  /\ \A o \in OpenOrders : o.mode = "reconcile" =>
       \A i \in DOMAIN pending[o.chan] : o.gen < pending[o.chan][i]

(* where a line is                                                         *)
InPending(u) == \E i \in DOMAIN pending[u.chan] : pending[u.chan][i] = u.gen
Holds(o, u)  == o.mode = "reconcile" /\ CoveredBy(o, u)
InOrders(u)  == \E o \in OpenOrders : Holds(o, u)

(* What is known of a waiting line.  One of an earlier boot is left to the *)
(* dirt of the boot, one of this boot is on its way and keeps its channel  *)
(* dirty.                                                                  *)
LineKept(u) ==
  /\ u.gen <= gate.gen
  /\ u.gen <= gate.boot => u.gen < gate.boot /\ gate.bootDirty
  /\ u.gen > gate.boot => u.gen <= gate.dirty[u.chan]
  /\ up /\ u.gen > gate.boot => InPending(u) \/ InOrders(u)

LinesKept == \A u \in waiting : LineKept(u)

IInv == Types /\ AllFit /\ InOrder /\ LinesKept

-----------------------------------------------------------------------------
(***************************************************************************)
(* The operators: the gate, the queue, the lines kept.                     *)
(***************************************************************************)
GateType == [gen : Gens, boot : Gens, bootDirty : BOOLEAN, dirty : [Marked -> Gens]]

(* The bounds, generations and channels, as the assumptions give them.     *)
LEMMA BoundsAreNat ==
  /\ MaxPosts \in Nat /\ MaxForced \in Nat /\ MaxCrashes \in Nat /\ MaxFaults \in Nat
  /\ MaxPending \in Nat \ {0} /\ Budget \in Nat \ {0} /\ MaxGen \in Nat
  /\ Gens = 0..MaxGen /\ Channels \subseteq Marked /\ Host \in Marked /\ Owner \in Marked
BY BoardAssumption DEF MaxGen, Gens, Marked

(* markChannelDirty: the gate keeps its type, only the marked channel      *)
(* moves.                                                                  *)
LEMMA MarkGate ==
  ASSUME NEW g \in GateType, NEW c \in Marked, g.gen + 1 \in Gens,
         \A d \in Marked : g.dirty[d] <= g.gen
  PROVE  /\ WithMark(g, c) \in GateType
         /\ WithMark(g, c).gen = g.gen + 1
         /\ WithMark(g, c).boot = g.boot
         /\ WithMark(g, c).bootDirty = g.bootDirty
         /\ \A d \in Marked : WithMark(g, c).dirty[d] = IF d = c THEN g.gen + 1 ELSE g.dirty[d]
         /\ \A d \in Marked : WithMark(g, c).dirty[d] <= WithMark(g, c).gen
         /\ \A d \in Marked : g.dirty[d] <= WithMark(g, c).dirty[d]
<1>1. /\ g \in [gen : Gens, boot : Gens, bootDirty : BOOLEAN, dirty : [Marked -> Gens]]
      /\ Gens \subseteq Nat
  BY BoundsAreNat DEF GateType
<1> DEFINE h == [gen |-> g.gen + 1, boot |-> g.boot, bootDirty |-> g.bootDirty,
                 dirty |-> [g.dirty EXCEPT ![c] = g.gen + 1]]
<1>2. WithMark(g, c) = h
  <2>1. [g EXCEPT !.gen = @ + 1] =
          [gen |-> g.gen + 1, boot |-> g.boot, bootDirty |-> g.bootDirty, dirty |-> g.dirty]
    BY <1>1
  <2>2. WithMark(g, c) = [[g EXCEPT !.gen = @ + 1] EXCEPT !.dirty[c] = g.gen + 1]
    BY DEF WithMark
  <2> QED
    BY <2>1, <2>2
<1>3. h.dirty \in [Marked -> Gens]
  BY <1>1
<1>4. h \in GateType
  BY <1>1, <1>3 DEF GateType
<1>5. \A d \in Marked : h.dirty[d] = IF d = c THEN g.gen + 1 ELSE g.dirty[d]
  BY <1>1
<1>6. \A d \in Marked : g.dirty[d] \in Nat /\ g.gen \in Nat
  BY <1>1
<1>7. \A d \in Marked : h.dirty[d] <= g.gen + 1 /\ g.dirty[d] <= h.dirty[d]
  BY <1>5, <1>6
<1> QED
  BY <1>2, <1>4, <1>5, <1>7

(* A verified reconcile clears its channel up to what was captured, and no *)
(* other.                                                                  *)
LEMMA ClearGate ==
  ASSUME NEW g \in GateType, NEW c \in Marked, NEW captured \in Gens,
         \A d \in Marked : g.dirty[d] <= g.gen
  PROVE  /\ Cleared(g, c, captured) \in GateType
         /\ Cleared(g, c, captured).gen = g.gen
         /\ Cleared(g, c, captured).boot = g.boot
         /\ Cleared(g, c, captured).bootDirty = g.bootDirty
         /\ \A d \in Marked : Cleared(g, c, captured).dirty[d] =
              IF d = c /\ g.dirty[d] <= captured THEN 0 ELSE g.dirty[d]
         /\ \A d \in Marked : Cleared(g, c, captured).dirty[d] <= g.gen
<1>1. /\ g \in [gen : Gens, boot : Gens, bootDirty : BOOLEAN, dirty : [Marked -> Gens]]
      /\ Gens \subseteq Nat /\ 0 \in Gens
  BY BoundsAreNat DEF GateType
<1>2. CASE g.dirty[c] <= captured
  <2> DEFINE h == [gen |-> g.gen, boot |-> g.boot, bootDirty |-> g.bootDirty,
                   dirty |-> [g.dirty EXCEPT ![c] = 0]]
  <2>1. Cleared(g, c, captured) = h
    BY <1>1, <1>2 DEF Cleared
  <2>2. h.dirty \in [Marked -> Gens]
    BY <1>1
  <2>3. h \in GateType
    BY <1>1, <2>2 DEF GateType
  <2>4. \A d \in Marked : h.dirty[d] = IF d = c /\ g.dirty[d] <= captured THEN 0 ELSE g.dirty[d]
    BY <1>1, <1>2
  <2>5. \A d \in Marked : h.dirty[d] <= g.gen
    <3>1. g.gen \in Nat
      BY <1>1
    <3> QED
      BY <2>4, <3>1
  <2> QED
    BY <2>1, <2>3, <2>4, <2>5
<1>3. CASE ~(g.dirty[c] <= captured)
  BY <1>3 DEF Cleared
<1> QED
  BY <1>2, <1>3

(* A verified full refresh clears every channel up to what was captured.   *)
LEMMA ClearWholeGate ==
  ASSUME NEW g \in GateType, NEW captured \in Gens,
         \A d \in Marked : g.dirty[d] <= g.gen
  PROVE  /\ ClearedByFull(g, captured) \in GateType
         /\ ClearedByFull(g, captured).gen = g.gen
         /\ ClearedByFull(g, captured).boot = g.boot
         /\ ClearedByFull(g, captured).bootDirty = (g.bootDirty /\ captured < g.boot)
         /\ \A d \in Marked : ClearedByFull(g, captured).dirty[d] =
              IF g.dirty[d] <= captured THEN 0 ELSE g.dirty[d]
         /\ \A d \in Marked : ClearedByFull(g, captured).dirty[d] <= g.gen
<1>1. /\ g \in [gen : Gens, boot : Gens, bootDirty : BOOLEAN, dirty : [Marked -> Gens]]
      /\ Gens \subseteq Nat /\ 0 \in Gens
  BY BoundsAreNat DEF GateType
<1> DEFINE left == [d \in Marked |-> IF g.dirty[d] <= captured THEN 0 ELSE g.dirty[d]]
           h == [gen |-> g.gen, boot |-> g.boot, bootDirty |-> (g.bootDirty /\ captured < g.boot),
                 dirty |-> left]
<1>2. ClearedByFull(g, captured) = h
  <2>1. [g EXCEPT !.bootDirty = @ /\ captured < g.boot] =
          [gen |-> g.gen, boot |-> g.boot, bootDirty |-> (g.bootDirty /\ captured < g.boot),
           dirty |-> g.dirty]
    BY <1>1
  <2>2. ClearedByFull(g, captured) =
          [[g EXCEPT !.bootDirty = @ /\ captured < g.boot] EXCEPT !.dirty = left]
    BY <1>1 DEF ClearedByFull
  <2> HIDE DEF left
  <2> QED
    BY <2>1, <2>2
<1>3. left \in [Marked -> Gens] /\ (g.bootDirty /\ captured < g.boot) \in BOOLEAN
  BY <1>1
<1> HIDE DEF left
<1>4. h \in GateType
  BY <1>1, <1>3 DEF GateType
<1>5. \A d \in Marked : left[d] = IF g.dirty[d] <= captured THEN 0 ELSE g.dirty[d]
  BY DEF left
<1>6. \A d \in Marked : left[d] <= g.gen
  <2>1. g.gen \in Nat
    BY <1>1
  <2> QED
    BY <1>5, <2>1
<1> QED
  BY <1>2, <1>4, <1>5, <1>6

InsertAt(q, i, o) == SubSeq(q, 1, i - 1) \o <<o>> \o SubSeq(q, i, Len(q))

(* The elements of a concatenation.                                        *)
LEMMA ConcatLen ==
  ASSUME NEW S, NEW s \in Seq(S), NEW t \in Seq(S)
  PROVE  /\ s \o t \in Seq(S) /\ Len(s) \in Nat /\ Len(t) \in Nat
         /\ Len(s \o t) = Len(s) + Len(t)
         /\ \A i \in 1..Len(s) + Len(t) :
              (s \o t)[i] = IF i <= Len(s) THEN s[i] ELSE t[i - Len(s)]
BY ConcatProperties, LenProperties

(* The elements of a queue into which an order is inserted.                *)
LEMMA InsertAtElements ==
  ASSUME NEW S, NEW q \in Seq(S), NEW n \in 0..Len(q), NEW o \in S
  PROVE  /\ InsertAt(q, n + 1, o) \in Seq(S)
         /\ Len(InsertAt(q, n + 1, o)) = Len(q) + 1
         /\ \A i \in 1..Len(q) + 1 : InsertAt(q, n + 1, o)[i] =
              IF i <= n THEN q[i] ELSE IF i = n + 1 THEN o ELSE q[i - 1]
<1> DEFINE a == SubSeq(q, 1, n)
           b == <<o>>
           d == SubSeq(q, n + 1, Len(q))
           ab == a \o b
           r == ab \o d
<1>0. Len(q) \in Nat /\ n \in Nat /\ n <= Len(q)
  <2>1. Len(q) \in Nat
    BY LenProperties
  <2> QED
    BY <2>1
<1>1. a \in Seq(S) /\ Len(a) = n /\ \A i \in 1..n : a[i] = q[i]
  OBVIOUS
<1>2. d \in Seq(S) /\ Len(d) = Len(q) - n /\ \A i \in 1..Len(q) - n : d[i] = q[n + i]
  OBVIOUS
<1>3. b \in Seq(S) /\ Len(b) = 1 /\ b[1] = o
  OBVIOUS
<1>4. InsertAt(q, n + 1, o) = r
  <2>1. (n + 1) - 1 = n
    BY <1>0
  <2> QED
    BY <2>1 DEF InsertAt
<1> HIDE DEF a, b, d
<1>5. /\ ab \in Seq(S) /\ Len(ab) = Len(a) + Len(b)
      /\ \A i \in 1..Len(a) + Len(b) : ab[i] = IF i <= Len(a) THEN a[i] ELSE b[i - Len(a)]
  BY <1>1, <1>3, ConcatLen
<1> HIDE DEF ab
<1>6. Len(ab) = n + 1 /\ \A i \in 1..n + 1 : ab[i] = IF i <= n THEN q[i] ELSE o
  BY <1>0, <1>1, <1>3, <1>5
<1>7. /\ r \in Seq(S) /\ Len(r) = Len(ab) + Len(d)
      /\ \A i \in 1..Len(ab) + Len(d) : r[i] = IF i <= Len(ab) THEN ab[i] ELSE d[i - Len(ab)]
  <2>1. ab \in Seq(S) /\ d \in Seq(S)
    BY <1>2, <1>5
  <2> QED
    BY <2>1, ConcatLen
<1> HIDE DEF r
<1>8. Len(r) = Len(q) + 1
  BY <1>0, <1>2, <1>6, <1>7
<1>9. ASSUME NEW i \in 1..Len(q) + 1
      PROVE  r[i] = IF i <= n THEN q[i] ELSE IF i = n + 1 THEN o ELSE q[i - 1]
  <2>1. r[i] = IF i <= n + 1 THEN ab[i] ELSE d[i - (n + 1)]
    BY <1>0, <1>2, <1>6, <1>7
  <2>2. CASE i <= n + 1
    BY <2>1, <2>2, <1>0, <1>6
  <2>3. CASE i > n + 1
    <3>1. i - (n + 1) \in 1..Len(q) - n /\ n + (i - (n + 1)) = i - 1
      BY <2>3, <1>0
    <3>2. d[i - (n + 1)] = q[i - 1]
      BY <3>1, <1>2
    <3> QED
      BY <2>1, <2>3, <3>2, <1>0
  <2> QED
    BY <2>2, <2>3, <1>0
<1> QED
  BY <1>4, <1>7, <1>8, <1>9

(* An order placed by its priority neither loses nor swaps another one.    *)
LEMMA PlacedElements ==
  ASSUME NEW q \in Seq(Order), NEW o \in Order
  PROVE  /\ Placed(q, o) \in Seq(Order)
         /\ Carries(Placed(q, o)) = Carries(q) \cup {o}
         /\ (/\ Sorted(q)
             /\ \A p \in Carries(q) : Before(p, o) /\ (o.force => Before(o, p)))
            => Sorted(Placed(q, o))
<1> DEFINE n == Cardinality(Ahead(q, o))
           r == Placed(q, o)
           l == Len(q)
<1>0. l \in Nat /\ DOMAIN q = 1..l
  BY LenProperties
<1>1. n \in 0..l /\ (~o.force => n = l)
  <2>1. IsFiniteSet(1..l) /\ Cardinality(1..l) = l
    BY <1>0, FS_Interval
  <2>2. Ahead(q, o) \subseteq 1..l /\ (~o.force => Ahead(q, o) = 1..l)
    BY <1>0 DEF Ahead
  <2>3. IsFiniteSet(Ahead(q, o)) /\ n <= l
    BY <2>1, <2>2, FS_Subset
  <2>4. n \in Nat
    BY <2>3, FS_CardinalityType
  <2> QED
    BY <1>0, <2>1, <2>2, <2>3, <2>4
<1>2. r = InsertAt(q, n + 1, o)
  <2>1. (n + 1) - 1 = n
    BY <1>1
  <2> QED
    BY <2>1 DEF Placed, InsertAt
<1> HIDE DEF n, r
<1>3. /\ r \in Seq(Order) /\ Len(r) = l + 1
      /\ \A i \in 1..l + 1 : r[i] =
           IF i <= n THEN q[i] ELSE IF i = n + 1 THEN o ELSE q[i - 1]
  <2>1. n \in 0..Len(q)
    BY <1>1
  <2>2. /\ InsertAt(q, n + 1, o) \in Seq(Order)
        /\ Len(InsertAt(q, n + 1, o)) = Len(q) + 1
        /\ \A i \in 1..Len(q) + 1 : InsertAt(q, n + 1, o)[i] =
             IF i <= n THEN q[i] ELSE IF i = n + 1 THEN o ELSE q[i - 1]
    BY <2>1, InsertAtElements
  <2> QED
    BY <2>2, <1>2
<1>4. DOMAIN r = 1..l + 1
  BY <1>3, LenProperties
<1> HIDE DEF l
<1>5. /\ n \in Nat /\ n <= l
      /\ \A i \in DOMAIN r : i < n + 1 => i \in DOMAIN q /\ r[i] = q[i]
      /\ \A i \in DOMAIN r : i > n + 1 => i - 1 \in DOMAIN q /\ r[i] = q[i - 1]
      /\ n + 1 \in DOMAIN r /\ r[n + 1] = o
      /\ \A i \in DOMAIN q : i <= n => i \in DOMAIN r /\ r[i] = q[i]
      /\ \A i \in DOMAIN q : i > n => i + 1 \in DOMAIN r /\ r[i + 1] = q[i]
      /\ \A i \in DOMAIN r : i \in Nat
  BY <1>0, <1>1, <1>3, <1>4
<1>6. \A i \in DOMAIN r : r[i] \in Carries(q) \cup {o}
  BY <1>5 DEF Carries
<1>7. \A i \in DOMAIN q : q[i] \in Carries(r)
  <2> TAKE i \in DOMAIN q
  <2>1. i <= n \/ i > n
    BY <1>0, <1>5
  <2> QED
    BY <2>1, <1>5 DEF Carries
<1>8. Carries(r) = Carries(q) \cup {o}
  BY <1>5, <1>6, <1>7 DEF Carries
<1>9. ASSUME Sorted(q), \A p \in Carries(q) : Before(p, o) /\ (o.force => Before(o, p)),
             NEW i \in DOMAIN r, NEW j \in DOMAIN r, i < j
      PROVE  Before(r[i], r[j])
  <2>0. i \in Nat /\ j \in Nat /\ i < j
    BY <1>5, <1>9
  <2>1. CASE i = n + 1
    <3>1. r[i] = o /\ r[j] = q[j - 1] /\ j - 1 \in DOMAIN q
      BY <2>0, <2>1, <1>5
    <3>2. o.force
      BY <2>0, <2>1, <3>1, <1>0, <1>1, <1>4, <1>5
    <3>3. q[j - 1] \in Carries(q)
      BY <3>1 DEF Carries
    <3> QED
      BY <3>1, <3>2, <3>3, <1>9
  <2>2. CASE j = n + 1
    <3>1. r[j] = o /\ r[i] = q[i] /\ i \in DOMAIN q
      BY <2>0, <2>2, <1>5
    <3>2. q[i] \in Carries(q)
      BY <3>1 DEF Carries
    <3> QED
      BY <3>1, <3>2, <1>9
  <2>3. CASE j < n + 1
    <3>1. r[j] = q[j] /\ r[i] = q[i] /\ i \in DOMAIN q /\ j \in DOMAIN q
      BY <2>0, <2>3, <1>5
    <3> QED
      BY <2>0, <3>1, <1>9 DEF Sorted
  <2>4. CASE i < n + 1 /\ j > n + 1
    <3>1. r[j] = q[j - 1] /\ r[i] = q[i] /\ i \in DOMAIN q /\ j - 1 \in DOMAIN q
      BY <2>0, <2>4, <1>5
    <3>2. i < j - 1
      BY <2>0, <2>4, <1>5
    <3> QED
      BY <3>1, <3>2, <1>9 DEF Sorted
  <2>5. CASE i > n + 1
    <3>1. r[j] = q[j - 1] /\ r[i] = q[i - 1] /\ i - 1 \in DOMAIN q /\ j - 1 \in DOMAIN q
      BY <2>0, <2>5, <1>5
    <3>2. i - 1 < j - 1
      BY <2>0
    <3> QED
      BY <3>1, <3>2, <1>9 DEF Sorted
  <2> QED
    BY <2>0, <2>1, <2>2, <2>3, <2>4, <2>5, <1>5
<1>10. (/\ Sorted(q)
        /\ \A p \in Carries(q) : Before(p, o) /\ (o.force => Before(o, p)))
       => Sorted(r)
  BY <1>9 DEF Sorted
<1> QED
  BY <1>3, <1>8, <1>10 DEF r

(* Coalescing keeps the newest lines, in their order.                      *)
LEMMA NewestLines ==
  ASSUME NEW S, NEW s \in Seq(S), s # <<>>
  PROVE  /\ Newest(s) \in Seq(S) /\ Newest(s) # <<>> /\ Len(Newest(s)) <= MaxPending
         /\ Carries(Newest(s)) \subseteq Carries(s)
         /\ Newest(s)[Len(Newest(s))] = s[Len(s)]
         /\ \E d \in Nat : \A i \in DOMAIN Newest(s) :
              i + d \in DOMAIN s /\ Newest(s)[i] = s[i + d]
<1>0. Len(s) \in Nat \ {0} /\ DOMAIN s = 1..Len(s) /\ \A i \in 1..Len(s) : s[i] \in S
  BY LenProperties, EmptySeq
<1>1. CASE Len(s) > MaxPending
  <2> DEFINE d == Len(s) - MaxPending
             t == SubSeq(s, d + 1, Len(s))
  <2>0. d \in Nat /\ d + 1 \in 1..Len(s)
    BY <1>0, <1>1, BoundsAreNat
  <2>1. /\ t \in Seq(S) /\ Len(t) = Len(s) - (d + 1) + 1
        /\ \A i \in 1..Len(s) - (d + 1) + 1 : t[i] = s[(d + 1) + i - 1]
    BY <1>0, <2>0, SubSeqProperties
  <2>2. Newest(s) = t
    BY <1>0, <1>1, BoundsAreNat DEF Newest
  <2>3. Len(t) = MaxPending
    BY <2>1, <1>0, BoundsAreNat
  <2> HIDE DEF t
  <2>4. DOMAIN t = 1..MaxPending
    BY <2>1, <2>3, LenProperties
  <2>5. \A i \in 1..MaxPending : i + d \in DOMAIN s /\ t[i] = s[i + d]
    BY <2>0, <2>1, <1>0, BoundsAreNat
  <2>6. t[MaxPending] = s[Len(s)]
    BY <2>5, <1>0, BoundsAreNat
  <2> HIDE DEF d
  <2>7. \E e \in Nat : \A i \in DOMAIN t : i + e \in DOMAIN s /\ t[i] = s[i + e]
    BY <2>0, <2>4, <2>5
  <2>8. Carries(t) \subseteq Carries(s)
    BY <2>4, <2>5 DEF Carries
  <2>9. t # <<>> /\ Len(t) <= MaxPending
    BY <2>3, BoundsAreNat
  <2> QED
    BY <2>1, <2>2, <2>3, <2>6, <2>7, <2>8, <2>9
<1>2. CASE Len(s) <= MaxPending
  <2>1. Newest(s) = s
    BY <1>0, <1>2, BoundsAreNat DEF Newest
  <2>2. \A i \in DOMAIN s : i + 0 \in DOMAIN s /\ s[i] = s[i + 0]
    BY <1>0
  <2> QED
    BY <1>0, <1>2, <2>1, <2>2
<1> QED
  BY <1>0, <1>1, <1>2, BoundsAreNat

(* Lines stay lines when the generation counter has grown.                 *)
LEMMA LinesGrow ==
  ASSUME NEW a \in Nat, NEW b \in Nat, a <= b, NEW f \in [Channels -> Seq(1..a)]
  PROVE  f \in [Channels -> Seq(1..b)]
<1>1. 1..a \subseteq 1..b
  OBVIOUS
<1>2. \A c \in Channels : f[c] \in Seq(1..b)
  BY <1>1, SeqMonotonic
<1> QED
  BY <1>2

-----------------------------------------------------------------------------
(***************************************************************************)
(* The parts of the invariant, as facts.                                   *)
(***************************************************************************)
LEMMA GateFacts ==
  ASSUME Types
  PROVE  /\ gate \in GateType /\ gate.gen \in Nat /\ gate.boot \in Nat
         /\ gate.bootDirty \in BOOLEAN
         /\ \A d \in Marked : gate.dirty[d] \in Nat /\ gate.dirty[d] <= gate.gen
         /\ gate.boot <= gate.gen
BY BoundsAreNat DEF Types, TypeOK, Numbered, GateType

(* The types of the orders and of the lines that wait.                     *)
LEMMA QueueFacts ==
  ASSUME Types
  PROVE  /\ queue \in Seq(Order) /\ run \subseteq Order
         /\ \A o \in OpenOrders : o \in Order
         /\ \A u \in waiting : u.chan \in Channels /\ u.chan \in Marked /\ u.gen \in Nat
<1>1. queue \in Seq(Order) /\ run \subseteq Order /\ waiting \subseteq [chan : Channels, gen : Gens]
  BY DEF Types, TypeOK
<1>2. \A i \in DOMAIN queue : queue[i] \in Order
  BY <1>1, LenProperties, ElementOfSeq
<1>3. \A u \in waiting : u.chan \in Channels /\ u.gen \in Gens
  BY <1>1
<1> QED
  BY <1>1, <1>2, <1>3, BoundsAreNat DEF OpenOrders, Carries

(* The types of the fields of an order.                                    *)
LEMMA OrderFacts ==
  ASSUME NEW o \in Order
  PROVE  /\ o.gen \in Nat /\ o.chan \in Marked /\ o.force \in BOOLEAN
         /\ o.mode \in {"full", "reconcile"}
         /\ DOMAIN o.lines = 1..Len(o.lines) /\ Len(o.lines) \in Nat
         /\ \A i \in DOMAIN o.lines : o.lines[i] \in Nat
<1>1. o.gen \in Gens /\ o.chan \in Marked /\ o.force \in BOOLEAN
      /\ o.mode \in {"full", "reconcile"} /\ o.lines \in Seq(Gens)
  BY DEF Order
<1>2. DOMAIN o.lines = 1..Len(o.lines) /\ Len(o.lines) \in Nat
  BY <1>1, LenProperties
<1>3. \A i \in DOMAIN o.lines : o.lines[i] \in Gens
  BY <1>1, <1>2, ElementOfSeq
<1> QED
  BY <1>1, <1>2, <1>3, BoundsAreNat

(* The types of the lines pending in a channel.                            *)
LEMMA PendingFacts ==
  ASSUME Types, NEW c \in Channels
  PROVE  /\ pending[c] \in Seq(1..gate.gen) /\ Len(pending[c]) \in Nat
         /\ DOMAIN pending[c] = 1..Len(pending[c])
         /\ \A i \in DOMAIN pending[c] : pending[c][i] \in 1..gate.gen
<1>1. pending[c] \in Seq(1..gate.gen)
  BY DEF Types, TypeOK
<1>2. DOMAIN pending[c] = 1..Len(pending[c]) /\ Len(pending[c]) \in Nat
  BY <1>1, LenProperties
<1> QED
  BY <1>1, <1>2, ElementOfSeq

(* A waiting line whose way and whose dirt only grow stays kept.           *)
LEMMA LineMoves ==
  ASSUME Types, NEW u \in waiting, LineKept(u),
         up' = up, gate'.gen \in Nat, gate.gen <= gate'.gen,
         gate'.boot = gate.boot, gate'.bootDirty = gate.bootDirty,
         gate'.dirty[u.chan] \in Nat,
         u.gen > gate.boot => gate.dirty[u.chan] <= gate'.dirty[u.chan],
         u.gen > gate.boot /\ (InPending(u) \/ InOrders(u)) => InPending(u)' \/ InOrders(u)'
  PROVE  LineKept(u)'
BY GateFacts, QueueFacts DEF LineKept

(* What the invariant says of a state is said again when nothing that it   *)
(* speaks of has changed.                                                  *)
LEMMA Quiet ==
  ASSUME AllFit, InOrder, LinesKept, UNCHANGED <<up, gate, pending, queue, run, waiting>>
  PROVE  AllFit' /\ InOrder' /\ LinesKept'
BY DEF AllFit, Fits, OpenOrders, InOrder, Sorted, LinesKept, LineKept, InPending, InOrders

(* A full order is placed, or not, while the gate at most gains marks.     *)
LEMMA FullPlaced ==
  ASSUME IInv, UNCHANGED <<up, pending, run, waiting>>,
         gate'.gen \in Nat, gate.gen <= gate'.gen,
         gate'.boot = gate.boot, gate'.bootDirty = gate.bootDirty,
         \A d \in Marked : gate'.dirty[d] \in Nat /\ gate.dirty[d] <= gate'.dirty[d],
         NEW o \in Order, o.mode = "full", o.gen <= gate'.gen,
         EnqueuesOrThrows(o) \/ UNCHANGED <<queue, faults>>
  PROVE  /\ queue' \in Seq(Order) /\ faults' \in 0..MaxFaults
         /\ AllFit' /\ InOrder' /\ LinesKept'
<1>0. Types /\ AllFit /\ InOrder /\ LinesKept
  BY DEF IInv
<1>1. queue \in Seq(Order) /\ faults \in 0..MaxFaults
  BY <1>0 DEF Types, TypeOK
<1>2. faults' \in 0..MaxFaults
  BY <1>1, BoundsAreNat DEF EnqueuesOrThrows
<1>3. \A p : Before(p, o) /\ Before(o, p)
  BY DEF Before
<1>4. Sorted(queue)
  BY <1>0 DEF InOrder
<1>5. /\ queue' \in Seq(Order) /\ Sorted(queue')
      /\ Carries(queue) \subseteq Carries(queue')
      /\ Carries(queue') \subseteq Carries(queue) \cup {o}
  <2>1. CASE queue' = Placed(queue, o)
    BY <2>1, <1>1, <1>3, <1>4, PlacedElements
  <2>2. CASE queue' = queue
    BY <2>2, <1>1, <1>4
  <2> QED
    BY <2>1, <2>2 DEF EnqueuesOrThrows
<1>6. OpenOrders \subseteq OpenOrders' /\ OpenOrders' \subseteq OpenOrders \cup {o}
  BY <1>5 DEF OpenOrders
<1>7. AllFit'
  <2>1. SUFFICES ASSUME NEW p \in OpenOrders'
                 PROVE  Fits(p)'
    BY DEF AllFit
  <2>2. CASE p = o
    BY <2>2 DEF Fits
  <2>3. CASE p \in OpenOrders
    <3>1. Fits(p) /\ p.gen \in Nat
      BY <2>3, <1>0, QueueFacts, OrderFacts DEF AllFit
    <3> QED
      BY <3>1, <1>0, GateFacts DEF Fits
  <2> QED
    BY <2>1, <2>2, <2>3, <1>6
<1>8. InOrder'
  <2>1. \A c \in Channels : Ascends(pending'[c])
    BY <1>0 DEF InOrder
  <2>2. \A p \in run' : \A r \in Carries(queue') : Before(p, r)
    BY <1>0, <1>3, <1>5 DEF InOrder
  <2>3. \A p \in OpenOrders' : p.mode = "reconcile" =>
          \A i \in DOMAIN pending'[p.chan] : p.gen < pending'[p.chan][i]
    BY <1>0, <1>6 DEF InOrder
  <2> QED
    BY <2>1, <2>2, <2>3, <1>5 DEF InOrder
<1>9. LinesKept'
  <2>1. SUFFICES ASSUME NEW u \in waiting
                 PROVE  LineKept(u)'
    BY DEF LinesKept
  <2>2. InPending(u) => InPending(u)'
    BY DEF InPending
  <2>3. InOrders(u) => InOrders(u)'
    BY <1>6 DEF InOrders
  <2>4. LineKept(u) /\ u.chan \in Marked
    BY <1>0, QueueFacts DEF LinesKept
  <2> QED
    BY <1>0, <2>2, <2>3, <2>4, LineMoves
<1> QED
  BY <1>2, <1>5, <1>7, <1>8, <1>9

-----------------------------------------------------------------------------
(***************************************************************************)
(* The scheduler.                                                          *)
(***************************************************************************)
LEMMA PostKeeps == ASSUME IInv, NEW c \in Channels, Post(c) PROVE IInv'
<1>0. Types /\ AllFit /\ InOrder /\ LinesKept
  BY DEF IInv
<1>1. /\ up /\ posts < MaxPosts /\ gate' = WithMark(gate, c)
      /\ armed' = armed \cup {c} /\ posts' = posts + 1
      /\ UNCHANGED <<up, retry, spent, queue, run, accepted, unproven, forced, crashes, faults>>
  BY DEF Post, orderVars
<1>2. gate.gen + 1 \in Gens /\ gate.gen + 1 <= 1 + posts' + forced + crashes
  <2>1. gate.gen \in Nat /\ gate.gen <= 1 + posts + forced + crashes
    BY <1>0, <1>1, GateFacts DEF Types, Numbered
  <2>2. posts \in 0..MaxPosts /\ forced \in 0..MaxForced /\ crashes \in 0..MaxCrashes
    BY <1>0 DEF Types, TypeOK
  <2> QED
    BY <1>1, <2>1, <2>2, BoundsAreNat DEF MaxGen
<1>3. /\ gate' \in GateType /\ gate'.gen = gate.gen + 1 /\ gate'.boot = gate.boot
      /\ gate'.bootDirty = gate.bootDirty
      /\ gate'.dirty[c] = gate.gen + 1
      /\ \A d \in Marked : gate'.dirty[d] <= gate'.gen /\ gate.dirty[d] <= gate'.dirty[d]
  BY <1>0, <1>1, <1>2, GateFacts, BoundsAreNat, MarkGate
<1>4. /\ gate.gen \in Nat /\ gate'.gen \in Nat /\ gate.gen < gate'.gen /\ gate.boot \in Nat
      /\ \A d \in Marked : gate'.dirty[d] \in Nat
  BY <1>0, <1>3, GateFacts, BoundsAreNat DEF GateType
<1> DEFINE all == Append(pending[c], gate'.gen)
           kept == Newest(all)
<1>5. /\ pending' = [pending EXCEPT ![c] = kept]
      /\ waiting' = (waiting \ Without(c, Carries(all) \ Carries(kept)))
                       \cup {[chan |-> c, gen |-> gate'.gen]}
  BY DEF Post
<1>6. /\ pending \in [Channels -> Seq(1..gate.gen)] /\ pending[c] \in Seq(1..gate.gen)
      /\ \A d \in Channels : Len(pending[d]) <= MaxPending
  BY <1>0 DEF Types, TypeOK
<1>7. pending \in [Channels -> Seq(1..gate'.gen)] /\ pending[c] \in Seq(1..gate'.gen)
  BY <1>4, <1>6, LinesGrow
<1> DEFINE l == Len(pending[c])
<1>8. /\ l \in Nat /\ DOMAIN pending[c] = 1..l
      /\ \A i \in 1..l : pending[c][i] \in 1..gate.gen
  BY <1>6, LenProperties, ElementOfSeq
<1>9. /\ all \in Seq(1..gate'.gen) /\ all # <<>> /\ Len(all) = l + 1
      /\ \A i \in 1..l : all[i] = pending[c][i]
      /\ all[l + 1] = gate'.gen
  <2>1. gate'.gen \in 1..gate'.gen
    BY <1>4
  <2> QED
    BY <1>7, <2>1, AppendProperties
<1> HIDE DEF all
<1>10. DOMAIN all = 1..l + 1
  BY <1>9, LenProperties
<1>11. /\ kept \in Seq(1..gate'.gen) /\ kept # <<>> /\ Len(kept) <= MaxPending
       /\ Carries(kept) \subseteq Carries(all)
       /\ kept[Len(kept)] = all[Len(all)]
       /\ \E d \in Nat : \A i \in DOMAIN kept : i + d \in DOMAIN all /\ kept[i] = all[i + d]
  BY <1>9, NewestLines
<1> HIDE DEF kept
<1>12. DOMAIN kept = 1..Len(kept) /\ Len(kept) \in Nat /\ Len(kept) \in DOMAIN kept
  BY <1>11, LenProperties, EmptySeq
<1>13. PICK d \in Nat : \A i \in DOMAIN kept : i + d \in DOMAIN all /\ kept[i] = all[i + d]
  BY <1>11
<1>14. pending'[c] = kept /\ \A e \in Channels \ {c} : pending'[e] = pending[e]
  BY <1>5, <1>6
<1>15. \A i \in DOMAIN all : all[i] = gate'.gen \/ \E j \in DOMAIN pending[c] : all[i] = pending[c][j]
  BY <1>8, <1>9, <1>10
<1>16. Ascends(all)
  <2>1. SUFFICES ASSUME NEW i \in 1..l + 1, NEW j \in 1..l + 1, i < j
                 PROVE  all[i] < all[j]
    BY <1>10 DEF Ascends
  <2>2. i \in 1..l
    BY <2>1, <1>8
  <2>3. CASE j = l + 1
    BY <2>2, <2>3, <1>4, <1>8, <1>9
  <2>4. CASE j \in 1..l
    BY <2>1, <2>2, <2>4, <1>0, <1>8, <1>9 DEF InOrder, Ascends
  <2> QED
    BY <2>3, <2>4, <1>8
<1>17. Ascends(kept)
  <2>1. SUFFICES ASSUME NEW i \in DOMAIN kept, NEW j \in DOMAIN kept, i < j
                 PROVE  kept[i] < kept[j]
    BY DEF Ascends
  <2>2. i + d \in DOMAIN all /\ j + d \in DOMAIN all /\ i + d < j + d
    BY <2>1, <1>12, <1>13
  <2> QED
    BY <2>2, <1>13, <1>16 DEF Ascends
<1>18. pending' \in [Channels -> Seq(1..gate'.gen)] /\ \A e \in Channels : Len(pending'[e]) <= MaxPending
  BY <1>5, <1>6, <1>7, <1>11, <1>14
<1>19. waiting' \subseteq [chan : Channels, gen : Gens]
  <2>1. waiting \subseteq [chan : Channels, gen : Gens]
    BY <1>0 DEF Types, TypeOK
  <2>2. gate'.gen \in Gens
    BY <1>2, <1>3
  <2> QED
    BY <1>5, <2>1, <2>2
<1>20. Types'
  <2>1. Numbered'
    BY <1>0, <1>1, <1>2, <1>3, <1>4 DEF Types, Numbered
  <2>2. posts' \in 0..MaxPosts
    BY <1>0, <1>1, BoundsAreNat DEF Types, TypeOK
  <2> QED
    BY <1>0, <1>1, <1>3, <1>18, <1>19, <2>1, <2>2 DEF Types, TypeOK, GateType
<1>21. OpenOrders' = OpenOrders
  BY <1>1 DEF OpenOrders
<1>22. AllFit'
  BY <1>0, <1>4, <1>21, QueueFacts, OrderFacts DEF AllFit, Fits
<1>23. InOrder'
  <2>1. \A e \in Channels : Ascends(pending'[e])
    BY <1>0, <1>14, <1>17 DEF InOrder
  <2>2. ASSUME NEW o \in OpenOrders, o.mode = "reconcile", NEW i \in DOMAIN pending'[o.chan]
        PROVE  o.gen < pending'[o.chan][i]
    <3>1. o.chan \in Channels /\ o.gen \in Nat /\ o.gen <= gate.gen
      BY <2>2, <1>0, QueueFacts, OrderFacts DEF AllFit, Fits
    <3>2. \A j \in DOMAIN pending[o.chan] : o.gen < pending[o.chan][j]
      BY <2>2, <1>0 DEF InOrder
    <3>3. CASE o.chan = c
      <4>1. PICK j \in DOMAIN all : pending'[o.chan][i] = all[j]
        BY <2>2, <3>3, <1>13, <1>14
      <4> QED
        BY <3>1, <3>2, <3>3, <4>1, <1>4, <1>15
    <3>4. CASE o.chan # c
      BY <2>2, <3>1, <3>2, <3>4, <1>14
    <3> QED
      BY <3>3, <3>4
  <2> QED
    BY <2>1, <2>2, <1>0, <1>1, <1>21 DEF InOrder
<1>24. LinesKept'
  <2>1. SUFFICES ASSUME NEW u \in waiting'
                 PROVE  LineKept(u)'
    BY DEF LinesKept
  <2>2. CASE u = [chan |-> c, gen |-> gate'.gen]
    <3>1. u.chan = c /\ u.gen = gate'.gen /\ u.gen > gate'.boot
      BY <2>2, <1>0, <1>3, <1>4, GateFacts
    <3>2. InPending(u)'
      BY <3>1, <1>9, <1>11, <1>12, <1>14 DEF InPending
    <3> QED
      BY <3>1, <3>2, <1>3, <1>4 DEF LineKept
  <2>3. CASE u # [chan |-> c, gen |-> gate'.gen]
    <3>1. u \in waiting /\ u \notin Without(c, Carries(all) \ Carries(kept))
      BY <2>1, <2>3, <1>5
    <3>2. LineKept(u) /\ u.chan \in Channels /\ u.chan \in Marked
      BY <3>1, <1>0, QueueFacts DEF LinesKept
    <3>3. ASSUME InPending(u)
          PROVE  InPending(u)'
      <4>1. PICK i \in DOMAIN pending[u.chan] : pending[u.chan][i] = u.gen
        BY <3>3 DEF InPending
      <4>2. CASE u.chan = c
        <5>1. u.gen \in Carries(all)
          BY <4>1, <4>2, <1>8, <1>9, <1>10 DEF Carries
        <5>2. u.gen \in Carries(kept)
          BY <5>1, <4>2, <3>1 DEF Without
        <5> QED
          BY <5>2, <4>2, <1>14 DEF Carries, InPending
      <4>3. CASE u.chan # c
        BY <4>1, <4>3, <3>2, <1>14 DEF InPending
      <4> QED
        BY <4>2, <4>3
    <3>4. InOrders(u) => InOrders(u)'
      BY <1>21 DEF InOrders
    <3>5. gate.gen <= gate'.gen /\ gate.dirty[u.chan] <= gate'.dirty[u.chan] /\ gate'.dirty[u.chan] \in Nat
      BY <3>2, <1>3, <1>4
    <3> QED
      BY <3>1, <3>2, <3>3, <3>4, <3>5, <1>0, <1>1, <1>3, <1>4, LineMoves
  <2> QED
    BY <2>2, <2>3
<1> QED
  BY <1>20, <1>22, <1>23, <1>24 DEF IInv

(* The retry timer only arms channels.                                     *)
LEMMA RetryTimerKeeps == ASSUME IInv, RetryTimer PROVE IInv'
<1>1. UNCHANGED <<up, gate, pending, queue, run, waiting>>
  BY DEF RetryTimer, orderVars, ghostVars
<1>2. AllFit' /\ InOrder' /\ LinesKept'
  BY <1>1, Quiet DEF IInv
<1>3. Types'
  BY DEF IInv, Types, TypeOK, Numbered, RetryTimer, orderVars, ghostVars, boundVars
<1> QED
  BY <1>2, <1>3 DEF IInv

(* The hour only gives the budget back.                                    *)
LEMMA HourPassesKeeps == ASSUME IInv, HourPasses PROVE IInv'
<1>1. UNCHANGED <<up, gate, pending, queue, run, waiting>>
  BY DEF HourPasses, orderVars, ghostVars
<1>2. AllFit' /\ InOrder' /\ LinesKept'
  BY <1>1, Quiet DEF IInv
<1>3. spent' \in 0..Budget
  BY BoundsAreNat DEF IInv, Types, TypeOK, HourPasses
<1>4. Types'
  BY <1>3 DEF IInv, Types, TypeOK, Numbered, HourPasses, orderVars, ghostVars, boundVars
<1> QED
  BY <1>2, <1>4 DEF IInv

(* fire() with nothing pending, or over its budget, moves no line.         *)
LEMMA FireQuiet ==
  ASSUME IInv, NEW c \in Channels, Fire(c), FireNothing(c) \/ FireDefers(c)
  PROVE  IInv'
<1>1. UNCHANGED <<up, gate, pending, queue, run, waiting>>
  BY DEF Fire, FireNothing, FireDefers
<1>2. AllFit' /\ InOrder' /\ LinesKept'
  BY <1>1, Quiet DEF IInv
<1>3. armed' \subseteq Channels /\ retry' \in BOOLEAN
  BY DEF IInv, Types, TypeOK, Fire, FireNothing, FireDefers
<1>4. UNCHANGED <<spent, accepted, unproven, posts, forced, crashes, faults>>
  BY DEF Fire, FireNothing, FireDefers
<1>5. Types'
  BY <1>1, <1>3, <1>4 DEF IInv, Types, TypeOK, Numbered
<1> QED
  BY <1>2, <1>5 DEF IInv

(* The last of the pending lines is the newest of them.                    *)
LEMMA LastIsNewest ==
  ASSUME Types, InOrder, NEW c \in Channels, pending[c] # <<>>
  PROVE  /\ Len(pending[c]) \in DOMAIN pending[c]
         /\ pending[c][Len(pending[c])] \in Gens
         /\ pending[c][Len(pending[c])] <= gate.gen
         /\ \A i \in DOMAIN pending[c] :
              pending[c][i] <= pending[c][Len(pending[c])] /\ pending[c][i] \in Gens
<1> DEFINE l == Len(pending[c])
<1>1. /\ l \in Nat /\ DOMAIN pending[c] = 1..l
      /\ \A i \in 1..l : pending[c][i] \in 1..gate.gen
      /\ pending[c] \in Seq(1..gate.gen)
  BY PendingFacts
<1>2. l \in 1..l
  <2>1. l # 0
    BY <1>1, EmptySeq
  <2> QED
    BY <1>1, <2>1
<1>3. gate.gen \in Gens /\ gate.gen \in Nat /\ 1..gate.gen \subseteq Gens
  BY BoundsAreNat DEF Types, TypeOK
<1>4. ASSUME NEW i \in 1..l
      PROVE  pending[c][i] <= pending[c][l]
  <2>1. CASE i = l
    BY <2>1, <1>1, <1>2, <1>3
  <2>2. CASE i < l
    BY <2>2, <1>1, <1>2, <1>3 DEF InOrder, Ascends
  <2> QED
    BY <2>1, <2>2, <1>1
<1> QED
  BY <1>1, <1>2, <1>3, <1>4

(* fire() of an unauthorized partition drops its lines, and their dirt.    *)
LEMMA FireConsumesKeeps ==
  ASSUME IInv, NEW c \in Channels, Fire(c), FireConsumes(c)
  PROVE  IInv'
<1>0. Types /\ AllFit /\ InOrder /\ LinesKept
  BY DEF IInv
<1> DEFINE last == pending[c][Len(pending[c])]
<1>1. /\ up /\ pending[c] # <<>> /\ spent < Budget /\ c \in Private
      /\ gate' = Cleared(gate, c, last)
      /\ waiting' = waiting \ Without(c, Carries(pending[c]))
      /\ pending' = [pending EXCEPT ![c] = <<>>]
      /\ spent' = spent + 1 /\ armed' = armed \ {c}
      /\ UNCHANGED <<up, retry, queue, run, accepted, unproven, posts, forced, crashes, faults>>
  BY DEF Fire, FireConsumes
<1>2. last \in Gens
  BY <1>0, <1>1, LastIsNewest
<1> HIDE DEF last
<1>3. /\ gate' \in GateType /\ gate'.gen = gate.gen /\ gate'.boot = gate.boot
      /\ gate'.bootDirty = gate.bootDirty
      /\ \A d \in Marked : gate'.dirty[d] = IF d = c /\ gate.dirty[d] <= last THEN 0 ELSE gate.dirty[d]
      /\ \A d \in Marked : gate'.dirty[d] <= gate.gen
  BY <1>0, <1>1, <1>2, GateFacts, BoundsAreNat, ClearGate
<1>4. pending \in [Channels -> Seq(1..gate.gen)] /\ \A d \in Channels : Len(pending[d]) <= MaxPending
  BY <1>0 DEF Types, TypeOK
<1>5. /\ pending' \in [Channels -> Seq(1..gate.gen)]
      /\ pending'[c] = <<>> /\ \A e \in Channels \ {c} : pending'[e] = pending[e]
  BY <1>1, <1>4
<1>6. \A d \in Channels : Len(pending'[d]) <= MaxPending
  <2>1. Len(pending'[c]) = 0 /\ 0 <= MaxPending
    BY <1>5, BoundsAreNat
  <2>2. \A d \in Channels \ {c} : Len(pending'[d]) <= MaxPending
    BY <1>4, <1>5
  <2> QED
    BY <2>1, <2>2
<1>7. spent' \in 0..Budget
  BY <1>0, <1>1, BoundsAreNat DEF Types, TypeOK
<1>8. Types'
  <2>1. Numbered'
    BY <1>0, <1>1, <1>3 DEF Types, Numbered
  <2> QED
    BY <1>0, <1>1, <1>3, <1>5, <1>6, <1>7, <2>1 DEF Types, TypeOK, GateType
<1>9. OpenOrders' = OpenOrders
  BY <1>1 DEF OpenOrders
<1>10. AllFit'
  BY <1>0, <1>3, <1>9 DEF AllFit, Fits
<1>11. \A e \in Channels : \A i \in DOMAIN pending'[e] :
         i \in DOMAIN pending[e] /\ pending'[e][i] = pending[e][i]
  BY <1>5
<1>12. InOrder'
  <2>1. \A e \in Channels : Ascends(pending'[e])
    BY <1>0, <1>11 DEF InOrder, Ascends
  <2>2. \A o \in OpenOrders : o.mode = "reconcile" => o.chan \in Channels
    BY <1>0 DEF AllFit, Fits
  <2>3. \A o \in OpenOrders' : o.mode = "reconcile" =>
          \A i \in DOMAIN pending'[o.chan] : o.gen < pending'[o.chan][i]
    BY <2>2, <1>0, <1>9, <1>11 DEF InOrder
  <2> QED
    BY <2>1, <2>3, <1>0, <1>1 DEF InOrder
<1>13. LinesKept'
  <2>1. SUFFICES ASSUME NEW u \in waiting'
                 PROVE  LineKept(u)'
    BY DEF LinesKept
  <2>2. u \in waiting /\ ~(u.chan = c /\ u.gen \in Carries(pending[c]))
    BY <1>1 DEF Without
  <2>3. LineKept(u) /\ u.chan \in Channels /\ u.chan \in Marked
    BY <2>2, <1>0, QueueFacts DEF LinesKept
  <2>4. gate'.dirty[u.chan] \in Nat /\ gate.gen \in Nat /\ gate.dirty[u.chan] \in Nat
    BY <2>3, <1>0, <1>3, GateFacts
  <2>5. CASE u.chan = c
    <3>1. ~InPending(u)
      BY <2>2, <2>5 DEF InPending, Carries
    <3>2. ~InOrders(u)
      BY <2>5, <1>0, <1>1 DEF InOrders, Holds, CoveredBy, AllFit, Fits
    <3>3. ~(u.gen > gate.boot)
      BY <3>1, <3>2, <2>3, <1>1 DEF LineKept
    <3> QED
      BY <2>2, <2>3, <2>4, <3>3, <1>0, <1>1, <1>3, LineMoves
  <2>6. CASE u.chan # c
    <3>1. gate'.dirty[u.chan] = gate.dirty[u.chan]
      BY <2>3, <2>6, <1>3
    <3>2. InPending(u) => InPending(u)'
      BY <2>3, <2>6, <1>5 DEF InPending
    <3>3. InOrders(u) => InOrders(u)'
      BY <1>9 DEF InOrders
    <3> QED
      BY <2>2, <2>3, <2>4, <3>1, <3>2, <3>3, <1>0, <1>1, <1>3, LineMoves
  <2> QED
    BY <2>5, <2>6
<1> QED
  BY <1>8, <1>10, <1>12, <1>13 DEF IInv

(* fire() that enqueues moves the pending lines into an order, or puts     *)
(* them back.                                                              *)
LEMMA FireRunsKeeps ==
  ASSUME IInv, NEW c \in Channels, Fire(c), FireRuns(c)
  PROVE  IInv'
<1>0. Types /\ AllFit /\ InOrder /\ LinesKept
  BY DEF IInv
<1> DEFINE o == ReconcileOrder(c, pending[c])
<1>1. /\ up /\ pending[c] # <<>> /\ spent < Budget /\ c \notin Private
      /\ EnqueuesOrThrows(o)
      /\ pending' = IF faults' = faults THEN [pending EXCEPT ![c] = <<>>] ELSE pending
      /\ retry' = (retry \/ faults' # faults)
      /\ spent' = spent + 1 /\ armed' = armed \ {c}
      /\ UNCHANGED <<up, gate, run, accepted, waiting, unproven, posts, forced, crashes>>
  BY DEF Fire, FireRuns
<1>2. /\ Len(pending[c]) \in DOMAIN pending[c]
      /\ o.gen \in Gens /\ o.gen <= gate.gen
      /\ \A i \in DOMAIN pending[c] : pending[c][i] <= o.gen /\ pending[c][i] \in Gens
  BY <1>0, <1>1, LastIsNewest DEF ReconcileOrder
<1>3. /\ o.mode = "reconcile" /\ o.chan = c /\ o.lines = pending[c] /\ o.force = FALSE
  BY DEF ReconcileOrder
<1>4. o \in Order
  <2>1. pending[c] \in Seq(Gens)
    <3>1. pending[c] \in Seq(1..gate.gen) /\ gate.gen \in Gens
      BY <1>0 DEF Types, TypeOK
    <3>2. 1..gate.gen \subseteq Gens
      BY <3>1, BoundsAreNat
    <3> QED
      BY <3>1, <3>2, SeqMonotonic
  <2>2. c \in Marked
    BY BoundsAreNat
  <2> QED
    BY <2>1, <2>2, <1>2 DEF Order, ReconcileOrder
<1>5. Fits(o)
  BY <1>1, <1>2, <1>3 DEF Fits
<1>6. \A p \in OpenOrders : Before(p, o)
  BY <1>0, <1>3 DEF InOrder, Before
<1> HIDE DEF o
<1>7. queue \in Seq(Order) /\ faults \in 0..MaxFaults /\ Sorted(queue)
  BY <1>0 DEF Types, TypeOK, InOrder
<1>8. Carries(queue) \subseteq OpenOrders
  BY DEF OpenOrders
<1>9. \/ /\ faults' = faults /\ pending' = [pending EXCEPT ![c] = <<>>]
         /\ queue' \in Seq(Order) /\ Sorted(queue')
         /\ Carries(queue') = Carries(queue) \cup {o}
      \/ faults' = faults + 1 /\ faults' # faults /\ faults < MaxFaults /\ UNCHANGED <<queue, pending>>
  <2>1. CASE queue' = Placed(queue, o) /\ UNCHANGED faults
    BY <2>1, <1>1, <1>3, <1>4, <1>6, <1>7, <1>8, PlacedElements
  <2>2. CASE faults < MaxFaults /\ faults' = faults + 1 /\ UNCHANGED queue
    <3>1. faults' # faults
      BY <2>2, <1>7
    <3> QED
      BY <2>2, <3>1, <1>1
  <2> QED
    BY <2>1, <2>2, <1>1 DEF EnqueuesOrThrows
<1>10. faults' \in 0..MaxFaults /\ spent' \in 0..Budget /\ retry' \in BOOLEAN
  BY <1>0, <1>1, <1>7, <1>9, BoundsAreNat DEF Types, TypeOK
<1>11. CASE UNCHANGED <<queue, pending>>
  <2>1. AllFit' /\ InOrder' /\ LinesKept'
    BY <1>0, <1>1, <1>11, Quiet
  <2>2. Types'
    BY <1>0, <1>1, <1>10, <1>11 DEF Types, TypeOK, Numbered
  <2> QED
    BY <2>1, <2>2 DEF IInv
<1>12. CASE /\ pending' = [pending EXCEPT ![c] = <<>>]
            /\ queue' \in Seq(Order) /\ Sorted(queue')
            /\ Carries(queue') = Carries(queue) \cup {o}
  <2>1. pending \in [Channels -> Seq(1..gate.gen)] /\ \A d \in Channels : Len(pending[d]) <= MaxPending
    BY <1>0 DEF Types, TypeOK
  <2>2. /\ pending' \in [Channels -> Seq(1..gate.gen)]
        /\ pending'[c] = <<>> /\ \A e \in Channels \ {c} : pending'[e] = pending[e]
    BY <1>12, <2>1
  <2>3. \A d \in Channels : Len(pending'[d]) <= MaxPending
    <3>1. Len(pending'[c]) = 0 /\ 0 <= MaxPending
      BY <2>2, BoundsAreNat
    <3>2. \A d \in Channels \ {c} : Len(pending'[d]) <= MaxPending
      BY <2>1, <2>2
    <3> QED
      BY <3>1, <3>2
  <2>4. Types'
    BY <1>0, <1>1, <1>10, <1>12, <2>2, <2>3 DEF Types, TypeOK, Numbered
  <2>5. OpenOrders' = OpenOrders \cup {o}
    BY <1>1, <1>12 DEF OpenOrders
  <2>6. AllFit'
    BY <1>0, <1>1, <1>5, <2>5 DEF AllFit, Fits
  <2>7. InOrder'
    <3>1. \A e \in Channels : Ascends(pending'[e])
      BY <1>0, <2>2 DEF InOrder, Ascends
    <3>2. \A p \in run' : \A r \in Carries(queue') : Before(p, r)
      BY <1>0, <1>1, <1>6, <1>12 DEF InOrder, OpenOrders
    <3>3. ASSUME NEW p \in OpenOrders', p.mode = "reconcile", NEW i \in DOMAIN pending'[p.chan]
          PROVE  p.gen < pending'[p.chan][i]
      <4>1. CASE p.chan = c
        BY <3>3, <4>1, <2>2
      <4>2. CASE p.chan # c
        <5>1. p \in OpenOrders /\ p.chan \in Channels
          BY <3>3, <4>2, <2>5, <1>0, <1>3 DEF AllFit, Fits
        <5> QED
          BY <3>3, <4>2, <5>1, <2>2, <1>0 DEF InOrder
      <4> QED
        BY <4>1, <4>2
    <3> QED
      BY <3>1, <3>2, <3>3, <1>12 DEF InOrder
  <2>8. LinesKept'
    <3>1. SUFFICES ASSUME NEW u \in waiting
                   PROVE  LineKept(u)'
      BY <1>1 DEF LinesKept
    <3>2. LineKept(u) /\ u.chan \in Channels /\ u.chan \in Marked
      BY <1>0, QueueFacts DEF LinesKept
    <3>3. InOrders(u) => InOrders(u)'
      BY <2>5 DEF InOrders
    <3>4. InPending(u) => InPending(u)' \/ InOrders(u)'
      <4>1. CASE u.chan = c
        <5>1. InPending(u) => Holds(o, u)
          BY <4>1, <1>3 DEF InPending, Holds, CoveredBy, Carries
        <5> QED
          BY <5>1, <2>5 DEF InOrders
      <4>2. CASE u.chan # c
        BY <4>2, <3>2, <2>2 DEF InPending
      <4> QED
        BY <4>1, <4>2
    <3>5. gate.dirty[u.chan] \in Nat /\ gate.gen \in Nat
      BY <3>2, <1>0, GateFacts
    <3> QED
      BY <3>2, <3>3, <3>4, <3>5, <1>0, <1>1, LineMoves
  <2> QED
    BY <2>4, <2>6, <2>7, <2>8 DEF IInv
<1> QED
  BY <1>9, <1>11, <1>12

(* The three ends of fire().                                               *)
LEMMA FireKeeps == ASSUME IInv, NEW c \in Channels, Fire(c) PROVE IInv'
BY FireQuiet, FireConsumesKeeps, FireRunsKeeps DEF Fire

-----------------------------------------------------------------------------
(***************************************************************************)
(* Full refreshes.                                                         *)
(***************************************************************************)
LEMMA FullOrderFits ==
  ASSUME NEW g \in GateType, NEW f \in BOOLEAN
  PROVE  /\ FullOrder(g, f) \in Order /\ FullOrder(g, f).mode = "full"
         /\ FullOrder(g, f).gen = g.gen /\ FullOrder(g, f).force = f
<1>1. <<>> \in Seq(Gens) /\ Host \in Marked /\ g.gen \in Gens
  BY BoundsAreNat DEF GateType
<1> QED
  BY <1>1 DEF FullOrder, Order

(* The scheduled repair may enqueue a full order, which carries no line.   *)
LEMMA FullTimerKeeps == ASSUME IInv, FullTimer PROVE IInv'
<1>0. Types
  BY DEF IInv
<1> DEFINE o == FullOrder(gate, FALSE)
<1>1. /\ o \in Order /\ o.mode = "full" /\ o.gen = gate.gen
  BY <1>0, GateFacts, FullOrderFits
<1> HIDE DEF o
<1>2. /\ EnqueuesOrThrows(o) \/ UNCHANGED <<queue, faults>>
      /\ UNCHANGED <<up, gate, pending, armed, retry, spent, run, accepted, waiting, unproven,
                     posts, forced, crashes>>
  BY DEF FullTimer, o, schedulerVars, ghostVars
<1>3. gate.gen \in Nat /\ \A d \in Marked : gate.dirty[d] \in Nat
  BY <1>0, GateFacts
<1>4. /\ queue' \in Seq(Order) /\ faults' \in 0..MaxFaults
      /\ AllFit' /\ InOrder' /\ LinesKept'
  BY <1>1, <1>2, <1>3, FullPlaced
<1>5. Types'
  BY <1>0, <1>2, <1>4 DEF Types, TypeOK, Numbered
<1> QED
  BY <1>4, <1>5 DEF IInv

(* A mark made for a full refresh: of the host, or of the owner.           *)
LEMMA MarkedForFull ==
  ASSUME IInv, up, forced < MaxForced, forced' = forced + 1, NEW h \in {Host, Owner},
         gate' = WithMark(gate, h), UNCHANGED <<up, posts, crashes, run>>
  PROVE  /\ gate' \in GateType /\ gate'.gen = gate.gen + 1 /\ gate'.boot = gate.boot
         /\ gate'.gen \in Nat /\ gate.gen <= gate'.gen
         /\ gate'.bootDirty = gate.bootDirty
         /\ \A d \in Marked : gate'.dirty[d] \in Nat /\ gate.dirty[d] <= gate'.dirty[d]
         /\ \A d \in Marked : gate'.dirty[d] <= gate'.gen
         /\ forced' \in 0..MaxForced /\ Numbered'
<1>0. Types
  BY DEF IInv
<1>1. /\ posts \in 0..MaxPosts /\ forced \in 0..MaxForced /\ crashes \in 0..MaxCrashes
      /\ gate.gen \in Nat /\ gate.gen <= 1 + posts + forced + crashes
  BY <1>0, GateFacts DEF Types, TypeOK, Numbered
<1>2. gate.gen + 1 \in Gens
  BY <1>1, BoundsAreNat DEF MaxGen
<1>3. h \in Marked
  BY BoundsAreNat
<1>4. /\ gate' \in GateType /\ gate'.gen = gate.gen + 1 /\ gate'.boot = gate.boot
      /\ gate'.bootDirty = gate.bootDirty
      /\ \A d \in Marked : gate'.dirty[d] <= gate'.gen /\ gate.dirty[d] <= gate'.dirty[d]
  BY <1>0, <1>2, <1>3, GateFacts, MarkGate
<1>5. \A d \in Marked : gate'.dirty[d] \in Nat
  BY <1>4, BoundsAreNat DEF GateType
<1>6. gate'.gen \in Nat /\ gate.gen <= gate'.gen
  BY <1>1, <1>4
<1>7. forced' \in 0..MaxForced
  BY <1>1, BoundsAreNat
<1>8. Numbered'
  BY <1>0, <1>1, <1>4, GateFacts DEF Types, Numbered
<1> QED
  BY <1>4, <1>5, <1>6, <1>7, <1>8

(* The pending lines are well typed for the larger generation of a mark.   *)
LEMMA PendingOutlivesMark ==
  ASSUME Types, UNCHANGED pending, gate'.gen \in Nat, gate.gen <= gate'.gen
  PROVE  pending' \in [Channels -> Seq(1..gate'.gen)] /\ \A c \in Channels : Len(pending'[c]) <= MaxPending
<1>1. pending \in [Channels -> Seq(1..gate.gen)] /\ \A c \in Channels : Len(pending[c]) <= MaxPending
  BY DEF Types, TypeOK
<1>2. gate.gen \in Nat
  BY GateFacts
<1>3. pending \in [Channels -> Seq(1..gate'.gen)]
  BY <1>1, <1>2, LinesGrow
<1> QED
  BY <1>1, <1>3

(* A forced refresh marks its pseudo channel and enqueues a full order.    *)
LEMMA ForceRefreshKeeps == ASSUME IInv, NEW h \in {Host, Owner}, ForceRefresh(h) PROVE IInv'
<1>0. Types
  BY DEF IInv
<1> DEFINE o == FullOrder(gate', TRUE)
<1>1. /\ up /\ forced < MaxForced /\ gate' = WithMark(gate, h) /\ forced' = forced + 1
      /\ EnqueuesOrThrows(o)
      /\ UNCHANGED <<up, pending, armed, retry, spent, run, accepted, waiting, unproven, posts, crashes>>
  BY DEF ForceRefresh, schedulerVars, ghostVars
<1>2. /\ gate' \in GateType /\ gate'.gen = gate.gen + 1 /\ gate'.boot = gate.boot
      /\ gate'.gen \in Nat /\ gate.gen <= gate'.gen
      /\ gate'.bootDirty = gate.bootDirty
      /\ \A d \in Marked : gate'.dirty[d] \in Nat /\ gate.dirty[d] <= gate'.dirty[d]
      /\ \A d \in Marked : gate'.dirty[d] <= gate'.gen
      /\ forced' \in 0..MaxForced /\ Numbered'
  BY <1>1, MarkedForFull
<1>3. o \in Order /\ o.mode = "full" /\ o.gen = gate'.gen
  BY <1>2, FullOrderFits
<1> HIDE DEF o
<1>4. /\ queue' \in Seq(Order) /\ faults' \in 0..MaxFaults
      /\ AllFit' /\ InOrder' /\ LinesKept'
  BY <1>1, <1>2, <1>3, FullPlaced
<1>5. pending' \in [Channels -> Seq(1..gate'.gen)] /\ \A c \in Channels : Len(pending'[c]) <= MaxPending
  BY <1>0, <1>1, <1>2, PendingOutlivesMark
<1>6. Types'
  BY <1>0, <1>1, <1>2, <1>4, <1>5 DEF Types, TypeOK, GateType
<1> QED
  BY <1>4, <1>6 DEF IInv

(* An owner event marks the owner's pseudo channel and enqueues at most    *)
(* once.                                                                   *)
LEMMA EventAsksKeeps == ASSUME IInv, NEW b \in Batches, EventAsks(b) PROVE IInv'
<1>0. Types
  BY DEF IInv
<1> DEFINE o == FullOrder(gate', TRUE)
<1>1. /\ up /\ forced < MaxForced /\ gate' = WithMark(gate, Owner) /\ forced' = forced + 1
      /\ EnqueuesOrThrows(o) \/ UNCHANGED <<queue, faults>>
      /\ UNCHANGED <<up, pending, armed, retry, spent, run, waiting, unproven, posts, crashes>>
  BY DEF EventAsks, schedulerVars, ghostVars
<1>2. /\ gate' \in GateType /\ gate'.gen = gate.gen + 1 /\ gate'.boot = gate.boot
      /\ gate'.gen \in Nat /\ gate.gen <= gate'.gen
      /\ gate'.bootDirty = gate.bootDirty
      /\ \A d \in Marked : gate'.dirty[d] \in Nat /\ gate.dirty[d] <= gate'.dirty[d]
      /\ \A d \in Marked : gate'.dirty[d] <= gate'.gen
      /\ forced' \in 0..MaxForced /\ Numbered'
  BY <1>1, MarkedForFull
<1>3. o \in Order /\ o.mode = "full" /\ o.gen = gate'.gen
  BY <1>2, FullOrderFits
<1> HIDE DEF o
<1>4. /\ queue' \in Seq(Order) /\ faults' \in 0..MaxFaults
      /\ AllFit' /\ InOrder' /\ LinesKept'
  BY <1>1, <1>2, <1>3, FullPlaced
<1>5. pending' \in [Channels -> Seq(1..gate'.gen)] /\ \A c \in Channels : Len(pending'[c]) <= MaxPending
  BY <1>0, <1>1, <1>2, PendingOutlivesMark
<1>6. accepted' \subseteq Batches
  BY <1>0 DEF EventAsks, Types, TypeOK
<1>7. Types'
  BY <1>0, <1>1, <1>2, <1>4, <1>5, <1>6 DEF Types, TypeOK, GateType
<1> QED
  BY <1>4, <1>7 DEF IInv

-----------------------------------------------------------------------------
(***************************************************************************)
(* The consumer, the death of the process and its next start.              *)
(***************************************************************************)
LEMMA AtMostOne ==
  ASSUME NEW S, \A x, y \in S : x = y
  PROVE  Cardinality(S) <= 1
<1>1. CASE S = {}
  BY <1>1, FS_EmptySet
<1>2. CASE S # {}
  <2>1. PICK x : S = {x}
    BY <1>2
  <2> QED
    BY <2>1, FS_Singleton
<1> QED
  BY <1>1, <1>2

(* A claim moves the first order of the queue into the run.                *)
LEMMA ClaimKeeps == ASSUME IInv, Claim PROVE IInv'
<1>0. Types /\ AllFit /\ InOrder /\ LinesKept
  BY DEF IInv
<1>1. /\ up /\ run = {} /\ queue # <<>> /\ run' = {queue[1]} /\ queue' = Tail(queue)
      /\ UNCHANGED <<up, gate, pending, armed, retry, spent, accepted, waiting, unproven,
                     posts, forced, crashes, faults>>
  BY DEF Claim, schedulerVars, ghostVars, boundVars
<1>2. queue \in Seq(Order)
  BY <1>0, QueueFacts
<1> DEFINE l == Len(queue)
<1>3. l \in Nat /\ l # 0 /\ DOMAIN queue = 1..l /\ 1 \in DOMAIN queue /\ queue[1] \in Order
  <2>1. l \in Nat /\ l # 0 /\ DOMAIN queue = 1..l
    BY <1>1, <1>2, LenProperties, EmptySeq
  <2>2. 1 \in DOMAIN queue
    BY <2>1
  <2> QED
    BY <2>1, <2>2, <1>2, ElementOfSeq
<1>4. /\ queue' \in Seq(Order) /\ Len(queue') = l - 1
      /\ \A i \in 1..Len(queue') : queue'[i] = queue[i + 1]
  BY <1>1, <1>2, HeadTailProperties
<1>5. DOMAIN queue' = 1..(l - 1)
  BY <1>4, LenProperties
<1> HIDE DEF l
<1>6. \A i \in DOMAIN queue' : i + 1 \in DOMAIN queue /\ queue'[i] = queue[i + 1] /\ 1 < i + 1
  BY <1>3, <1>4, <1>5
<1>7. \A i \in DOMAIN queue : i = 1 \/ (i - 1 \in DOMAIN queue' /\ queue'[i - 1] = queue[i])
  BY <1>3, <1>4, <1>5
<1>8. OpenOrders' = OpenOrders
  <2>1. OpenOrders' \subseteq OpenOrders
    BY <1>1, <1>3, <1>6 DEF OpenOrders, Carries
  <2>2. OpenOrders \subseteq OpenOrders'
    BY <1>1, <1>7 DEF OpenOrders, Carries
  <2> QED
    BY <2>1, <2>2
<1>9. AllFit'
  BY <1>0, <1>1, <1>8 DEF AllFit, Fits
<1>10. InOrder'
  <2>1. Sorted(queue')
    <3>1. ASSUME NEW i \in DOMAIN queue', NEW j \in DOMAIN queue', i < j
          PROVE  i + 1 < j + 1
      BY <3>1, <1>3, <1>5
    <3> QED
      BY <3>1, <1>0, <1>6 DEF InOrder, Sorted
  <2>2. \A o \in run' : \A p \in Carries(queue') : Before(o, p)
    BY <1>0, <1>1, <1>3, <1>6 DEF InOrder, Sorted, Carries
  <2>3. \A o \in OpenOrders' : o.mode = "reconcile" =>
          \A i \in DOMAIN pending'[o.chan] : o.gen < pending'[o.chan][i]
    BY <1>0, <1>1, <1>8 DEF InOrder
  <2> QED
    BY <2>1, <2>2, <2>3, <1>0, <1>1 DEF InOrder
<1>11. LinesKept'
  BY <1>0, <1>1, <1>8 DEF LinesKept, LineKept, InPending, InOrders
<1>12. Types'
  <2>1. run' \subseteq Order /\ \A o, p \in run' : o = p
    BY <1>1, <1>3
  <2>2. Cardinality(run') <= 1
    BY <2>1, AtMostOne
  <2> QED
    BY <2>1, <2>2, <1>0, <1>1, <1>4 DEF Types, TypeOK, Numbered
<1> QED
  BY <1>9, <1>10, <1>11, <1>12 DEF IInv

(* Nothing that an order which has ended holds is left without its kept    *)
(* line, if the lines it covers stop waiting.                              *)
LEMMA RunEndsKeeps ==
  ASSUME IInv, UNCHANGED <<up, pending, queue, armed, retry, spent, accepted, posts, forced, crashes, faults>>,
         run' = {}, waiting' \subseteq waiting, unproven' \subseteq [chan : Channels, gen : Gens],
         gate' \in GateType, gate'.gen = gate.gen, gate'.boot = gate.boot,
         \A d \in Marked : gate'.dirty[d] <= gate.gen,
         \A u \in waiting' : /\ u.gen <= gate.boot => gate'.bootDirty
                             /\ u.gen > gate.boot =>
                                  /\ u.gen <= gate'.dirty[u.chan]
                                  /\ \A o \in run : ~Holds(o, u)
  PROVE  IInv'
<1>0. Types /\ AllFit /\ InOrder /\ LinesKept
  BY DEF IInv
<1>1. OpenOrders' \subseteq OpenOrders /\ OpenOrders \subseteq OpenOrders' \cup run
  BY DEF OpenOrders
<1>2. AllFit'
  BY <1>0, <1>1 DEF AllFit, Fits
<1>3. InOrder'
  BY <1>0, <1>1 DEF InOrder
<1>4. LinesKept'
  <2>1. SUFFICES ASSUME NEW u \in waiting'
                 PROVE  LineKept(u)'
    BY DEF LinesKept
  <2>2. LineKept(u)
    BY <1>0 DEF LinesKept
  <2>3. u.gen > gate.boot => (InPending(u) \/ InOrders(u) => InPending(u)' \/ InOrders(u)')
    BY <1>1 DEF InPending, InOrders
  <2> QED
    BY <2>2, <2>3 DEF LineKept
<1>5. Types'
  <2>1. Cardinality(run') <= 1
    BY FS_EmptySet
  <2> QED
    BY <2>1, <1>0 DEF Types, TypeOK, Numbered, GateType
<1> QED
  BY <1>2, <1>3, <1>4, <1>5 DEF IInv

(* A verdict clears what was captured; the lines that wait are later ones. *)
LEMMA RunVerifiedKeeps ==
  ASSUME IInv, NEW o \in run, NEW v, RunVerified(o, v)
  PROVE  IInv'
<1>0. Types /\ AllFit /\ InOrder /\ LinesKept
  BY DEF IInv
<1>1. /\ up /\ gate' = AfterVerdict(gate, o)
      /\ waiting' = {u \in waiting : ~CoveredBy(o, u)}
      /\ unproven' = {u \in unproven : ~CoveredBy(o, u)}
      /\ run' = {}
      /\ UNCHANGED <<up, pending, armed, retry, spent, queue, accepted, posts, forced, crashes, faults>>
  BY DEF RunVerified, schedulerVars, boundVars
<1>2. o \in Order /\ o \in OpenOrders /\ o.gen \in Gens /\ o.gen \in Nat
  <2>1. o \in Order
    BY <1>0, QueueFacts
  <2> QED
    BY <2>1, OrderFacts DEF Order, OpenOrders
<1>3. gate \in GateType /\ gate.gen \in Nat /\ gate.boot \in Nat
      /\ \A d \in Marked : gate.dirty[d] \in Nat /\ gate.dirty[d] <= gate.gen
  BY <1>0, GateFacts
<1>4. \A p \in run : p = o
  BY <1>0 DEF Types, Numbered
<1>5. unproven' \subseteq [chan : Channels, gen : Gens] /\ waiting' \subseteq waiting
  BY <1>0, <1>1 DEF Types, TypeOK
<1>6. CASE o.mode = "full"
  <2>1. /\ gate' \in GateType /\ gate'.gen = gate.gen /\ gate'.boot = gate.boot
        /\ gate'.bootDirty = (gate.bootDirty /\ o.gen < gate.boot)
        /\ \A d \in Marked : gate'.dirty[d] = IF gate.dirty[d] <= o.gen THEN 0 ELSE gate.dirty[d]
        /\ \A d \in Marked : gate'.dirty[d] <= gate.gen
    BY <1>1, <1>2, <1>3, <1>6, ClearWholeGate DEF AfterVerdict
  <2>2. ASSUME NEW u \in waiting'
        PROVE  /\ u.gen <= gate.boot => gate'.bootDirty
               /\ u.gen > gate.boot =>
                    /\ u.gen <= gate'.dirty[u.chan]
                    /\ \A p \in run : ~Holds(p, u)
    <3>1. u \in waiting /\ ~(u.gen <= o.gen)
      BY <1>1, <1>6 DEF CoveredBy
    <3>2. u.gen \in Nat /\ u.chan \in Marked /\ LineKept(u)
      BY <3>1, <1>0, QueueFacts DEF LinesKept
    <3>3. ASSUME u.gen <= gate.boot
          PROVE  gate'.bootDirty
      <4>1. gate.bootDirty
        BY <3>2, <3>3 DEF LineKept
      <4>2. o.gen < gate.boot
        BY <3>1, <3>2, <3>3, <1>2, <1>3
      <4> QED
        BY <4>1, <4>2, <2>1
    <3>4. ASSUME u.gen > gate.boot
          PROVE  u.gen <= gate'.dirty[u.chan]
      <4>1. u.gen <= gate.dirty[u.chan] /\ gate.dirty[u.chan] \in Nat
        BY <3>2, <3>4, <1>3 DEF LineKept
      <4>2. ~(gate.dirty[u.chan] <= o.gen)
        BY <4>1, <3>1, <3>2, <1>2
      <4> QED
        BY <4>1, <4>2, <3>2, <2>1
    <3>5. \A p \in run : ~Holds(p, u)
      BY <1>4, <1>6 DEF Holds
    <3> QED
      BY <3>3, <3>4, <3>5
  <2> QED
    BY <2>1, <2>2, <1>1, <1>5, RunEndsKeeps
<1>7. CASE o.mode = "reconcile"
  <2>1. o.chan \in Marked /\ o.chan \in Channels
    BY <1>0, <1>2, <1>7, OrderFacts DEF AllFit, Fits
  <2>2. gate' = Cleared(gate, o.chan, o.gen)
    BY <1>1, <1>7 DEF AfterVerdict
  <2>3. /\ gate' \in GateType /\ gate'.gen = gate.gen /\ gate'.boot = gate.boot
        /\ gate'.bootDirty = gate.bootDirty
        /\ \A d \in Marked : gate'.dirty[d] =
             IF d = o.chan /\ gate.dirty[d] <= o.gen THEN 0 ELSE gate.dirty[d]
        /\ \A d \in Marked : gate'.dirty[d] <= gate.gen
    BY <2>1, <2>2, <1>2, <1>3, ClearGate
  <2>4. ASSUME NEW u \in waiting'
        PROVE  /\ u.gen <= gate.boot => gate'.bootDirty
               /\ u.gen > gate.boot =>
                    /\ u.gen <= gate'.dirty[u.chan]
                    /\ \A p \in run : ~Holds(p, u)
    <3>1. u \in waiting /\ ~CoveredBy(o, u)
      BY <1>1
    <3>2. u.gen \in Nat /\ u.chan \in Marked /\ LineKept(u)
      BY <3>1, <1>0, QueueFacts DEF LinesKept
    <3>3. \A p \in run : ~Holds(p, u)
      BY <3>1, <1>4 DEF Holds
    <3>4. ASSUME u.gen > gate.boot, u.chan = o.chan
          PROVE  o.gen < u.gen
      <4>1. InPending(u) \/ InOrders(u)
        BY <3>2, <3>4, <1>1 DEF LineKept
      <4>2. CASE InPending(u)
        BY <3>4, <4>2, <1>0, <1>2, <1>7 DEF InPending, InOrder
      <4>3. CASE InOrders(u)
        <5>1. PICK p \in OpenOrders : Holds(p, u)
          BY <4>3 DEF InOrders
        <5>2. p \in Carries(queue)
          BY <5>1, <3>3 DEF OpenOrders
        <5>3. Before(o, p)
          BY <5>2, <1>0 DEF InOrder
        <5>4. p.mode = "reconcile" /\ p.chan = o.chan /\ u.gen \in Carries(p.lines)
          BY <5>1, <3>4 DEF Holds, CoveredBy
        <5> QED
          BY <5>3, <5>4, <1>7 DEF Before, Carries
      <4> QED
        BY <4>1, <4>2, <4>3
    <3>5. u.gen > gate.boot => u.gen <= gate.dirty[u.chan]
      BY <3>2 DEF LineKept
    <3>6. u.gen > gate.boot => u.gen <= gate'.dirty[u.chan]
      <4>1. CASE u.chan = o.chan /\ u.gen > gate.boot
        <5>1. o.gen < u.gen /\ u.gen <= gate.dirty[u.chan] /\ gate.dirty[u.chan] \in Nat
          BY <4>1, <3>2, <3>4, <3>5, <1>3
        <5>2. ~(gate.dirty[u.chan] <= o.gen)
          BY <5>1, <3>2, <1>2
        <5> QED
          BY <5>1, <5>2, <3>2, <2>3
      <4>2. CASE u.chan # o.chan
        BY <4>2, <3>2, <3>5, <2>3
      <4> QED
        BY <4>1, <4>2
    <3>7. u.gen <= gate.boot => gate'.bootDirty
      BY <3>2, <2>3 DEF LineKept
    <3> QED
      BY <3>3, <3>6, <3>7
  <2> QED
    BY <2>3, <2>4, <1>1, <1>5, RunEndsKeeps
<1> QED
  BY <1>2, <1>6, <1>7, OrderFacts

(* A run without a verdict clears nothing and ends its lines' wait.        *)
LEMMA RunUnprovenKeeps == ASSUME IInv, NEW o \in run, RunUnproven(o) PROVE IInv'
<1>0. Types /\ AllFit /\ InOrder /\ LinesKept
  BY DEF IInv
<1> DEFINE judged == {u \in waiting : o.mode = "reconcile" /\ CoveredBy(o, u)}
<1>1. /\ up /\ run' = {}
      /\ waiting' = waiting \ judged /\ unproven' = unproven \cup judged
      /\ UNCHANGED <<up, gate, pending, armed, retry, spent, queue, accepted, posts, forced, crashes, faults>>
  BY DEF RunUnproven, schedulerVars, boundVars
<1>2. \A p \in run : p = o
  BY <1>0 DEF Types, Numbered
<1>3. /\ waiting' \subseteq waiting /\ unproven' \subseteq [chan : Channels, gen : Gens]
      /\ \A u \in waiting' : \A p \in run : ~Holds(p, u)
  BY <1>0, <1>1, <1>2 DEF Types, TypeOK, Holds
<1>4. gate \in GateType /\ \A d \in Marked : gate.dirty[d] <= gate.gen
  BY <1>0, GateFacts
<1>5. \A u \in waiting' : /\ u.gen <= gate.boot => gate.bootDirty
                          /\ u.gen > gate.boot => u.gen <= gate.dirty[u.chan]
  BY <1>0, <1>3 DEF LinesKept, LineKept
<1> QED
  BY <1>1, <1>3, <1>4, <1>5, RunEndsKeeps

(* A crash takes the pending lines and the gate, and leaves the orders.    *)
LEMMA CrashKeeps == ASSUME IInv, Crash PROVE IInv'
<1>0. Types /\ AllFit /\ InOrder /\ LinesKept
  BY DEF IInv
<1>1. /\ up /\ crashes < MaxCrashes /\ up' = FALSE /\ crashes' = crashes + 1
      /\ pending' = [c \in Channels |-> <<>>] /\ armed' = {} /\ retry' = FALSE /\ spent' = 0
      /\ UNCHANGED <<gate, queue, run, accepted, waiting, unproven, posts, forced, faults>>
  BY DEF Crash, orderVars, ghostVars
<1>2. \A c \in Channels : pending'[c] = <<>> /\ DOMAIN pending'[c] = {} /\ Len(pending'[c]) = 0
  BY <1>1
<1>3. OpenOrders' = OpenOrders
  BY <1>1 DEF OpenOrders
<1>4. AllFit'
  BY <1>0, <1>1, <1>3 DEF AllFit, Fits
<1>5. InOrder'
  <2>1. \A c \in Channels : Ascends(pending'[c])
    BY <1>2 DEF Ascends
  <2>2. \A o \in OpenOrders : o.mode = "reconcile" => o.chan \in Channels
    BY <1>0 DEF AllFit, Fits
  <2>3. \A o \in OpenOrders' : o.mode = "reconcile" =>
          \A i \in DOMAIN pending'[o.chan] : o.gen < pending'[o.chan][i]
    BY <2>2, <1>2, <1>3
  <2> QED
    BY <2>1, <2>3, <1>0, <1>1 DEF InOrder
<1>6. LinesKept'
  BY <1>0, <1>1 DEF LinesKept, LineKept
<1>7. Types'
  <2>1. crashes \in 0..MaxCrashes /\ posts \in 0..MaxPosts /\ forced \in 0..MaxForced /\ gate.gen \in Nat
    BY <1>0, GateFacts DEF Types, TypeOK
  <2>2. crashes' \in 0..MaxCrashes
    BY <2>1, <1>1, BoundsAreNat
  <2>3. Numbered'
    BY <2>1, <1>0, <1>1 DEF Types, Numbered
  <2>4. pending' \in [Channels -> Seq(1..gate'.gen)] /\ \A c \in Channels : Len(pending'[c]) <= MaxPending
    BY <1>1, <1>2, BoundsAreNat
  <2>5. spent' \in 0..Budget
    BY <1>1, BoundsAreNat
  <2> QED
    BY <2>2, <2>3, <2>4, <2>5, <1>0, <1>1 DEF Types, TypeOK
<1> QED
  BY <1>4, <1>5, <1>6, <1>7 DEF IInv

(* A boot begins with a dirty gate.                                        *)
LEMMA BootKeeps == ASSUME IInv, Boot PROVE IInv'
<1>0. Types /\ AllFit /\ InOrder /\ LinesKept
  BY DEF IInv
<1>1. /\ ~up /\ up' = TRUE /\ gate' = NewGate(gate.gen + 1) /\ run' = {}
      /\ UNCHANGED <<pending, armed, retry, spent, queue, accepted, waiting, unproven,
                     posts, forced, crashes, faults>>
  BY DEF Boot, schedulerVars, ghostVars, boundVars
<1>2. /\ posts \in 0..MaxPosts /\ forced \in 0..MaxForced /\ crashes \in 0..MaxCrashes
      /\ gate.gen \in Nat /\ gate.gen + 1 <= 1 + posts + forced + crashes
  BY <1>0, <1>1, GateFacts DEF Types, TypeOK, Numbered
<1>3. /\ gate'.gen = gate.gen + 1 /\ gate'.boot = gate.gen + 1 /\ gate'.bootDirty = TRUE
      /\ gate'.dirty = [c \in Marked |-> 0]
  BY <1>1 DEF NewGate
<1>4. gate' \in GateType
  <2>1. gate.gen + 1 \in Gens
    BY <1>2, BoundsAreNat DEF MaxGen
  <2>2. [c \in Marked |-> 0] \in [Marked -> Gens]
    BY BoundsAreNat
  <2> QED
    BY <2>1, <2>2, <1>1 DEF NewGate, GateType
<1>5. OpenOrders' \subseteq OpenOrders
  BY <1>1 DEF OpenOrders
<1>6. AllFit'
  BY <1>0, <1>2, <1>3, <1>5, QueueFacts, OrderFacts DEF AllFit, Fits
<1>7. InOrder'
  BY <1>0, <1>1, <1>5 DEF InOrder
<1>8. LinesKept'
  BY <1>0, <1>1, <1>2, <1>3, QueueFacts DEF LinesKept, LineKept
<1>9. Types'
  <2>1. Numbered'
    BY <1>1, <1>2, <1>3 DEF Numbered
  <2>2. \A d \in Marked : gate'.dirty[d] <= gate'.gen
    BY <1>2, <1>3
  <2>3. pending' \in [Channels -> Seq(1..gate'.gen)] /\ \A c \in Channels : Len(pending'[c]) <= MaxPending
    BY <1>0, <1>1, <1>2, <1>3, PendingOutlivesMark
  <2>4. Cardinality(run') <= 1 /\ run' \subseteq Order
    BY <1>1, FS_EmptySet
  <2> QED
    BY <2>1, <2>2, <2>3, <2>4, <1>0, <1>1, <1>4 DEF Types, TypeOK, GateType
<1> QED
  BY <1>6, <1>7, <1>8, <1>9 DEF IInv

-----------------------------------------------------------------------------
(* The initial states satisfy the inductive invariant.                     *)
LEMMA InitEstablishes == Init => IInv
<1>1. ASSUME Init
      PROVE  Types
  <2>1. 0 \in Gens /\ 1 \in Gens
    BY BoundsAreNat DEF MaxGen
  <2>2. [c \in Marked |-> 0] \in [Marked -> Gens]
    BY <2>1
  <2>3. gate \in GateType /\ gate.gen = 1 /\ gate.boot = 1 /\ \A d \in Marked : gate.dirty[d] <= gate.gen
    BY <1>1, <2>1, <2>2 DEF Init, NewGate, GateType
  <2>4. /\ pending \in [Channels -> Seq(1..gate.gen)]
        /\ \A c \in Channels : Len(pending[c]) <= MaxPending
    BY <1>1, BoundsAreNat DEF Init, Idle
  <2>5. queue \in Seq(Order) /\ Cardinality(run) <= 1 /\ run \subseteq Order
    BY <1>1, FS_EmptySet DEF Init
  <2>6. /\ posts \in 0..MaxPosts /\ forced \in 0..MaxForced /\ crashes \in 0..MaxCrashes
        /\ faults \in 0..MaxFaults /\ spent \in 0..Budget
    BY <1>1, BoundsAreNat DEF Init, Idle
  <2>7. Numbered
    BY <1>1, <2>3 DEF Init, Numbered
  <2> QED
    BY <1>1, <2>3, <2>4, <2>5, <2>6, <2>7 DEF Init, Idle, Types, TypeOK, GateType
<1>2. ASSUME Init
      PROVE  AllFit /\ InOrder /\ LinesKept
  <2>1. OpenOrders = {} /\ DOMAIN queue = {} /\ waiting = {} /\ run = {}
    BY <1>2 DEF Init, OpenOrders, Carries
  <2>2. \A c \in Channels : DOMAIN pending[c] = {}
    BY <1>2 DEF Init, Idle
  <2> QED
    BY <2>1, <2>2 DEF AllFit, InOrder, Sorted, Ascends, LinesKept
<1> QED
  BY <1>1, <1>2 DEF IInv

(* Every step of the board preserves the inductive invariant.              *)
LEMMA StepKeeps == IInv /\ [Next]_vars => IInv'
<1> SUFFICES ASSUME IInv, [Next]_vars
             PROVE  IInv'
  OBVIOUS
<1>1. CASE \E c \in Channels : Post(c) \/ Fire(c)
  BY <1>1, PostKeeps, FireKeeps
<1>2. CASE RetryTimer
  BY <1>2, RetryTimerKeeps
<1>3. CASE HourPasses
  BY <1>3, HourPassesKeeps
<1>4. CASE FullTimer
  BY <1>4, FullTimerKeeps
<1>5. CASE \E h \in {Host, Owner} : ForceRefresh(h)
  BY <1>5, ForceRefreshKeeps
<1>6. CASE \E b \in Batches : EventAsks(b)
  BY <1>6, EventAsksKeeps
<1>7. CASE Claim
  BY <1>7, ClaimKeeps
<1>8. CASE RunEnds
  BY <1>8, RunUnprovenKeeps, RunVerifiedKeeps DEF RunEnds
<1>9. CASE Crash
  BY <1>9, CrashKeeps
<1>10. CASE Boot
  BY <1>10, BootKeeps
<1>11. CASE UNCHANGED vars
  <2>1. UNCHANGED <<up, gate, pending, queue, run, waiting>>
    BY <1>11 DEF vars, schedulerVars, orderVars, ghostVars
  <2>2. AllFit' /\ InOrder' /\ LinesKept'
    BY <2>1, Quiet DEF IInv
  <2>3. Types'
    BY <1>11 DEF vars, schedulerVars, orderVars, ghostVars, boundVars, IInv, Types, TypeOK, Numbered
  <2> QED
    BY <2>2, <2>3 DEF IInv
<1> QED
  BY <1>1, <1>2, <1>3, <1>4, <1>5, <1>6, <1>7, <1>8, <1>9, <1>10, <1>11 DEF Next

(* The inductive invariant holds in every state.                           *)
LEMMA IInvHolds == Spec => []IInv
BY InitEstablishes, StepKeeps, PTL DEF Spec

-----------------------------------------------------------------------------
(***************************************************************************)
(* The theorems.                                                           *)
(***************************************************************************)
(* Gate, scheduler, orders and history stay within their types: the lines  *)
(* kept per channel and the budget within their limits, one order at most  *)
(* in progress, generations within the bound the counters give.            *)
THEOREM TypeCorrect == Spec => []TypeOK
<1>1. IInv => TypeOK
  BY DEF IInv, Types
<1> QED
  BY <1>1, IInvHolds, PTL

(* Whatever completes in the meantime - an earlier reconcile of its        *)
(* channel, a full refresh captured before it, an order of an earlier boot *)
(* - a posted line whose run has not ended keeps the gate dirty            *)
(* (BoardRefreshGate.completeVerifiedReconcile, completeVerifiedFull).     *)
THEOREM DirtSafety == Spec => []WaitingKeepsDirt
<1>1. ASSUME IInv
      PROVE  WaitingKeepsDirt
  <2>1. SUFFICES ASSUME up, NEW u \in waiting
                 PROVE  IsDirty(u)
    BY DEF WaitingKeepsDirt
  <2>2. LineKept(u) /\ u.gen \in Nat /\ u.chan \in Marked
    BY <1>1, <2>1, QueueFacts DEF IInv, LinesKept
  <2>3. gate.boot \in Nat /\ gate.dirty[u.chan] \in Nat
    BY <1>1, <2>2, GateFacts DEF IInv
  <2> QED
    BY <2>2, <2>3 DEF LineKept, IsDirty
<1> QED
  BY <1>1, IInvHolds, PTL

(* A set whose elements are all equal to one of them has one element.      *)
LEMMA Single ==
  ASSUME NEW S, NEW x, x \in S, \A y \in S : y = x
  PROVE  Cardinality(S) = 1
<1>1. S = {x}
  OBVIOUS
<1> QED
  BY <1>1, FS_Singleton

(* A set without an element is of size zero.                               *)
LEMMA None ==
  ASSUME NEW S, \A y \in S : FALSE
  PROVE  Cardinality(S) = 0
<1>1. S = {}
  OBVIOUS
<1> QED
  BY <1>1, FS_EmptySet

(* Coalescing, deferral, the budget and a rejected enqueue neither lose    *)
(* nor double a waiting line of this boot: it is pending once, or in one   *)
(* queued order, or in the order in progress (ReconcileScheduler.fire).    *)
THEOREM CarrySafety == Spec => []CarriedOnce
<1>1. ASSUME IInv
      PROVE  CarriedOnce
  <2>0. Types /\ AllFit /\ InOrder /\ LinesKept
    BY <1>1 DEF IInv
  <2>1. SUFFICES ASSUME up, NEW u \in waiting, u.gen > gate.boot
                 PROVE  CarriersOf(u) = 1
    BY DEF CarriedOnce
  <2> DEFINE P == {i \in DOMAIN pending[u.chan] : pending[u.chan][i] = u.gen}
             Q == {i \in DOMAIN queue : queue[i].mode = "reconcile" /\ CoveredBy(queue[i], u)}
             R == {o \in run : o.mode = "reconcile" /\ CoveredBy(o, u)}
  <2>2. u.chan \in Channels /\ u.gen \in Nat /\ LineKept(u)
    BY <2>0, <2>1, QueueFacts DEF LinesKept
  <2>3. InPending(u) \/ InOrders(u)
    BY <2>1, <2>2 DEF LineKept
  <2>4. /\ DOMAIN pending[u.chan] = 1..Len(pending[u.chan])
        /\ Len(pending[u.chan]) \in Nat
        /\ \A i \in DOMAIN pending[u.chan] : pending[u.chan][i] \in Nat
    <3>1. gate.gen \in Nat
      BY <2>0, GateFacts
    <3> QED
      BY <3>1, <2>0, <2>2, PendingFacts
  <2>5. DOMAIN queue = 1..Len(queue) /\ Len(queue) \in Nat
    BY <2>0, QueueFacts, LenProperties
  (* an order that holds the line is not before another, nor before a      *)
  (* pending copy of it                                                    *)
  <2>6. ASSUME NEW o \in OpenOrders, Holds(o, u)
        PROVE  /\ o.mode = "reconcile" /\ o.chan = u.chan /\ o.gen \in Nat /\ u.gen <= o.gen
               /\ \E i \in DOMAIN o.lines : o.lines[i] = u.gen
    <3>1. o \in Order /\ Fits(o)
      BY <2>0, QueueFacts DEF AllFit
    <3>2. o.gen \in Nat
      BY <3>1, OrderFacts
    <3> QED
      BY <2>6, <3>1, <3>2 DEF Holds, CoveredBy, Carries, Fits
  <2>7. \A o \in OpenOrders, p \in OpenOrders : Holds(o, u) /\ Holds(p, u) => ~Before(o, p)
    BY <2>2, <2>6 DEF Before
  <2>8. \A i \in DOMAIN queue : queue[i] \in OpenOrders /\ queue[i] \in Carries(queue)
    BY DEF OpenOrders, Carries
  <2>9. \A o \in run : o \in OpenOrders
    BY DEF OpenOrders
  <2>10. \A i, j \in P : i = j
    <3>1. SUFFICES ASSUME NEW i \in P, NEW j \in P, i < j
                   PROVE  FALSE
      BY <2>4
    <3> QED
      BY <3>1, <2>0, <2>2, <2>4 DEF InOrder, Ascends
  <2>11. \A i, j \in Q : i = j
    <3>1. SUFFICES ASSUME NEW i \in Q, NEW j \in Q, i < j
                   PROVE  FALSE
      BY <2>5
    <3>2. Holds(queue[i], u) /\ Holds(queue[j], u) /\ Before(queue[i], queue[j])
      BY <3>1, <2>0 DEF Holds, InOrder, Sorted
    <3> QED
      BY <3>2, <2>7, <2>8
  <2>12. \A o, p \in R : o = p
    BY <2>0 DEF Types, Numbered
  <2>13. \A o \in OpenOrders : Holds(o, u) => P = {}
    <3>1. SUFFICES ASSUME NEW o \in OpenOrders, Holds(o, u), NEW i \in P
                   PROVE  FALSE
      OBVIOUS
    <3>2. o.mode = "reconcile" /\ o.chan = u.chan /\ o.gen \in Nat /\ u.gen <= o.gen
      BY <3>1, <2>6
    <3>3. o.gen < pending[u.chan][i]
      BY <3>1, <3>2, <2>0, <2>2 DEF InOrder
    <3> QED
      BY <3>2, <3>3, <2>2
  <2>14. \A o \in R : Q = {}
    <3>1. SUFFICES ASSUME NEW o \in R, NEW i \in Q
                   PROVE  FALSE
      OBVIOUS
    <3>2. Before(o, queue[i]) /\ Holds(o, u) /\ Holds(queue[i], u)
      BY <3>1, <2>0, <2>8 DEF InOrder, Holds
    <3> QED
      BY <3>2, <2>7, <2>8, <2>9
  <2>15. CarriersOf(u) = Cardinality(P) + Cardinality(Q) + Cardinality(R)
    BY DEF CarriersOf
  <2>16. InOrders(u) => Q # {} \/ R # {}
    BY DEF InOrders, OpenOrders, Carries, Holds
  <2>17. InPending(u) => P # {}
    BY DEF InPending
  <2>18. P # {} => Q = {} /\ R = {}
    BY <2>8, <2>9, <2>13 DEF Holds
  <2> HIDE DEF P, Q, R
  <2>19. CASE P # {}
    <3>1. Cardinality(P) = 1
      BY <2>10, <2>19, Single
    <3>2. Cardinality(Q) = 0 /\ Cardinality(R) = 0
      BY <2>18, <2>19, None
    <3> QED
      BY <3>1, <3>2, <2>15
  <2>20. CASE P = {} /\ R # {}
    <3>1. Cardinality(R) = 1
      BY <2>12, <2>20, Single
    <3>2. Cardinality(P) = 0 /\ Cardinality(Q) = 0
      BY <2>14, <2>20, None
    <3> QED
      BY <3>1, <3>2, <2>15
  <2>21. CASE P = {} /\ R = {} /\ Q # {}
    <3>1. Cardinality(Q) = 1
      BY <2>11, <2>21, Single
    <3>2. Cardinality(P) = 0 /\ Cardinality(R) = 0
      BY <2>21, None
    <3> QED
      BY <3>1, <3>2, <2>15
  <2> QED
    BY <2>3, <2>16, <2>17, <2>19, <2>20, <2>21
<1> QED
  BY <1>1, IInvHolds, PTL
=============================================================================
