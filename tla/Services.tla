------------------------------ MODULE Services ------------------------------
(***************************************************************************)
(* Services that work side by side in the gateway, each for any value of   *)
(* its constants: discovery scans, presence, the network watch and the     *)
(* events of edge plugins.  What holds of them, and the proofs.            *)
(***************************************************************************)
EXTENDS ScanManager, Sequences, FiniteSetTheorems, TLAPS

CONSTANTS
    Macs, PresQueue, PresMoves, PresApplies, PresFaults,
    Hosts, WatchChanges, WatchTurns,
    EventsMade, EventsClock, EventsDrops, EventsBuffer, EventsAge

ASSUME FiniteAssumption == IsFiniteSet(Macs)
ASSUME LimitsAssumption == {PresQueue, EventsBuffer, EventsAge} \subseteq Nat

VARIABLES
    home, tracked, online, queue, ptick, view, dropped, presUsed,
    lan, watch, devices, register, sent, forceFull, run, seenBy, watchUsed,
    clock, lastSeq, items, lost, made, conn, stateSeen, up, down, got, evUsed

-----------------------------------------------------------------------------
(* Sequences that are put together. *)
\* a is q followed by e
Joins(a, q, e) ==
    /\ Len(a) = Len(q) + Len(e) /\ Len(q) \in Nat /\ Len(e) \in Nat
    /\ \A k \in 1..Len(q) : k \in 1..Len(a) /\ a[k] = q[k]
    /\ \A k \in 1..Len(e) : Len(q) + k \in 1..Len(a) /\ a[Len(q) + k] = e[k]
    /\ \A k \in 1..Len(a) : k \notin 1..Len(q) => k - Len(q) \in 1..Len(e) /\ a[k] = e[k - Len(q)]

\* the provers that a step names no other for
USE SMTT(30), Z3T(30), Zenon

LEMMA Concat ==
    ASSUME NEW S, NEW q \in Seq(S), NEW e \in Seq(S)
    PROVE  /\ q \o e \in Seq(S) /\ Len(q \o e) = Len(q) + Len(e)
           /\ \A k \in 1..Len(q) + Len(e) : (q \o e)[k] = IF k <= Len(q) THEN q[k] ELSE e[k - Len(q)]
  OBVIOUS

LEMMA IsJoined ==
    ASSUME NEW S, NEW q \in Seq(S), NEW e \in Seq(S), NEW a, a = q \o e
    PROVE  a \in Seq(S) /\ Joins(a, q, e)
  <1>1. /\ a \in Seq(S) /\ Len(a) = Len(q) + Len(e) /\ Len(q) \in Nat /\ Len(e) \in Nat
        /\ \A k \in 1..Len(a) : a[k] = IF k <= Len(q) THEN q[k] ELSE e[k - Len(q)]
    <2>1. /\ q \o e \in Seq(S) /\ Len(q \o e) = Len(q) + Len(e)
          /\ \A k \in 1..Len(q) + Len(e) : (q \o e)[k] = IF k <= Len(q) THEN q[k] ELSE e[k - Len(q)]
      BY Zenon, Concat
    <2>2. Len(q) \in Nat /\ Len(e) \in Nat
      OBVIOUS
    <2> QED
      BY Zenon, <2>1, <2>2
  <1>2. ASSUME NEW k \in 1..Len(q) PROVE k \in 1..Len(a) /\ a[k] = q[k]
    <2>1. k \in 1..Len(a) /\ k <= Len(q)
      BY <1>1
    <2> QED
      BY Zenon, <1>1, <2>1
  <1>3. ASSUME NEW k \in 1..Len(e) PROVE Len(q) + k \in 1..Len(a) /\ a[Len(q) + k] = e[k]
    <2>1. Len(q) + k \in 1..Len(a) /\ ~(Len(q) + k <= Len(q)) /\ (Len(q) + k) - Len(q) = k
      BY <1>1
    <2> QED
      BY Zenon, <1>1, <2>1
  <1>4. ASSUME NEW k \in 1..Len(a), k \notin 1..Len(q)
        PROVE  k - Len(q) \in 1..Len(e) /\ a[k] = e[k - Len(q)]
    <2>1. k - Len(q) \in 1..Len(e) /\ ~(k <= Len(q))
      BY <1>1, <1>4
    <2> QED
      BY Zenon, <1>1, <2>1
  <1> QED
    BY Zenon, <1>1, <1>2, <1>3, <1>4 DEF Joins

-----------------------------------------------------------------------------
(* The events of a plugin; none is made between the opening of a           *)
(* connection and its first state.                                         *)
Events == INSTANCE EdgeEvents WITH
    MaxEvents <- EventsMade, MaxClock <- EventsClock, MaxDrops <- EventsDrops, MaxEarly <- 0,
    BufferMax <- EventsBuffer, BufferAge <- EventsAge, used <- evUsed

evs == Events!vars
Items == [seq : Nat, id : Nat, ts : Nat]
Frames == [t : {"hello", "state", "event", "ack"}, seq : Nat, id : Nat]

EventsTyped ==
    /\ clock \in Nat /\ lost \in Nat /\ made \in Nat /\ lastSeq \in Nat
    /\ up \in Seq(Frames) /\ down \in Seq(Frames)
    /\ conn \in {"down", "open"} /\ stateSeen \in {"yes", "no"}
    /\ evUsed \in [drops : Nat, early : Nat]

\* a buffer in the order of its sequence numbers, none of them after last
ItemsFit(s, last) ==
    /\ s \in Seq(Items) /\ \A k \in 1..Len(s) : s[k].seq <= last
    /\ \A j, k \in 1..Len(s) : j < k => s[j].seq < s[k].seq

\* what an acknowledgement of seq takes off the buffer s is in S
Covers(s, seq, S) == \A k \in 1..Len(s) : s[k].seq <= seq => s[k].id \in S
\* the events among the first n frames of u
SentBy(u, n) == {u[j].id : j \in {i \in 1..n : u[i].t = "event"}}
\* when the server takes a frame of u, and when the host takes one of d, the server has
\* all that it acknowledges
UpFits(s, u, g, last) ==
    \A k \in 1..Len(u) : u[k].t = "event" =>
        u[k].seq <= last /\ Covers(s, u[k].seq, g \cup SentBy(u, k))
DownFits(s, d, g, last) ==
    \A k \in 1..Len(d) : d[k].t = "ack" => d[k].seq <= last /\ Covers(s, d[k].seq, g)

IdsIn(s) == {s[k].id : k \in 1..Len(s)}
Missing(m, g, s) == (1..m) \ (g \cup IdsIn(s))

EventsInv ==
    /\ EventsTyped /\ ItemsFit(items, lastSeq) /\ Cardinality(Missing(made, got, items)) <= lost
    /\ conn = "down" => stateSeen = "no" /\ up = <<>> /\ down = <<>>
    /\ stateSeen = "no" => /\ \A k \in 1..Len(up) : up[k].t # "event"
                           /\ \A k \in 1..Len(down) : down[k].t # "ack"
    /\ stateSeen = "yes" => Covers(items, lastSeq, got \cup SentBy(up, Len(up)))
    /\ UpFits(items, up, got, lastSeq) /\ DownFits(items, down, got, lastSeq)

LEMMA EvCardinality == ASSUME NEW S PROVE Events!Cardinality(S) = Cardinality(S)
  BY DEF Events!Cardinality, Cardinality

LEMMA UpTo == ASSUME NEW n \in Nat PROVE IsFiniteSet(1..n) /\ Cardinality(1..n) = n
  BY FS_Interval

LEMMA IsSeq == ASSUME NEW S, NEW n \in Nat, NEW e \in [1..n -> S] PROVE e \in Seq(S) /\ Len(e) = n
  OBVIOUS

LEMMA MissingFinite ==
    ASSUME NEW m \in Nat, NEW g, NEW s
    PROVE  IsFiniteSet(Missing(m, g, s)) /\ Cardinality(Missing(m, g, s)) \in Nat
  <1>1. IsFiniteSet(1..m)
    BY FS_Interval
  <1>2. Missing(m, g, s) \in SUBSET (1..m)
    BY DEF Missing
  <1> QED
    BY <1>1, <1>2, FS_Subset, FS_CardinalityType

\* as few or fewer are missing
LEMMA FewerMiss ==
    ASSUME NEW m \in Nat, NEW g, NEW s, NEW l \in Nat, Cardinality(Missing(m, g, s)) <= l,
           NEW S \in SUBSET Missing(m, g, s)
    PROVE  Cardinality(S) <= l
  <1>1. IsFiniteSet(Missing(m, g, s)) /\ Cardinality(Missing(m, g, s)) \in Nat
    BY MissingFinite
  <1>2. IsFiniteSet(S) /\ Cardinality(S) <= Cardinality(Missing(m, g, s)) /\ Cardinality(S) \in Nat
    BY <1>1, FS_Subset, FS_CardinalityType
  <1> QED
    BY <1>1, <1>2

\* what is left when the first n go
LEMMA Dropped ==
    ASSUME NEW s \in Seq(Items), NEW n \in 0..Len(s), NEW v, v = SubSeq(s, n + 1, Len(s))
    PROVE  /\ v \in Seq(Items) /\ Len(v) = Len(s) - n
           /\ \A k \in 1..Len(v) : n + k \in 1..Len(s) /\ v[k] = s[n + k]
  OBVIOUS

LEMMA SeqIsNat == ASSUME NEW u \in Seq(Frames), NEW k \in 1..Len(u) PROVE u[k].seq \in Nat
  <1>1. u[k] \in Frames
    OBVIOUS
  <1> QED
    BY <1>1 DEF Frames

\* what covers s covers v
NoLess(v, s) == \A q, S : Covers(s, q, S) => Covers(v, q, S)

LEMMA Shortened ==
    ASSUME NEW s, NEW last, ItemsFit(s, last), NEW n \in 0..Len(s), NEW v,
           v = SubSeq(s, n + 1, Len(s))
    PROVE  /\ ItemsFit(v, last) /\ Len(v) = Len(s) - n /\ Len(s) \in Nat
           /\ NoLess(v, s)
  <1>1. /\ v \in Seq(Items) /\ Len(v) = Len(s) - n /\ Len(s) \in Nat /\ Len(v) \in Nat
        /\ \A k \in 1..Len(v) : n + k \in 1..Len(s) /\ v[k] = s[n + k]
    BY Dropped DEF ItemsFit
  <1>2. ASSUME NEW j \in 1..Len(v), NEW k \in 1..Len(v), j < k PROVE v[j].seq < v[k].seq
    <2>1. n + j < n + k
      BY <1>2
    <2> QED
      BY Zenon, <1>1, <2>1 DEF ItemsFit
  <1>3. \A k \in 1..Len(v) : v[k].seq <= last
    BY Zenon, <1>1 DEF ItemsFit
  <1>4. NoLess(v, s)
    BY Zenon, <1>1 DEF Covers, NoLess
  <1> QED
    BY Zenon, <1>1, <1>2, <1>3, <1>4 DEF ItemsFit

LEMMA DropFrames ==
    ASSUME NEW s, NEW v, NEW g, NEW last, NoLess(v, s)
    PROVE  /\ \A u : UpFits(s, u, g, last) => UpFits(v, u, g, last)
           /\ \A d : DownFits(s, d, g, last) => DownFits(v, d, g, last)
  BY Zenon DEF UpFits, DownFits, NoLess

\* what goes from the front is counted
LEMMA DropCounted ==
    ASSUME NEW m \in Nat, NEW g, NEW s \in Seq(Items), NEW n \in 0..Len(s), NEW v, NEW l \in Nat,
           v = SubSeq(s, n + 1, Len(s)), Cardinality(Missing(m, g, s)) <= l
    PROVE  Cardinality(Missing(m, g, v)) <= l + n
  <1> DEFINE front == {s[k].id : k \in 1..n}
             f == [k \in 1..n |-> s[k].id]
  <1>1. /\ Len(v) = Len(s) - n /\ Len(s) \in Nat
        /\ \A k \in 1..Len(v) : v[k] = s[n + k]
    BY Dropped
  <1>2. IsFiniteSet(1..n) /\ Cardinality(1..n) = n
    BY FS_Interval
  <1>3. f \in Surjection(1..n, front)
    BY Zenon DEF Surjection
  <1>4. IsFiniteSet(front) /\ Cardinality(front) <= n /\ Cardinality(front) \in Nat
    <2> HIDE DEF f, front
    <2> QED
      BY <1>2, <1>3, FS_Surjection, FS_CardinalityType
  <1>5. ASSUME NEW x \in IdsIn(s) PROVE x \in IdsIn(v) \cup front
    <2>1. PICK k \in 1..Len(s) : x = s[k].id
      BY DEF IdsIn
    <2>2. CASE k <= n
      BY <2>1, <2>2
    <2>3. CASE ~(k <= n)
      <3>1. k - n \in 1..Len(v) /\ n + (k - n) = k
        BY <1>1, <2>3
      <3>2. v[k - n].id = x
        BY <1>1, <2>1, <3>1
      <3> QED
        BY Zenon, <3>1, <3>2 DEF IdsIn
    <2> QED
      BY <2>2, <2>3
  <1> HIDE DEF front
  <1>6. Missing(m, g, v) \subseteq Missing(m, g, s) \cup front
    BY Zenon, <1>5 DEF Missing
  <1>7. IsFiniteSet(Missing(m, g, s)) /\ Cardinality(Missing(m, g, s)) \in Nat
    BY MissingFinite
  <1>8. /\ IsFiniteSet(Missing(m, g, s) \cup front)
        /\ Cardinality(Missing(m, g, s) \cup front) <= l + n
    <2>1. IsFiniteSet(Missing(m, g, s) \cap front)
      BY <1>4, FS_Subset
    <2>2. Cardinality(Missing(m, g, s) \cap front) \in Nat
      BY <2>1, FS_CardinalityType
    <2>3. /\ IsFiniteSet(Missing(m, g, s) \cup front)
          /\ Cardinality(Missing(m, g, s) \cup front)
               = Cardinality(Missing(m, g, s)) + Cardinality(front) - Cardinality(Missing(m, g, s) \cap front)
      BY Zenon, <1>4, <1>7, FS_Union
    <2> QED
      BY <1>4, <1>7, <2>2, <2>3
  <1>9. Cardinality(Missing(m, g, v)) <= Cardinality(Missing(m, g, s) \cup front)
    BY <1>6, <1>8, FS_Subset
  <1>10. Cardinality(Missing(m, g, v)) \in Nat /\ Cardinality(Missing(m, g, s) \cup front) \in Nat
    BY <1>8, MissingFinite, FS_CardinalityType
  <1> QED
    BY <1>8, <1>9, <1>10

\* prune takes from the front
LEMMA PruneDrops ==
    ASSUME NEW s \in Seq(Items)
    PROVE  \E n \in 0..Len(s) : Events!prune(s) = SubSeq(s, n + 1, Len(s))
  <1> DEFINE old == {k \in 1..Len(s) : \A j \in 1..k : s[j].ts + EventsAge < clock}
  <1>1. Len(s) \in Nat /\ EventsBuffer \in Nat /\ old \in SUBSET (1..Len(s))
    BY LimitsAssumption
  <1>2. IsFiniteSet(1..Len(s)) /\ Cardinality(1..Len(s)) = Len(s)
    BY Zenon, <1>1, UpTo
  <1>3. Cardinality(old) \in Nat /\ Cardinality(old) <= Len(s)
    <2> HIDE DEF old
    <2> QED
      BY Zenon, <1>1, <1>2, FS_Subset, FS_CardinalityType
  <1>4. PICK n : n = IF Len(s) - Cardinality(old) > EventsBuffer THEN Len(s) - EventsBuffer
                     ELSE Cardinality(old)
    BY Zenon
  <1>5. n \in 0..Len(s)
    <2> HIDE DEF old
    <2> QED
      BY <1>1, <1>3, <1>4
  <1>6. Events!prune(s) = SubSeq(s, n + 1, Len(s))
    BY Zenon, <1>4, EvCardinality DEF Events!prune
  <1> QED
    BY Zenon, <1>5, <1>6

\* the first of a buffer that an acknowledgement of q takes off
LEMMA AckedFirst ==
    ASSUME NEW s \in Seq(Items), NEW q \in Nat, NEW confirmed,
           confirmed = {k \in 1..Len(s) : \A j \in 1..k : s[j].seq <= q}
    PROVE  Cardinality(confirmed) \in 0..Len(s) /\ \A k \in 1..Cardinality(confirmed) : s[k].seq <= q
  <1>0. confirmed \in SUBSET (1..Len(s)) /\ Len(s) \in Nat
    OBVIOUS
  <1>1. /\ confirmed \in SUBSET (1..Len(s)) /\ Len(s) \in Nat
        /\ IsFiniteSet(1..Len(s)) /\ Cardinality(1..Len(s)) = Len(s)
    BY Zenon, <1>0, UpTo
  <1>2. Cardinality(confirmed) \in Nat /\ Cardinality(confirmed) <= Len(s)
    BY <1>1, FS_Subset, FS_CardinalityType
  <1>3. ASSUME NEW k \in 1..Cardinality(confirmed), ~(s[k].seq <= q) PROVE FALSE
    <2>1. k \in Nat /\ k - 1 \in Nat /\ k <= Len(s)
      BY <1>2
    <2>2. confirmed \in SUBSET (1..(k - 1))
      BY <1>1, <1>3, <2>1
    <2>3. IsFiniteSet(1..(k - 1)) /\ Cardinality(1..(k - 1)) = k - 1
      BY <2>1, FS_Interval
    <2>4. Cardinality(confirmed) <= k - 1
      BY <2>2, <2>3, FS_Subset
    <2> QED
      BY <1>2, <2>1, <2>4
  <1> QED
    BY <1>2, <1>3

\* one more at the end of the buffer
LEMMA AddFits ==
    ASSUME NEW s, NEW last \in Nat, ItemsFit(s, last), NEW i \in Items, i.seq > last, NEW v,
           v = Append(s, i)
    PROVE  /\ ItemsFit(v, i.seq) /\ Len(v) = Len(s) + 1 /\ Len(s) \in Nat /\ IdsIn(v) = IdsIn(s) \cup {i.id}
           /\ \A S : \A q \in Nat : q <= last /\ Covers(s, q, S) => Covers(v, q, S)
           /\ \A S : Covers(s, last, S) /\ i.id \in S => Covers(v, i.seq, S)
  <1>1. /\ v \in Seq(Items) /\ Len(v) = Len(s) + 1 /\ Len(s) \in Nat /\ v[Len(s) + 1] = i
        /\ \A k \in 1..Len(s) : v[k] = s[k] /\ s[k] \in Items /\ s[k].seq <= last /\ k \in 1..Len(v)
    BY DEF ItemsFit
  <1>2. \A k \in 1..Len(v) : (k \in 1..Len(s) /\ v[k] = s[k]) \/ (k = Len(s) + 1 /\ v[k] = i)
    BY <1>1
  <1>3. i.seq \in Nat /\ \A k \in 1..Len(s) : s[k].seq \in Nat
    BY <1>1 DEF Items
  <1>4. \A k \in 1..Len(v) : v[k].seq <= i.seq
    BY <1>1, <1>2, <1>3
  <1>5. ASSUME NEW j \in 1..Len(v), NEW k \in 1..Len(v), j < k PROVE v[j].seq < v[k].seq
    <2>1. j \in 1..Len(s) /\ v[j] = s[j]
      BY <1>1, <1>2, <1>5
    <2>2. CASE k \in 1..Len(s)
      BY <1>1, <1>5, <2>1, <2>2 DEF ItemsFit
    <2>3. CASE k = Len(s) + 1
      BY <1>1, <1>3, <2>1, <2>3
    <2> QED
      BY <1>2, <2>2, <2>3
  <1>6. IdsIn(v) = IdsIn(s) \cup {i.id}
    <2>1. Len(s) + 1 \in 1..Len(v)
      BY <1>1
    <2>2. ASSUME NEW x \in IdsIn(v) PROVE x \in IdsIn(s) \cup {i.id}
      BY Zenon, <1>2 DEF IdsIn
    <2>3. ASSUME NEW x \in IdsIn(s) PROVE x \in IdsIn(v)
      BY Zenon, <1>1 DEF IdsIn
    <2>4. i.id \in IdsIn(v)
      BY Zenon, <1>1, <2>1 DEF IdsIn
    <2> QED
      BY Zenon, <2>2, <2>3, <2>4
  <1>7. ASSUME NEW S, NEW q \in Nat, q <= last, Covers(s, q, S) PROVE Covers(v, q, S)
    <2>1. ~(i.seq <= q)
      BY <1>3, <1>7
    <2> QED
      BY Zenon, <1>2, <1>7, <2>1 DEF Covers
  <1>8. ASSUME NEW S, Covers(s, last, S), i.id \in S PROVE Covers(v, i.seq, S)
    BY Zenon, <1>1, <1>2, <1>8 DEF Covers
  <1> QED
    BY Zenon, <1>1, <1>4, <1>5, <1>6, <1>7, <1>8 DEF ItemsFit

\* frames at the end do not change what was sent before
LEMMA SentGrows ==
    ASSUME NEW u \in Seq(Frames), NEW w \in Seq(Frames), Len(u) <= Len(w),
           \A k \in 1..Len(u) : w[k] = u[k]
    PROVE  \A n \in 0..Len(u) : SentBy(w, n) = SentBy(u, n)
  <1> SUFFICES ASSUME NEW n \in 0..Len(u) PROVE SentBy(w, n) = SentBy(u, n)
    OBVIOUS
  <1>1. \A k \in 1..n : k \in 1..Len(u)
    OBVIOUS
  <1> QED
    BY Zenon, <1>1 DEF SentBy

LEMMA EventsInit == Events!Init => EventsInv
  <1> SUFFICES ASSUME Events!Init PROVE EventsInv
    OBVIOUS
  <1>1. EventsTyped
    BY DEF Events!Init, EventsTyped
  <1>2. items = <<>> /\ made = 0 /\ up = <<>> /\ down = <<>> /\ stateSeen = "no" /\ lost = 0
    BY DEF Events!Init
  <1>3. ItemsFit(items, lastSeq)
    BY <1>2 DEF ItemsFit
  <1>4. Cardinality(Missing(made, got, items)) <= lost
    <2>1. Missing(made, got, items) = {}
      BY <1>2 DEF Missing
    <2> QED
      BY <1>2, <2>1, FS_EmptySet
  <1>5. UpFits(items, up, got, lastSeq) /\ DownFits(items, down, got, lastSeq)
    BY <1>2 DEF UpFits, DownFits
  <1> QED
    BY <1>1, <1>2, <1>3, <1>4, <1>5 DEF EventsInv

LEMMA EmitKeeps == ASSUME EventsInv, Events!emit PROVE EventsInv'
  <1>1. /\ EventsTyped /\ ItemsFit(items, lastSeq) /\ UpFits(items, up, got, lastSeq)
        /\ DownFits(items, down, got, lastSeq) /\ Cardinality(Missing(made, got, items)) <= lost
        /\ made \in Nat /\ lost \in Nat /\ lastSeq \in Nat /\ up \in Seq(Frames) /\ down \in Seq(Frames)
    BY DEF EventsInv, EventsTyped
  <1>2. PICK i : i = [seq |-> Events!nextSeq, id |-> made + 1, ts |-> clock]
    BY Zenon
  <1>3. i \in Items /\ i.seq > lastSeq /\ i.seq \in Nat /\ i.id = made + 1 /\ i.id \in Nat
    BY <1>1, <1>2 DEF EventsTyped, Items, Events!nextSeq
  <1>4. PICK a : a = Append(items, i)
    BY Zenon
  <1>5. /\ ItemsFit(a, i.seq) /\ Len(a) = Len(items) + 1 /\ Len(items) \in Nat
        /\ IdsIn(a) = IdsIn(items) \cup {i.id}
        /\ \A S : \A q \in Nat : q <= lastSeq /\ Covers(items, q, S) => Covers(a, q, S)
        /\ \A S : Covers(items, lastSeq, S) /\ i.id \in S => Covers(a, i.seq, S)
    BY Zenon, <1>1, <1>3, <1>4, AddFits
  <1>6. a \in Seq(Items)
    BY <1>5 DEF ItemsFit
  <1>7. PICK n \in 0..Len(a) : Events!prune(a) = SubSeq(a, n + 1, Len(a))
    BY <1>6, PruneDrops
  <1>8. PICK v : v = SubSeq(a, n + 1, Len(a))
    BY Zenon
  <1>9. /\ ItemsFit(v, i.seq) /\ Len(v) = Len(a) - n
        /\ NoLess(v, a)
    BY Zenon, <1>5, <1>7, <1>8, Shortened
  <1>10. /\ items' = v /\ lost' = lost + (Len(items) + 1 - Len(v)) /\ made' = made + 1
         /\ up' = IF conn = "open" THEN Append(up, Events!EventOf(i)) ELSE up
         /\ lastSeq' = i.seq /\ UNCHANGED <<clock, conn, stateSeen, down, got>>
    BY Zenon, <1>2, <1>4, <1>7, <1>8 DEF Events!emit, Events!push
  <1>11. conn = "down" \/ stateSeen = "yes"
    BY <1>1 DEF EventsTyped, Events!emit
  <1>12. evUsed' = evUsed
    BY <1>11 DEF Events!emit, EventsInv
  <1>13. lost' = lost + n /\ lost' \in Nat
    BY <1>1, <1>5, <1>7, <1>9, <1>10
  <1>14. Cardinality(Missing(made', got', items')) <= lost'
    <2>1. Missing(i.id, got, a) \subseteq Missing(made, got, items)
      BY <1>1, <1>3, <1>5 DEF Missing
    <2>2. Cardinality(Missing(i.id, got, a)) <= lost
      BY Zenon, <1>1, <2>1, FewerMiss
    <2>3. Cardinality(Missing(i.id, got, v)) <= lost + n
      BY Zenon, <1>1, <1>3, <1>6, <1>7, <1>8, <2>2, DropCounted
    <2> QED
      BY Zenon, <1>3, <1>10, <1>13, <2>3
  <1>15. \A S : \A q \in Nat : q <= lastSeq /\ Covers(items, q, S) => Covers(v, q, S)
    BY Zenon, <1>5, <1>9 DEF NoLess
  <1>16. DownFits(v, down, got, i.seq)
    <2> SUFFICES ASSUME NEW k \in 1..Len(down), down[k].t = "ack"
                 PROVE  down[k].seq <= i.seq /\ Covers(v, down[k].seq, got)
      BY Zenon DEF DownFits
    <2>1. down[k].seq \in Nat
      BY Zenon, <1>1, SeqIsNat
    <2>2. down[k].seq <= lastSeq /\ Covers(items, down[k].seq, got)
      BY Zenon, <1>1 DEF DownFits
    <2> QED
      BY <1>1, <1>3, <1>15, <2>1, <2>2
  <1>17. CASE conn = "down"
    <2>1. stateSeen = "no" /\ up = <<>> /\ down = <<>> /\ up' = <<>>
      BY <1>10, <1>17 DEF EventsInv
    <2>2. UpFits(v, up', got, i.seq)
      BY <2>1 DEF UpFits
    <2>3. EventsTyped'
      BY <1>1, <1>3, <1>10, <1>12, <1>13, <2>1 DEF EventsTyped
    <2> QED
      BY <1>9, <1>10, <1>14, <1>16, <2>1, <2>2, <2>3 DEF EventsInv
  <1>18. CASE conn = "open" /\ stateSeen = "yes"
    <2>1. PICK e \in Frames : e = Events!EventOf(i)
      BY Zenon, <1>3 DEF Events!EventOf, Frames, Items
    <2>2. e.t = "event" /\ e.seq = i.seq /\ e.id = i.id
      BY <2>1 DEF Events!EventOf
    <2>3. PICK w : w = Append(up, e)
      BY Zenon
    <2>4. /\ w \in Seq(Frames) /\ Len(w) = Len(up) + 1 /\ Len(up) \in Nat /\ w[Len(up) + 1] = e
          /\ Len(up) <= Len(w) /\ \A k \in 1..Len(up) : w[k] = up[k] /\ k \in 1..Len(w)
          /\ Len(up) + 1 \in 1..Len(w)
      BY <1>1, <2>3
    <2>5. \A m \in 0..Len(up) : SentBy(w, m) = SentBy(up, m)
      BY <1>1, <2>4, SentGrows
    <2>6. SentBy(up, Len(up)) \subseteq SentBy(w, Len(w)) /\ i.id \in SentBy(w, Len(w))
      BY Zenon, <2>2, <2>4 DEF SentBy
    <2>7. Covers(v, i.seq, got \cup SentBy(w, Len(w)))
      <3>1. Covers(items, lastSeq, got \cup SentBy(up, Len(up)))
        BY <1>18 DEF EventsInv
      <3>2. Covers(items, lastSeq, got \cup SentBy(w, Len(w)))
        BY Zenon, <2>6, <3>1 DEF Covers
      <3> QED
        BY ZenonT(30), <1>5, <1>9, <2>6, <3>2 DEF NoLess
    <2>8. UpFits(v, w, got, i.seq)
      <3> SUFFICES ASSUME NEW k \in 1..Len(w), w[k].t = "event"
                   PROVE  w[k].seq <= i.seq /\ Covers(v, w[k].seq, got \cup SentBy(w, k))
        BY Zenon DEF UpFits
      <3>1. CASE k = Len(w)
        BY <1>3, <2>2, <2>4, <2>7, <3>1
      <3>2. CASE k # Len(w)
        <4>1. k \in 1..Len(up) /\ k \in 0..Len(up) /\ w[k] = up[k]
          BY <2>4, <3>2
        <4>2. up[k].seq \in Nat
          BY Zenon, <1>1, <4>1, SeqIsNat
        <4>3. up[k].seq <= lastSeq /\ Covers(items, up[k].seq, got \cup SentBy(up, k))
          BY Zenon, <1>1, <4>1 DEF UpFits
        <4>4. up[k].seq <= i.seq
          BY <1>1, <1>3, <4>2, <4>3
        <4> QED
          BY Zenon, <1>15, <2>5, <4>1, <4>2, <4>3, <4>4
      <3> QED
        BY Zenon, <3>1, <3>2
    <2>9. up' = w
      BY <1>10, <1>18, <2>1, <2>3
    <2>10. EventsTyped'
      BY <1>1, <1>3, <1>10, <1>12, <1>13, <2>4, <2>9 DEF EventsTyped
    <2> QED
      BY Zenon, <1>9, <1>10, <1>14, <1>16, <1>18, <2>7, <2>8, <2>9, <2>10 DEF EventsInv
  <1> QED
    BY <1>1, <1>11, <1>17, <1>18 DEF EventsTyped

LEMMA OpenKeeps == ASSUME EventsInv, Events!onOpen PROVE EventsInv'
  <1>1. /\ conn = "down" /\ conn' = "open" /\ up' = <<Events!Hello>> /\ down' = <<>>
        /\ UNCHANGED <<clock, lastSeq, items, lost, made, stateSeen, got, evUsed>>
    BY DEF Events!onOpen
  <1>2. stateSeen = "no"
    BY <1>1 DEF EventsInv
  <1>3. Events!Hello \in Frames /\ Events!Hello.t # "event"
    BY DEF Events!Hello, Frames
  <1>4. up' \in Seq(Frames) /\ \A k \in 1..Len(up') : up'[k].t # "event"
    BY <1>1, <1>3
  <1>5. EventsTyped'
    BY <1>1, <1>4 DEF EventsInv, EventsTyped
  <1>6. UpFits(items, up', got, lastSeq) /\ DownFits(items, down', got, lastSeq)
    BY <1>1, <1>4 DEF UpFits, DownFits
  <1> QED
    BY <1>1, <1>2, <1>4, <1>5, <1>6 DEF EventsInv

LEMMA ShutKeeps == ASSUME EventsInv, Events!onClose PROVE EventsInv'
  <1>1. /\ conn' = "down" /\ stateSeen' = "no" /\ up' = <<>> /\ down' = <<>>
        /\ evUsed' = [evUsed EXCEPT !.drops = @ + 1]
        /\ UNCHANGED <<clock, lastSeq, items, lost, made, got>>
    BY DEF Events!onClose
  <1>2. EventsTyped'
    BY <1>1 DEF EventsInv, EventsTyped
  <1>3. UpFits(items, up', got, lastSeq) /\ DownFits(items, down', got, lastSeq)
    BY <1>1 DEF UpFits, DownFits
  <1> QED
    BY <1>1, <1>2, <1>3 DEF EventsInv

\* the frames after the first
LEMMA Rest ==
    ASSUME NEW d \in Seq(Frames), d # <<>>
    PROVE  /\ Tail(d) \in Seq(Frames) /\ Len(Tail(d)) = Len(d) - 1 /\ Len(d) \in Nat /\ Len(d) > 0
           /\ Head(d) = d[1] /\ Head(d) \in Frames /\ 1 \in 1..Len(d)
           /\ \A k \in 1..Len(Tail(d)) : k + 1 \in 1..Len(d) /\ Tail(d)[k] = d[k + 1]
  OBVIOUS

LEMMA RestDown ==
    ASSUME NEW d \in Seq(Frames), d # <<>>, NEW s, NEW g, NEW last, DownFits(s, d, g, last)
    PROVE  DownFits(s, Tail(d), g, last)
  <1>1. \A k \in 1..Len(Tail(d)) : k + 1 \in 1..Len(d) /\ Tail(d)[k] = d[k + 1]
    BY Rest
  <1> QED
    BY Zenon, <1>1 DEF DownFits

\* the host sends the buffer again, in its order
LEMMA ResentFits ==
    ASSUME NEW s, NEW last \in Nat, ItemsFit(s, last), NEW u \in Seq(Frames), NEW g, NEW e, NEW w,
           \A k \in 1..Len(u) : u[k].t # "event",
           e = [k \in 1..Len(s) |-> Events!EventOf(s[k])], w = u \o e
    PROVE  w \in Seq(Frames) /\ UpFits(s, w, g, last) /\ Covers(s, last, g \cup SentBy(w, Len(w)))
  <1>1. s \in Seq(Items) /\ Len(s) \in Nat /\ Len(u) \in Nat /\ \A k \in 1..Len(s) : s[k] \in Items
    BY DEF ItemsFit
  <1>2. \A i \in Items : /\ Events!EventOf(i) \in Frames /\ Events!EventOf(i).t = "event"
                         /\ Events!EventOf(i).seq = i.seq /\ Events!EventOf(i).id = i.id
    BY DEF Events!EventOf, Frames, Items
  <1>3. /\ e \in Seq(Frames) /\ Len(e) = Len(s)
        /\ \A k \in 1..Len(s) : e[k].t = "event" /\ e[k].seq = s[k].seq /\ e[k].id = s[k].id
    <2>1. \A k \in 1..Len(s) : e[k] = Events!EventOf(s[k]) /\ e[k] \in Frames
      BY Zenon, <1>1, <1>2
    <2>2. e \in [1..Len(s) -> Frames]
      BY Zenon, <2>1
    <2>3. e \in Seq(Frames) /\ Len(e) = Len(s)
      BY ZenonT(30), <1>1, <2>2, IsSeq
    <2> QED
      BY Zenon, <1>1, <1>2, <2>1, <2>3
  <1>4. w \in Seq(Frames) /\ Joins(w, u, e)
    BY Zenon, <1>3, IsJoined
  <1>5. Len(w) = Len(u) + Len(s)
    BY Zenon, <1>3, <1>4 DEF Joins
  <1>6. \A k \in 1..Len(s) : w[Len(u) + k].t = "event" /\ w[Len(u) + k].seq = s[k].seq
                             /\ w[Len(u) + k].id = s[k].id
    <2>1. \A k \in 1..Len(s) : w[Len(u) + k] = e[k]
      BY Zenon, <1>3, <1>4 DEF Joins
    <2> QED
      BY Zenon, <1>3, <2>1
  <1>7. ASSUME NEW n \in 0..Len(w), NEW k \in 1..Len(s), Len(u) + k <= n
        PROVE  s[k].id \in SentBy(w, n)
    <2>1. Len(u) + k \in 1..n
      BY <1>1, <1>7
    <2> QED
      BY Zenon, <1>6, <2>1 DEF SentBy
  <1>8. Covers(s, last, g \cup SentBy(w, Len(w)))
    <2>1. Len(w) \in 0..Len(w) /\ \A k \in 1..Len(s) : Len(u) + k <= Len(w)
      BY <1>1, <1>5
    <2> QED
      BY Zenon, <1>7, <2>1 DEF Covers
  <1>9. ASSUME NEW n \in 1..Len(w), w[n].t = "event"
        PROVE  w[n].seq <= last /\ Covers(s, w[n].seq, g \cup SentBy(w, n))
    <2>1. PICK j \in 1..Len(s) : n = Len(u) + j
      <3>1. n \notin 1..Len(u)
        BY Zenon, <1>4, <1>9 DEF Joins
      <3>2. n - Len(u) \in 1..Len(s)
        BY Zenon, <1>3, <1>4, <3>1 DEF Joins
      <3>3. n = Len(u) + (n - Len(u))
        BY <1>1, <3>2
      <3> QED
        BY Zenon, <3>2, <3>3
    <2>2. s[j].seq \in Nat
      BY <1>1 DEF Items
    <2>3. w[n].seq = s[j].seq /\ s[j].seq <= last
      BY Zenon, <1>6, <2>1 DEF ItemsFit
    <2>4. ASSUME NEW k \in 1..Len(s), s[k].seq <= s[j].seq PROVE s[k].id \in SentBy(w, n)
      <3>1. s[k].seq \in Nat
        BY Zenon, <1>1 DEF Items
      <3>2. ~(s[j].seq < s[k].seq)
        BY <2>2, <2>4, <3>1
      <3>3. ~(j < k)
        BY Zenon, <3>2 DEF ItemsFit
      <3>4. Len(u) + k <= n /\ n \in 0..Len(w)
        BY <1>1, <1>5, <2>1, <3>3
      <3> QED
        BY Zenon, <1>7, <3>4
    <2> QED
      BY Zenon, <2>3, <2>4 DEF Covers
  <1> QED
    BY Zenon, <1>4, <1>8, <1>9 DEF UpFits

LEMMA StateKeeps == ASSUME EventsInv, Events!onState PROVE EventsInv'
  <1>1. /\ EventsTyped /\ ItemsFit(items, lastSeq) /\ UpFits(items, up, got, lastSeq)
        /\ DownFits(items, down, got, lastSeq)
    BY DEF EventsInv
  <1>2. /\ down # <<>> /\ down' = Tail(down) /\ stateSeen' = "yes"
        /\ UNCHANGED <<clock, lastSeq, made, conn, got, evUsed>>
    BY DEF Events!onState
  <1>3. down' \in Seq(Frames) /\ DownFits(items, down', got, lastSeq)
    BY <1>1, <1>2, Rest, RestDown DEF EventsTyped
  <1>4. conn # "down"
    BY <1>2 DEF EventsInv
  <1>5. CASE stateSeen = "yes"
    <2>1. UNCHANGED <<items, lost, up>>
      BY <1>5 DEF Events!onState
    <2>2. EventsTyped'
      BY <1>1, <1>2, <1>3, <2>1 DEF EventsTyped
    <2> QED
      BY <1>2, <1>3, <1>4, <1>5, <2>1, <2>2 DEF EventsInv
  <1>6. CASE stateSeen # "yes"
    <2>1. items \in Seq(Items) /\ lastSeq \in Nat /\ lost \in Nat /\ made \in Nat /\ up \in Seq(Frames)
      BY <1>1 DEF ItemsFit, EventsTyped
    <2>2. PICK n \in 0..Len(items) : Events!prune(items) = SubSeq(items, n + 1, Len(items))
      BY <2>1, PruneDrops
    <2>3. PICK v : v = SubSeq(items, n + 1, Len(items))
      BY Zenon
    <2>4. /\ ItemsFit(v, lastSeq) /\ Len(v) = Len(items) - n /\ Len(items) \in Nat
          /\ NoLess(v, items)
      BY Zenon, <1>1, <2>2, <2>3, Shortened
    <2>5. /\ items' = v /\ lost' = lost + (Len(items) - Len(v))
          /\ up' = up \o [k \in 1..Len(v) |-> Events!EventOf(v[k])]
      BY Zenon, <1>6, <2>2, <2>3 DEF Events!onState
    <2>6. lost' = lost + n /\ lost' \in Nat
      BY <2>1, <2>4, <2>5
    <2>7. Cardinality(Missing(made, got, v)) <= lost + n
      BY Zenon, <2>1, <2>3, DropCounted DEF EventsInv
    <2>8. \A k \in 1..Len(up) : up[k].t # "event"
      BY <1>1, <1>6 DEF EventsInv, EventsTyped
    <2>9. /\ up' \in Seq(Frames) /\ UpFits(v, up', got, lastSeq)
          /\ Covers(v, lastSeq, got \cup SentBy(up', Len(up')))
      <3>1. PICK e : e = [k \in 1..Len(v) |-> Events!EventOf(v[k])]
        BY Zenon
      <3>2. PICK w : w = up \o e
        BY Zenon
      <3>3. /\ w \in Seq(Frames) /\ UpFits(v, w, got, lastSeq)
            /\ Covers(v, lastSeq, got \cup SentBy(w, Len(w)))
        BY Zenon, <2>1, <2>4, <2>8, <3>1, <3>2, ResentFits
      <3>4. up' = w
        BY Zenon, <2>5, <3>1, <3>2
      <3> QED
        BY <3>3, <3>4
    <2>10. DownFits(v, down', got, lastSeq)
      BY Zenon, <1>3, <2>4, DropFrames
    <2>11. EventsTyped'
      BY <1>1, <1>2, <1>3, <2>6, <2>9 DEF EventsTyped
    <2> QED
      BY <1>2, <1>4, <2>4, <2>5, <2>6, <2>7, <2>9, <2>10, <2>11 DEF EventsInv
  <1> QED
    BY <1>5, <1>6

LEMMA AckKeeps == ASSUME EventsInv, Events!onAck PROVE EventsInv'
  <1>1. /\ EventsTyped /\ ItemsFit(items, lastSeq) /\ UpFits(items, up, got, lastSeq)
        /\ DownFits(items, down, got, lastSeq)
    BY DEF EventsInv
  <1>2. /\ down # <<>> /\ Head(down).t = "ack" /\ down' = Tail(down)
        /\ UNCHANGED <<clock, lastSeq, lost, made, conn, stateSeen, up, got, evUsed>>
    BY DEF Events!onAck
  <1>3. /\ down \in Seq(Frames) /\ items \in Seq(Items) /\ made \in Nat /\ lost \in Nat
        /\ Cardinality(Missing(made, got, items)) <= lost
    BY <1>1 DEF ItemsFit, EventsTyped, EventsInv
  <1>4. /\ down' \in Seq(Frames) /\ DownFits(items, down', got, lastSeq)
        /\ Head(down).seq \in Nat /\ Covers(items, Head(down).seq, got) /\ stateSeen = "yes"
    <2>1. /\ Tail(down) \in Seq(Frames) /\ Head(down) = down[1] /\ Head(down) \in Frames
          /\ 1 \in 1..Len(down)
      BY <1>2, <1>3, Rest
    <2>2. DownFits(items, down', got, lastSeq)
      BY <1>1, <1>2, <1>3, RestDown
    <2>3. Covers(items, Head(down).seq, got)
      BY <1>1, <1>2, <2>1 DEF DownFits
    <2>4. stateSeen = "yes"
      BY <1>1, <1>2, <2>1 DEF EventsInv, EventsTyped
    <2> QED
      BY <1>2, <2>1, <2>2, <2>3, <2>4 DEF Frames
  <1>5. PICK a : a = {k \in 1..Len(items) : \A j \in 1..k : items[j].seq <= Head(down).seq}
    BY Zenon
  <1>6. PICK n : n = Cardinality(a)
    BY ZenonT(30)
  <1>7. n \in 0..Len(items) /\ \A k \in 1..n : items[k].seq <= Head(down).seq
    BY Zenon, <1>3, <1>4, <1>5, <1>6, AckedFirst
  <1>8. PICK v : v = SubSeq(items, n + 1, Len(items))
    BY Zenon
  <1>9. items' = v
    BY Zenon, <1>5, <1>6, <1>8, EvCardinality DEF Events!onAck
  <1>10. /\ ItemsFit(v, lastSeq) /\ Len(v) = Len(items) - n /\ Len(items) \in Nat
         /\ \A k \in 1..Len(v) : v[k] = items[n + k]
         /\ NoLess(v, items)
    <2>1. /\ Len(v) = Len(items) - n /\ Len(items) \in Nat
          /\ \A k \in 1..Len(v) : v[k] = items[n + k]
      BY <1>3, <1>7, <1>8, Dropped
    <2> QED
      BY Zenon, <1>1, <1>7, <1>8, <2>1, Shortened
  <1>11. ASSUME NEW x \in IdsIn(items) PROVE x \in got \cup IdsIn(v)
    <2>1. PICK k \in 1..Len(items) : x = items[k].id
      BY DEF IdsIn
    <2>2. CASE k <= n
      <3>1. k \in 1..n
        BY <1>7, <2>2
      <3> QED
        BY Zenon, <1>4, <1>7, <2>1, <3>1 DEF Covers
    <2>3. CASE ~(k <= n)
      <3>1. k - n \in 1..Len(v) /\ n + (k - n) = k
        BY <1>7, <1>10, <2>3
      <3>2. v[k - n].id = x
        BY <1>10, <2>1, <3>1
      <3> QED
        BY ZenonT(30), <3>1, <3>2 DEF IdsIn
    <2> QED
      BY <2>2, <2>3
  <1>12. Cardinality(Missing(made, got, v)) <= lost
    <2>1. Missing(made, got, v) \subseteq Missing(made, got, items)
      BY Zenon, <1>11 DEF Missing
    <2> QED
      BY Zenon, <1>3, <2>1, FewerMiss
  <1>13. UpFits(v, up, got, lastSeq) /\ DownFits(v, down', got, lastSeq)
    BY Zenon, <1>1, <1>4, <1>10, DropFrames
  <1>14. EventsTyped'
    BY <1>1, <1>2, <1>4 DEF EventsTyped
  <1>15. Covers(v, lastSeq, got \cup SentBy(up, Len(up)))
    BY <1>4, <1>10 DEF EventsInv, NoLess
  <1>16. conn = "open"
    BY <1>1, <1>2 DEF EventsInv, EventsTyped
  <1> QED
    BY <1>2, <1>4, <1>9, <1>10, <1>12, <1>13, <1>14, <1>15, <1>16 DEF EventsInv

\* what the server has, and what is sent before a frame
LEMMA RestSent ==
    ASSUME NEW u \in Seq(Frames), u # <<>>, NEW g, NEW h, g \subseteq h,
           u[1].t = "event" => u[1].id \in h, NEW n \in 0..Len(Tail(u))
    PROVE  g \cup SentBy(u, n + 1) \subseteq h \cup SentBy(Tail(u), n)
  <1>1. /\ Len(Tail(u)) = Len(u) - 1 /\ Len(u) \in Nat
        /\ \A k \in 1..Len(Tail(u)) : Tail(u)[k] = u[k + 1]
    BY Rest
  <1> SUFFICES ASSUME NEW x \in SentBy(u, n + 1) PROVE x \in h \cup SentBy(Tail(u), n)
    OBVIOUS
  <1>2. PICK j \in 1..n + 1 : u[j].t = "event" /\ x = u[j].id
    BY DEF SentBy
  <1>3. CASE j = 1
    BY <1>2, <1>3
  <1>4. CASE j # 1
    <2>1. j - 1 \in 1..n /\ j - 1 \in 1..Len(Tail(u)) /\ (j - 1) + 1 = j
      BY <1>1, <1>4
    <2>2. Tail(u)[j - 1] = u[j]
      BY <1>1, <2>1
    <2> QED
      BY Zenon, <1>2, <2>1, <2>2 DEF SentBy
  <1> QED
    BY <1>3, <1>4

LEMMA CoversMore == ASSUME NEW s, NEW q, NEW S, NEW T, S \subseteq T, Covers(s, q, S) PROVE Covers(s, q, T)
  BY ZenonT(30) DEF Covers

LEMMA TakesKeeps == ASSUME EventsInv, Events!ServerTakes PROVE EventsInv'
  <1>1. /\ EventsTyped /\ ItemsFit(items, lastSeq) /\ UpFits(items, up, got, lastSeq)
        /\ DownFits(items, down, got, lastSeq)
    BY DEF EventsInv
  <1>2. /\ up # <<>> /\ up' = Tail(up)
        /\ UNCHANGED <<clock, lastSeq, items, lost, made, conn, stateSeen, evUsed>>
    BY DEF Events!ServerTakes
  <1>3. /\ up \in Seq(Frames) /\ down \in Seq(Frames) /\ made \in Nat /\ lost \in Nat /\ lastSeq \in Nat
        /\ Cardinality(Missing(made, got, items)) <= lost
    BY <1>1 DEF EventsTyped, EventsInv
  <1>4. /\ Tail(up) \in Seq(Frames) /\ Len(Tail(up)) = Len(up) - 1 /\ Len(up) \in Nat /\ Len(up) > 0
        /\ Head(up) = up[1] /\ Head(up) \in Frames /\ 1 \in 1..Len(up)
        /\ \A k \in 1..Len(Tail(up)) : k + 1 \in 1..Len(up) /\ Tail(up)[k] = up[k + 1]
    BY <1>2, <1>3, Rest
  <1>5. conn = "open"
    BY <1>1, <1>2 DEF EventsInv, EventsTyped
  <1>6. PICK f : /\ down' = Append(down, f) /\ f \in Frames
                 /\ f.t = "ack" => Head(up).t = "event" /\ f.seq = Head(up).seq
                 /\ got' = IF Head(up).t = "event" THEN got \cup {Head(up).id} ELSE got
    <2>1. CASE Head(up).t = "hello" /\ down' = Append(down, Events!State) /\ UNCHANGED got
      <3>1. Events!State \in Frames /\ Events!State.t # "ack"
        BY DEF Events!State, Frames
      <3> QED
        BY <2>1, <3>1
    <2>2. CASE /\ Head(up).t = "event" /\ got' = got \cup {Head(up).id}
               /\ down' = Append(down, [t |-> "ack", seq |-> Head(up).seq, id |-> 0])
      <3>1. PICK f : f = [t |-> "ack", seq |-> Head(up).seq, id |-> 0]
        BY Zenon
      <3>2. f \in Frames /\ f.seq = Head(up).seq
        BY <1>4, <3>1 DEF Frames
      <3> QED
        BY <2>2, <3>1, <3>2
    <2> QED
      BY <2>1, <2>2 DEF Events!ServerTakes
  <1>7. got \subseteq got' /\ (up[1].t = "event" => up[1].id \in got')
    BY <1>4, <1>6
  <1>8. \A n \in 0..Len(Tail(up)) : got \cup SentBy(up, n + 1) \subseteq got' \cup SentBy(Tail(up), n)
    BY <1>2, <1>3, <1>7, RestSent
  <1>9. UpFits(items, Tail(up), got', lastSeq)
    <2> SUFFICES ASSUME NEW k \in 1..Len(Tail(up)), Tail(up)[k].t = "event"
                 PROVE  /\ Tail(up)[k].seq <= lastSeq
                        /\ Covers(items, Tail(up)[k].seq, got' \cup SentBy(Tail(up), k))
      BY Zenon DEF UpFits
    <2>1. k + 1 \in 1..Len(up) /\ Tail(up)[k] = up[k + 1] /\ k \in 0..Len(Tail(up))
      BY <1>4
    <2>2. up[k + 1].seq <= lastSeq /\ Covers(items, up[k + 1].seq, got \cup SentBy(up, k + 1))
      BY Zenon, <1>1, <2>1 DEF UpFits
    <2> QED
      BY Zenon, <1>8, <2>1, <2>2, CoversMore
  <1>10. stateSeen = "yes" => Covers(items, lastSeq, got' \cup SentBy(Tail(up), Len(Tail(up))))
    <2>1. Len(Tail(up)) \in 0..Len(Tail(up)) /\ Len(Tail(up)) + 1 = Len(up)
      BY <1>4
    <2>2. got \cup SentBy(up, Len(up)) \subseteq got' \cup SentBy(Tail(up), Len(Tail(up)))
      BY <1>8, <2>1
    <2>3. stateSeen = "yes" => Covers(items, lastSeq, got \cup SentBy(up, Len(up)))
      BY DEF EventsInv
    <2> QED
      BY Zenon, <2>2, <2>3, CoversMore
  <1>11. /\ down' \in Seq(Frames) /\ Len(down') = Len(down) + 1 /\ Len(down) \in Nat
         /\ \A k \in 1..Len(down') : (k \in 1..Len(down) /\ down'[k] = down[k]) \/ down'[k] = f
    BY <1>3, <1>6
  <1>12. f.t = "ack" => f.seq <= lastSeq /\ Covers(items, f.seq, got')
    <2> SUFFICES ASSUME f.t = "ack" PROVE f.seq <= lastSeq /\ Covers(items, f.seq, got')
      OBVIOUS
    <2>1. up[1].t = "event" /\ f.seq = up[1].seq /\ got' = got \cup {up[1].id}
      BY <1>4, <1>6
    <2>2. up[1].seq <= lastSeq /\ Covers(items, up[1].seq, got \cup SentBy(up, 1))
      BY <1>1, <1>4, <2>1 DEF UpFits
    <2>3. SentBy(up, 1) \subseteq {up[1].id}
      BY DEF SentBy
    <2> QED
      BY <2>1, <2>2, <2>3, CoversMore
  <1>13. DownFits(items, down', got', lastSeq)
    <2> SUFFICES ASSUME NEW k \in 1..Len(down'), down'[k].t = "ack"
                 PROVE  down'[k].seq <= lastSeq /\ Covers(items, down'[k].seq, got')
      BY Zenon DEF DownFits
    <2>1. CASE down'[k] = f
      BY <1>12, <2>1
    <2>2. CASE k \in 1..Len(down) /\ down'[k] = down[k]
      <3>1. down[k].seq <= lastSeq /\ Covers(items, down[k].seq, got)
        BY Zenon, <1>1, <2>2 DEF DownFits
      <3> QED
        BY Zenon, <1>7, <2>2, <3>1, CoversMore
    <2> QED
      BY Zenon, <1>11, <2>1, <2>2
  <1>14. Cardinality(Missing(made, got', items)) <= lost
    <2>1. Missing(made, got', items) \subseteq Missing(made, got, items)
      BY Zenon, <1>7 DEF Missing
    <2> QED
      BY Zenon, <1>3, <2>1, FewerMiss
  <1>15. stateSeen = "no" => /\ \A k \in 1..Len(Tail(up)) : Tail(up)[k].t # "event"
                             /\ \A k \in 1..Len(down') : down'[k].t # "ack"
    <2> SUFFICES ASSUME stateSeen = "no"
                 PROVE  /\ \A k \in 1..Len(Tail(up)) : Tail(up)[k].t # "event"
                        /\ \A k \in 1..Len(down') : down'[k].t # "ack"
      BY Zenon
    <2>1. /\ \A k \in 1..Len(up) : up[k].t # "event"
          /\ \A k \in 1..Len(down) : down[k].t # "ack"
      BY DEF EventsInv
    <2> QED
      BY ZenonT(30), <1>4, <1>6, <1>11, <2>1
  <1>16. EventsTyped'
    BY <1>1, <1>2, <1>4, <1>11 DEF EventsTyped
  <1> QED
    BY <1>1, <1>2, <1>5, <1>9, <1>10, <1>13, <1>14, <1>15, <1>16 DEF EventsInv

LEMMA EventsStep == EventsInv /\ [Events!Next]_evs => EventsInv'
  <1> SUFFICES ASSUME EventsInv, [Events!Next]_evs PROVE EventsInv'
    OBVIOUS
  <1>1. CASE Events!ClockTicks
    <2>1. /\ clock' = clock + 1
          /\ UNCHANGED <<lastSeq, items, lost, made, conn, stateSeen, up, down, got, evUsed>>
      BY <1>1 DEF Events!ClockTicks
    <2>2. EventsTyped'
      BY <2>1 DEF EventsInv, EventsTyped
    <2> QED
      BY <2>1, <2>2 DEF EventsInv
  <1>2. CASE UNCHANGED evs
    BY Zenon, <1>2 DEF evs, Events!vars, EventsInv, EventsTyped
  <1> QED
    BY Zenon, <1>1, <1>2, EmitKeeps, OpenKeeps, ShutKeeps, StateKeeps, AckKeeps, TakesKeeps
       DEF Events!Next, Events!Deliver

LEMMA EventsKept == EventsInv => Events!NothingVanishes
  <1> SUFFICES ASSUME EventsInv PROVE Events!NothingVanishes
    OBVIOUS
  <1>1. PICK w : w = {up[k].id : k \in 1..Len(up)}
    BY Zenon
  <1>2. (1..made) \ (got \cup IdsIn(items) \cup w) \subseteq Missing(made, got, items)
    BY ZenonT(30) DEF Missing
  <1>3. made \in Nat /\ lost \in Nat /\ Cardinality(Missing(made, got, items)) <= lost
    BY Zenon DEF EventsInv, EventsTyped
  <1>4. PICK b : b = (1..made) \ (got \cup IdsIn(items) \cup w)
    BY Zenon
  <1>5. Cardinality(b) <= lost
    BY Zenon, <1>2, <1>3, <1>4, FewerMiss
  <1> QED
    BY Zenon, <1>1, <1>4, <1>5, EvCardinality DEF Events!NothingVanishes, Events!Buffered, IdsIn

(* No event of a plugin disappears from the buffer before the server has   *)
(* it, unless a limit dropped and counted it (edge/eventBuffer.js,         *)
(* edge/host.js), whatever the limits and however often connections break. *)
THEOREM EventsHold == Events!Spec => []Events!NothingVanishes
  <1>1. Events!Init => EventsInv
    BY EventsInit
  <1>2. EventsInv /\ [Events!Next]_(Events!vars) => EventsInv'
    BY EventsStep DEF evs
  <1>3. EventsInv => Events!NothingVanishes
    BY EventsKept
  <1> QED
    BY <1>1, <1>2, <1>3, PTL DEF Events!Spec

-----------------------------------------------------------------------------
(* Who is at home. *)
Pres == INSTANCE Presence WITH
    MaxQueue <- PresQueue, MaxMoves <- PresMoves, MaxApplies <- PresApplies,
    MaxFaults <- PresFaults

PresSpec == Pres!Init /\ [][Pres!Next]_(Pres!pvars)

\* the last event of m in the queue q says v
LastSays(q, m, v) ==
    \E k \in 1..Len(q) : /\ q[k].mac = m /\ q[k].online = v
                         /\ \A j \in k + 1..Len(q) : q[j].mac # m

Reports == [mac : Macs, online : {"yes", "no"}]
PresTyped ==
    /\ tracked \subseteq Macs
    /\ online \in [Macs -> {"none", "unknown", "yes", "no"}]
    /\ queue \in Seq(Reports) /\ Len(queue) <= PresQueue
    /\ ptick \in [pc : {"idle", "detect", "post", "taken"}, macs : SUBSET Macs,
                  seen : SUBSET Macs, batch : Seq(Reports)]

Known(m) == m \in tracked \ dropped /\ online[m] \in {"yes", "no"}
\* the queue ends with what is known, and what is under way is the queue unless that was
\* cleared, since when nothing was detected
PresInv ==
    /\ PresTyped /\ \A m \in Macs : online[m] # "none" => m \in tracked
    /\ dropped \cap Pres!MacsOf(queue) = {}
    /\ \A m \in Macs : Known(m) /\ m \notin Pres!MacsOf(queue) => view[m] = online[m]
    /\ \A m \in Macs : Known(m) /\ m \in Pres!MacsOf(queue) => LastSays(queue, m, online[m])
    /\ ptick.pc \in {"post", "taken"} => \/ queue = ptick.batch
                                         \/ queue = <<>> /\ \A m \in Macs : ~Known(m)
    /\ ptick.pc = "taken" => \A m \in Macs : Known(m) => view[m] = online[m]

LEMMA PresCardinality == ASSUME NEW S PROVE Pres!Cardinality(S) = Cardinality(S)
  BY DEF Pres!Cardinality, Cardinality

\* every member of a finite set once
Lists(o, n, S) ==
    /\ o \in [1..n -> S] /\ \A x \in S : \E k \in 1..n : o[k] = x
    /\ \A j, k \in 1..n : o[j] = o[k] => j = k

LEMMA Ordered ==
    ASSUME NEW S, IsFiniteSet(S), NEW o \in Pres!Orders(S)
    PROVE  \E n \in Nat : Lists(o, n, S)
  <1>1. PICK n \in Nat : n = Cardinality(S)
    BY FS_CardinalityType
  <1>2. o \in [1..n -> S] /\ \A x \in S : \E k \in 1..n : o[k] = x
    BY Zenon, <1>1, PresCardinality DEF Pres!Orders
  <1>3. IsFiniteSet(1..n) /\ Cardinality(1..n) = n
    BY <1>1, FS_Interval
  <1>4. \A j, k \in 1..n : o[j] = o[k] => j = k
    <2>1. o \in Surjection(1..n, S)
      BY Zenon, <1>2 DEF Surjection
    <2>2. o \in Injection(1..n, S)
      BY Zenon, <1>1, <1>3, <2>1, FS_Surjection
    <2> QED
      BY <1>2, <2>2 DEF Injection, IsInjective
  <1> QED
    BY Zenon, <1>2, <1>4 DEF Lists

LEMMA JoinedMacs ==
    ASSUME NEW q \in Seq(Reports), NEW e \in Seq(Reports), NEW a, a = q \o e
    PROVE  Pres!MacsOf(a) = Pres!MacsOf(q) \cup Pres!MacsOf(e)
  <1>1. Joins(a, q, e)
    BY Zenon, IsJoined
  <1>2. ASSUME NEW x \in Pres!MacsOf(q) PROVE x \in Pres!MacsOf(a)
    BY Zenon, <1>1 DEF Pres!MacsOf, Joins
  <1>3. ASSUME NEW x \in Pres!MacsOf(e) PROVE x \in Pres!MacsOf(a)
    <2>1. PICK k \in 1..Len(e) : x = e[k].mac
      BY Zenon DEF Pres!MacsOf
    <2>2. Len(q) + k \in 1..Len(a) /\ a[Len(q) + k] = e[k]
      BY Zenon, <1>1, <2>1 DEF Joins
    <2> QED
      BY Zenon, <2>1, <2>2 DEF Pres!MacsOf
  <1>4. ASSUME NEW x \in Pres!MacsOf(a) PROVE x \in Pres!MacsOf(q) \cup Pres!MacsOf(e)
    <2>1. PICK k \in 1..Len(a) : x = a[k].mac
      BY Zenon DEF Pres!MacsOf
    <2>2. CASE k \in 1..Len(q)
      BY Zenon, <1>1, <2>1, <2>2 DEF Pres!MacsOf, Joins
    <2>3. CASE k \notin 1..Len(q)
      <3>1. k - Len(q) \in 1..Len(e) /\ a[k] = e[k - Len(q)]
        BY Zenon, <1>1, <2>3 DEF Joins
      <3> QED
        BY Zenon, <2>1, <3>1 DEF Pres!MacsOf
    <2> QED
      BY Zenon, <2>2, <2>3
  <1> QED
    BY Zenon, <1>2, <1>3, <1>4

LEMMA SaysBefore ==
    ASSUME NEW q \in Seq(Reports), NEW e \in Seq(Reports), NEW a, a = q \o e, NEW m, NEW v,
           LastSays(q, m, v), m \notin Pres!MacsOf(e)
    PROVE  LastSays(a, m, v)
  <1>0. Joins(a, q, e)
    BY Zenon, IsJoined
  <1>1. /\ Len(a) = Len(q) + Len(e) /\ Len(q) \in Nat /\ Len(e) \in Nat
    BY Zenon, <1>0 DEF Joins
  <1>2. PICK k \in 1..Len(q) : q[k].mac = m /\ q[k].online = v /\ \A j \in k + 1..Len(q) : q[j].mac # m
    BY DEF LastSays
  <1>3. ASSUME NEW j \in k + 1..Len(a) PROVE a[j].mac # m
    <2>1. j \in 1..Len(a)
      BY <1>1, <1>2
    <2>2. CASE j \in 1..Len(q)
      <3>1. j \in k + 1..Len(q)
        BY <1>1, <2>2
      <3> QED
        BY ZenonT(30), <1>0, <1>2, <2>2, <3>1 DEF Joins
    <2>3. CASE j \notin 1..Len(q)
      <3>1. j - Len(q) \in 1..Len(e) /\ a[j] = e[j - Len(q)]
        BY Zenon, <1>0, <2>1, <2>3 DEF Joins
      <3> QED
        BY Zenon, <3>1 DEF Pres!MacsOf
    <2> QED
      BY Zenon, <2>2, <2>3
  <1>4. k \in 1..Len(a) /\ a[k] = q[k]
    BY Zenon, <1>0, <1>2 DEF Joins
  <1> QED
    BY Zenon, <1>2, <1>3, <1>4 DEF LastSays

LEMMA SaysAfter ==
    ASSUME NEW q \in Seq(Reports), NEW e \in Seq(Reports), NEW a, a = q \o e, NEW m, NEW v,
           LastSays(e, m, v)
    PROVE  LastSays(a, m, v)
  <1>0. Joins(a, q, e)
    BY Zenon, IsJoined
  <1>1. /\ Len(a) = Len(q) + Len(e) /\ Len(q) \in Nat /\ Len(e) \in Nat
    BY Zenon, <1>0 DEF Joins
  <1>2. PICK k \in 1..Len(e) : e[k].mac = m /\ e[k].online = v /\ \A j \in k + 1..Len(e) : e[j].mac # m
    BY DEF LastSays
  <1>3. ASSUME NEW j \in (Len(q) + k) + 1..Len(a) PROVE a[j].mac # m
    <2>1. j - Len(q) \in k + 1..Len(e) /\ j - Len(q) \in 1..Len(e) /\ Len(q) + (j - Len(q)) = j
      BY <1>1, <1>2
    <2>2. j \in 1..Len(a) /\ j \notin 1..Len(q)
      BY <1>1, <1>2
    <2>3. a[j] = e[j - Len(q)]
      BY Zenon, <1>0, <2>2 DEF Joins
    <2> QED
      BY Zenon, <1>2, <2>1, <2>3
  <1>4. Len(q) + k \in 1..Len(a) /\ a[Len(q) + k] = e[k]
    BY Zenon, <1>0, <1>2 DEF Joins
  <1> QED
    BY Zenon, <1>2, <1>3, <1>4 DEF LastSays

LEMMA SaysRest ==
    ASSUME NEW s \in Seq(Reports), NEW n \in 0..Len(s), NEW r, r = SubSeq(s, n + 1, Len(s)),
           NEW m, NEW v, LastSays(s, m, v), m \in Pres!MacsOf(r)
    PROVE  LastSays(r, m, v)
  <1>1. /\ Len(r) = Len(s) - n /\ Len(s) \in Nat
        /\ \A k \in 1..Len(r) : n + k \in 1..Len(s) /\ r[k] = s[n + k]
    OBVIOUS
  <1>2. PICK k \in 1..Len(s) : s[k].mac = m /\ s[k].online = v /\ \A j \in k + 1..Len(s) : s[j].mac # m
    BY DEF LastSays
  <1>3. PICK i \in 1..Len(r) : r[i].mac = m
    BY Zenon DEF Pres!MacsOf
  <1>4. n + i <= k
    <2>1. n + i \in 1..Len(s) /\ s[n + i].mac = m
      BY <1>1, <1>3
    <2>2. n + i \notin k + 1..Len(s)
      BY <1>2, <2>1
    <2> QED
      BY <1>1, <2>1, <2>2
  <1>5. k - n \in 1..Len(r) /\ n + (k - n) = k
    BY <1>1, <1>4
  <1>6. r[k - n] = s[k]
    BY <1>1, <1>5
  <1>7. ASSUME NEW j \in (k - n) + 1..Len(r) PROVE r[j].mac # m
    <2>1. n + j \in k + 1..Len(s) /\ j \in 1..Len(r)
      BY <1>1, <1>5
    <2> QED
      BY <1>1, <1>2, <2>1
  <1> QED
    BY ZenonT(30), <1>2, <1>5, <1>6, <1>7 DEF LastSays

LEMMA SplitMacs ==
    ASSUME NEW s \in Seq(Reports), NEW n \in 0..Len(s)
    PROVE  Pres!MacsOf(s) \subseteq Pres!MacsOf(SubSeq(s, 1, n)) \cup Pres!MacsOf(SubSeq(s, n + 1, Len(s)))
  <1>1. PICK f, r : f = SubSeq(s, 1, n) /\ r = SubSeq(s, n + 1, Len(s))
    BY Zenon
  <1>2. /\ Len(f) = n /\ \A k \in 1..n : f[k] = s[k]
        /\ Len(r) = Len(s) - n /\ Len(s) \in Nat /\ \A k \in 1..Len(r) : r[k] = s[n + k]
    BY <1>1
  <1> SUFFICES ASSUME NEW k \in 1..Len(s) PROVE s[k].mac \in Pres!MacsOf(f) \cup Pres!MacsOf(r)
    BY ZenonT(30), <1>1 DEF Pres!MacsOf
  <1>3. CASE k <= n
    <2>1. k \in 1..Len(f) /\ f[k] = s[k]
      BY <1>2, <1>3
    <2> QED
      BY Zenon, <2>1 DEF Pres!MacsOf
  <1>4. CASE ~(k <= n)
    <2>1. k - n \in 1..Len(r) /\ n + (k - n) = k
      BY <1>2, <1>4
    <2>2. r[k - n] = s[k]
      BY <1>2, <2>1
    <2> QED
      BY Zenon, <2>1, <2>2 DEF Pres!MacsOf
  <1> QED
    BY <1>3, <1>4

LEMMA NoMacs == Pres!MacsOf(<<>>) = {}
  BY DEF Pres!MacsOf

LEMMA IdleTyped == Pres!Idle \in [pc : {"idle", "detect", "post", "taken"}, macs : SUBSET Macs,
                                  seen : SUBSET Macs, batch : Seq(Reports)]
                   /\ Pres!Idle.pc = "idle"
  BY DEF Pres!Idle

LEMMA PresInit == Pres!Init => PresInv
  <1> SUFFICES ASSUME Pres!Init PROVE PresInv
    OBVIOUS
  <1>1. /\ tracked = {} /\ online = [m \in Macs |-> "none"] /\ queue = <<>> /\ ptick = Pres!Idle
    BY DEF Pres!Init
  <1>2. PresTyped
    <2>1. PresQueue \in Nat
      BY LimitsAssumption
    <2> QED
      BY <1>1, <2>1, IdleTyped DEF PresTyped
  <1>3. \A m \in Macs : online[m] = "none" /\ ~Known(m)
    BY <1>1 DEF Known
  <1> QED
    BY <1>1, <1>2, <1>3, NoMacs, IdleTyped DEF PresInv

\* the devices that came and left are told, in any order, each once
LEMMA TransitionsKeep ==
    ASSUME PresInv, NEW seen, NEW away, Pres!transitions(seen, away), UNCHANGED <<tracked, view>>
    PROVE  /\ queue' \in Seq(Reports) /\ Len(queue') <= PresQueue
           /\ online' \in [Macs -> {"none", "unknown", "yes", "no"}]
           /\ \A m \in Macs : online'[m] # "none" => m \in tracked
           /\ dropped' \cap Pres!MacsOf(queue') = {}
           /\ \A m \in Macs : Known(m)' /\ m \notin Pres!MacsOf(queue') => view[m] = online'[m]
           /\ \A m \in Macs : Known(m)' /\ m \in Pres!MacsOf(queue') => LastSays(queue', m, online'[m])
  <1>1. /\ tracked \subseteq Macs /\ online \in [Macs -> {"none", "unknown", "yes", "no"}]
        /\ queue \in Seq(Reports) /\ PresQueue \in Nat
    BY LimitsAssumption DEF PresInv, PresTyped
  <1>2. PICK came, left : /\ came = {m \in tracked : m \in seen /\ online[m] # "yes"}
                          /\ left = {m \in tracked \cap away : m \notin seen /\ online[m] # "no"}
    BY Zenon
  <1>3. PICK on : on = [m \in Macs |-> IF m \in came THEN "yes" ELSE IF m \in left THEN "no" ELSE online[m]]
    BY Zenon
  <1>4. PICK S : S = came \cup left
    BY Zenon
  <1>5. online' = on /\ \E o \in Pres!Orders(S) : Pres!push(Pres!EventsOf(o, on))
    BY Zenon, <1>2, <1>3, <1>4 DEF Pres!transitions
  <1>6. PICK o \in Pres!Orders(S) : Pres!push(Pres!EventsOf(o, on))
    BY Zenon, <1>5
  <1>7. PICK e : e = [k \in DOMAIN o |-> [mac |-> o[k], online |-> on[o[k]]]]
    BY Zenon
  <1>8. online' = on /\ Pres!push(e)
    BY ZenonT(30), <1>5, <1>6, <1>7 DEF Pres!EventsOf
  <1>9. S \subseteq tracked /\ S \subseteq Macs /\ IsFiniteSet(S)
    <2>1. S \in SUBSET Macs /\ S \subseteq tracked
      BY <1>1, <1>2, <1>4
    <2> QED
      BY <2>1, FiniteAssumption, FS_Subset
  <1>10. PICK n \in Nat : Lists(o, n, S)
    BY Zenon, <1>6, <1>9, Ordered
  <1>11. /\ o \in [1..n -> S] /\ \A x \in S : \E k \in 1..n : o[k] = x
        /\ \A j, k \in 1..n : o[j] = o[k] => j = k
    BY Zenon, <1>10 DEF Lists
  <1>12. DOMAIN o = 1..n
    BY <1>11
  <1>13. /\ on \in [Macs -> {"none", "unknown", "yes", "no"}]
         /\ \A m \in S : on[m] \in {"yes", "no"}
         /\ \A m \in Macs \ S : on[m] = online[m]
    BY <1>1, <1>3, <1>4, <1>9
  <1>14. /\ e \in Seq(Reports) /\ Len(e) = n
         /\ \A k \in 1..n : e[k].mac = o[k] /\ e[k].online = on[o[k]]
    BY <1>9, <1>11, <1>12, <1>13, <1>7 DEF Reports
  <1>15. Pres!MacsOf(e) = S
    <2>1. \A k \in 1..n : o[k] \in S
      BY <1>11
    <2>2. \A x \in Pres!MacsOf(e) : x \in S
      BY ZenonT(30), <1>14, <2>1 DEF Pres!MacsOf
    <2>3. ASSUME NEW x \in S PROVE x \in Pres!MacsOf(e)
      <3>1. PICK k \in 1..n : o[k] = x
        BY Zenon, <1>11
      <3>2. k \in 1..Len(e) /\ e[k].mac = x
        BY Zenon, <1>14, <3>1
      <3> QED
        BY Zenon, <3>2 DEF Pres!MacsOf
    <2> QED
      BY Zenon, <2>2, <2>3
  <1>16. ASSUME NEW m \in S PROVE LastSays(e, m, on[m])
    <2>1. PICK k \in 1..n : o[k] = m
      BY <1>11
    <2>2. \A j \in k + 1..n : j \in 1..n /\ j # k
      OBVIOUS
    <2>3. ASSUME NEW j \in k + 1..n PROVE e[j].mac # m
      <3>1. j \in 1..n /\ j # k
        BY Zenon, <2>2
      <3>2. o[j] # o[k]
        BY Zenon, <1>11, <3>1
      <3> QED
        BY Zenon, <1>14, <2>1, <3>1, <3>2
    <2> QED
      BY Zenon, <1>14, <2>1, <2>3 DEF LastSays
  <1>17. PICK a : a = queue \o e
    BY Zenon
  <1>18. /\ a \in Seq(Reports) /\ Len(a) \in Nat
         /\ Pres!MacsOf(a) = Pres!MacsOf(queue) \cup S
    <2>1. a \in Seq(Reports)
      BY Zenon, <1>1, <1>14, <1>17, IsJoined
    <2>2. Pres!MacsOf(a) = Pres!MacsOf(queue) \cup S
      BY ZenonT(30), <1>1, <1>14, <1>15, <1>17, JoinedMacs
    <2>3. Len(a) \in Nat
      BY <2>1
    <2> QED
      BY Zenon, <2>1, <2>2, <2>3
  <1>19. PICK c : c = IF Len(a) > PresQueue THEN Len(a) - PresQueue ELSE 0
    BY Zenon
  <1>20. c \in 0..Len(a) /\ Len(a) - c <= PresQueue
    BY <1>1, <1>18, <1>19
  <1>21. PICK f, r : f = SubSeq(a, 1, c) /\ r = SubSeq(a, c + 1, Len(a))
    BY Zenon
  <1>22. queue' = r /\ dropped' = (dropped \cup Pres!MacsOf(f)) \ Pres!MacsOf(r)
    BY <1>8, <1>17, <1>19, <1>21 DEF Pres!push
  <1>23. r \in Seq(Reports) /\ Len(r) <= PresQueue
    BY <1>18, <1>20, <1>21
  <1>24. Pres!MacsOf(a) \subseteq Pres!MacsOf(f) \cup Pres!MacsOf(r) /\ Pres!MacsOf(r) \subseteq Pres!MacsOf(a)
    <2>1. Pres!MacsOf(a) \subseteq Pres!MacsOf(f) \cup Pres!MacsOf(r)
      BY <1>18, <1>20, <1>21, SplitMacs
    <2>2. \A k \in 1..Len(r) : c + k \in 1..Len(a) /\ r[k] = a[c + k]
      BY <1>18, <1>20, <1>21
    <2> QED
      BY Zenon, <2>1, <2>2 DEF Pres!MacsOf
  <1>25. \A m \in Macs : on[m] # "none" => m \in tracked
    BY <1>9, <1>13 DEF PresInv
  <1>26. ASSUME NEW m \in Macs, Known(m)', m \notin Pres!MacsOf(r) PROVE view[m] = on[m]
    <2>1. m \notin dropped /\ m \notin Pres!MacsOf(f) /\ m \in tracked /\ on[m] \in {"yes", "no"}
      BY <1>8, <1>22, <1>26 DEF Known
    <2>2. m \notin Pres!MacsOf(queue) /\ m \notin S
      BY ZenonT(30), <1>18, <1>24, <1>26, <2>1
    <2>3. on[m] = online[m]
      BY <1>13, <2>2
    <2>4. Known(m)
      BY <2>1, <2>3 DEF Known
    <2> QED
      BY <2>2, <2>3, <2>4 DEF PresInv
  <1>27. ASSUME NEW m \in Macs, Known(m)', m \in Pres!MacsOf(r) PROVE LastSays(r, m, on[m])
    <2>1. LastSays(a, m, on[m])
      <3>1. CASE m \in S
        BY Zenon, <1>1, <1>14, <1>16, <1>17, <3>1, SaysAfter
      <3>2. CASE m \notin S
        <4>1. on[m] = online[m] /\ m \in Pres!MacsOf(queue)
          BY <1>13, <1>18, <1>24, <1>27, <3>2
        <4>2. Known(m)
          BY <1>8, <1>27, <4>1 DEF Known, PresInv
        <4>3. LastSays(queue, m, online[m])
          BY <4>1, <4>2 DEF PresInv
        <4> QED
          BY Zenon, <1>1, <1>14, <1>15, <1>17, <3>2, <4>1, <4>3, SaysBefore
      <3> QED
        BY <3>1, <3>2
    <2> QED
      BY Zenon, <1>18, <1>20, <1>21, <1>27, <2>1, SaysRest
  <1> QED
    BY ZenonT(30), <1>8, <1>13, <1>22, <1>23, <1>25, <1>26, <1>27

LEMMA DetectedKeeps == ASSUME PresInv, NEW away, Pres!detected(away) PROVE PresInv'
  <1>1. /\ Pres!transitions(ptick.seen, away) /\ UNCHANGED <<home, tracked, view, presUsed>>
        /\ ptick' = IF queue' = <<>> THEN Pres!Idle
                    ELSE [Pres!Idle EXCEPT !.pc = "post", !.batch = queue']
    BY DEF Pres!detected
  <1>2. /\ queue' \in Seq(Reports) /\ Len(queue') <= PresQueue
        /\ online' \in [Macs -> {"none", "unknown", "yes", "no"}]
        /\ \A m \in Macs : online'[m] # "none" => m \in tracked
        /\ dropped' \cap Pres!MacsOf(queue') = {}
        /\ \A m \in Macs : Known(m)' /\ m \notin Pres!MacsOf(queue') => view[m] = online'[m]
        /\ \A m \in Macs : Known(m)' /\ m \in Pres!MacsOf(queue') => LastSays(queue', m, online'[m])
    BY Zenon, <1>1, TransitionsKeep
  <1>3. /\ ptick' \in [pc : {"idle", "detect", "post", "taken"}, macs : SUBSET Macs,
                       seen : SUBSET Macs, batch : Seq(Reports)]
        /\ ptick'.pc # "taken" /\ (ptick'.pc = "post" => queue' = ptick'.batch)
    BY Zenon, <1>1, <1>2 DEF Pres!Idle
  <1>4. PresTyped'
    BY <1>1, <1>2, <1>3 DEF PresInv, PresTyped
  <1> QED
    BY <1>1, <1>2, <1>3, <1>4 DEF PresInv

LEMMA ApplyKeeps == ASSUME PresInv, NEW S \in SUBSET Macs, Pres!apply(S) PROVE PresInv'
  <1>1. /\ tracked' = S /\ dropped' = dropped \cap S /\ UNCHANGED <<home, ptick, view>>
        /\ online' = [m \in Macs |-> IF m \notin S THEN "none"
                                     ELSE IF online[m] = "none" THEN "unknown" ELSE online[m]]
        /\ queue' = IF S = {} THEN <<>> ELSE queue
    BY DEF Pres!apply
  <1>2. PresTyped'
    <2>1. /\ online \in [Macs -> {"none", "unknown", "yes", "no"}] /\ queue \in Seq(Reports)
          /\ Len(queue) <= PresQueue /\ PresQueue \in Nat
      BY LimitsAssumption DEF PresInv, PresTyped
    <2>2. online' \in [Macs -> {"none", "unknown", "yes", "no"}]
      BY <1>1, <2>1
    <2>3. queue' \in Seq(Reports) /\ Len(queue') <= PresQueue
      BY <1>1, <2>1
    <2> QED
      BY <1>1, <2>2, <2>3 DEF PresInv, PresTyped
  <1>3. \A m \in Macs : online'[m] # "none" => m \in S
    BY <1>1
  <1>4. ASSUME NEW m \in Macs, Known(m)' PROVE Known(m) /\ online'[m] = online[m] /\ queue' = queue
    <2>1. m \in S /\ m \notin dropped /\ online'[m] \in {"yes", "no"}
      BY <1>1, <1>4 DEF Known
    <2>2. online'[m] = online[m] /\ online[m] # "none"
      BY <1>1, <2>1
    <2>3. m \in tracked
      BY <2>2 DEF PresInv
    <2> QED
      BY <1>1, <2>1, <2>2, <2>3 DEF Known
  <1>5. Pres!MacsOf(queue') \subseteq Pres!MacsOf(queue)
    BY <1>1, NoMacs
  <1>6. dropped' \cap Pres!MacsOf(queue') = {}
    BY <1>1, <1>5 DEF PresInv
  <1>7. ptick.pc \in {"post", "taken"} => \/ queue' = ptick.batch
                                          \/ queue' = <<>> /\ \A m \in Macs : ~Known(m)'
    <2>1. S = {} => queue' = <<>> /\ \A m \in Macs : ~Known(m)'
      BY <1>1 DEF Known
    <2> QED
      BY Zenon, <1>1, <1>4, <2>1 DEF PresInv
  <1> QED
    BY Zenon, <1>1, <1>2, <1>3, <1>4, <1>6, <1>7 DEF PresInv

LEMMA PresTakes == ASSUME PresInv, Pres!ServerTakes PROVE PresInv'
  <1> DEFINE b == ptick.batch
             last(m) == CHOOSE k \in 1..Len(b) : b[k].mac = m /\ \A j \in k + 1..Len(b) : b[j].mac # m
  <1>2. /\ ptick.pc = "post" /\ ptick' = [ptick EXCEPT !.pc = "taken"]
        /\ view' = [m \in Macs |-> IF m \in Pres!MacsOf(b) THEN b[last(m)].online ELSE view[m]]
        /\ UNCHANGED <<home, tracked, online, queue, dropped, presUsed>>
    BY Zenon DEF Pres!ServerTakes
  <1>3. ASSUME NEW m \in Macs, Known(m) PROVE view'[m] = online[m]
    <2>1. queue = b
      BY <1>2, <1>3 DEF PresInv
    <2>2. CASE m \notin Pres!MacsOf(b)
      BY <1>2, <1>3, <2>1, <2>2 DEF PresInv
    <2>3. CASE m \in Pres!MacsOf(b)
      <3>1. LastSays(b, m, online[m])
        BY <1>3, <2>1, <2>3 DEF PresInv
      <3>2. PICK k \in 1..Len(b) : b[k].mac = m /\ b[k].online = online[m] /\ \A j \in k + 1..Len(b) : b[j].mac # m
        BY <3>1 DEF LastSays
      <3>3. PICK l : l = last(m)
        BY Zenon
      <3>4. l \in 1..Len(b) /\ b[l].mac = m /\ \A j \in l + 1..Len(b) : b[j].mac # m
        BY ZenonT(30), <3>2, <3>3
      <3>5. l = k
        <4>1. Len(b) \in Nat
          BY <2>1 DEF PresInv, PresTyped
        <4>2. l \notin k + 1..Len(b) /\ k \notin l + 1..Len(b)
          BY Zenon, <3>2, <3>4
        <4> HIDE DEF last
        <4> QED
          BY <3>2, <3>4, <4>1, <4>2
      <3> HIDE DEF last
      <3> QED
        BY Zenon, <1>2, <2>3, <3>2, <3>3, <3>5
    <2> QED
      BY <2>2, <2>3
  <1> HIDE DEF last
  <1>4. \A m \in Macs : Known(m)' <=> Known(m)
    BY <1>2 DEF Known
  <1>5. ptick'.pc = "taken" /\ ptick'.batch = ptick.batch /\ PresTyped'
    BY <1>2 DEF PresInv, PresTyped
  <1> QED
    BY ZenonT(30), <1>2, <1>3, <1>4, <1>5 DEF PresInv

LEMMA PostedKeeps == ASSUME PresInv, Pres!posted PROVE PresInv'
  <1>1. /\ ptick.pc = "taken" /\ ptick' = Pres!Idle
        /\ queue' = SubSeq(queue, Len(ptick.batch) + 1, Len(queue))
        /\ UNCHANGED <<home, tracked, online, view, dropped, presUsed>>
    BY DEF Pres!posted, Pres!flushed
  <1>2. queue' = <<>>
    BY <1>1 DEF PresInv, PresTyped
  <1>3. PresTyped'
    <2>1. queue' \in Seq(Reports) /\ Len(queue') <= PresQueue
      BY <1>2, LimitsAssumption
    <2> QED
      BY Zenon, <1>1, <2>1, IdleTyped DEF PresInv, PresTyped
  <1>4. \A m \in Macs : Known(m)' <=> Known(m)
    BY <1>1 DEF Known
  <1>5. ptick'.pc = "idle" /\ Pres!MacsOf(queue') = {}
    BY Zenon, <1>1, <1>2, NoMacs, IdleTyped
  <1> QED
    BY <1>1, <1>3, <1>4, <1>5 DEF PresInv

\* steps that only move the tick along
LEMMA TickKeeps ==
    ASSUME PresInv, UNCHANGED <<tracked, online, queue, view, dropped>>, PresTyped',
           ptick' = ptick \/ ptick'.pc \in {"idle", "detect"}
    PROVE  PresInv'
  <1>1. \A m \in Macs : Known(m)' <=> Known(m)
    BY DEF Known
  <1> QED
    BY <1>1 DEF PresInv

LEMMA PresStep == PresInv /\ [Pres!Next]_(Pres!pvars) => PresInv'
  <1> SUFFICES ASSUME PresInv, [Pres!Next]_(Pres!pvars) PROVE PresInv'
    OBVIOUS
  <1>1. CASE Pres!tick
    <2>1. PresTyped' /\ ptick'.pc = "detect"
      BY Zenon, <1>1, IdleTyped DEF Pres!tick, Pres!Idle, PresInv, PresTyped
    <2> QED
      BY <1>1, <2>1, TickKeeps DEF Pres!tick
  <1>2. ASSUME NEW m \in Macs, Pres!detect(m) PROVE PresInv'
    <2>1. PresTyped' /\ ptick'.pc = "detect"
      BY Zenon, <1>2 DEF Pres!detect, PresInv, PresTyped
    <2> QED
      BY <1>2, <2>1, TickKeeps DEF Pres!detect
  <1>3. CASE Pres!postFails \/ Pres!detectFails
    <2>1. /\ ptick' = Pres!Idle /\ UNCHANGED <<tracked, online, queue, view, dropped>>
      BY <1>3 DEF Pres!postFails, Pres!detectFails
    <2>2. PresTyped' /\ ptick'.pc = "idle"
      BY <2>1, IdleTyped DEF PresInv, PresTyped
    <2> QED
      BY <2>1, <2>2, TickKeeps
  <1>4. ASSUME NEW m \in Macs, Pres!Moves(m) PROVE PresInv'
    <2>1. UNCHANGED <<tracked, online, queue, ptick, view, dropped>>
      BY <1>4 DEF Pres!Moves
    <2>2. PresTyped'
      BY <2>1 DEF PresInv, PresTyped
    <2> QED
      BY <2>1, <2>2, TickKeeps
  <1>5. CASE UNCHANGED Pres!pvars
    <2>1. UNCHANGED <<tracked, online, queue, ptick, view, dropped>>
      BY <1>5 DEF Pres!pvars
    <2>2. PresTyped'
      BY <2>1 DEF PresInv, PresTyped
    <2> QED
      BY <2>1, <2>2, TickKeeps
  <1> QED
    BY ZenonT(30), <1>1, <1>2, <1>3, <1>4, <1>5, PresTakes, PostedKeeps, ApplyKeeps, DetectedKeeps
       DEF Pres!Next, Pres!Step

(* What the gateway knows of a tracked device is what the server knows, or *)
(* is in the queue, or fell out of a full queue (presence.js _flush, push),*)
(* for any devices and queue, whatever is lost and switched meanwhile.     *)
THEOREM PresHolds == PresSpec => []Pres!ToldOrQueued
  <1>1. Pres!Init => PresInv
    BY PresInit
  <1>2. PresInv /\ [Pres!Next]_(Pres!pvars) => PresInv'
    BY PresStep
  <1>3. PresInv => Pres!ToldOrQueued
    <2> SUFFICES ASSUME PresInv, NEW m \in tracked \ dropped, online[m] \in {"yes", "no"},
                        m \notin Pres!MacsOf(queue)
                 PROVE  view[m] = online[m]
      BY Zenon DEF Pres!ToldOrQueued
    <2>1. m \in Macs /\ Known(m)
      BY DEF PresInv, PresTyped, Known
    <2> QED
      BY <2>1 DEF PresInv
  <1> QED
    BY <1>1, <1>2, <1>3, PTL DEF PresSpec

-----------------------------------------------------------------------------
(* Proofs about ScanManager for any number of scan requests: its slot      *)
(* discipline, the terminal batch of every ended scan, and that it         *)
(* implements ScanService.                                                 *)

(* The inductive invariant: besides the slot discipline, only a failing    *)
(* scan awaits a post, it has already handed over its batch, and a request *)
(* that never started has neither an engine nor a report.                  *)
IInv ==
    /\ TypeOK /\ SlotIsHeld /\ EndedIsReported
    /\ \A r \in Requests :
          /\ scan[r] = "failing" => reports[r] > 0
          /\ scan[r] = "idle" => reports[r] = 0 /\ engine[r] = "idle"
    /\ \A p \in posts : p.by = "catch" => scan[p.req] = "failing"

LEMMA InitInv == Init => IInv
  BY RequestAssumption DEF Init, IInv, TypeOK, SlotIsHeld, EndedIsReported

(* Every step of the manager, an engine or a post keeps the invariant. *)
LEMMA NextInv == IInv /\ [Next]_vars => IInv'
<1> SUFFICES ASSUME IInv, [Next]_vars PROVE IInv'
  OBVIOUS
<1> USE RequestAssumption DEF IInv, TypeOK, SlotIsHeld, EndedIsReported
<1>1. ASSUME NEW r \in Requests, start(r) PROVE IInv'
  BY <1>1 DEF start, canStart
<1>2. ASSUME NEW r \in Requests, runScanEnds(r) PROVE IInv'
  <2>1. CASE active = r
    <3>1. CASE scan[r] = "racing"
      BY <1>2, <2>1, <3>1 DEF runScanEnds, send, finishRace
    <3>2. CASE scan[r] = "failing"
      BY <1>2, <2>1, <3>2 DEF runScanEnds, send, finishRace
    <3> QED
      BY <2>1, <3>1, <3>2
  <2>2. CASE active # r
    BY <1>2, <2>2 DEF runScanEnds, send, finishRace
  <2> QED
    BY <2>1, <2>2
<1>3. ASSUME NEW r \in Requests, scan[r] = "racing", raceFails(r),
             engine' \in [Requests -> {"idle", "running", "done"}],
             \A q \in Requests : engine[q] = "idle" => engine'[q] = "idle",
             dones' = dones
      PROVE  IInv'
  <2>1. active = r
    BY <1>3
  <2>2. posts' \subseteq [req : Requests, by : {"engine", "catch"}]
    BY <1>3, <2>1 DEF raceFails, send
  <2>3. \A p \in posts' : p.by = "catch" => scan'[p.req] = "failing"
    BY <1>3, <2>1 DEF raceFails, send
  <2> QED
    BY <1>3, <2>1, <2>2, <2>3 DEF raceFails, send
<1>4. ASSUME NEW r \in Requests, runScanThrows(r) PROVE IInv'
  <2>1. CASE scan[r] = "racing"
    BY <1>3, <1>4, <2>1 DEF runScanThrows
  <2>2. CASE scan[r] # "racing"
    BY <1>4, <2>2 DEF runScanThrows
  <2> QED
    BY <2>1, <2>2
<1>5. ASSUME NEW r \in Requests, scanTimeout(r) PROVE IInv'
  BY <1>3, <1>5 DEF scanTimeout
<1>6. ASSUME NEW p \in posts, postSettles(p) PROVE IInv'
  <2>1. p.req \in Requests /\ posts' = posts \ {p} /\ dones' \in [Requests -> Nat]
    BY <1>6 DEF postSettles
  <2>2. CASE p.by = "catch"
    <3>1. scan[p.req] = "failing" /\ active = p.req
      BY <2>1, <2>2
    <3>2. \A q \in posts' : ~ (q.by = "catch" /\ q.req = p.req)
      BY <2>1, <2>2
    <3>3. /\ scan' = [scan EXCEPT ![p.req] = "ended"]
          /\ active' = None /\ engine' = engine /\ reports' = reports
      BY <1>6, <2>2 DEF postSettles
    <3>4. \A q \in posts' : q.by = "catch" => scan'[q.req] = "failing"
      BY <2>1, <3>2, <3>3
    <3>5. SlotIsHeld'
      BY <3>1, <3>3
    <3> HIDE DEF SlotIsHeld
    <3> QED
      BY <2>1, <3>1, <3>3, <3>4, <3>5
  <2>3. CASE p.by # "catch"
    BY <1>6, <2>1, <2>3 DEF postSettles
  <2> QED
    BY <2>2, <2>3
<1>7. CASE UNCHANGED vars
  BY <1>7 DEF vars
<1> QED
  BY Zenon, <1>1, <1>2, <1>4, <1>5, <1>6, <1>7 DEF Next

(* The slot is held exactly by the scan in progress, for any number of     *)
(* requests, engines that never end and posts that never arrive.           *)
THEOREM SlotDiscipline == Spec => []SlotIsHeld
<1>1. IInv => SlotIsHeld
  BY DEF IInv
<1> QED
  BY InitInv, NextInv, <1>1, PTL DEF Spec

(* A scan that has ended has handed its terminal batch to the client. *)
THEOREM EndedReported == Spec => []EndedIsReported
<1>1. IInv => EndedIsReported
  BY DEF IInv
<1> QED
  BY InitInv, NextInv, <1>1, PTL DEF Spec

(* ScanManager implements ScanService: each step is a step of the service  *)
(* or leaves holder and reports alone.                                     *)
THEOREM Refinement == Spec => ImplementsService
<1>1. Init => Service!SInit
  BY DEF Init, Service!SInit
<1>2. IInv /\ IInv' /\ [Next]_vars => [Service!SNext]_(Service!svars)
  <2> SUFFICES ASSUME IInv, IInv', [Next]_vars
               PROVE  [Service!SNext]_(Service!svars)
    OBVIOUS
  <2> USE RequestAssumption DEF IInv, TypeOK, SlotIsHeld
  <2>1. ASSUME NEW r \in Requests, start(r) PROVE Service!Accept(r)
    BY <2>1 DEF start, canStart, Service!Accept
  <2>2. ASSUME NEW r \in Requests, active = r, raceFails(r) PROVE Service!Report(r)
    BY <2>2 DEF raceFails, send, Service!Report
  <2>3. ASSUME NEW r \in Requests, runScanEnds(r)
        PROVE  [Service!Report(r) \/ Service!ReportAndRelease(r)]_(Service!svars)
    BY <2>3 DEF runScanEnds, send, finishRace, Service!Report,
                Service!ReportAndRelease, Service!svars
  <2>4. ASSUME NEW r \in Requests, runScanThrows(r)
        PROVE  [Service!Report(r)]_(Service!svars)
    BY Zenon, <2>2, <2>4 DEF runScanThrows, Service!svars
  <2>5. ASSUME NEW r \in Requests, scanTimeout(r) PROVE Service!Report(r)
    BY <2>2, <2>5 DEF scanTimeout
  <2>6. ASSUME NEW p \in posts, postSettles(p)
        PROVE  [Service!Release(p.req)]_(Service!svars)
    BY <2>6 DEF postSettles, Service!Release, Service!svars
  <2>7. CASE UNCHANGED vars
    BY <2>7 DEF vars, Service!svars
  <2>8. \A p \in posts : p.req \in Requests
    OBVIOUS
  <2> QED
    BY <2>1, <2>3, <2>4, <2>5, <2>6, <2>7, <2>8 DEF Next, Service!SNext
<1> QED
  BY <1>1, <1>2, InitInv, NextInv, PTL DEF Spec, ImplementsService, Service!SSpec
-----------------------------------------------------------------------------
(* The network watch. *)
Watch == INSTANCE NetWatch WITH MaxChanges <- WatchChanges, MaxTurns <- WatchTurns

WatchSpec == Watch!Init /\ [][Watch!Next]_(Watch!wvars)

WatchTyped ==
    /\ lan \subseteq Hosts /\ watch \in {"on", "off"} /\ forceFull \in {"yes", "no"}
    /\ devices \in [Hosts -> {"absent", "online", "offline"}]
    /\ register \in [Hosts -> {"absent", "online", "offline"}]
    /\ sent \in [Hosts -> {"none", "online", "offline"}]
    /\ seenBy = [h \in Hosts |-> seenBy[h]]
    /\ run = [pc |-> run.pc, left |-> run.left, found |-> run.found, full |-> run.full,
              devs |-> run.devs]
    /\ run.pc \in {"idle", "sweep", "post", "taken"}

\* a report holds what the register says, until it is answered; where the server differs
\* from what counts as sent, the report that it took tells
WatchInv ==
    /\ WatchTyped
    /\ run.pc \in {"post", "taken"} =>
          \A h \in DOMAIN run.devs : h \in Hosts /\ devices[h] # "absent" /\ run.devs[h] = devices[h]
    /\ run.pc = "taken" => \A h \in DOMAIN run.devs : seenBy[h] = run.devs[h]
    /\ forceFull = "no" => \A h \in Hosts : sent[h] # "none" =>
          \/ seenBy[h] = sent[h]
          \/ run.pc = "taken" /\ (run.full = "yes" \/ h \in DOMAIN run.devs)

LEMMA WatchInit == Watch!Init => WatchInv
  BY DEF Watch!Init, WatchInv, WatchTyped, Watch!Idle, Watch!Nothing

LEMMA WatchStep == WatchInv /\ [Watch!Next]_(Watch!wvars) => WatchInv'
  <1> SUFFICES ASSUME WatchInv, [Watch!Next]_(Watch!wvars) PROVE WatchInv'
    OBVIOUS
  <1> USE DEF WatchInv, WatchTyped, Watch!Idle, Watch!Nothing, Watch!Turn
  <1>1. ASSUME NEW h \in Hosts, Watch!LanChanges(h) PROVE WatchInv'
    BY <1>1 DEF Watch!LanChanges
  <1>2. CASE Watch!enable
    BY <1>2 DEF Watch!enable
  <1>3. CASE Watch!disable
    BY <1>3 DEF Watch!disable
  <1>4. CASE Watch!Restart
    BY <1>4 DEF Watch!Restart
  <1>5. CASE Watch!startRun
    BY Zenon, <1>5 DEF Watch!startRun
  <1>6. ASSUME NEW h \in Hosts, Watch!sweep(h) PROVE WatchInv'
    BY Zenon, <1>6 DEF Watch!sweep
  <1>7. ASSUME NEW gone \in SUBSET Hosts, NEW full \in {"yes", "no"}, NEW persist \in BOOLEAN,
               Watch!swept(gone, full, persist)
        PROVE  WatchInv'
    <2> DEFINE regs == [h \in Hosts |-> IF h \in run.found THEN "online"
                                        ELSE IF devices[h] = "absent" \/ h \in gone THEN "absent"
                                        ELSE "offline"]
               devs == IF full = "yes" THEN Watch!All(regs) ELSE Watch!Delta(regs)
    <2>1. /\ run.pc = "sweep" /\ devices' = regs
          /\ register' \in {regs, register}
          /\ run' = [pc |-> "post", left |-> {}, found |-> {}, full |-> full,
                     devs |-> [h \in devs |-> regs[h]]]
          /\ UNCHANGED <<lan, watch, sent, forceFull, seenBy, watchUsed>>
      BY Zenon, <1>7 DEF Watch!swept
    <2>2. \A h \in devs : h \in Hosts /\ regs[h] # "absent"
      BY DEF Watch!All, Watch!Delta
    <2>3. regs \in [Hosts -> {"absent", "online", "offline"}]
      OBVIOUS
    <2> HIDE DEF regs, devs
    <2> QED
      BY Zenon, <2>1, <2>2, <2>3
  <1>8. CASE Watch!ServerTakes
    BY <1>8 DEF Watch!ServerTakes
  <1>9. CASE Watch!reported
    BY Zenon, <1>9 DEF Watch!reported
  <1>10. CASE Watch!reportFails
    BY <1>10 DEF Watch!reportFails
  <1>11. CASE Watch!sweepFails
    BY <1>11 DEF Watch!sweepFails
  <1>12. CASE UNCHANGED Watch!wvars
    BY <1>12 DEF Watch!wvars
  <1> QED
    BY Zenon, <1>1, <1>2, <1>3, <1>4, <1>5, <1>6, <1>7, <1>8, <1>9, <1>10, <1>11, <1>12
       DEF Watch!Next, Watch!Step, Watch!Swept

(* What the gateway takes for confirmed is what the server has, unless the *)
(* next report is a full one: for every number of hosts, whatever failures,*)
(* switches and restarts fall into a run (netwatch.js _report).            *)
THEOREM WatchHolds == WatchSpec => []Watch!SentIsSeen
  <1>1. WatchInv => Watch!SentIsSeen
    BY DEF WatchInv, Watch!SentIsSeen
  <1> QED
    BY WatchInit, WatchStep, <1>1, PTL DEF WatchSpec


-----------------------------------------------------------------------------
(* What is told stays told: what the gateway knows of a device is at the   *)
(* server, in the queue or was dropped from a full queue (presence.js      *)
(* _flush); a delta is computed against what the server really has         *)
(* (netwatch.js _report); no plugin event disappears before the server has *)
(* it, unless it was dropped and counted, as long as none is made between  *)
(* the opening of a connection and the first state on it (edge/host.js).   *)
NothingUntold == Pres!ToldOrQueued /\ Watch!SentIsSeen /\ Events!NothingVanishes

(* Presence, network watch and plugin events tell the server all they take *)
(* for told (presence.js, netwatch.js, edge/eventBuffer.js), for any       *)
(* devices, hosts, limits and numbers of failures.                         *)
THEOREM NothingUntoldHolds == PresSpec /\ WatchSpec /\ Events!Spec => []NothingUntold
  <1>1. Pres!ToldOrQueued /\ Watch!SentIsSeen /\ Events!NothingVanishes => NothingUntold
    BY DEF NothingUntold
  <1> QED
    BY <1>1, PresHolds, WatchHolds, EventsHold, PTL
=============================================================================
