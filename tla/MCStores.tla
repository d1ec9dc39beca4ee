------------------------------ MODULE MCStores ------------------------------
(***************************************************************************)
(* The services that keep data on the disk of the gateway: the cache and   *)
(* the measurements of the internet line.  They share no state, so a       *)
(* behaviour lets one of them run (focus) while the other rests.           *)
(***************************************************************************)
EXTENDS Naturals, Sequences, FiniteSetTheorems, TLAPS

CONSTANTS
    Blobs, Big, Urgent,   \* of the cache: the blobs, the large and the preferred ones
    Limit, MaxSyncs, MaxClears, MaxEvents,
    SampleMax, OutageMax, SpeedtestMax, PerReport,   \* of the measurements
    MaxMade, MaxOutages, MaxSpeedtests, MaxTurns

ASSUME BlobsFinite == IsFiniteSet(Blobs)
ASSUME LimitIsNat == Limit \in Nat
ASSUME SizesAreNat == {SampleMax, OutageMax, SpeedtestMax, PerReport} \subseteq Nat
ASSUME BoundsAreNat == MaxOutages \in Nat

VARIABLES
    focus,
    store, items, usedBytes, added, removed, files, rms, needFull, syncing, clearing,
    report, known, cacheUsed,
    measuring, detector, buffer, disk, speedtest, posting, made, have, overflow, inetUsed

cvars == <<store, items, usedBytes, added, removed, files, rms, needFull, syncing, clearing,
           report, known, cacheUsed>>
ivars == <<measuring, detector, buffer, disk, speedtest, posting, made, have, overflow, inetUsed>>
vars == <<focus, cvars, ivars>>

Cache == INSTANCE HomeCache WITH MaxTurns <- MaxClears
Inet == INSTANCE InetQuality

Init ==
    /\ focus \in {"cache", "inetq"}
    /\ Cache!Init /\ Inet!Init

\* a step of the service in focus
InCache(A) == focus = "cache" /\ A /\ UNCHANGED <<focus, ivars>>
InInet(A) == focus = "inetq" /\ A /\ UNCHANGED <<focus, cvars>>

Next == InCache(Cache!Next) \/ InInet(Inet!Next)

(* Downloads, posts and loops go on.   The strong condition says that a    *)
(* loop that runs again and again also sees its rare case: six hours have  *)
(* passed since the last full report, the line is good when a retry is     *)
(* due.  As focus never changes, one condition on a step of either service *)
(* is one on each.                                                         *)
Either(A, B) == InCache(A) \/ InInet(B)

Fairness ==
    /\ WF_vars(Either(Cache!SyncStep, Inet!Report))
    /\ WF_vars(Either(Cache!ClearStep, Inet!speedtestDone))
    /\ WF_vars(Either(Cache!open, Inet!enable))
    /\ WF_vars(InInet(Inet!tick)) /\ \A b \in Blobs : WF_vars(InCache(Cache!RmDone(b)))
    /\ SF_vars(Either(Cache!reportLoop("yes"), Inet!GoodTick))
    /\ \A r \in Cache!Callers : WF_vars(InCache(Cache!Post(r)))

Spec == Init /\ [][Next]_vars /\ Fairness

-----------------------------------------------------------------------------
(* Type invariants of the services. *)
TypesOK == Cache!TypeOK /\ Inet!TypeOK

(* usedBytes is the size of the stored blobs (cache/store.js).             *)
UsedIsSum == Cache!UsedIsSum

(* A blob that comes into the store keeps it within its limit              *)
(* (cache/cache.js _sync, cache/store.js makeRoom).                        *)
CommitWithinLimit == Cache!CommitWithinLimit

(* No sample, speedtest or last state of an outage is lost but by a full   *)
(* buffer, crashes included (inetq/inetq.js report, _persist).             *)
NothingLost == Inet!NothingLost

(* The server's view of the cache is right in the end (cache/cache.js      *)
(* report), and what is measured reaches it (inetq/inetq.js tick, report). *)
StoresSettle == Cache!HaveConverges /\ Inet!BufferReported

-----------------------------------------------------------------------------
(***************************************************************************)
(* Proofs, for all sets of blobs, limits and sizes of the buffers.         *)
(***************************************************************************)

(* Sizes of sets of blobs. *)

\* the provers that a step names no other for
USE SMTT(30), Z3T(30), Zenon

LEMMA SameCardinality == ASSUME NEW S PROVE Cache!Cardinality(S) = Cardinality(S)
  BY Zenon DEF Cache!Cardinality, Cardinality, Cache!IsFiniteSet, IsFiniteSet

LEMMA SizeOfEmpty == Cache!SizeOf({}) = 0
  BY FS_EmptySet, SameCardinality DEF Cache!SizeOf

LEMMA SizeIsNat == ASSUME NEW b PROVE Cache!Size(b) \in Nat
  BY DEF Cache!Size

LEMMA SizeOfNat ==
  ASSUME NEW S \in SUBSET Blobs
  PROVE  Cache!SizeOf(S) \in Nat
<1>1. IsFiniteSet(S) /\ IsFiniteSet(S \cap Big)
  BY BlobsFinite, FS_Subset
<1> QED  BY <1>1, FS_CardinalityType, SameCardinality DEF Cache!SizeOf

LEMMA SizeOfAdd ==
  ASSUME NEW S \in SUBSET Blobs, NEW b \in Blobs, b \notin S
  PROVE  Cache!SizeOf(S \cup {b}) = Cache!SizeOf(S) + Cache!Size(b)
<1>1. IsFiniteSet(S) /\ IsFiniteSet(S \cap Big)
  BY BlobsFinite, FS_Subset
<1>2. Cardinality(S \cup {b}) = Cardinality(S) + 1 /\ Cardinality(S) \in Nat /\ Cardinality(S \cap Big) \in Nat
  BY <1>1, FS_AddElement, FS_CardinalityType
<1>3. CASE b \in Big
  <2>1. (S \cup {b}) \cap Big = (S \cap Big) \cup {b} /\ b \notin S \cap Big
    BY <1>3
  <2>2. Cardinality((S \cup {b}) \cap Big) = Cardinality(S \cap Big) + 1
    BY Zenon, <1>1, <2>1, FS_AddElement
  <2> QED  BY <1>2, <1>3, <2>2, SameCardinality DEF Cache!SizeOf, Cache!Size
<1>4. CASE b \notin Big
  <2>1. (S \cup {b}) \cap Big = S \cap Big
    BY <1>4
  <2> QED  BY <1>2, <1>4, <2>1, SameCardinality DEF Cache!SizeOf, Cache!Size
<1> QED  BY <1>3, <1>4

LEMMA SizeOfRemove ==
  ASSUME NEW S \in SUBSET Blobs, NEW b \in S
  PROVE  Cache!SizeOf(S) = Cache!SizeOf(S \ {b}) + Cache!Size(b)
<1>1. (S \ {b}) \cup {b} = S /\ S \ {b} \in SUBSET Blobs /\ b \notin S \ {b} /\ b \in Blobs
  OBVIOUS
<1> QED  BY <1>1, SizeOfAdd

-----------------------------------------------------------------------------
(* The inductive invariant of the cache. *)

SyncPcs == {"idle", "want", "next", "room", "load", "commit", "report", "end"}

Syncs == [pc : SyncPcs, gen : Nat, want : SUBSET Blobs, todo : SUBSET Blobs,
          blob : SUBSET Blobs, victims : SUBSET Blobs, rm : SUBSET Blobs,
          fetched : {"yes", "no"}, aborted : {"yes", "no"}]
Clears == [pc : {"idle", "remove"}, gen : Nat, left : SUBSET Blobs, rm : SUBSET Blobs]
Reports == [pc : {"idle", "post", "taken"}, gen : Nat, full : {"yes", "no"},
            have : SUBSET Blobs, gone : SUBSET Blobs]

StoreTypes ==
    /\ store \in [gen : Nat, state : {"open", "closed"}] /\ needFull \in {"yes", "no"}
    /\ items \subseteq Blobs /\ files \subseteq Blobs /\ rms \subseteq Blobs /\ known \subseteq Blobs
    /\ added \subseteq items /\ removed \subseteq Blobs /\ added \cap removed = {}

CacheTypes ==
    StoreTypes /\ syncing \in Syncs /\ clearing \in Clears /\ report \in [Cache!Callers -> Reports]

\* what the victims that are still to go take up
ToGo == Cache!SizeOf(syncing.victims \cap items)

\* the room that a sync has made or is making is there, unless its store was replaced
Room ==
    /\ syncing.gen <= store.gen
    /\ syncing.pc \in {"room", "load", "commit"} /\ Cache!Open(syncing.gen) =>
         \E w \in Blobs : /\ syncing.blob = {w}
                          /\ usedBytes + Cache!Size(w) <= Limit + ToGo
    /\ syncing.pc \in {"load", "commit"} => syncing.victims = {}

CacheInv == CacheTypes /\ Cache!UsedIsSum /\ Room

LEMMA CacheInit == Cache!Init => CacheInv
<1> SUFFICES ASSUME Cache!Init PROVE CacheInv
  OBVIOUS
<1> USE DEF Cache!Init
<1>1. CacheTypes
  BY DEF CacheTypes, StoreTypes, Syncs, Clears, Reports, SyncPcs, Cache!NoSync, Cache!NoClear, Cache!NoReport
<1>2. Cache!UsedIsSum
  BY SizeOfEmpty DEF Cache!UsedIsSum
<1>3. Room
  BY DEF Room, Cache!NoSync
<1> QED  BY <1>1, <1>2, <1>3 DEF CacheInv

\* a blob leaves the store: the room that is there, and the one being made, stays
LEMMA RemoveKeeps ==
  ASSUME CacheInv, NEW gen, NEW b \in Blobs, Cache!remove(gen, b),
         NEW V \in SUBSET Blobs
  PROVE  /\ items' \subseteq items /\ added' \subseteq items' /\ removed' \subseteq Blobs
         /\ added' \cap removed' = {} /\ rms' \subseteq Blobs
         /\ Cache!UsedIsSum'
         /\ usedBytes' + Cache!SizeOf(V \cap items) <= usedBytes + Cache!SizeOf(V \cap items')
         /\ Cache!Open(gen) =>
              usedBytes' + Cache!SizeOf(V \cap items) <= usedBytes + Cache!SizeOf((V \ {b}) \cap items')
<1>a. /\ items \in SUBSET Blobs /\ usedBytes = Cache!SizeOf(items) /\ added \subseteq items
      /\ removed \subseteq Blobs /\ added \cap removed = {} /\ rms \subseteq Blobs
  BY DEF CacheInv, CacheTypes, StoreTypes, Cache!UsedIsSum
<1>0. /\ V \cap items \in SUBSET Blobs /\ V \cap items' \in SUBSET Blobs
      /\ Cache!SizeOf(V \cap items) \in Nat /\ usedBytes \in Nat /\ Cache!Size(b) \in Nat
  BY <1>a, SizeOfNat, SizeIsNat
<1>1. CASE Cache!Open(gen) /\ b \in items
  <2>1. /\ items' = items \ {b} /\ usedBytes' = usedBytes - Cache!Size(b)
        /\ removed' = removed \cup {b} /\ added' = added \ {b} /\ rms' = rms \cup {b}
    BY <1>1 DEF Cache!remove, Cache!_unset
  <2>2. Cache!SizeOf(items) = Cache!SizeOf(items') + Cache!Size(b)
    BY <1>a, <1>1, <2>1, SizeOfRemove
  <2>3. Cache!SizeOf(items') \in Nat
    BY <1>a, <2>1, SizeOfNat
  <2>4. (V \ {b}) \cap items' = V \cap items'
    BY <2>1
  <2>5. Cache!SizeOf(V \cap items) <= Cache!SizeOf(V \cap items') + Cache!Size(b)
    <3>1. CASE b \in V
      <4>1. V \cap items' = (V \cap items) \ {b} /\ b \in V \cap items
        BY <1>1, <2>1, <3>1
      <4> QED  BY <1>0, <4>1, SizeOfRemove
    <3>2. CASE b \notin V
      <4>1. V \cap items' = V \cap items
        BY <2>1, <3>2
      <4>2. Cache!SizeOf(V \cap items') = Cache!SizeOf(V \cap items)
        BY <4>1, Zenon
      <4> QED  BY <1>0, <4>2
    <3> QED  BY <3>1, <3>2
  <2>6. Cache!SizeOf(V \cap items') \in Nat
    BY <1>0, SizeOfNat
  <2>7. usedBytes' = Cache!SizeOf(items')
    BY <1>a, <1>0, <2>1, <2>2, <2>3
  <2>8. usedBytes' + Cache!SizeOf(V \cap items) <= usedBytes + Cache!SizeOf(V \cap items')
    BY <1>0, <2>1, <2>5, <2>6
  <2> QED  BY Zenon, <1>a, <2>1, <2>4, <2>7, <2>8 DEF Cache!UsedIsSum
<1>2. CASE ~(Cache!Open(gen) /\ b \in items)
  <2>1. UNCHANGED <<items, usedBytes, added, removed, rms>>
    BY <1>2 DEF Cache!remove, Cache!storevars
  <2>2. Cache!Open(gen) => (V \ {b}) \cap items' = V \cap items
    BY <1>2, <2>1
  <2>3. V \cap items' = V \cap items /\ items' = items
    BY <2>1
  <2>4. /\ Cache!SizeOf(V \cap items') = Cache!SizeOf(V \cap items)
        /\ Cache!SizeOf(items') = Cache!SizeOf(items)
        /\ Cache!Open(gen) => Cache!SizeOf((V \ {b}) \cap items') = Cache!SizeOf(V \cap items)
    BY <2>2, <2>3, Zenon
  <2>5. usedBytes' + Cache!SizeOf(V \cap items) <= usedBytes + Cache!SizeOf(V \cap items)
    BY <1>0, <2>1
  <2> QED  BY <1>a, <2>1, <2>4, <2>5 DEF Cache!UsedIsSum
<1> QED  BY <1>1, <1>2

\* a step that leaves the store alone: the room depends on the sync only
LEMMA RoomKept ==
  ASSUME Room, UNCHANGED <<store, items, usedBytes>>,
         syncing'.gen = syncing.gen, syncing'.pc = syncing.pc,
         syncing'.blob = syncing.blob, syncing'.victims = syncing.victims
  PROVE  Room'
  BY DEF Room, ToGo, Cache!Open

\* a sync that holds no room
LEMMA RoomNotHeld ==
  ASSUME syncing'.gen <= store'.gen, syncing'.pc \notin {"room", "load", "commit"}
  PROVE  Room'
  BY DEF Room

LEMMA OnlySyncChanges ==
  ASSUME CacheInv, UNCHANGED <<store, items, usedBytes, added, removed, files, rms, needFull, known>>,
         clearing' \in Clears, report' \in [Cache!Callers -> Reports], syncing' \in Syncs, Room'
  PROVE  CacheInv'
<1>1. StoreTypes'
  BY DEF CacheInv, CacheTypes, StoreTypes
<1>2. Cache!UsedIsSum'
  BY DEF CacheInv, Cache!UsedIsSum
<1> QED  BY <1>1, <1>2 DEF CacheInv, CacheTypes

LEMMA NoSyncType == Cache!NoSync \in Syncs /\ Cache!NoSync.gen = 0 /\ Cache!NoSync.pc = "idle"
  BY DEF Cache!NoSync, Syncs, SyncPcs

LEMMA Parts ==
  ASSUME CacheInv
  PROVE  /\ syncing \in Syncs /\ clearing \in Clears /\ report \in [Cache!Callers -> Reports]
         /\ Room /\ StoreTypes /\ syncing.gen <= store.gen /\ store.gen \in Nat
  BY DEF CacheInv, CacheTypes, StoreTypes, Room

LEMMA WantedKeeps ==
  ASSUME CacheInv, NEW W \in SUBSET Blobs, Cache!Wanted(W)
  PROVE  CacheInv'
<1>1. /\ UNCHANGED <<store, items, usedBytes, added, removed, files, rms, needFull, known, clearing, report>>
      /\ syncing' = IF W = {} THEN Cache!NoSync
                    ELSE [syncing EXCEPT !.pc = "next", !.want = W, !.todo = W]
  BY DEF Cache!Wanted, Cache!storevars
<1>2. syncing' \in Syncs
  BY Zenon, <1>1, Parts, NoSyncType DEF Syncs, SyncPcs
<1>3. syncing'.gen <= store.gen /\ syncing'.pc \in {"idle", "next"}
  BY <1>1, Parts, NoSyncType DEF Syncs
<1> QED  BY <1>1, <1>2, <1>3, Parts, RoomNotHeld, OnlySyncChanges

LEMMA NextBlobKeeps ==
  ASSUME CacheInv, NEW w \in Blobs, Cache!nextBlob(w)
  PROVE  CacheInv'
<1>0. UNCHANGED <<store, items, usedBytes, added, removed, files, rms, needFull, known, clearing, report>>
  BY Zenon DEF Cache!nextBlob, Cache!storevars
<1>1. CASE syncing' = [syncing EXCEPT !.todo = @ \ {w}]
  <2>1. syncing' \in Syncs /\ syncing'.gen = syncing.gen /\ syncing'.pc = syncing.pc
        /\ syncing'.blob = syncing.blob /\ syncing'.victims = syncing.victims
    BY <1>1, Parts DEF Syncs
  <2> QED  BY <1>0, <2>1, Parts, RoomKept, OnlySyncChanges
<1>2. ASSUME NEW S \in Cache!Victims(syncing.want, w),
             syncing' = [syncing EXCEPT !.pc = "room", !.todo = @ \ {w}, !.blob = {w}, !.victims = S]
      PROVE  CacheInv'
  <2>1. S \in SUBSET items /\ usedBytes - Cache!SizeOf(S) + Cache!Size(w) <= Limit
    BY <1>2 DEF Cache!Victims
  <2>2. items \in SUBSET Blobs /\ usedBytes = Cache!SizeOf(items)
    BY DEF CacheInv, CacheTypes, StoreTypes, Cache!UsedIsSum
  <2>3. /\ syncing' \in Syncs /\ syncing'.gen = syncing.gen /\ syncing'.pc = "room"
        /\ syncing'.blob = {w} /\ syncing'.victims = S
    BY Zenon, <1>2, <2>1, <2>2, Parts DEF Syncs, SyncPcs
  <2>4. syncing'.victims \cap items' = S
    BY <1>0, <2>1, <2>3
  <2>5. ToGo' = Cache!SizeOf(S)
    BY <2>4, Zenon DEF ToGo
  <2>6. Cache!SizeOf(S) \in Nat /\ usedBytes \in Nat /\ Cache!Size(w) \in Nat
    BY <2>1, <2>2, SizeOfNat, SizeIsNat
  <2>7. usedBytes' + Cache!Size(w) <= Limit + ToGo'
    BY <1>0, <2>1, <2>5, <2>6, LimitIsNat
  <2>8. Room'
    BY <1>0, <2>3, <2>7, Parts DEF Room
  <2> QED  BY <1>0, <2>3, <2>8, Parts, OnlySyncChanges
<1> QED  BY Zenon, <1>1, <1>2 DEF Cache!nextBlob

LEMMA EvictKeeps ==
  ASSUME CacheInv, NEW v \in Blobs, Cache!evict(v)
  PROVE  CacheInv'
<1>1. /\ syncing.pc = "room" /\ Cache!remove(syncing.gen, v)
      /\ syncing' = [syncing EXCEPT !.victims = @ \ {v}, !.rm = rms' \ rms]
      /\ UNCHANGED <<store, files, needFull, clearing, report, known>>
  BY DEF Cache!evict
<1>2. PICK V \in SUBSET Blobs : V = syncing.victims
  BY Parts DEF Syncs
<1>3. /\ items' \subseteq items /\ added' \subseteq items' /\ removed' \subseteq Blobs
      /\ added' \cap removed' = {} /\ rms' \subseteq Blobs /\ Cache!UsedIsSum'
  BY Zenon, <1>1, RemoveKeeps
<1>4. StoreTypes'
  BY <1>1, <1>3, Parts DEF StoreTypes
<1>5. /\ syncing' \in Syncs /\ syncing'.gen = syncing.gen /\ syncing'.pc = "room"
      /\ syncing'.blob = syncing.blob /\ syncing'.victims = V \ {v}
  BY Zenon, <1>1, <1>2, <1>3, Parts DEF Syncs, StoreTypes
<1>6. ASSUME Cache!Open(syncing.gen), NEW w \in Blobs, usedBytes + Cache!Size(w) <= Limit + ToGo
      PROVE  usedBytes' + Cache!Size(w) <= Limit + ToGo'
  <2>1. usedBytes' + Cache!SizeOf(V \cap items) <= usedBytes + Cache!SizeOf((V \ {v}) \cap items')
    BY Zenon, <1>1, <1>6, RemoveKeeps
  <2>2. ToGo = Cache!SizeOf(V \cap items) /\ ToGo' = Cache!SizeOf((V \ {v}) \cap items')
    BY <1>2, <1>5, Zenon DEF ToGo
  <2>3. /\ usedBytes = Cache!SizeOf(items) /\ usedBytes' = Cache!SizeOf(items')
        /\ items \in SUBSET Blobs /\ items' \in SUBSET Blobs
    BY <1>3, Parts DEF CacheInv, StoreTypes, Cache!UsedIsSum
  <2>4. /\ usedBytes \in Nat /\ usedBytes' \in Nat /\ Cache!Size(w) \in Nat
        /\ ToGo \in Nat /\ ToGo' \in Nat
    BY <2>2, <2>3, SizeOfNat, SizeIsNat
  <2> QED  BY <1>6, <2>1, <2>2, <2>4, LimitIsNat
<1>7. Room'
  BY <1>1, <1>5, <1>6, Parts DEF Room, Cache!Open
<1> QED  BY <1>1, <1>3, <1>4, <1>5, <1>7, Parts DEF CacheInv, CacheTypes

\* the room is complete: nothing is left to go
LEMMA StartLoadKeeps ==
  ASSUME CacheInv, Cache!startLoad
  PROVE  CacheInv'
<1>1. /\ syncing.pc = "room" /\ syncing.victims = {}
      /\ syncing' = [syncing EXCEPT !.pc = "load", !.aborted = "no"]
      /\ UNCHANGED <<store, items, usedBytes, added, removed, files, rms, needFull, known, clearing, report>>
  BY DEF Cache!startLoad, Cache!storevars
<1>2. /\ syncing' \in Syncs /\ syncing'.gen = syncing.gen /\ syncing'.pc = "load"
      /\ syncing'.blob = syncing.blob /\ syncing'.victims = syncing.victims
  BY Zenon, <1>1, Parts DEF Syncs, SyncPcs
<1>3. Room'
  BY <1>1, <1>2, Parts DEF Room, ToGo, Cache!Open
<1> QED  BY <1>1, <1>2, <1>3, Parts, OnlySyncChanges

LEMMA LoadedKeeps ==
  ASSUME CacheInv, Cache!Loaded
  PROVE  CacheInv'
<1>1. /\ syncing.pc = "load" /\ syncing' = [syncing EXCEPT !.pc = "commit"]
      /\ files' = files \cup syncing.blob
      /\ UNCHANGED <<store, items, usedBytes, added, removed, rms, needFull, known, clearing, report>>
  BY DEF Cache!Loaded, Cache!storevars
<1>2. /\ syncing' \in Syncs /\ syncing'.gen = syncing.gen /\ syncing'.pc = "commit"
      /\ syncing'.blob = syncing.blob /\ syncing'.victims = syncing.victims
  BY <1>1, Parts DEF Syncs, SyncPcs
<1>3. Room'
  BY <1>1, <1>2, Parts DEF Room, ToGo, Cache!Open
<1>4. StoreTypes'
  BY <1>1, Parts DEF StoreTypes, Syncs
<1>5. Cache!UsedIsSum'
  BY <1>1 DEF CacheInv, Cache!UsedIsSum
<1> QED  BY <1>1, <1>2, <1>3, <1>4, <1>5, Parts DEF CacheInv, CacheTypes

LEMMA LoadFailsKeeps ==
  ASSUME CacheInv, Cache!LoadFails
  PROVE  CacheInv'
<1>1. /\ syncing' \in {[syncing EXCEPT !.pc = "next", !.blob = {}], [syncing EXCEPT !.pc = "end", !.blob = {}]}
      /\ UNCHANGED <<store, items, usedBytes, added, removed, files, rms, needFull, known, clearing, report>>
  BY DEF Cache!LoadFails, Cache!storevars
<1>2. syncing' \in Syncs /\ syncing'.gen = syncing.gen /\ syncing'.pc \in {"next", "end"}
  BY Zenon, <1>1, Parts DEF Syncs, SyncPcs
<1> QED  BY <1>1, <1>2, Parts, RoomNotHeld, OnlySyncChanges

\* the blob comes in: the sum grows by its size, and the room was there
LEMMA CommittedKeeps ==
  ASSUME CacheInv, Cache!Committed
  PROVE  /\ CacheInv'
         /\ items' \ items # {} => usedBytes' <= Limit
<1>1. PICK b \in syncing.blob : Cache!commit(syncing.gen, b)
  BY DEF Cache!Committed
<1>2. /\ syncing.pc = "commit"
      /\ syncing' = [syncing EXCEPT !.pc = "next", !.blob = {}, !.fetched = "yes"]
      /\ UNCHANGED <<store, files, rms, needFull, clearing, report, known>>
  BY DEF Cache!Committed
<1>3. syncing' \in Syncs /\ syncing'.gen = syncing.gen /\ syncing'.pc = "next" /\ b \in Blobs
  BY Zenon, <1>1, <1>2, Parts DEF Syncs, SyncPcs
<1>4. Room'
  BY <1>2, <1>3, Parts, RoomNotHeld
<1>5. items \in SUBSET Blobs /\ usedBytes = Cache!SizeOf(items)
  BY Parts DEF CacheInv, StoreTypes, Cache!UsedIsSum
<1>6. usedBytes \in Nat /\ Cache!Size(b) \in Nat
  BY <1>5, SizeOfNat, SizeIsNat
<1>7. CASE Cache!Open(syncing.gen)
  <2>1. /\ items' = items \cup {b} /\ usedBytes' = usedBytes + (IF b \in items THEN 0 ELSE Cache!Size(b))
        /\ added' = added \cup {b} /\ removed' = removed \ {b}
    BY <1>1, <1>7 DEF Cache!commit, Cache!_set
  <2>2. StoreTypes'
    BY <1>2, <1>3, <2>1, Parts DEF StoreTypes
  <2>3. usedBytes' = Cache!SizeOf(items')
    <3>1. CASE b \in items
      <4>1. items' = items /\ usedBytes' = usedBytes
        BY <1>6, <2>1, <3>1
      <4> QED  BY <1>5, <4>1
    <3>2. CASE b \notin items
      BY <1>3, <1>5, <2>1, <3>2, SizeOfAdd
    <3> QED  BY <3>1, <3>2
  <2>4. usedBytes + Cache!Size(b) <= Limit
    <3>1. PICK w \in Blobs : syncing.blob = {w} /\ usedBytes + Cache!Size(w) <= Limit + ToGo
      BY <1>2, <1>7, Parts DEF Room
    <3>2. b = w /\ syncing.victims = {}
      BY <1>1, <1>2, <3>1, Parts DEF Room
    <3>3. syncing.victims \cap items = {}
      BY <3>2
    <3>4. ToGo = 0
      BY <3>3, SizeOfEmpty DEF ToGo
    <3> QED  BY <1>6, <3>1, <3>2, <3>4, LimitIsNat
  <2>5. usedBytes' <= Limit
    BY <1>6, <2>1, <2>4, LimitIsNat
  <2> QED  BY <1>2, <1>3, <1>4, <2>2, <2>3, <2>5, Parts DEF CacheInv, CacheTypes, Cache!UsedIsSum
<1>8. CASE ~Cache!Open(syncing.gen)
  <2>1. UNCHANGED <<items, usedBytes, added, removed>>
    BY <1>1, <1>8 DEF Cache!commit, Cache!storevars
  <2> QED  BY <1>2, <1>3, <1>4, <2>1, Parts, OnlySyncChanges
<1> QED  BY <1>7, <1>8

\* a report that begins with what the store has
LEMMA BeginReportType ==
  ASSUME CacheInv, UNCHANGED <<items, added, removed>>, NEW r, NEW full \in {"yes", "no"},
         Cache!BeginReport(r, full)
  PROVE  report' \in [Cache!Callers -> Reports]
<1>1. PICK R : R = [pc |-> "post", gen |-> store.gen, full |-> full,
                    have |-> IF full = "yes" THEN items' ELSE added',
                    gone |-> IF full = "yes" THEN {} ELSE removed']
  BY Zenon
<1>2. items' \in SUBSET Blobs /\ added' \in SUBSET Blobs /\ removed' \in SUBSET Blobs
  BY Parts DEF StoreTypes
<1>3. R \in Reports
  BY <1>1, <1>2, Parts DEF Reports
<1>4. report' = [report EXCEPT ![r] = R]
  BY <1>1 DEF Cache!BeginReport
<1> QED  BY Zenon, <1>3, <1>4, Parts

LEMMA NoReportType == Cache!NoReport \in Reports
  BY DEF Cache!NoReport, Reports

LEMMA NoClearType == Cache!NoClear \in Clears
  BY DEF Cache!NoClear, Clears

LEMMA SyncEndKeeps ==
  ASSUME CacheInv, NEW full \in {"yes", "no"}, Cache!syncEnd(full)
  PROVE  CacheInv'
<1>1. UNCHANGED <<store, items, usedBytes, added, removed, files, rms, needFull, known, clearing>>
  BY DEF Cache!syncEnd, Cache!storevars
<1>2. \/ Cache!BeginReport("sync", full) /\ syncing' = [syncing EXCEPT !.pc = "report"]
      \/ syncing' = Cache!NoSync /\ UNCHANGED report
  BY DEF Cache!syncEnd
<1>3. report' \in [Cache!Callers -> Reports]
  BY <1>1, <1>2, Parts, BeginReportType
<1>4. syncing' \in Syncs /\ syncing'.gen <= store.gen /\ syncing'.pc \in {"report", "idle"}
  BY <1>2, Parts, NoSyncType DEF Syncs, SyncPcs
<1> QED  BY <1>1, <1>3, <1>4, Parts, RoomNotHeld, OnlySyncChanges

LEMMA SyncStartKeeps ==
  ASSUME CacheInv, Cache!syncStart
  PROVE  CacheInv'
<1>1. /\ syncing' = [Cache!NoSync EXCEPT !.pc = "want", !.gen = store.gen]
      /\ UNCHANGED <<store, items, usedBytes, added, removed, files, rms, needFull, known, clearing, report>>
  BY DEF Cache!syncStart, Cache!storevars
<1>2. syncing' \in Syncs /\ syncing'.gen = store.gen /\ syncing'.pc = "want"
  BY Zenon, <1>1, Parts, NoSyncType DEF Syncs, SyncPcs
<1>3. syncing'.gen <= store'.gen
  BY <1>1, <1>2, Parts
<1> QED  BY <1>1, <1>2, <1>3, Parts, RoomNotHeld, OnlySyncChanges

\* an aborted download keeps its room
LEMMA AbortKeeps ==
  ASSUME CacheInv, syncing' = Cache!Abort(syncing)
  PROVE  /\ syncing' \in Syncs /\ syncing'.gen = syncing.gen /\ syncing'.pc = syncing.pc
         /\ syncing'.blob = syncing.blob /\ syncing'.victims = syncing.victims
  BY Parts DEF Cache!Abort, Syncs

LEMMA ClearKeeps ==
  ASSUME CacheInv, Cache!clear
  PROVE  CacheInv'
<1>1. /\ syncing' = Cache!Abort(syncing)
      /\ clearing' = [pc |-> "remove", gen |-> store.gen, left |-> items, rm |-> {}]
      /\ UNCHANGED <<store, items, usedBytes, added, removed, files, rms, needFull, known, report>>
  BY DEF Cache!clear, Cache!storevars
<1>2. clearing' \in Clears
  BY <1>1, Parts DEF Clears, StoreTypes
<1>3. Room'
  BY <1>1, Parts, AbortKeeps, RoomKept
<1> QED  BY <1>1, <1>2, <1>3, Parts, AbortKeeps, OnlySyncChanges

\* a blob is cleared while a sync holds its room
LEMMA ClearOneKeeps ==
  ASSUME CacheInv, NEW b \in Blobs, Cache!clearOne(b)
  PROVE  CacheInv'
<1>1. /\ Cache!remove(clearing.gen, b)
      /\ clearing' = [clearing EXCEPT !.left = @ \ {b}, !.rm = rms' \ rms]
      /\ UNCHANGED <<store, files, needFull, syncing, report, known>>
  BY DEF Cache!clearOne
<1>2. PICK V \in SUBSET Blobs : V = syncing.victims
  BY Parts DEF Syncs
<1>3. /\ items' \subseteq items /\ added' \subseteq items' /\ removed' \subseteq Blobs
      /\ added' \cap removed' = {} /\ rms' \subseteq Blobs /\ Cache!UsedIsSum'
      /\ usedBytes' + Cache!SizeOf(V \cap items) <= usedBytes + Cache!SizeOf(V \cap items')
  BY Zenon, <1>1, RemoveKeeps
<1>4. StoreTypes'
  BY <1>1, <1>3, Parts DEF StoreTypes
<1>5. clearing' \in Clears
  BY Zenon, <1>1, <1>3, Parts DEF Clears
<1>6. ASSUME NEW w \in Blobs, usedBytes + Cache!Size(w) <= Limit + ToGo
      PROVE  usedBytes' + Cache!Size(w) <= Limit + ToGo'
  <2>1. syncing'.victims = V
    BY <1>1, <1>2
  <2>2. ToGo = Cache!SizeOf(V \cap items) /\ ToGo' = Cache!SizeOf(V \cap items')
    BY <1>2, <2>1, Zenon DEF ToGo
  <2>3. /\ usedBytes = Cache!SizeOf(items) /\ usedBytes' = Cache!SizeOf(items')
        /\ items \in SUBSET Blobs /\ items' \in SUBSET Blobs
    BY <1>3, Parts DEF CacheInv, StoreTypes, Cache!UsedIsSum
  <2>4. /\ usedBytes \in Nat /\ usedBytes' \in Nat /\ Cache!Size(w) \in Nat
        /\ ToGo \in Nat /\ ToGo' \in Nat
    BY <2>2, <2>3, SizeOfNat, SizeIsNat
  <2> QED  BY <1>3, <1>6, <2>2, <2>4, LimitIsNat
<1>7. Room'
  BY <1>1, <1>6, Parts DEF Room, Cache!Open
<1> QED  BY <1>1, <1>3, <1>4, <1>5, <1>7, Parts DEF CacheInv, CacheTypes

LEMMA ClearedKeeps ==
  ASSUME CacheInv, Cache!cleared
  PROVE  CacheInv'
<1>1. /\ clearing' = Cache!NoClear /\ needFull' = "yes"
      /\ UNCHANGED <<store, items, usedBytes, added, removed, files, rms, syncing, known>>
      /\ Cache!BeginReport("clear", "yes") \/ UNCHANGED report
  BY DEF Cache!cleared, Cache!storevars
<1>2. report' \in [Cache!Callers -> Reports]
  BY <1>1, Parts, BeginReportType
<1>3. StoreTypes' /\ Cache!UsedIsSum'
  BY <1>1, Parts DEF CacheInv, StoreTypes, Cache!UsedIsSum
<1>4. Room'
  BY <1>1, Parts, RoomKept
<1> QED  BY <1>1, <1>2, <1>3, <1>4, Parts, NoClearType DEF CacheInv, CacheTypes

LEMMA ShutdownKeeps ==
  ASSUME CacheInv, Cache!shutdown
  PROVE  CacheInv'
<1>1. /\ store' = [store EXCEPT !.state = "closed"] /\ syncing' = Cache!Abort(syncing)
      /\ UNCHANGED <<items, usedBytes, added, removed, files, rms, needFull, clearing, report, known>>
  BY DEF Cache!shutdown, Cache!storevars
<1>2. store'.state = "closed" /\ store'.gen = store.gen
  BY <1>1, Parts DEF StoreTypes
<1>3. StoreTypes' /\ Cache!UsedIsSum'
  BY <1>1, Parts DEF CacheInv, StoreTypes, Cache!UsedIsSum
<1>4. Room'
  BY <1>1, <1>2, Parts, AbortKeeps DEF Room, Cache!Open
<1> QED  BY <1>1, <1>3, <1>4, Parts, AbortKeeps DEF CacheInv, CacheTypes

LEMMA CrashKeeps ==
  ASSUME CacheInv, Cache!Crash
  PROVE  CacheInv'
<1>1. /\ store' = [store EXCEPT !.state = "closed"] /\ rms' = {} /\ syncing' = Cache!NoSync
      /\ clearing' = Cache!NoClear /\ report' = [r \in Cache!Callers |-> Cache!NoReport]
      /\ UNCHANGED <<items, usedBytes, added, removed, files, needFull, known>>
  BY DEF Cache!Crash, Cache!storevars
<1>2. StoreTypes' /\ Cache!UsedIsSum'
  BY <1>1, Parts DEF CacheInv, StoreTypes, Cache!UsedIsSum
<1>3. store'.gen \in Nat
  BY <1>2 DEF StoreTypes
<1>4. Room'
  BY <1>1, <1>3, NoSyncType, RoomNotHeld
<1>5. report' \in [Cache!Callers -> Reports]
  BY <1>1, NoReportType
<1> QED  BY <1>1, <1>2, <1>4, <1>5, NoSyncType, NoClearType DEF CacheInv, CacheTypes

\* a sync under way has the number of an old store
LEMMA OpenKeeps ==
  ASSUME CacheInv, Cache!open
  PROVE  CacheInv'
<1>1. /\ store' = [gen |-> store.gen + 1, state |-> "open"] /\ items' = files
      /\ usedBytes' = Cache!SizeOf(files) /\ added' = {} /\ removed' = {} /\ needFull' = "yes"
      /\ UNCHANGED <<files, rms, syncing, clearing, report, known>>
  BY DEF Cache!open
<1>2. StoreTypes' /\ Cache!UsedIsSum'
  BY <1>1, Parts DEF StoreTypes, Cache!UsedIsSum
<1>3. syncing.gen \in Nat
  BY Parts DEF Syncs
<1>4. store'.gen = store.gen + 1 /\ syncing'.gen = syncing.gen
  BY <1>1
<1>5. syncing'.gen <= store'.gen /\ syncing'.gen # store'.gen
  BY <1>3, <1>4, Parts
<1>6. Room'
  BY <1>1, <1>5, Parts DEF Room, Cache!Open
<1> QED  BY <1>1, <1>2, <1>6, Parts DEF CacheInv, CacheTypes

LEMMA RmDoneKeeps ==
  ASSUME CacheInv, NEW b \in Blobs, Cache!RmDone(b)
  PROVE  CacheInv'
<1>1. /\ rms' = rms \ {b} /\ files' = files \ {b}
      /\ UNCHANGED <<store, items, usedBytes, added, removed, needFull, syncing, clearing, report, known>>
  BY DEF Cache!RmDone, Cache!storevars
<1>2. StoreTypes' /\ Cache!UsedIsSum'
  BY <1>1, Parts DEF CacheInv, StoreTypes, Cache!UsedIsSum
<1>3. Room'
  BY <1>1, Parts, RoomKept
<1> QED  BY <1>1, <1>2, <1>3, Parts DEF CacheInv, CacheTypes

\* the steps of a report leave the store's blobs alone
LEMMA ReportKeeps ==
  ASSUME CacheInv, NEW r \in Cache!Callers,
         Cache!ServerTakes(r) \/ Cache!reported(r) \/ Cache!reportFails(r)
  PROVE  CacheInv'
<1>1. UNCHANGED <<store, items, usedBytes, files, rms, clearing>>
  BY DEF Cache!ServerTakes, Cache!reported, Cache!reportFails, Cache!storevars
<1>2. syncing' = Cache!NoSync \/ UNCHANGED syncing
  BY DEF Cache!ServerTakes, Cache!reported, Cache!reportFails, Cache!EndSync
<1>3. report' = [report EXCEPT ![r].pc = "taken"] \/ report' = [report EXCEPT ![r] = Cache!NoReport]
  BY DEF Cache!ServerTakes, Cache!reported, Cache!reportFails
<1>4. report' \in [Cache!Callers -> Reports]
  BY <1>3, Parts, NoReportType DEF Reports
<1>5. needFull' \in {"yes", "no"}
  BY Parts DEF StoreTypes, Cache!ServerTakes, Cache!reported, Cache!reportFails
<1>6. known' \subseteq Blobs
  <2>1. report[r].have \subseteq Blobs
    BY Parts DEF Reports
  <2> QED  BY <2>1, Parts DEF StoreTypes, Cache!ServerTakes, Cache!reported, Cache!reportFails
<1>7. added' \subseteq added /\ removed' \subseteq removed
  BY DEF Cache!ServerTakes, Cache!reported, Cache!reportFails, Cache!storevars
<1>8. StoreTypes'
  BY <1>1, <1>5, <1>6, <1>7, Parts DEF StoreTypes
<1>9. Cache!UsedIsSum'
  BY <1>1 DEF CacheInv, Cache!UsedIsSum
<1>10. syncing' \in Syncs /\ Room'
  <2>1. CASE syncing' = Cache!NoSync
    BY <1>1, <2>1, Parts, NoSyncType, RoomNotHeld
  <2>2. CASE UNCHANGED syncing
    BY <1>1, <2>2, Parts, RoomKept
  <2> QED  BY <1>2, <2>1, <2>2
<1> QED  BY <1>1, <1>4, <1>8, <1>9, <1>10, Parts DEF CacheInv, CacheTypes

LEMMA ReportLoopKeeps ==
  ASSUME CacheInv, NEW full \in {"yes", "no"}, Cache!reportLoop(full)
  PROVE  CacheInv'
<1>1. /\ UNCHANGED <<store, items, usedBytes, added, removed, files, rms, needFull, syncing, clearing, known>>
      /\ Cache!BeginReport("loop", full)
  BY DEF Cache!reportLoop, Cache!storevars
<1>2. report' \in [Cache!Callers -> Reports]
  BY <1>1, BeginReportType
<1> QED  BY <1>1, <1>2, Parts, RoomKept, OnlySyncChanges

LEMMA CacheRests ==
  ASSUME CacheInv, UNCHANGED cvars
  PROVE  CacheInv'
<1>1. /\ UNCHANGED <<store, items, usedBytes, added, removed, files, rms, needFull, known>>
      /\ UNCHANGED <<syncing, clearing, report>>
  BY DEF cvars
<1> QED  BY <1>1, Parts, RoomKept, OnlySyncChanges

LEMMA CacheStep == CacheInv /\ Cache!Next => CacheInv'
<1> SUFFICES ASSUME CacheInv, Cache!Next PROVE CacheInv'
  OBVIOUS
<1>1. CASE Cache!SyncStep
  BY <1>1, WantedKeeps, NextBlobKeeps, EvictKeeps, StartLoadKeeps, LoadedKeeps, LoadFailsKeeps,
     CommittedKeeps, SyncEndKeeps DEF Cache!SyncStep
<1>2. CASE Cache!ClearStep \/ Cache!clear
  BY <1>2, ClearedKeeps, ClearOneKeeps, ClearKeeps DEF Cache!ClearStep
<1>3. CASE Cache!syncStart \/ Cache!shutdown \/ Cache!Crash \/ Cache!open
  BY <1>3, SyncStartKeeps, ShutdownKeeps, CrashKeeps, OpenKeeps
<1>4. CASE \E b \in Blobs : Cache!RmDone(b)
  BY <1>4, RmDoneKeeps
<1>5. CASE \E r \in Cache!Callers : Cache!Post(r) \/ Cache!reportFails(r)
  BY <1>5, ReportKeeps DEF Cache!Post
<1>6. CASE \E f \in {"yes", "no"} : Cache!reportLoop(f)
  BY <1>6, ReportLoopKeeps
<1> QED  BY <1>1, <1>2, <1>3, <1>4, <1>5, <1>6 DEF Cache!Next

\* only a commit brings a blob into a store
LEMMA OnlyCommitAdds ==
  ASSUME CacheInv, Cache!Next, items' \ items # {}, store' = store
  PROVE  Cache!Committed
<1>1. ~\E gen, b : Cache!remove(gen, b)
  BY DEF Cache!remove, Cache!_unset, Cache!storevars
<1>2. ~Cache!open
  <2>1. SUFFICES ASSUME Cache!open PROVE FALSE
    OBVIOUS
  <2>2. store.gen + 1 = store.gen
    BY <2>1 DEF Cache!open
  <2> QED  BY <2>2, Parts
<1> QED  BY Zenon, <1>1, <1>2 DEF Cache!Next, Cache!SyncStep, Cache!ClearStep, Cache!Post, Cache!storevars,
     Cache!Wanted, Cache!nextBlob, Cache!evict, Cache!startLoad, Cache!Loaded, Cache!LoadFails,
     Cache!syncEnd, Cache!cleared, Cache!clearOne, Cache!clear, Cache!syncStart, Cache!shutdown,
     Cache!Crash, Cache!RmDone, Cache!ServerTakes, Cache!reported, Cache!reportFails, Cache!reportLoop

LEMMA CacheAlways == Spec => []CacheInv
<1>1. Init => CacheInv
  BY CacheInit DEF Init
<1>2. CacheInv /\ [Next]_vars => CacheInv'
  BY CacheStep, CacheRests DEF Next, InCache, InInet, vars
<1> QED  BY <1>1, <1>2, PTL DEF Spec

(* usedBytes is always the size of the blobs in the store: _set, _unset,   *)
(* a clear under way during a sync, and a store that is opened on what the *)
(* directory has, keep the sum of cache/store.js exact.                    *)
THEOREM UsedIsSumHolds == Spec => []UsedIsSum
<1>1. CacheInv => UsedIsSum
  BY DEF CacheInv, UsedIsSum
<1> QED  BY <1>1, CacheAlways, PTL

(* A blob that is committed to the store keeps it within effectiveMax: the *)
(* room that makeRoom made before the download is there after it, whatever *)
(* is cleared, reported or switched in between (cache/cache.js _sync).     *)
THEOREM CommitWithinLimitHolds == Spec => CommitWithinLimit
<1>1. CacheInv /\ [Next]_vars => [items' \ items # {} /\ store' = store => usedBytes' <= Limit]_(Cache!cvars)
  <2> SUFFICES ASSUME CacheInv, [Next]_vars, items' \ items # {}, store' = store
               PROVE  usedBytes' <= Limit
    OBVIOUS
  <2>1. Cache!Next
    BY DEF Next, InCache, InInet, vars, cvars
  <2> QED  BY <2>1, OnlyCommitAdds, CommittedKeeps
<1> QED  BY <1>1, CacheAlways, PTL DEF Spec, CommitWithinLimit, Cache!CommitWithinLimit

-----------------------------------------------------------------------------
(* What a full buffer keeps, and what goes into one report. *)

LEMMA InetCardinality == ASSUME NEW S PROVE Inet!Cardinality(S) = Cardinality(S)
  BY Zenon DEF Inet!Cardinality, Cardinality, Inet!IsFiniteSet, IsFiniteSet

LEMMA BeforeGrows ==
  ASSUME NEW S \in SUBSET Nat, NEW x \in S, NEW z \in S, x < z
  PROVE  /\ {y \in S : y < x} \in SUBSET {y \in S : y < z}
         /\ x \in {y \in S : y < z} /\ x \notin {y \in S : y < x}
<1>1. x \in Nat /\ z \in Nat /\ ~(x < x)
  OBVIOUS
<1>2. ASSUME NEW y \in S, y < x PROVE y < z
  <2>1. y \in Nat
    OBVIOUS
  <2> QED  BY <1>1, <1>2, <2>1
<1> QED  BY Zenon, <1>1, <1>2

\* the oldest of a set of numbers
LEMMA HasOldest ==
  ASSUME NEW S \in SUBSET Nat, IsFiniteSet(S), S # {}
  PROVE  \E x \in S : \A y \in S : x <= y
<1> DEFINE Before(x) == {y \in S : y < x}
           T == {Before(x) : x \in S}
<1>1. T \subseteq FiniteSubsetsOf(S) /\ T # {}
  <2>1. ASSUME NEW x \in S PROVE Before(x) \in FiniteSubsetsOf(S)
    <3>1. Before(x) \in SUBSET S
      OBVIOUS
    <3>2. IsFiniteSet(Before(x))
      BY <3>1, FS_Subset
    <3> QED  BY <3>1, <3>2 DEF FiniteSubsetsOf
  <2> QED  BY Zenon, <2>1
<1>2. PICK B \in T : \A C \in T : ~(<<C, B>> \in StrictSubsetOrdering(S))
  BY <1>1, FS_StrictSubsetOrderingWellFounded, WFMin, Zenon
<1>3. PICK x \in S : B = Before(x)
  OBVIOUS
<1>4. ASSUME NEW y \in S, y < x PROVE FALSE
  <2>1. Before(y) \subseteq Before(x) /\ y \in Before(x) /\ y \notin Before(y)
    BY <1>4, BeforeGrows
  <2>2. <<Before(y), Before(x)>> \in StrictSubsetOrdering(S)
    BY <2>1 DEF StrictSubsetOrdering
  <2> QED  BY Zenon, <1>2, <1>3, <2>2
<1>5. ASSUME NEW y \in S PROVE x <= y
  BY <1>4
<1> QED  BY <1>5

LEMMA KeptWithin ==
  ASSUME NEW S \in SUBSET Nat, NEW max \in Nat, IsFiniteSet(S), Cardinality(S) <= max + 1
  PROVE  /\ Inet!Kept(S, max) \in SUBSET S
         /\ IsFiniteSet(Inet!Kept(S, max)) /\ Cardinality(Inet!Kept(S, max)) <= max
<1>0. Cardinality(S) \in Nat
  BY FS_CardinalityType
<1>1. CASE Cardinality(S) > max
  <2>1. PICK x : x = CHOOSE y \in S : \A z \in S : y <= z
    OBVIOUS
  <2>2. S # {}
    BY <1>1, FS_EmptySet
  <2>3. x \in S
    BY Zenon, <2>1, <2>2, HasOldest
  <2>4. Inet!Kept(S, max) = S \ {x}
    BY <1>1, <2>1, InetCardinality DEF Inet!Kept
  <2>5. IsFiniteSet(S \ {x}) /\ Cardinality(S \ {x}) = Cardinality(S) - 1
    BY <2>3, FS_RemoveElement
  <2> QED  BY <1>0, <2>4, <2>5
<1>2. CASE ~(Cardinality(S) > max)
  BY <1>0, <1>2, InetCardinality DEF Inet!Kept
<1> QED  BY <1>1, <1>2

LEMMA FirstWithin ==
  ASSUME NEW S \in SUBSET Nat, IsFiniteSet(S)
  PROVE  Inet!First(S) \in SUBSET S /\ Cardinality(Inet!First(S)) <= PerReport
<1> DEFINE Before(x) == {y \in S : y < x}
           F == Inet!First(S)
           f == [x \in F |-> Cardinality(Before(x))]
           T == 0..(PerReport - 1)
<1>0. PerReport \in Nat
  BY SizesAreNat
<1>1. F = {x \in S : Cardinality(Before(x)) < PerReport}
  BY InetCardinality DEF Inet!First
<1>2. ASSUME NEW x \in S PROVE IsFiniteSet(Before(x)) /\ Cardinality(Before(x)) \in Nat
  <2>1. Before(x) \in SUBSET S
    OBVIOUS
  <2>2. IsFiniteSet(Before(x))
    BY <2>1, FS_Subset
  <2> QED  BY <2>2, FS_CardinalityType
<1>3. f \in [F -> T]
  <2>1. ASSUME NEW x \in F PROVE Cardinality(Before(x)) \in T
    <3>1. Cardinality(Before(x)) \in Nat /\ Cardinality(Before(x)) < PerReport
      BY Zenon, <1>1, <1>2
    <3> HIDE DEF Before
    <3> QED  BY <1>0, <3>1
  <2> QED  BY <2>1
<1>4. ASSUME NEW x \in S, NEW z \in S, x < z
      PROVE  Cardinality(Before(x)) < Cardinality(Before(z))
  <2>1. Before(x) \in SUBSET Before(z) /\ x \in Before(z) /\ x \notin Before(x)
    BY <1>4, BeforeGrows
  <2>2. Cardinality(Before(x)) <= Cardinality(Before(z)) /\ Cardinality(Before(z)) # Cardinality(Before(x))
    BY <1>2, <2>1, FS_Subset
  <2> QED  BY <1>2, <2>2
<1>5. ASSUME NEW x \in F, NEW z \in F, f[x] = f[z] PROVE x = z
  <2>1. x \in S /\ z \in S /\ Cardinality(Before(x)) = Cardinality(Before(z))
    BY <1>1, <1>5
  <2>2. x \in Nat /\ z \in Nat
    BY <2>1
  <2>3. ~(x < z) /\ ~(z < x)
    BY <1>2, <1>4, <2>1
  <2> QED  BY <2>2, <2>3
<1>6. f \in Injection(F, T)
  BY Zenon, <1>3, <1>5 DEF Injection, IsInjective
<1>7. IsFiniteSet(T) /\ Cardinality(T) = PerReport
  <2>1. 0 \in Int /\ PerReport - 1 \in Int
    BY <1>0
  <2> QED  BY <1>0, <2>1, FS_Interval
<1>8. Cardinality(F) <= PerReport
  BY <1>6, <1>7, FS_Injection
<1> QED  BY <1>1, <1>8
-----------------------------------------------------------------------------
(* The inductive invariant of the measurements. *)

Outages == [id : Nat \ {0}, end : {"open", "closed"}, cause : {"isp", "router"}]

Mades == [samples : Nat, starts : Nat, outages : SUBSET Outages, speedtests : Nat]
Buffers(m) == [samples : SUBSET (1..m.samples), outages : SUBSET m.outages, speedtests : SUBSET (1..m.speedtests)]
Posts == [pc : {"idle", "post", "taken"}, samples : SUBSET Nat, outages : SUBSET Outages, speedtests : SUBSET Nat]
Haves == [samples : SUBSET Nat, outages : SUBSET Outages, speedtests : SUBSET Nat]
Overflows == [samples : SUBSET Nat, outages : SUBSET Nat, speedtests : SUBSET Nat]
Detectors == [suspect : {"yes", "no"}, open : [id : Nat, cause : {"isp", "router"}]]
OneRecordEach(outages) == \A o, p \in outages : o.id = p.id => o = p

\* what waits in the buffer was made, and the record of an outage is its last one
InetTypes ==
    /\ measuring \in {"off", "idle", "measure", "late"} /\ speedtest \in {"yes", "no"}
    /\ made \in Mades /\ buffer \in Buffers(made) /\ posting \in Posts
    /\ have \in Haves /\ overflow \in Overflows /\ detector \in Detectors

\* an outage has one last record, and the open one is among those that started
LastRecords ==
    /\ \A o \in made.outages : o.id <= made.starts
    /\ OneRecordEach(made.outages)
    /\ detector.open.id <= made.starts /\ (detector.open.id = 0 => detector.open = Inet!None)

\* the file is up to date
DiskIsCurrent == disk = [buffer |-> buffer, open |-> detector.open]

\* what is on its way is confirmed only if the server has it, and an older record of
\* an outage that it carries is followed by the last one
PostIsCovered ==
    /\ posting.pc = "taken" => /\ posting.samples \subseteq have.samples
                               /\ posting.outages \subseteq have.outages
                               /\ posting.speedtests \subseteq have.speedtests
    /\ posting.pc # "idle" => \A o \in made.outages : o.id \in Inet!Ids(posting.outages) =>
          o \in posting.outages \cup buffer.outages \/ o.id \in overflow.outages

InetInv ==
    InetTypes /\ LastRecords /\ DiskIsCurrent /\ PostIsCovered /\ Inet!TypeOK /\ Inet!NothingLost

LEMMA InetInit == Inet!Init => InetInv
<1> SUFFICES ASSUME Inet!Init PROVE InetInv
  OBVIOUS
<1> USE DEF Inet!Init, Inet!Empty, Inet!None, Inet!NoPost
<1>1. InetTypes
  BY DEF InetTypes, Mades, Buffers, Posts, Haves, Overflows, Detectors
<1>2. LastRecords /\ DiskIsCurrent /\ PostIsCovered
  BY DEF LastRecords, OneRecordEach, DiskIsCurrent, PostIsCovered
<1>3. Inet!Cardinality({}) = 0 /\ Inet!Ids({}) = {}
  BY InetCardinality, FS_EmptySet DEF Inet!Ids
<1>4. Inet!TypeOK
  BY <1>3, SizesAreNat DEF Inet!TypeOK
<1>5. Inet!NothingLost
  BY DEF Inet!NothingLost
<1> QED  BY <1>1, <1>2, <1>4, <1>5 DEF InetInv

\* a measurement changes the record of at most one outage
Observed(ob) ==
  /\ ob.d \in Detectors /\ (ob.d.open.id = 0 => ob.d.open = Inet!None)
  /\ \/ ob.changed = {} /\ ob.d.open = detector.open
     \/ \E c \in Outages : ob.changed = {c} /\ c.id <= made.starts + 1 /\ ob.d.open.id \in {0, c.id}

LEMMA ObserveGives ==
  ASSUME InetInv, NEW ok \in BOOLEAN, NEW long \in BOOLEAN, NEW cause \in {"isp", "router"},
         NEW ob, ob = Inet!observe(ok, cause, long)
  PROVE  Observed(ob)
<1> USE DEF Detectors, Observed
<1>1. /\ detector \in Detectors
      /\ detector.open.id <= made.starts /\ (detector.open.id = 0 => detector.open = Inet!None)
      /\ made.starts \in Nat
  BY DEF InetInv, InetTypes, LastRecords, Mades
<1>2. CASE ok
  <2>1. ob = [d |-> [suspect |-> "no", open |-> Inet!None],
              changed |-> IF detector.open = Inet!None THEN {}
                          ELSE {Inet!Outage(detector.open.id, "closed", detector.open.cause)}]
    BY <1>2 DEF Inet!observe
  <2>2. detector.open # Inet!None => Inet!Outage(detector.open.id, "closed", detector.open.cause) \in Outages
    BY <1>1 DEF Inet!Outage, Outages
  <2> QED  BY <1>1, <2>1, <2>2 DEF Inet!None, Inet!Outage
<1>3. CASE ~ok /\ detector.open # Inet!None
  <2>1. \/ ob = [d |-> detector, changed |-> {}]
        \/ ob = [d |-> [detector EXCEPT !.open.cause = "router"],
                 changed |-> {Inet!Outage(detector.open.id, "open", "router")}]
    BY Zenon, <1>3 DEF Inet!observe
  <2>2. Inet!Outage(detector.open.id, "open", "router") \in Outages
    BY <1>1, <1>3 DEF Inet!Outage, Outages
  <2>3. [detector EXCEPT !.open.cause = "router"] \in
           Detectors
        /\ [detector EXCEPT !.open.cause = "router"].open.id = detector.open.id
    BY <1>1
  <2> QED  BY <1>1, <1>3, <2>1, <2>2, <2>3 DEF Inet!Outage
<1>4. CASE ~ok /\ detector.open = Inet!None
  <2>1. \/ ob = [d |-> [detector EXCEPT !.suspect = "yes"], changed |-> {}]
        \/ ob = [d |-> [suspect |-> "no", open |-> [id |-> made.starts + 1, cause |-> cause]],
                 changed |-> {Inet!Outage(made.starts + 1, "open", cause)}]
    BY <1>4 DEF Inet!observe
  <2>2. Inet!Outage(made.starts + 1, "open", cause) \in Outages
    BY <1>1 DEF Inet!Outage, Outages
  <2> QED  BY <1>1, <1>4, <2>1, <2>2 DEF Inet!Outage
<1> QED  BY <1>2, <1>3, <1>4

LEMMA UpToFinite == ASSUME NEW n \in Nat PROVE IsFiniteSet(1..n)
<1>1. 1 \in Int /\ n \in Int
  OBVIOUS
<1> QED  BY <1>1, FS_Interval

\* one more number is taken into a buffer that is not too full
LEMMA OneMore ==
  ASSUME NEW S \in SUBSET Nat, IsFiniteSet(S), NEW max \in Nat, Inet!Cardinality(S) <= max, NEW x \in Nat
  PROVE  /\ Inet!Kept(S \cup {x}, max) \in SUBSET (S \cup {x})
         /\ Inet!Cardinality(Inet!Kept(S \cup {x}, max)) <= max
         /\ Inet!Kept(S, max) = S
<1>1. Cardinality(S) \in Nat /\ Cardinality(S) <= max
  BY FS_CardinalityType, InetCardinality
<1>2. IsFiniteSet(S \cup {x}) /\ Cardinality(S \cup {x}) <= Cardinality(S) + 1
  BY <1>1, FS_AddElement
<1>3. Cardinality(S \cup {x}) \in Nat
  BY <1>2, FS_CardinalityType
<1>4. Cardinality(S \cup {x}) <= max + 1
  BY <1>1, <1>2, <1>3
<1>5. PICK T \in SUBSET Nat : T = S \cup {x}
  BY Zenon
<1>6. Inet!Kept(T, max) \in SUBSET T /\ Cardinality(Inet!Kept(T, max)) <= max
  BY <1>2, <1>4, <1>5, KeptWithin
<1>7. Inet!Kept(S, max) = S
  BY <1>1, InetCardinality DEF Inet!Kept
<1> QED  BY <1>5, <1>6, <1>7, InetCardinality

\* the same for the records of the outages
LEMMA OutagesKept ==
  ASSUME NEW n \in Nat, NEW B \in SUBSET Outages, NEW C \in SUBSET Outages,
         \A o \in B \cup C : o.id <= n, \A o, p \in C : o = p,
         Inet!Cardinality(Inet!Ids(B)) <= OutageMax,
         NEW K, K = Inet!KeptOutages(Inet!_addOutage(B, C))
  PROVE  K \in SUBSET Inet!_addOutage(B, C) /\ Inet!Cardinality(Inet!Ids(K)) <= OutageMax
<1> DEFINE B1 == Inet!_addOutage(B, C)
           I == Inet!Ids(B)
           J == Inet!Ids(B1)
<1>0. OutageMax \in Nat
  BY SizesAreNat
<1>1. I \in SUBSET (1..n) /\ J \in SUBSET (1..n) /\ J \in SUBSET Nat
  BY DEF Inet!Ids, Inet!_addOutage, Outages
<1>2. IsFiniteSet(I) /\ IsFiniteSet(J)
  BY <1>1, UpToFinite, FS_Subset
<1>3. Cardinality(I) \in Nat /\ Cardinality(J) \in Nat /\ Cardinality(I) <= OutageMax
  BY <1>2, FS_CardinalityType, InetCardinality
<1>4. Cardinality(J) <= OutageMax + 1
  <2>1. CASE C = {}
    <3>1. J \in SUBSET I
      BY <2>1 DEF Inet!Ids, Inet!_addOutage
    <3>2. Cardinality(J) <= Cardinality(I)
      BY <1>2, <3>1, FS_Subset
    <3> HIDE DEF I, J
    <3> QED  BY <1>0, <1>3, <3>2
  <2>2. ASSUME NEW c \in C PROVE Cardinality(J) <= OutageMax + 1
    <3>1. J \in SUBSET (I \cup {c.id})
      BY DEF Inet!Ids, Inet!_addOutage
    <3>2. /\ IsFiniteSet(I \cup {c.id})
          /\ Cardinality(I \cup {c.id}) = IF c.id \in I THEN Cardinality(I) ELSE Cardinality(I) + 1
      BY <1>2, FS_AddElement
    <3>3. Cardinality(J) <= Cardinality(I \cup {c.id})
      BY <3>1, <3>2, FS_Subset
    <3> HIDE DEF I, J
    <3> QED  BY <1>0, <1>3, <3>2, <3>3
  <2> QED  BY <2>1, <2>2
<1>5. /\ IsFiniteSet(Inet!Kept(J, OutageMax)) /\ Cardinality(Inet!Kept(J, OutageMax)) <= OutageMax
  BY <1>0, <1>1, <1>2, <1>4, KeptWithin
<1>6. K \in SUBSET B1 /\ Inet!Ids(K) \in SUBSET Inet!Kept(J, OutageMax)
  BY DEF Inet!KeptOutages, Inet!Ids
<1>7. /\ IsFiniteSet(Inet!Ids(K)) /\ Cardinality(Inet!Ids(K)) <= Cardinality(Inet!Kept(J, OutageMax))
  BY <1>5, <1>6, FS_Subset
<1>8. Cardinality(Inet!Ids(K)) \in Nat /\ Cardinality(Inet!Kept(J, OutageMax)) \in Nat
  BY <1>5, <1>7, FS_CardinalityType
<1>9. Cardinality(Inet!Ids(K)) <= OutageMax
  <2> HIDE DEF J
  <2> QED  BY <1>0, <1>5, <1>7, <1>8
<1> QED  BY <1>6, <1>9, InetCardinality

LEMMA InetParts ==
  ASSUME InetInv
  PROVE  /\ made \in Mades /\ buffer \in Buffers(made) /\ posting \in Posts
         /\ have \in Haves /\ overflow \in Overflows /\ detector \in Detectors
         /\ measuring \in {"off", "idle", "measure", "late"} /\ speedtest \in {"yes", "no"}
         /\ OneRecordEach(made.outages) /\ DiskIsCurrent /\ PostIsCovered
         /\ Inet!Cardinality(posting.samples) <= PerReport
         /\ SampleMax \in Nat /\ OutageMax \in Nat /\ SpeedtestMax \in Nat /\ PerReport \in Nat
  BY SizesAreNat DEF InetInv, InetTypes, LastRecords, Inet!TypeOK

\* a report that begins carries what is in the buffer
LEMMA NewPost ==
  ASSUME NEW m \in Mades, NEW b \in Buffers(m), OneRecordEach(m.outages), NEW p,
         p = [pc |-> "post", samples |-> Inet!First(b.samples), outages |-> b.outages, speedtests |-> b.speedtests]
  PROVE  /\ p \in Posts /\ Inet!Cardinality(p.samples) <= PerReport /\ p.pc = "post"
         /\ \A o \in m.outages : o.id \in Inet!Ids(p.outages) => o \in b.outages
<1>1. /\ m.samples \in Nat /\ b.samples \in SUBSET (1..m.samples) /\ b.samples \in SUBSET Nat
      /\ b.outages \in SUBSET m.outages /\ m.outages \in SUBSET Outages /\ b.speedtests \in SUBSET Nat
  BY DEF Mades, Buffers
<1>2. IsFiniteSet(b.samples)
  BY <1>1, UpToFinite, FS_Subset
<1>3. Inet!First(b.samples) \in SUBSET b.samples /\ Inet!Cardinality(Inet!First(b.samples)) <= PerReport
  BY <1>1, <1>2, FirstWithin, InetCardinality
<1>4. p.outages = b.outages /\ p.samples = Inet!First(b.samples) /\ p.pc = "post" /\ p \in Posts
  BY <1>1, <1>3 DEF Posts
<1>5. ASSUME NEW o \in m.outages, o.id \in Inet!Ids(b.outages) PROVE o \in b.outages
  <2>1. PICK q \in b.outages : q.id = o.id
    BY Zenon, <1>5 DEF Inet!Ids
  <2> QED  BY Zenon, <1>1, <2>1 DEF OneRecordEach
<1> QED  BY <1>3, <1>4, <1>5

LEMMA BeginReportKeeps ==
  ASSUME InetInv, NEW wanted \in BOOLEAN, Inet!BeginReport(buffer', wanted), UNCHANGED have,
         made' \in Mades, buffer' \in Buffers(made'), OneRecordEach(made'.outages),
         posting.pc # "idle" => \A o \in made'.outages : o.id \in Inet!Ids(posting.outages) =>
             o \in posting.outages \cup buffer'.outages \/ o.id \in overflow'.outages
  PROVE  posting' \in Posts /\ Inet!Cardinality(posting'.samples) <= PerReport /\ PostIsCovered'
<1>1. CASE posting' = posting
  <2>1. posting' \in Posts /\ Inet!Cardinality(posting'.samples) <= PerReport
    BY Zenon, <1>1, InetParts
  <2>2. Inet!Ids(posting'.outages) = Inet!Ids(posting.outages)
    BY <1>1, ZenonT(30)
  <2> QED  BY Zenon, <1>1, <2>1, <2>2, InetParts DEF PostIsCovered
<1>2. CASE posting' # posting
  <2>1. posting' = [pc |-> "post", samples |-> Inet!First(buffer'.samples),
                    outages |-> buffer'.outages, speedtests |-> buffer'.speedtests]
    BY <1>2 DEF Inet!BeginReport
  <2>2. /\ posting' \in Posts /\ Inet!Cardinality(posting'.samples) <= PerReport /\ posting'.pc = "post"
        /\ \A o \in made'.outages : o.id \in Inet!Ids(posting'.outages) => o \in buffer'.outages
    BY <2>1, NewPost
  <2> QED  BY <2>2 DEF PostIsCovered
<1> QED  BY Zenon, <1>1, <1>2

\* the last records, and what covers them, after a measurement
LEMMA OutagesStep ==
  ASSUME InetInv, NEW ok \in BOOLEAN, NEW long \in BOOLEAN, NEW cause \in {"isp", "router"},
         NEW ob, ob = Inet!observe(ok, cause, long), detector' = ob.d,
         buffer'.outages = Inet!KeptOutages(Inet!_addOutage(buffer.outages, ob.changed)),
         overflow'.outages = (overflow.outages \cup Inet!Ids(Inet!_addOutage(buffer.outages, ob.changed)))
                                \ Inet!Ids(buffer'.outages),
         made'.starts = IF \E o \in ob.changed : o.id > made.starts THEN made.starts + 1 ELSE made.starts,
         made'.outages = Inet!_addOutage(made.outages, ob.changed)
  PROVE  /\ detector' \in Detectors /\ made'.starts \in Nat /\ made'.outages \in SUBSET Outages
         /\ LastRecords' /\ buffer'.outages \in SUBSET made'.outages
         /\ Inet!Cardinality(Inet!Ids(buffer'.outages)) <= OutageMax
         /\ overflow'.outages \in SUBSET Nat
         /\ ob.changed = {} => detector'.open = detector.open
         /\ \A H : \A o \in made'.outages :
               (o \in made.outages => o \in H \cup buffer.outages \/ o.id \in overflow.outages) =>
                 o \in H \cup buffer'.outages \/ o.id \in overflow'.outages
<1>0. Observed(ob)
  BY Zenon, ObserveGives
<1> DEFINE C == ob.changed
           B1 == Inet!_addOutage(buffer.outages, C)
           M1 == Inet!_addOutage(made.outages, C)
<1>1. /\ ob.d \in Detectors /\ (ob.d.open.id = 0 => ob.d.open = Inet!None)
      /\ \/ C = {} /\ ob.d.open = detector.open
         \/ \E c \in Outages : C = {c} /\ c.id <= made.starts + 1 /\ ob.d.open.id \in {0, c.id}
  BY ZenonT(30), <1>0 DEF Observed
<1>2. /\ made.starts \in Nat /\ made.outages \in SUBSET Outages /\ buffer.outages \in SUBSET made.outages
      /\ overflow.outages \in SUBSET Nat
  BY Zenon, InetParts DEF Mades, Buffers, Overflows
<1>3. /\ \A o \in made.outages : o.id <= made.starts
      /\ detector.open.id <= made.starts /\ (detector.open.id = 0 => detector.open = Inet!None)
      /\ detector.open.id \in Nat /\ OneRecordEach(made.outages)
  BY InetParts DEF InetInv, LastRecords, Detectors
<1>4. C \in SUBSET Outages /\ (\A o, p \in C : o = p)
  BY <1>1
<1>5. /\ made'.starts \in Nat /\ made.starts <= made'.starts
      /\ \A o \in C : o.id <= made'.starts
  BY <1>1, <1>2 DEF Outages
<1>6. M1 \in SUBSET (made.outages \cup C) /\ M1 \in SUBSET Outages
  BY <1>2, <1>4 DEF Inet!_addOutage
<1>7. \A o \in made.outages \cup C : o.id <= made'.starts
  BY <1>2, <1>3, <1>5 DEF Outages
<1>8. OneRecordEach(M1)
  BY Zenon, <1>3, <1>4 DEF OneRecordEach, Inet!_addOutage, Inet!Ids
<1>9. detector'.open.id <= made'.starts
  BY <1>1, <1>2, <1>3, <1>5 DEF Outages
<1>10. LastRecords'
  BY Zenon, <1>1, <1>6, <1>7, <1>8, <1>9 DEF LastRecords
<1>11. /\ buffer'.outages \in SUBSET B1
       /\ Inet!Cardinality(Inet!Ids(buffer'.outages)) <= OutageMax
  <2>1. /\ buffer.outages \in SUBSET Outages /\ Inet!Cardinality(Inet!Ids(buffer.outages)) <= OutageMax
        /\ \A o \in buffer.outages \cup C : o.id <= made'.starts
    BY <1>2, <1>7 DEF InetInv, Inet!TypeOK
  <2> QED  BY <1>4, <1>5, <2>1, OutagesKept
<1>12. B1 \in SUBSET M1 /\ B1 \in SUBSET Outages
  BY <1>2, <1>4 DEF Inet!_addOutage
<1>13. overflow'.outages \in SUBSET Nat
  BY <1>2, <1>12 DEF Inet!Ids, Outages
<1>14. ASSUME NEW H, NEW o \in M1,
              o \in made.outages => o \in H \cup buffer.outages \/ o.id \in overflow.outages
       PROVE  o \in H \cup buffer'.outages \/ o.id \in overflow'.outages
  <2>1. ASSUME o.id \in Inet!Ids(buffer'.outages) PROVE o \in buffer'.outages
    <3>1. PICK p \in buffer'.outages : p.id = o.id
      BY <2>1 DEF Inet!Ids
    <3> QED  BY Zenon, <1>8, <1>11, <1>12, <3>1 DEF OneRecordEach
  <2>2. o \in H \/ o \in B1 \/ o.id \in overflow.outages
    BY <1>14 DEF Inet!_addOutage
  <2>3. o \in B1 => o.id \in Inet!Ids(B1)
    BY DEF Inet!Ids
  <2> QED  BY <2>1, <2>2, <2>3
<1> QED  BY Zenon, <1>1, <1>5, <1>6, <1>10, <1>11, <1>12, <1>13, <1>14

\* the samples after a measurement
LEMMA SamplesStep ==
  ASSUME InetInv, NEW closed \in {"yes", "no"}, UNCHANGED have,
         buffer'.samples = Inet!Kept(Inet!_addSample(buffer.samples, closed), SampleMax),
         overflow'.samples = overflow.samples \cup (Inet!_addSample(buffer.samples, closed) \ buffer'.samples),
         made'.samples = IF closed = "yes" THEN made.samples + 1 ELSE made.samples
  PROVE  /\ made'.samples \in Nat /\ buffer'.samples \in SUBSET (1..made'.samples)
         /\ Inet!Cardinality(buffer'.samples) <= SampleMax /\ overflow'.samples \in SUBSET Nat
         /\ 1..made'.samples \subseteq have'.samples \cup buffer'.samples \cup overflow'.samples
<1>1. /\ made.samples \in Nat /\ buffer.samples \in SUBSET (1..made.samples)
      /\ overflow.samples \in SUBSET Nat /\ SampleMax \in Nat
  BY InetParts DEF Mades, Buffers, Overflows
<1>2. /\ Inet!Cardinality(buffer.samples) <= SampleMax
      /\ 1..made.samples \subseteq have.samples \cup buffer.samples \cup overflow.samples
  BY DEF InetInv, Inet!TypeOK, Inet!NothingLost
<1>3. IsFiniteSet(buffer.samples) /\ buffer.samples \in SUBSET Nat
  BY <1>1, UpToFinite, FS_Subset
<1>4. CASE closed = "yes"
  <2>1. PICK x \in Nat : x = made.samples + 1
    BY <1>1
  <2>2. Inet!_addSample(buffer.samples, closed) = buffer.samples \cup {x}
    BY <1>4, <2>1 DEF Inet!_addSample
  <2>3. made'.samples = x /\ 1..x = 1..made.samples \cup {x}
    BY <1>1, <1>4, <2>1
  <2>4. /\ buffer'.samples \in SUBSET (buffer.samples \cup {x})
        /\ Inet!Cardinality(buffer'.samples) <= SampleMax
    <3>1. /\ Inet!Kept(buffer.samples \cup {x}, SampleMax) \in SUBSET (buffer.samples \cup {x})
          /\ Inet!Cardinality(Inet!Kept(buffer.samples \cup {x}, SampleMax)) <= SampleMax
      BY <1>1, <1>2, <1>3, OneMore
    <3>2. buffer'.samples = Inet!Kept(buffer.samples \cup {x}, SampleMax)
      BY <2>2, ZenonT(30)
    <3> QED  BY <3>1, <3>2
  <2>5. overflow'.samples = overflow.samples \cup ((buffer.samples \cup {x}) \ buffer'.samples)
    BY <2>2
  <2>6. buffer'.samples \in SUBSET (1..x) /\ overflow'.samples \in SUBSET Nat
    BY <1>1, <1>3, <2>3, <2>4, <2>5
  <2>7. 1..x \subseteq have.samples \cup buffer'.samples \cup overflow'.samples
    BY <1>2, <2>3, <2>5
  <2> QED  BY <2>3, <2>4, <2>6, <2>7
<1>5. CASE closed = "no"
  <2>1. Inet!_addSample(buffer.samples, closed) = buffer.samples
    BY <1>5 DEF Inet!_addSample
  <2>2. buffer'.samples = buffer.samples
    <3>1. Inet!Kept(buffer.samples, SampleMax) = buffer.samples
      BY Zenon, <1>1, <1>2, <1>3, OneMore
    <3> QED  BY <2>1, <3>1
  <2> QED  BY <1>1, <1>2, <1>5, <2>1, <2>2
<1> QED  BY <1>4, <1>5

LEMMA MeasuredKeeps ==
  ASSUME InetInv, NEW ok \in BOOLEAN, NEW long \in BOOLEAN, NEW cause \in {"isp", "router"},
         NEW closed \in {"yes", "no"}, NEW retry \in BOOLEAN,
         Inet!measured(ok, cause, long, closed, retry)
  PROVE  InetInv'
<1> PICK ob : ob = Inet!observe(ok, cause, long)
  OBVIOUS
<1> PICK outages : outages = Inet!_addOutage(buffer.outages, ob.changed)
  OBVIOUS
<1> PICK samples : samples = Inet!_addSample(buffer.samples, closed)
  OBVIOUS
<1>1. /\ measuring' \in {"off", "idle"} /\ detector' = ob.d /\ UNCHANGED <<speedtest, have>>
      /\ buffer' = [buffer EXCEPT !.samples = Inet!Kept(samples, SampleMax),
                                  !.outages = Inet!KeptOutages(outages)]
      /\ overflow' = [overflow EXCEPT
            !.samples = @ \cup (samples \ buffer'.samples),
            !.outages = (@ \cup Inet!Ids(outages)) \ Inet!Ids(buffer'.outages)]
      /\ made' = [made EXCEPT
            !.samples = IF closed = "yes" THEN @ + 1 ELSE @,
            !.starts = IF \E o \in ob.changed : o.id > @ THEN @ + 1 ELSE @,
            !.outages = Inet!_addOutage(@, ob.changed)]
  BY DEF Inet!measured
<1>2. /\ IF closed = "yes" \/ ob.changed # {} THEN Inet!_persist ELSE UNCHANGED disk
      /\ \E wanted \in BOOLEAN : Inet!BeginReport(buffer', wanted)
  BY Zenon DEF Inet!measured
<1>3. /\ buffer'.samples = Inet!Kept(samples, SampleMax) /\ buffer'.outages = Inet!KeptOutages(outages)
      /\ buffer'.speedtests = buffer.speedtests
      /\ buffer' = [samples |-> buffer'.samples, outages |-> buffer'.outages, speedtests |-> buffer'.speedtests]
  BY Zenon, <1>1, InetParts DEF Buffers
<1>4. /\ overflow'.samples = overflow.samples \cup (samples \ buffer'.samples)
      /\ overflow'.outages = (overflow.outages \cup Inet!Ids(outages)) \ Inet!Ids(buffer'.outages)
      /\ overflow'.speedtests = overflow.speedtests
      /\ overflow' = [samples |-> overflow'.samples, outages |-> overflow'.outages,
                      speedtests |-> overflow'.speedtests]
  BY Zenon, <1>1, InetParts DEF Overflows
<1>5. /\ made'.samples = IF closed = "yes" THEN made.samples + 1 ELSE made.samples
      /\ made'.starts = IF \E o \in ob.changed : o.id > made.starts THEN made.starts + 1 ELSE made.starts
      /\ made'.outages = Inet!_addOutage(made.outages, ob.changed)
      /\ made'.speedtests = made.speedtests
      /\ made' = [samples |-> made'.samples, starts |-> made'.starts, outages |-> made'.outages,
                  speedtests |-> made'.speedtests]
  BY Zenon, <1>1, InetParts DEF Mades
<1>6. /\ made'.samples \in Nat /\ buffer'.samples \in SUBSET (1..made'.samples)
      /\ Inet!Cardinality(buffer'.samples) <= SampleMax /\ overflow'.samples \in SUBSET Nat
      /\ 1..made'.samples \subseteq have'.samples \cup buffer'.samples \cup overflow'.samples
  BY <1>1, <1>3, <1>4, <1>5, SamplesStep
<1>7. /\ detector' \in Detectors /\ made'.starts \in Nat /\ made'.outages \in SUBSET Outages
      /\ LastRecords' /\ buffer'.outages \in SUBSET made'.outages
      /\ Inet!Cardinality(Inet!Ids(buffer'.outages)) <= OutageMax
      /\ overflow'.outages \in SUBSET Nat
      /\ ob.changed = {} => detector'.open = detector.open
      /\ \A H : \A o \in made'.outages :
            (o \in made.outages => o \in H \cup buffer.outages \/ o.id \in overflow.outages) =>
              o \in H \cup buffer'.outages \/ o.id \in overflow'.outages
  BY <1>1, <1>3, <1>4, <1>5, OutagesStep
<1>8. /\ made' \in Mades /\ buffer' \in Buffers(made') /\ overflow' \in Overflows
  <2>1. /\ made.speedtests \in Nat /\ buffer.speedtests \in SUBSET (1..made.speedtests)
        /\ overflow.speedtests \in SUBSET Nat
    BY InetParts DEF Mades, Buffers, Overflows
  <2>2. made' \in Mades
    BY <1>5, <1>6, <1>7, <2>1 DEF Mades
  <2>3. buffer' \in Buffers(made')
    BY <1>3, <1>5, <1>6, <1>7, <2>1 DEF Buffers
  <2>4. overflow' \in Overflows
    BY <1>4, <1>6, <1>7, <2>1 DEF Overflows
  <2> QED  BY <2>2, <2>3, <2>4
<1>9. posting' \in Posts /\ Inet!Cardinality(posting'.samples) <= PerReport /\ PostIsCovered'
  <2>1. posting.pc # "idle" => \A o \in made'.outages : o.id \in Inet!Ids(posting.outages) =>
             o \in posting.outages \cup buffer'.outages \/ o.id \in overflow'.outages
    BY Zenon, <1>7, InetParts DEF PostIsCovered
  <2>2. OneRecordEach(made'.outages)
    BY Zenon, <1>7 DEF LastRecords
  <2> QED  BY Zenon, <1>1, <1>2, <1>8, <2>1, <2>2, BeginReportKeeps
<1>10. DiskIsCurrent'
  <2>1. CASE closed = "yes" \/ ob.changed # {}
    BY Zenon, <1>2, <2>1 DEF DiskIsCurrent, Inet!_persist
  <2>2. CASE ~(closed = "yes" \/ ob.changed # {})
    <3>1. samples = buffer.samples
      BY Zenon, <2>2 DEF Inet!_addSample
    <3>2. outages = buffer.outages
      BY <2>2 DEF Inet!_addOutage, Inet!Ids
    <3>3. Inet!Kept(samples, SampleMax) = buffer.samples
      <4>1. IsFiniteSet(buffer.samples) /\ Inet!Cardinality(buffer.samples) <= SampleMax
        <5>1. made.samples \in Nat /\ buffer.samples \in SUBSET (1..made.samples)
          BY InetParts DEF Mades, Buffers
        <5> QED  BY <5>1, UpToFinite, FS_Subset DEF InetInv, Inet!TypeOK
      <4>2. Inet!Cardinality(buffer.samples) \in Nat
        BY <4>1, FS_CardinalityType, InetCardinality
      <4> QED  BY <3>1, <4>1, <4>2, InetParts DEF Inet!Kept
    <3>4. Inet!KeptOutages(outages) = buffer.outages
      <4>1. Inet!Cardinality(Inet!Ids(buffer.outages)) <= OutageMax
        BY Zenon DEF InetInv, Inet!TypeOK
      <4>2. IsFiniteSet(Inet!Ids(buffer.outages))
        <5>1. /\ made.starts \in Nat /\ made.outages \in SUBSET Outages
              /\ buffer.outages \in SUBSET made.outages
          <6>1. made \in Mades /\ buffer \in Buffers(made)
            BY Zenon, InetParts
          <6> QED  BY <6>1 DEF Mades, Buffers
        <5>2. \A o \in made.outages : o.id <= made.starts
          BY ZenonT(30) DEF InetInv, LastRecords
        <5>3. \A o \in buffer.outages : o.id \in 1..made.starts
          BY <5>1, <5>2 DEF Outages
        <5>4. Inet!Ids(buffer.outages) \in SUBSET (1..made.starts)
          BY ZenonT(30), <5>3 DEF Inet!Ids
        <5> QED  BY <5>1, <5>4, UpToFinite, FS_Subset
      <4>3. Inet!Cardinality(Inet!Ids(buffer.outages)) \in Nat
        BY <4>2, FS_CardinalityType, InetCardinality
      <4>4. Inet!Kept(Inet!Ids(buffer.outages), OutageMax) = Inet!Ids(buffer.outages)
        <5>1. OutageMax \in Nat
          BY ZenonT(30), InetParts
        <5>2. ~(Inet!Cardinality(Inet!Ids(buffer.outages)) > OutageMax)
          BY <4>1, <4>3, <5>1
        <5> QED  BY Zenon, <5>2 DEF Inet!Kept
      <4>5. Inet!KeptOutages(buffer.outages) = buffer.outages
        BY <4>4 DEF Inet!KeptOutages, Inet!Ids
      <4> QED  BY <3>2, <4>5
    <3>5. buffer' = buffer
      BY Zenon, <1>1, <3>3, <3>4, InetParts DEF Buffers
    <3> QED  BY Zenon, <1>2, <1>7, <2>2, <3>5, InetParts DEF DiskIsCurrent
  <2> QED  BY Zenon, <2>1, <2>2
<1>11. InetTypes'
  BY <1>1, <1>7, <1>8, <1>9, InetParts DEF InetTypes
<1>12. Inet!TypeOK'
  <2>1. Inet!Cardinality(buffer'.speedtests) <= SpeedtestMax
    BY <1>3 DEF InetInv, Inet!TypeOK
  <2> QED  BY <1>1, <1>6, <1>7, <1>9, <2>1, InetParts DEF Inet!TypeOK, Posts
<1>13. Inet!NothingLost'
  <2>1. \A o \in made'.outages : o \in have'.outages \cup buffer'.outages \/ o.id \in overflow'.outages
    BY <1>1, <1>7 DEF InetInv, Inet!NothingLost
  <2>2. 1..made'.speedtests \subseteq have'.speedtests \cup buffer'.speedtests \cup overflow'.speedtests
    BY <1>1, <1>3, <1>4, <1>5 DEF InetInv, Inet!NothingLost
  <2> QED  BY <1>6, <2>1, <2>2 DEF Inet!NothingLost
<1> QED  BY <1>7, <1>9, <1>10, <1>11, <1>12, <1>13 DEF InetInv

\* a step that leaves the outages alone keeps what is said about them
LEMMA OutagesRest ==
  ASSUME InetInv, UNCHANGED detector, made'.outages = made.outages, made'.starts = made.starts,
         buffer'.outages = buffer.outages, overflow'.outages = overflow.outages, UNCHANGED have
  PROVE  /\ LastRecords' /\ OneRecordEach(made'.outages)
         /\ Inet!Cardinality(Inet!Ids(buffer'.outages)) <= OutageMax
         /\ \A o \in made'.outages : o \in have'.outages \cup buffer'.outages \/ o.id \in overflow'.outages
         /\ posting.pc # "idle" => \A o \in made'.outages : o.id \in Inet!Ids(posting.outages) =>
               o \in posting.outages \cup buffer'.outages \/ o.id \in overflow'.outages
<1>1. LastRecords'
  BY DEF InetInv, LastRecords
<1>2. Inet!Ids(buffer'.outages) = Inet!Ids(buffer.outages)
  BY ZenonT(30)
<1>3. Inet!Cardinality(Inet!Ids(buffer'.outages)) <= OutageMax
  BY <1>2 DEF InetInv, Inet!TypeOK
<1> QED  BY Zenon, <1>1, <1>3, InetParts DEF InetInv, Inet!NothingLost, PostIsCovered

LEMMA TickInSpeedtestKeeps ==
  ASSUME InetInv, NEW closed \in {"yes", "no"}, NEW retry \in BOOLEAN, Inet!tickInSpeedtest(closed, retry)
  PROVE  InetInv'
<1> PICK samples : samples = Inet!_addSample(buffer.samples, closed)
  OBVIOUS
<1>1. /\ buffer' = [buffer EXCEPT !.samples = Inet!Kept(samples, SampleMax)]
      /\ overflow' = [overflow EXCEPT !.samples = @ \cup (samples \ buffer'.samples)]
      /\ made' = [made EXCEPT !.samples = IF closed = "yes" THEN @ + 1 ELSE @]
      /\ UNCHANGED <<detector, measuring, speedtest, have>>
      /\ IF closed = "yes" THEN Inet!_persist ELSE UNCHANGED disk
      /\ \E wanted \in BOOLEAN : Inet!BeginReport(buffer', wanted)
  BY Zenon DEF Inet!tickInSpeedtest
<1>2. /\ buffer'.samples = Inet!Kept(samples, SampleMax) /\ buffer'.outages = buffer.outages
      /\ buffer'.speedtests = buffer.speedtests
      /\ buffer' = [samples |-> buffer'.samples, outages |-> buffer'.outages, speedtests |-> buffer'.speedtests]
  BY <1>1, InetParts DEF Buffers
<1>3. /\ overflow'.samples = overflow.samples \cup (samples \ buffer'.samples)
      /\ overflow'.outages = overflow.outages /\ overflow'.speedtests = overflow.speedtests
      /\ overflow' = [samples |-> overflow'.samples, outages |-> overflow'.outages,
                      speedtests |-> overflow'.speedtests]
  BY Zenon, <1>1, InetParts DEF Overflows
<1>4. /\ made'.samples = IF closed = "yes" THEN made.samples + 1 ELSE made.samples
      /\ made'.starts = made.starts /\ made'.outages = made.outages /\ made'.speedtests = made.speedtests
      /\ made' = [samples |-> made'.samples, starts |-> made'.starts, outages |-> made'.outages,
                  speedtests |-> made'.speedtests]
  BY <1>1, InetParts DEF Mades
<1>5. /\ made'.samples \in Nat /\ buffer'.samples \in SUBSET (1..made'.samples)
      /\ Inet!Cardinality(buffer'.samples) <= SampleMax /\ overflow'.samples \in SUBSET Nat
      /\ 1..made'.samples \subseteq have'.samples \cup buffer'.samples \cup overflow'.samples
  BY <1>1, <1>2, <1>3, <1>4, SamplesStep
<1>6. /\ made' \in Mades /\ buffer' \in Buffers(made') /\ overflow' \in Overflows
  <2>1. made' \in Mades
    BY <1>4, <1>5, InetParts DEF Mades
  <2>2. buffer' \in Buffers(made')
    BY <1>2, <1>4, <1>5, InetParts DEF Buffers
  <2>3. overflow' \in Overflows
    BY <1>3, <1>5, InetParts DEF Overflows
  <2> QED  BY <2>1, <2>2, <2>3
<1>7. /\ LastRecords' /\ OneRecordEach(made'.outages)
      /\ Inet!Cardinality(Inet!Ids(buffer'.outages)) <= OutageMax
      /\ \A o \in made'.outages : o \in have'.outages \cup buffer'.outages \/ o.id \in overflow'.outages
      /\ posting.pc # "idle" => \A o \in made'.outages : o.id \in Inet!Ids(posting.outages) =>
            o \in posting.outages \cup buffer'.outages \/ o.id \in overflow'.outages
  BY <1>1, <1>2, <1>3, <1>4, OutagesRest
<1>8. posting' \in Posts /\ Inet!Cardinality(posting'.samples) <= PerReport /\ PostIsCovered'
  BY <1>1, <1>6, <1>7, BeginReportKeeps
<1>9. DiskIsCurrent'
  <2>1. CASE closed = "yes"
    BY <1>1, <2>1 DEF DiskIsCurrent, Inet!_persist
  <2>2. CASE closed = "no"
    <3>1. samples = buffer.samples
      BY <2>2 DEF Inet!_addSample
    <3>2. made.samples \in Nat /\ buffer.samples \in SUBSET (1..made.samples)
          /\ Inet!Cardinality(buffer.samples) <= SampleMax
      BY Zenon, InetParts DEF Mades, Buffers, InetInv, Inet!TypeOK
    <3>3. IsFiniteSet(buffer.samples) /\ buffer.samples \in SUBSET Nat
      BY <3>2, UpToFinite, FS_Subset
    <3>4. Inet!Kept(buffer.samples, SampleMax) = buffer.samples
      BY Zenon, <3>2, <3>3, OneMore, InetParts
    <3>5. buffer' = buffer
      BY <1>1, <3>1, <3>4, InetParts DEF Buffers
    <3> QED  BY <1>1, <2>2, <3>5, InetParts DEF DiskIsCurrent
  <2> QED  BY <2>1, <2>2
<1>10. InetTypes'
  BY <1>1, <1>6, <1>8, InetParts DEF InetTypes
<1>11. Inet!Cardinality(buffer'.speedtests) <= SpeedtestMax
  BY <1>2 DEF InetInv, Inet!TypeOK
<1>12. Inet!TypeOK'
  BY <1>1, <1>5, <1>7, <1>8, <1>11, InetParts DEF Inet!TypeOK, Posts
<1>13. 1..made'.speedtests \subseteq have'.speedtests \cup buffer'.speedtests \cup overflow'.speedtests
  BY <1>1, <1>2, <1>3, <1>4 DEF InetInv, Inet!NothingLost
<1>14. Inet!NothingLost'
  BY <1>5, <1>7, <1>13 DEF Inet!NothingLost
<1> QED  BY <1>7, <1>8, <1>9, <1>10, <1>12, <1>14 DEF InetInv

LEMMA SpeedtestDoneKeeps ==
  ASSUME InetInv, Inet!speedtestDone
  PROVE  InetInv'
<1>1. /\ speedtest' = "no" /\ made' = [made EXCEPT !.speedtests = @ + 1]
      /\ buffer' = [buffer EXCEPT
            !.speedtests = Inet!Kept(buffer.speedtests \cup {made'.speedtests}, SpeedtestMax)]
      /\ overflow' = [overflow EXCEPT
            !.speedtests = @ \cup ((buffer.speedtests \cup {made'.speedtests}) \ buffer'.speedtests)]
      /\ UNCHANGED <<measuring, detector, have>> /\ Inet!_persist
      /\ \E wanted \in BOOLEAN : Inet!BeginReport(buffer', wanted)
  BY Zenon DEF Inet!speedtestDone
<1>2. PICK x \in Nat : x = made.speedtests + 1
  BY InetParts DEF Mades
<1>3. /\ made'.speedtests = x /\ made'.samples = made.samples
      /\ made'.starts = made.starts /\ made'.outages = made.outages
      /\ made' = [samples |-> made'.samples, starts |-> made'.starts, outages |-> made'.outages,
                  speedtests |-> made'.speedtests]
  BY <1>1, <1>2, InetParts DEF Mades
<1>4. /\ buffer'.speedtests = Inet!Kept(buffer.speedtests \cup {x}, SpeedtestMax)
      /\ buffer'.outages = buffer.outages /\ buffer'.samples = buffer.samples
      /\ buffer' = [samples |-> buffer'.samples, outages |-> buffer'.outages, speedtests |-> buffer'.speedtests]
  BY Zenon, <1>1, <1>3, InetParts DEF Buffers
<1>5. /\ overflow'.speedtests = overflow.speedtests \cup ((buffer.speedtests \cup {x}) \ buffer'.speedtests)
      /\ overflow'.outages = overflow.outages /\ overflow'.samples = overflow.samples
      /\ overflow' = [samples |-> overflow'.samples, outages |-> overflow'.outages,
                      speedtests |-> overflow'.speedtests]
  BY Zenon, <1>1, <1>3, InetParts DEF Overflows
<1>6. /\ made.speedtests \in Nat /\ buffer.speedtests \in SUBSET (1..made.speedtests)
      /\ overflow.speedtests \in SUBSET Nat /\ Inet!Cardinality(buffer.speedtests) <= SpeedtestMax
      /\ 1..made.speedtests \subseteq have.speedtests \cup buffer.speedtests \cup overflow.speedtests
  BY Zenon, InetParts DEF Mades, Buffers, Overflows, InetInv, Inet!TypeOK, Inet!NothingLost
<1>7. IsFiniteSet(buffer.speedtests) /\ buffer.speedtests \in SUBSET Nat
  BY <1>6, UpToFinite, FS_Subset
<1>8. buffer'.speedtests \in SUBSET (buffer.speedtests \cup {x}) /\ Inet!Cardinality(buffer'.speedtests) <= SpeedtestMax
  BY <1>4, <1>6, <1>7, OneMore, InetParts
<1>9. 1..x = 1..made.speedtests \cup {x}
  BY <1>2, <1>6
<1>10. buffer'.speedtests \in SUBSET (1..x) /\ overflow'.speedtests \in SUBSET Nat
  BY <1>5, <1>6, <1>7, <1>8, <1>9
<1>11. 1..x \subseteq have.speedtests \cup buffer'.speedtests \cup overflow'.speedtests
  BY <1>5, <1>6, <1>9
<1>12. /\ made' \in Mades /\ buffer' \in Buffers(made') /\ overflow' \in Overflows
  <2>1. made' \in Mades
    BY <1>3, InetParts DEF Mades
  <2>2. buffer' \in Buffers(made')
    BY <1>3, <1>4, <1>10, InetParts DEF Buffers
  <2>3. overflow' \in Overflows
    BY <1>5, <1>10, InetParts DEF Overflows
  <2> QED  BY <2>1, <2>2, <2>3
<1>13. /\ LastRecords' /\ OneRecordEach(made'.outages)
       /\ Inet!Cardinality(Inet!Ids(buffer'.outages)) <= OutageMax
       /\ \A o \in made'.outages : o \in have'.outages \cup buffer'.outages \/ o.id \in overflow'.outages
       /\ posting.pc # "idle" => \A o \in made'.outages : o.id \in Inet!Ids(posting.outages) =>
             o \in posting.outages \cup buffer'.outages \/ o.id \in overflow'.outages
  BY <1>1, <1>3, <1>4, <1>5, OutagesRest
<1>14. posting' \in Posts /\ Inet!Cardinality(posting'.samples) <= PerReport /\ PostIsCovered'
  BY <1>1, <1>12, <1>13, BeginReportKeeps
<1>15. DiskIsCurrent'
  BY <1>1 DEF DiskIsCurrent, Inet!_persist
<1>16. InetTypes'
  BY <1>1, <1>12, <1>14, InetParts DEF InetTypes
<1>17. Inet!Cardinality(buffer'.samples) <= SampleMax
  BY <1>4 DEF InetInv, Inet!TypeOK
<1>18. Inet!TypeOK'
  BY <1>1, <1>8, <1>13, <1>14, <1>17, InetParts DEF Inet!TypeOK, Posts
<1>19. 1..made'.samples \subseteq have'.samples \cup buffer'.samples \cup overflow'.samples
  BY <1>1, <1>3, <1>4, <1>5 DEF InetInv, Inet!NothingLost
<1>20. Inet!NothingLost'
  BY <1>1, <1>3, <1>11, <1>13, <1>19 DEF Inet!NothingLost
<1> QED  BY <1>13, <1>14, <1>15, <1>16, <1>18, <1>20 DEF InetInv

\* the server may put an older record of an outage in place of the last one, which
\* then is still in the buffer
LEMMA ServerTakesKeeps ==
  ASSUME InetInv, Inet!ServerTakes
  PROVE  InetInv'
<1>1. /\ posting.pc = "post" /\ posting' = [posting EXCEPT !.pc = "taken"]
      /\ have' = [samples |-> have.samples \cup posting.samples,
                  outages |-> Inet!_addOutage(have.outages, posting.outages),
                  speedtests |-> have.speedtests \cup posting.speedtests]
      /\ UNCHANGED <<measuring, detector, buffer, disk, speedtest, made, overflow>>
  BY DEF Inet!ServerTakes
<1>2. /\ posting' \in Posts /\ posting'.pc = "taken" /\ posting'.samples = posting.samples
      /\ posting'.outages = posting.outages /\ posting'.speedtests = posting.speedtests
  BY <1>1, InetParts DEF Posts
<1>3. have' \in Haves
  BY <1>1, InetParts DEF Haves, Posts, Inet!_addOutage
<1>4. PostIsCovered'
  <2>1. Inet!Ids(posting'.outages) = Inet!Ids(posting.outages)
    BY <1>2, Zenon
  <2>2. /\ posting'.samples \subseteq have'.samples /\ posting'.outages \subseteq have'.outages
        /\ posting'.speedtests \subseteq have'.speedtests
    BY <1>1, <1>2 DEF Inet!_addOutage
  <2> QED  BY <1>1, <1>2, <2>1, <2>2, InetParts DEF PostIsCovered
<1>5. InetTypes' /\ LastRecords' /\ DiskIsCurrent'
  BY <1>1, <1>2, <1>3, InetParts DEF InetInv, InetTypes, LastRecords, DiskIsCurrent
<1>6. Inet!TypeOK'
  BY <1>1, <1>2 DEF InetInv, Inet!TypeOK
<1>7. ASSUME NEW o \in made.outages PROVE o \in have'.outages \cup buffer.outages \/ o.id \in overflow.outages
  <2>1. CASE o.id \in Inet!Ids(posting.outages)
    BY <1>1, <2>1, InetParts DEF PostIsCovered, Inet!_addOutage
  <2>2. CASE o.id \notin Inet!Ids(posting.outages)
    BY <1>1, <2>2 DEF Inet!_addOutage, InetInv, Inet!NothingLost
  <2> QED  BY <2>1, <2>2
<1>8. Inet!NothingLost'
  BY <1>1, <1>7 DEF InetInv, Inet!NothingLost
<1> QED  BY <1>4, <1>5, <1>6, <1>8 DEF InetInv

LEMMA FewerStay ==
  ASSUME NEW S, IsFiniteSet(S), NEW T \in SUBSET S, NEW max \in Nat, Inet!Cardinality(S) <= max
  PROVE  Inet!Cardinality(T) <= max
<1>1. IsFiniteSet(T) /\ Cardinality(T) <= Cardinality(S)
  BY FS_Subset
<1>2. Cardinality(T) \in Nat /\ Cardinality(S) \in Nat
  BY <1>1, FS_CardinalityType
<1> QED  BY <1>1, <1>2, InetCardinality

\* what leaves the buffer is at the server
LEMMA ReportedKeeps ==
  ASSUME InetInv, Inet!reported
  PROVE  InetInv'
<1>1. /\ posting.pc = "taken" /\ buffer' = Inet!Confirmed(buffer) /\ Inet!_persist
      /\ UNCHANGED <<measuring, detector, speedtest, made, have, overflow>>
      /\ \/ posting' = Inet!NoPost
         \/ posting' = [pc |-> "post", samples |-> Inet!First(buffer'.samples),
                        outages |-> buffer'.outages, speedtests |-> buffer'.speedtests]
  BY DEF Inet!reported
<1>2. /\ buffer'.samples = buffer.samples \ posting.samples
      /\ buffer'.outages = buffer.outages \ posting.outages
      /\ buffer'.speedtests = buffer.speedtests \ posting.speedtests
  BY Zenon, <1>1 DEF Inet!Confirmed
<1>3. buffer' \in Buffers(made)
  BY Zenon, <1>1, InetParts DEF Buffers, Inet!Confirmed
<1>4. /\ made.samples \in Nat /\ made.speedtests \in Nat /\ made.starts \in Nat
      /\ buffer.samples \in SUBSET (1..made.samples) /\ buffer.speedtests \in SUBSET (1..made.speedtests)
      /\ Inet!Ids(buffer.outages) \in SUBSET (1..made.starts)
  BY InetParts DEF Mades, Buffers, Inet!Ids, InetInv, LastRecords, Outages
<1>5. IsFiniteSet(buffer.samples) /\ IsFiniteSet(buffer.speedtests) /\ IsFiniteSet(Inet!Ids(buffer.outages))
  BY <1>4, UpToFinite, FS_Subset
<1>6. /\ Inet!Cardinality(buffer.samples) <= SampleMax /\ Inet!Cardinality(buffer.speedtests) <= SpeedtestMax
      /\ Inet!Cardinality(Inet!Ids(buffer.outages)) <= OutageMax
  BY DEF InetInv, Inet!TypeOK
<1>7. /\ buffer'.samples \in SUBSET buffer.samples /\ buffer'.speedtests \in SUBSET buffer.speedtests
      /\ Inet!Ids(buffer'.outages) \in SUBSET Inet!Ids(buffer.outages)
  BY <1>2 DEF Inet!Ids
<1>8. /\ Inet!Cardinality(buffer'.samples) <= SampleMax /\ Inet!Cardinality(buffer'.speedtests) <= SpeedtestMax
      /\ Inet!Cardinality(Inet!Ids(buffer'.outages)) <= OutageMax
  BY Zenon, <1>5, <1>6, <1>7, FewerStay, InetParts
<1>9. posting' \in Posts /\ Inet!Cardinality(posting'.samples) <= PerReport /\ PostIsCovered'
  <2>1. CASE posting' = Inet!NoPost
    <3>1. posting' \in Posts /\ posting'.samples = {} /\ posting'.pc = "idle"
      BY <2>1 DEF Inet!NoPost, Posts
    <3>2. Inet!Cardinality(posting'.samples) = 0 /\ PerReport \in Nat
      BY ZenonT(30), <3>1, InetCardinality, FS_EmptySet, InetParts
    <3>3. PostIsCovered'
      BY <3>1 DEF PostIsCovered
    <3> QED  BY <3>1, <3>2, <3>3
  <2>2. CASE posting' # Inet!NoPost
    <3>1. /\ posting' \in Posts /\ Inet!Cardinality(posting'.samples) <= PerReport /\ posting'.pc = "post"
          /\ \A o \in made.outages : o.id \in Inet!Ids(posting'.outages) => o \in buffer'.outages
      BY <1>1, <1>3, <2>2, NewPost, InetParts
    <3> QED  BY Zenon, <1>1, <3>1 DEF PostIsCovered
  <2> QED  BY <2>1, <2>2
<1>10. DiskIsCurrent'
  BY <1>1 DEF DiskIsCurrent, Inet!_persist
<1>11. InetTypes' /\ LastRecords'
  BY Zenon, <1>1, <1>3, <1>9, InetParts DEF InetInv, InetTypes, LastRecords
<1>12. Inet!TypeOK'
  BY Zenon, <1>1, <1>8, <1>9, InetParts DEF Inet!TypeOK, Posts
<1>13. /\ posting.samples \subseteq have.samples /\ posting.outages \subseteq have.outages
       /\ posting.speedtests \subseteq have.speedtests
  BY Zenon, <1>1, InetParts DEF PostIsCovered
<1>14. Inet!NothingLost'
  BY <1>1, <1>2, <1>13 DEF InetInv, Inet!NothingLost
<1> QED  BY <1>9, <1>10, <1>11, <1>12, <1>14 DEF InetInv

\* the steps that measure and confirm nothing; a crash reads what the file has
LEMMA OthersKeep ==
  ASSUME InetInv,
         \/ Inet!tick \/ Inet!reportFails \/ Inet!startSpeedtest \/ Inet!enable \/ Inet!disable \/ Inet!Crash
         \/ UNCHANGED ivars
  PROVE  InetInv'
<1>1. UNCHANGED <<made, have, overflow>>
  BY DEF Inet!tick, Inet!reportFails, Inet!startSpeedtest, Inet!enable, Inet!disable, Inet!Crash, ivars
<1>2. /\ buffer' = buffer /\ detector'.open = detector.open /\ detector' \in Detectors
      /\ DiskIsCurrent'
  <2>1. CASE Inet!Crash
    BY <2>1, InetParts DEF Inet!Crash, Inet!_load, DiskIsCurrent, Detectors
  <2>2. CASE ~Inet!Crash
    <3>1. UNCHANGED <<buffer, detector>>
      BY <2>2 DEF Inet!tick, Inet!reportFails, Inet!startSpeedtest, Inet!enable, Inet!disable, ivars
    <3>2. UNCHANGED disk \/ Inet!_persist
      BY <2>2 DEF Inet!tick, Inet!reportFails, Inet!startSpeedtest, Inet!enable, Inet!disable, ivars
    <3> QED  BY <3>1, <3>2, InetParts DEF DiskIsCurrent, Inet!_persist
  <2> QED  BY <2>1, <2>2
<1>3. /\ measuring' \in {"off", "idle", "measure", "late"} /\ speedtest' \in {"yes", "no"}
  BY InetParts DEF Inet!tick, Inet!reportFails, Inet!startSpeedtest, Inet!enable, Inet!disable, Inet!Crash, ivars
<1>4. posting' = Inet!NoPost \/ UNCHANGED posting
  BY DEF Inet!tick, Inet!reportFails, Inet!startSpeedtest, Inet!enable, Inet!disable, Inet!Crash, ivars
<1>5. posting' \in Posts /\ Inet!Cardinality(posting'.samples) <= PerReport /\ PostIsCovered'
  <2>1. CASE posting' = Inet!NoPost
    <3>1. posting' \in Posts /\ posting'.samples = {} /\ posting'.pc = "idle"
      BY Zenon, <2>1 DEF Inet!NoPost, Posts
    <3>2. Inet!Cardinality(posting'.samples) = 0 /\ PerReport \in Nat
      BY ZenonT(30), <3>1, InetCardinality, FS_EmptySet, InetParts
    <3>3. PostIsCovered'
      BY <3>1 DEF PostIsCovered
    <3> QED  BY <3>1, <3>2, <3>3
  <2>2. CASE UNCHANGED posting
    BY <1>1, <1>2, <2>2, InetParts DEF PostIsCovered
  <2> QED  BY <1>4, <2>1, <2>2
<1>6. InetTypes' /\ LastRecords'
  BY <1>1, <1>2, <1>3, <1>5, InetParts DEF InetInv, InetTypes, LastRecords
<1>7. Inet!TypeOK'
  BY Zenon, <1>2, <1>3, <1>5 DEF InetInv, Inet!TypeOK, Posts
<1>8. Inet!NothingLost'
  BY Zenon, <1>1, <1>2 DEF InetInv, Inet!NothingLost
<1> QED  BY <1>2, <1>5, <1>6, <1>7, <1>8 DEF InetInv

LEMMA InetStep == InetInv /\ Inet!Next => InetInv'
  BY MeasuredKeeps, TickInSpeedtestKeeps, SpeedtestDoneKeeps, ServerTakesKeeps, ReportedKeeps, OthersKeep
  DEF Inet!Next, Inet!Report

LEMMA InetAlways == Spec => []InetInv
<1>1. Init => InetInv
  BY InetInit DEF Init
<1>2. InetInv /\ [Next]_vars => InetInv'
  BY InetStep, OthersKeep DEF Next, InCache, InInet, vars
<1> QED  BY <1>1, <1>2, PTL DEF Spec

(* Every sample and speedtest that was made, and the last record of every  *)
(* outage, is at the server or in the buffer unless a full buffer dropped  *)
(* it: over answers that are lost after the server took the report, an     *)
(* outage that ends while its earlier record is under way, and crashes     *)
(* (inetq/inetq.js report, _persist, _load).                               *)
THEOREM NothingLostHolds == Spec => []NothingLost
<1>1. InetInv => NothingLost
  BY DEF InetInv, NothingLost
<1> QED  BY <1>1, InetAlways, PTL

(* The types of both services, with the sizes of the buffers and of a      *)
(* report within MAX_SAMPLES, MAX_OUTAGES, MAX_SPEEDTESTS and              *)
(* SAMPLES_PER_REPORT (inetq/inetq.js _addSample, _addOutage, report).     *)
THEOREM TypesHold == Spec => []TypesOK
<1>1. CacheInv => Cache!TypeOK
  <2> SUFFICES ASSUME CacheInv PROVE Cache!TypeOK
    OBVIOUS
  <2>1. usedBytes \in Nat
    BY Parts, SizeOfNat DEF CacheInv, StoreTypes, Cache!UsedIsSum
  <2> QED  BY <2>1, Parts DEF Cache!TypeOK, StoreTypes
<1>2. InetInv => Inet!TypeOK
  BY DEF InetInv
<1>3. CacheInv /\ InetInv => TypesOK
  BY <1>1, <1>2 DEF TypesOK
<1> QED  BY <1>3, CacheAlways, InetAlways, PTL
=============================================================================
