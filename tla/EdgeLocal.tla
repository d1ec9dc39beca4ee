----------------------------- MODULE EdgeLocal ------------------------------
(***************************************************************************)
(* What the edge host keeps on the gateway itself: MQTT with its topics,   *)
(* the network fence, and the files of a plugin.  The parts share no       *)
(* state.  What they keep is proved here for every number of plugins,      *)
(* subscriptions, overlapping syncs, faults and levels of a topic.         *)
(***************************************************************************)
EXTENDS Topics, FiniteSetTheorems, TLAPS

CONSTANTS
    MqttPlugins, MqttFilters, MqttConfigs, MqttAddrs,         \* of Mqtt
    MqttIds, MqttSubs, MqttApplies, MqttLosses, MqttMoves, MqttBrowses,
    FenceSyncs, FenceIpv6, FenceOverlaps, FenceMoves, FenceFaults,   \* of EdgeFence
    FileVersions, FileShas, FileDefects, FileStates, FileFaults, FileSets  \* of EdgeFiles

ASSUME SubsAssumption == IsFiniteSet(MqttIds)
ASSUME ConfigsAssumption ==
    MqttConfigs \subseteq [on : {"yes", "no"}, topics : [MqttPlugins -> SUBSET MqttFilters]]
ASSUME FilesAssumption == "none" \notin FileShas /\ "part" \notin FileShas /\ FileSets \in Nat

VARIABLES
    mcfg, mfiles, mbroker, mclient, mretry, mloop, mwire, matBroker, mrefused, msubs,
    mfilterRefs, maddrs, mlastAddrs, mmdns, mused,
    net, sync, kernel, backend, lastApplied, marker, flushed, fused,
    want, entry, status, proc, pc, job, tmp, left, dest, file, fileTmp, data, acked, pused

-----------------------------------------------------------------------------
(* covers is sound for filters and topics of any length.                   *)

\* the provers that a step names no other for
USE SMTT(30), Z3T(30), Zenon

(* If a plugin filter covers a filter, it matches every topic the covered  *)
(* filter matches (topics.js covers, matches).                             *)
LEMMA CoversSound ==
    ASSUME NEW o, NEW n, NEW t \in Topic,
           validPluginFilter(o), validFilter(n), covers(o, n), matches(n, t)
    PROVE  matches(o, t)
<1>1. o \in Seq(Levels \cup {Hash, Plus}) /\ n \in Seq(Levels \cup {Hash, Plus}) /\ t \in Seq(Levels)
  BY DEF validPluginFilter, validFilter, Filter, Topic
<1>2. Len(o) \in Nat /\ Len(n) \in Nat /\ Len(t) \in Nat
  BY <1>1
<1>3. o[1] \notin {Hash, Plus}
  BY DEF validPluginFilter
<1>4. PICK k \in 1..Len(o) + 1 :
          /\ \A i \in 1..k - 1 : o[i] # Hash /\ i <= Len(n) /\ n[i] # Hash
                                 /\ (o[i] = Plus \/ n[i] = o[i])
          /\ IF k <= Len(o) THEN o[k] = Hash ELSE Len(o) = Len(n)
  BY DEF covers
<1>5. PICK m \in 1..Len(n) + 1 :
          /\ \A i \in 1..m - 1 : n[i] # Hash /\ i <= Len(t) /\ (n[i] = Plus \/ n[i] = t[i])
          /\ IF m <= Len(n) THEN n[m] = Hash ELSE Len(n) = Len(t)
  BY DEF matches
<1>6. k <= m
  <2>1. CASE k > m
    <3>1. m \in 1..k - 1
      BY <1>2, <2>1
    <3>2. m <= Len(n) /\ n[m] # Hash
      BY <1>4, <3>1
    <3>3. QED
      BY <1>5, <3>2
  <2>2. QED
    BY <1>2, <2>1
<1>7. ASSUME NEW i \in 1..k - 1
      PROVE  o[i] # Hash /\ i <= Len(t) /\ (o[i] = Plus \/ o[i] = t[i])
  <2>1. i \in 1..m - 1
    BY <1>2, <1>6
  <2>2. o[i] # Hash /\ (o[i] = Plus \/ n[i] = o[i])
    BY <1>4
  <2>3. i <= Len(t) /\ (n[i] = Plus \/ n[i] = t[i])
    BY <1>5, <2>1
  <2>4. QED
    BY <2>2, <2>3
<1>8. IF k <= Len(o) THEN o[k] = Hash ELSE Len(o) = Len(t)
  <2>1. CASE k <= Len(o)
    BY <1>4, <2>1
  <2>2. CASE ~(k <= Len(o))
    <3>1. k = Len(o) + 1 /\ Len(o) = Len(n)
      BY <1>2, <1>4, <2>2
    <3>2. m = Len(n) + 1
      BY <1>2, <1>6, <3>1
    <3>3. Len(n) = Len(t)
      BY <1>2, <1>5, <3>2
    <3>4. QED
      BY <2>2, <3>1, <3>3
  <2>3. QED
    BY <2>1, <2>2
<1>9. QED
  BY <1>3, <1>7, <1>8 DEF matches

\* fewer numbers come before a smaller one
LEMMA BeforeGrows ==
  ASSUME NEW S \in SUBSET Nat, NEW x \in S, NEW z \in S, x < z
  PROVE  /\ {y \in S : y < x} \in SUBSET {y \in S : y < z}
         /\ x \in {y \in S : y < z} /\ x \notin {y \in S : y < x}
<1>1. x \in Nat /\ z \in Nat /\ ~(x < x)
  OBVIOUS
<1>2. ASSUME NEW y \in S, y < x PROVE y < z
  <2>1. y \in Nat
    OBVIOUS
  <2> QED  BY <1>1, <1>2, <2>1
<1> QED  BY Zenon, <1>1, <1>2

\* a finite set of numbers has a least one
LEMMA LeastOf ==
  ASSUME NEW S \in SUBSET Nat, IsFiniteSet(S), S # {}
  PROVE  \E x \in S : \A y \in S : x <= y
<1> DEFINE Before(x) == {y \in S : y < x}
           T == {Before(x) : x \in S}
<1>1. T \subseteq FiniteSubsetsOf(S) /\ T # {}
  <2>1. ASSUME NEW x \in S PROVE Before(x) \in FiniteSubsetsOf(S)
    <3>1. Before(x) \in SUBSET S
      OBVIOUS
    <3>2. IsFiniteSet(Before(x))
      BY <3>1, FS_Subset
    <3> QED  BY <3>1, <3>2 DEF FiniteSubsetsOf
  <2> QED  BY Zenon, <2>1
<1>2. PICK B \in T : \A C \in T : ~(<<C, B>> \in StrictSubsetOrdering(S))
  BY <1>1, FS_StrictSubsetOrderingWellFounded, WFMin, Zenon
<1>3. PICK x \in S : B = Before(x)
  OBVIOUS
<1>4. ASSUME NEW y \in S, y < x PROVE FALSE
  <2>1. Before(y) \subseteq Before(x) /\ y \in Before(x) /\ y \notin Before(y)
    BY <1>4, BeforeGrows
  <2>2. <<Before(y), Before(x)>> \in StrictSubsetOrdering(S)
    BY <2>1 DEF StrictSubsetOrdering
  <2> QED  BY Zenon, <1>2, <1>3, <2>2
<1>5. ASSUME NEW y \in S PROVE x <= y
  BY <1>4
<1> QED  BY <1>5

(* Conversely, a filter that is not covered has a topic that tells: where  *)
(* the two filters first differ, another level takes the place of a        *)
(* wildcard (topics.js covers, matches).                                   *)
LEMMA CoversComplete ==
    ASSUME NEW o, validPluginFilter(o), NEW n \in BoundedFilters, ~covers(o, n)
    PROVE  \E t \in Bounded(Levels) : matches(n, t) /\ ~matches(o, t)
<1> DEFINE W == Levels \cup {Hash, Plus}
<1>1. o \in Seq(W) /\ Len(o) \in Nat /\ Len(o) > 0 /\ o[1] \in Levels \ Dollar
  <2>1. o \in Seq(W) /\ o # <<>> /\ o[1] \notin {Hash, Plus} \cup Dollar
    BY DEF validPluginFilter, validFilter, Filter
  <2> QED
    BY <2>1
<1>2. /\ n \in Seq(W) /\ Len(n) \in 1..MaxLevels /\ Len(n) \in Nat
      /\ \A i \in 1..Len(n) : n[i] \in W
      /\ \A i \in 1..Len(n) : n[i] = Hash => i = Len(n)
  <2>1. PICK m \in 1..MaxLevels : n \in [1..m -> W]
    BY DEF BoundedFilters, Bounded
  <2>2. m \in Nat
    BY BoundAssumption
  <2>3. n \in Seq(W) /\ Len(n) = m /\ DOMAIN n = 1..m
    BY <2>1, <2>2
  <2>4. \A i \in DOMAIN n : n[i] = Hash => i = Len(n)
    BY DEF BoundedFilters, validFilter
  <2> QED
    BY <2>1, <2>2, <2>3, <2>4
<1>3. PICK x \in Levels \ Dollar, y \in Levels \ Dollar : x # y
  BY LevelsAssumption
<1> DEFINE Other(l) == IF l = x THEN y ELSE x
           T(m) == [i \in 1..m |-> IF n[i] \in Levels THEN n[i] ELSE Other(o[i])]
           Agree(i) == o[i] # Hash /\ i <= Len(n) /\ n[i] # Hash /\ (o[i] = Plus \/ n[i] = o[i])
           Differ == {i \in 1..Len(o) : ~Agree(i)}
<1>4. \A l : Other(l) \in Levels \ Dollar /\ Other(l) # l
  BY <1>3
<1>5. ASSUME NEW m \in 1..Len(n)
      PROVE  /\ T(m) \in Bounded(Levels) /\ Len(T(m)) = m
             /\ \A i \in 1..m : T(m)[i] = IF n[i] \in Levels THEN n[i] ELSE Other(o[i])
             /\ T(m)[1] \in Dollar => n[1] \notin {Hash, Plus}
  <2>1. m \in Nat /\ m \in 1..MaxLevels /\ 1 \in 1..m
    BY <1>2, BoundAssumption
  <2>2. T(m) \in [1..m -> Levels]
    BY <1>4
  <2>3. T(m) \in Seq(Levels) /\ Len(T(m)) = m
    BY <2>1, <2>2
  <2>4. T(m)[1] = IF n[1] \in Levels THEN n[1] ELSE Other(o[1])
    BY <2>1
  <2> QED
    BY <1>4, <2>1, <2>2, <2>3, <2>4, WildcardAssumption DEF Bounded
<1> HIDE DEF Other, T
\* the prefix of n up to m, without its wildcard at the end, is matched by n
<1>6. ASSUME NEW m \in 1..Len(n), \A i \in 1..m : n[i] # Hash,
             m = Len(n) \/ n[m + 1] = Hash
      PROVE  matches(n, T(m))
  <2>1. \A i \in 1..m : i <= Len(T(m)) /\ (n[i] = Plus \/ n[i] = T(m)[i])
    BY <1>2, <1>5, <1>6
  <2>2. m + 1 \in 1..Len(n) + 1 /\ m + 1 - 1 = m
    BY <1>2
  <2>3. IF m + 1 <= Len(n) THEN n[m + 1] = Hash ELSE Len(n) = Len(T(m))
    BY <1>2, <1>5, <1>6
  <2> QED
    BY <1>5, <1>6, <2>1, <2>2, <2>3 DEF matches
<1>7. ASSUME n[Len(n)] = Hash PROVE matches(n, T(Len(n)))
  <2>1. \A i \in 1..Len(n) - 1 : n[i] # Hash
    BY <1>2
  <2>2. Len(n) \in 1..Len(n) /\ Len(n) \in 1..Len(n) + 1
    BY <1>2
  <2>3. \A i \in 1..Len(n) - 1 : i <= Len(T(Len(n))) /\ (n[i] = Plus \/ n[i] = T(Len(n))[i])
    BY <1>2, <1>5, <2>1, <2>2
  <2> QED
    BY Zenon, <1>5, <1>7, <2>1, <2>2, <2>3 DEF matches
<1>8. matches(n, T(Len(n)))
  <2>1. CASE n[Len(n)] = Hash
    BY <1>7, <2>1
  <2>2. CASE n[Len(n)] # Hash
    <3>1. \A i \in 1..Len(n) : n[i] # Hash
      BY <1>2, <2>2
    <3> QED
      BY <1>2, <1>6, <3>1
  <2> QED
    BY <2>1, <2>2
<1>9. Len(n) \in 1..Len(n)
  BY <1>2
\* the filters agree all along the outer one
<1>10. CASE Differ = {}
  <2>1. \A i \in 1..Len(o) : Agree(i)
    BY <1>10
  <2>2. Len(o) # Len(n)
    <3>1. Len(o) + 1 \in 1..Len(o) + 1 /\ Len(o) + 1 - 1 = Len(o) /\ ~(Len(o) + 1 <= Len(o))
      BY <1>1
    <3> QED
      BY <2>1, <3>1 DEF covers
  <2>3. ~matches(o, T(Len(n)))
    <3>1. SUFFICES ASSUME NEW k \in 1..Len(o) + 1,
                          IF k <= Len(o) THEN o[k] = Hash ELSE Len(o) = Len(T(Len(n)))
                   PROVE  FALSE
      BY DEF matches
    <3>2. Len(T(Len(n))) = Len(n)
      BY <1>5, <1>9
    <3>3. CASE k <= Len(o)
      BY <1>1, <2>1, <3>1, <3>3
    <3> QED
      BY <2>2, <3>1, <3>2, <3>3
  <2> QED
    BY <1>5, <1>8, <1>9, <2>3
\* they differ, first at k
<1>11. CASE Differ # {}
  <2>1. PICK k \in Differ : \A i \in Differ : k <= i
    <3>1. IsFiniteSet(1..Len(o))
      BY <1>1, FS_Interval
    <3>2. Differ \in SUBSET (1..Len(o)) /\ Differ \in SUBSET Nat
      BY <1>1
    <3>3. IsFiniteSet(Differ)
      BY <3>1, <3>2, FS_Subset
    <3> QED
      BY Zenon, <1>11, <3>2, <3>3, LeastOf
  <2>2. k \in 1..Len(o) /\ k \in Nat /\ ~Agree(k)
    BY <1>1, <2>1
  <2>3. ASSUME NEW i \in 1..k - 1 PROVE Agree(i)
    <3>1. i \in 1..Len(o) /\ ~(k <= i)
      BY <1>1, <2>2
    <3> QED
      BY <2>1, <3>1
  <2>4. o[k] # Hash
    <3>1. k \in 1..Len(o) + 1 /\ k <= Len(o)
      BY <1>1, <2>2
    <3> QED
      BY <2>3, <3>1 DEF covers
  \* a topic that ends before k, or differs from o there, is not matched by o
  <2>5. ASSUME NEW m \in 1..Len(n),
               m < k \/ (k <= m /\ o[k] # Plus /\ T(m)[k] # o[k])
        PROVE  ~matches(o, T(m))
    <3>1. SUFFICES ASSUME NEW j \in 1..Len(o) + 1,
                          \A i \in 1..j - 1 : /\ o[i] # Hash /\ i <= Len(T(m))
                                              /\ (o[i] = Plus \/ o[i] = T(m)[i]),
                          IF j <= Len(o) THEN o[j] = Hash ELSE Len(o) = Len(T(m))
                   PROVE  FALSE
      BY DEF matches
    <3>2. Len(T(m)) = m
      BY <1>5
    <3>3. CASE j <= k
      <4>1. j <= Len(o) /\ (j = k \/ j \in 1..k - 1)
        BY <1>1, <2>2, <3>3
      <4> QED
        BY <2>3, <2>4, <3>1, <4>1
    <3>4. CASE k < j
      <4>1. k \in 1..j - 1
        BY <1>1, <2>2, <3>4
      <4>2. k <= m /\ (o[k] = Plus \/ o[k] = T(m)[k])
        BY <3>1, <3>2, <4>1
      <4>3. ~(m < k)
        BY <1>2, <2>2, <4>2
      <4> QED
        BY <2>5, <4>2, <4>3
    <3> QED
      BY <1>1, <2>2, <3>3, <3>4
  <2>6. CASE Len(n) < k
    BY <1>5, <1>8, <1>9, <2>5, <2>6
  <2>7. CASE k <= Len(n) /\ n[k] = Hash /\ k > 1
    <3>1. k - 1 \in 1..Len(n) /\ k - 1 < k /\ k - 1 + 1 = k
      BY <1>2, <2>2, <2>7
    <3>2. \A i \in 1..k - 1 : n[i] # Hash
      BY <2>3
    <3>3. matches(n, T(k - 1))
      BY <1>6, <2>7, <3>1, <3>2
    <3>4. ~matches(o, T(k - 1))
      BY <2>5, <3>1
    <3> QED
      BY <1>5, <3>1, <3>3, <3>4
  <2>8. CASE k <= Len(n) /\ o[k] # Plus /\ n[k] # o[k] /\ (n[k] # Hash \/ k = 1)
    <3>1. k \in 1..Len(n)
      BY <1>2, <2>2, <2>8
    <3>2. T(Len(n))[k] # o[k]
      BY <1>4, <1>5, <1>9, <2>8, <3>1
    <3> QED
      BY <1>5, <1>8, <1>9, <2>5, <2>8, <3>2
  <2>9. k = 1 => o[k] \in Levels
    BY <1>1
  <2> QED
    BY <1>2, <2>2, <2>4, <2>6, <2>7, <2>8, <2>9, WildcardAssumption
<1> QED
  BY <1>10, <1>11

\* the topics TLC tries are topics
LEMMA BoundedTopics == ASSUME NEW t \in Bounded(Levels) PROVE t \in Topic
<1>1. PICK k \in 1..MaxLevels : t \in [1..k -> Levels]
  BY DEF Bounded
<1>2. k \in Nat /\ k > 0
  BY BoundAssumption
<1>3. t \in Seq(Levels) /\ Len(t) = k
  BY <1>1, <1>2
<1>4. QED
  BY <1>2, <1>3 DEF Topic

(* What a plugin receives or publishes is within its approved topics and   *)
(* within the topics the server granted, whatever the filters (manager.js  *)
(* allowedFor, pluginCall).                                                *)
THEOREM SubscriptionsWithinGrant ==
    ASSUME validPluginFilter(own), validPluginFilter(granted)
    PROVE  WithinGrant
<1>1. SUFFICES ASSUME NEW t \in Bounded(Levels)
               PROVE  /\ subscribable(asked) /\ matches(asked, t)
                             => matches(own, t) /\ matches(granted, t)
                      /\ publishable(t) => matches(granted, t)
  BY DEF WithinGrant
<1>2. validFilter(own)
  BY DEF validPluginFilter
<1>t. t \in Topic
  BY BoundedTopics
<1>3. ASSUME subscribable(asked), matches(asked, t)
      PROVE  matches(own, t)
  BY <1>3, <1>t, CoversSound DEF subscribable
<1>4. ASSUME covers(granted, own), matches(own, t)
      PROVE  matches(granted, t)
  BY <1>2, <1>4, <1>t, CoversSound
<1>5. QED
  BY <1>3, <1>4 DEF subscribable, publishable

(* The settings of a plugin stay plugin filters, so the bound holds in     *)
(* every state.                                                            *)
THEOREM GrantHolds == Spec => []WithinGrant
<1> DEFINE Inv == validPluginFilter(own) /\ validPluginFilter(granted)
<1>1. Init => Inv
  BY DEF Init
<1>2. Inv /\ [Next]_vars => Inv'
  BY DEF Next, Ask, vars
<1>3. Inv => WithinGrant
  BY SubscriptionsWithinGrant
<1>4. QED
  BY <1>1, <1>2, <1>3, PTL DEF Spec

-----------------------------------------------------------------------------
(* The fence: a marker that lets plugins start tells the truth.            *)

Fence == INSTANCE EdgeFence WITH
    Syncs <- FenceSyncs, HasIpv6 <- FenceIpv6, MaxOverlaps <- FenceOverlaps,
    MaxMoves <- FenceMoves, MaxFaults <- FenceFaults, used <- fused

fvars == Fence!vars

(* A marker that lets plugins start tells the truth about the kernel, with *)
(* syncs that overlap and commands that fail (fenceRules.js).              *)
MarkerIsTrue == Fence!MarkerIsTrue

Ipt6Held == FenceIpv6 = "yes" => kernel.ipt6 # 0

Pcs == {"idle", "resolve", "nftList", "nftLoad", "nftVerify", "ipt4", "ipt6", "nft",
        "iptables", "none"}

\* the sets the variables range over
FenceShape ==
    /\ net \in Nat \ {0}
    /\ sync \in [FenceSyncs -> [pc : Pcs, in : Nat, left : SUBSET {"nft", "iptables"}]]
    /\ kernel \in [nft : Nat, ipt4 : Nat, ipt6 : Nat]
    /\ marker \in [active : {"yes", "no"}, backend : {"none", "nft", "iptables"}, sure : {"yes", "no"}]

\* what a sync relies on at its position, unless rules were flushed under it
SyncRelies(s) ==
    /\ sync[s].pc \notin {"idle", "resolve"} => sync[s].in # 0
    /\ s \notin flushed =>
        /\ sync[s].pc = "nft" => kernel.nft # 0
        /\ sync[s].pc \in {"ipt6", "iptables"} => kernel.ipt4 # 0
        /\ sync[s].pc = "iptables" => Ipt6Held

\* an active marker whose rules were not flushed names rules that are there
Marked ==
    marker.active = "yes" /\ marker.sure = "yes" =>
        \/ marker.backend = "nft" /\ kernel.nft # 0
        \/ marker.backend = "iptables" /\ kernel.ipt4 # 0 /\ Ipt6Held

FenceInv == FenceShape /\ (\A s \in FenceSyncs : SyncRelies(s)) /\ Marked

\* rules only leave the kernel by a flush
Keeps(old, new) ==
    /\ new \in [nft : Nat, ipt4 : Nat, ipt6 : Nat]
    /\ old.nft # 0 => new.nft # 0
    /\ old.ipt4 # 0 => new.ipt4 # 0
    /\ old.ipt6 # 0 => new.ipt6 # 0

LEMMA FenceInit == Fence!Init => FenceInv
  <1> SUFFICES ASSUME Fence!Init PROVE FenceInv
    OBVIOUS
  <1>1. FenceShape
    BY DEF Fence!Init, FenceShape, Fence!Idle, Pcs
  <1>2. \A s \in FenceSyncs : SyncRelies(s)
    BY DEF Fence!Init, SyncRelies, Fence!Idle
  <1>3. Marked
    BY DEF Fence!Init, Marked
  <1> QED
    BY <1>1, <1>2, <1>3 DEF FenceInv

(* A step of sync s that moves it to record r, keeps the rules of the      *)
(* kernel and leaves the marker alone keeps the invariant when s may rely  *)
(* at its new position on what it needs there.                             *)
LEMMA SyncMoves ==
    ASSUME FenceInv, NEW s \in FenceSyncs,
           NEW r \in [pc : Pcs, in : Nat, left : SUBSET {"nft", "iptables"}],
           sync' = [sync EXCEPT ![s] = r],
           Keeps(kernel, kernel'), net' = net, marker' = marker, flushed' = flushed,
           r.pc \notin {"idle", "resolve"} => r.in # 0,
           s \notin flushed /\ r.pc = "nft" => kernel'.nft # 0,
           s \notin flushed /\ r.pc \in {"ipt6", "iptables"} => kernel'.ipt4 # 0,
           s \notin flushed /\ r.pc = "iptables" => (FenceIpv6 = "yes" => kernel'.ipt6 # 0)
    PROVE  FenceInv'
  <1>1. FenceShape'
    BY DEF FenceInv, FenceShape, Keeps
  <1>2. ASSUME NEW t \in FenceSyncs PROVE SyncRelies(t)'
    <2>1. CASE t = s
      BY <2>1 DEF FenceInv, FenceShape, SyncRelies, Ipt6Held
    <2>2. CASE t # s
      <3>1. sync'[t] = sync[t]
        BY <2>2 DEF FenceInv, FenceShape
      <3>2. SyncRelies(t)
        BY DEF FenceInv
      <3> QED
        BY <3>1, <3>2 DEF SyncRelies, Keeps, Ipt6Held
    <2> QED
      BY <2>1, <2>2
  <1>3. Marked'
    BY DEF FenceInv, Marked, Keeps, Ipt6Held
  <1> QED
    BY <1>1, <1>2, <1>3 DEF FenceInv

\* the kernel may stay as it is
LEMMA KeepsSame == ASSUME FenceShape, kernel' = kernel PROVE Keeps(kernel, kernel')
  BY DEF FenceShape, Keeps

\* a step that throws goes to a position that relies on nothing
LEMMA FailedMoves ==
    ASSUME FenceInv, NEW s \in FenceSyncs, Fence!Failed(s), Keeps(kernel, kernel'), sync[s].in # 0,
           net' = net, marker' = marker, flushed' = flushed
    PROVE  FenceInv'
  <1>0. sync[s] \in [pc : Pcs, in : Nat, left : SUBSET {"nft", "iptables"}]
    BY DEF FenceInv, FenceShape
  <1>1. CASE sync[s].left = {} /\ sync' = [sync EXCEPT ![s].pc = "none"]
    <2>1. PICK r : r = [sync[s] EXCEPT !.pc = "none"]
      BY Zenon
    <2>2. /\ r \in [pc : Pcs, in : Nat, left : SUBSET {"nft", "iptables"}]
          /\ r.pc = "none" /\ r.in = sync[s].in
      BY <1>0, <2>1 DEF Pcs
    <2>3. sync' = [sync EXCEPT ![s] = r]
      BY <1>1, <2>1 DEF FenceInv, FenceShape
    <2> QED
      BY Zenon, <2>2, <2>3, SyncMoves
  <1>2. CASE \E b \in sync[s].left :
                sync' = [sync EXCEPT ![s].pc = Fence!First(b, sync[s].in), ![s].left = {}]
    <2>1. PICK b \in sync[s].left :
                sync' = [sync EXCEPT ![s].pc = Fence!First(b, sync[s].in), ![s].left = {}]
      BY Zenon, <1>2
    <2>2. PICK q : q = Fence!First(b, sync[s].in)
      OBVIOUS
    <2>3. q \in {"ipt4", "nftList", "nftLoad"}
      BY <2>2 DEF Fence!First
    <2>4. PICK r : r = [sync[s] EXCEPT !.pc = q, !.left = {}]
      OBVIOUS
    <2>5. /\ r \in [pc : Pcs, in : Nat, left : SUBSET {"nft", "iptables"}]
          /\ r.pc = q /\ r.in = sync[s].in
      BY Zenon, <1>0, <2>3, <2>4 DEF Pcs
    <2>6. sync' = [sync EXCEPT ![s] = r]
      BY <2>1, <2>2, <2>4 DEF FenceInv, FenceShape
    <2> QED
      BY Zenon, <2>3, <2>5, <2>6, SyncMoves
  <1> QED
    BY <1>1, <1>2 DEF Fence!Failed

\* a step to a position of the same addresses
LEMMA GoesMoves ==
    ASSUME FenceInv, NEW s \in FenceSyncs, NEW q \in Pcs \ {"idle"}, Fence!Goes(s, q), Keeps(kernel, kernel'),
           net' = net, marker' = marker, flushed' = flushed,
           q # "resolve" => sync[s].in # 0,
           s \notin flushed /\ q = "nft" => kernel'.nft # 0,
           s \notin flushed /\ q \in {"ipt6", "iptables"} => kernel'.ipt4 # 0,
           s \notin flushed /\ q = "iptables" => (FenceIpv6 = "yes" => kernel'.ipt6 # 0)
    PROVE  FenceInv'
  <1>0. sync[s] \in [pc : Pcs, in : Nat, left : SUBSET {"nft", "iptables"}]
    BY DEF FenceInv, FenceShape
  <1>1. PICK r : r = [sync[s] EXCEPT !.pc = q]
    BY Zenon
  <1>2. /\ r \in [pc : Pcs, in : Nat, left : SUBSET {"nft", "iptables"}]
        /\ r.pc = q /\ r.in = sync[s].in
    BY <1>0, <1>1
  <1>3. sync' = [sync EXCEPT ![s] = r]
    BY <1>1 DEF Fence!Goes, FenceInv, FenceShape
  <1> QED
    BY Zenon, <1>2, <1>3, SyncMoves

\* every step of a sync but the last keeps the invariant
LEMMA SyncStep ==
    ASSUME FenceInv, NEW s \in FenceSyncs, Fence!start(s) \/ Fence!Steps(s) \/ Fence!CommandFails(s), ~Fence!writeMarker(s)
    PROVE  FenceInv'
  <1> USE DEF Pcs
  <1>0. /\ sync[s] \in [pc : Pcs, in : Nat, left : SUBSET {"nft", "iptables"}]
        /\ FenceShape /\ SyncRelies(s)
    BY DEF FenceInv, FenceShape
  <1>1. CASE Fence!start(s)
    <2>1. Fence!Goes(s, "resolve") /\ Keeps(kernel, kernel')
      BY <1>0, <1>1, KeepsSame DEF Fence!start, Fence!Goes
    <2> QED
      BY <1>1, <2>1, GoesMoves DEF Fence!start, Fence!fence
  <1>2. CASE Fence!apply(s)
    <2>1. PICK b \in {"nft", "iptables"} :
             sync' = [sync EXCEPT ![s] = [pc |-> Fence!First(b, net), in |-> net,
                                          left |-> {"nft", "iptables"} \ {b}]]
      BY Zenon, <1>2 DEF Fence!apply
    <2>2. PICK r : r = [pc |-> Fence!First(b, net), in |-> net, left |-> {"nft", "iptables"} \ {b}]
      BY Zenon
    <2>3. Fence!First(b, net) \in {"ipt4", "nftList", "nftLoad"}
      BY DEF Fence!First
    <2>4. /\ r \in [pc : Pcs, in : Nat, left : SUBSET {"nft", "iptables"}]
          /\ r.pc \in {"ipt4", "nftList", "nftLoad"} /\ r.in # 0
      BY <1>0, <2>2, <2>3 DEF FenceShape
    <2>5. sync' = [sync EXCEPT ![s] = r] /\ Keeps(kernel, kernel')
      BY Zenon, <1>0, <1>2, <2>1, <2>2, KeepsSame DEF Fence!apply
    <2>6. net' = net /\ marker' = marker /\ flushed' = flushed
      BY <1>2 DEF Fence!apply, Fence!fence
    <2>7. r.pc \notin {"nft", "ipt6", "iptables"}
      BY <2>4
    <2> HIDE DEF Pcs
    <2> QED
      BY Zenon, <2>4, <2>5, <2>6, <2>7, SyncMoves
  <1>3. CASE Fence!nftList(s)
    <2>1. Keeps(kernel, kernel') /\ sync[s].in # 0
      BY <1>0, <1>3, KeepsSame DEF Fence!nftList, SyncRelies
    <2>2. CASE kernel.nft # 0
      BY <1>3, <2>1, <2>2, GoesMoves DEF Fence!nftList, Fence!fence
    <2>3. CASE kernel.nft = 0
      BY <1>3, <2>1, <2>3, GoesMoves DEF Fence!nftList, Fence!fence
    <2> QED
      BY <2>2, <2>3
  <1>4. CASE Fence!nftLoad(s)
    <2>1. sync[s].in # 0
      BY <1>0, <1>4 DEF Fence!nftLoad, SyncRelies
    <2>2. Keeps(kernel, kernel')
      BY <1>0, <1>4, <2>1 DEF Fence!nftLoad, Keeps, FenceShape
    <2> QED
      BY <1>4, <2>1, <2>2, GoesMoves DEF Fence!nftLoad, Fence!fence
  <1>5. CASE Fence!nftVerify(s)
    <2>1. Keeps(kernel, kernel') /\ sync[s].in # 0
      BY <1>0, <1>5, KeepsSame DEF Fence!nftVerify, SyncRelies
    <2>2. CASE kernel.nft # 0
      BY <1>5, <2>1, <2>2, GoesMoves DEF Fence!nftVerify
    <2>3. CASE kernel.nft = 0
      BY <1>5, <2>1, <2>3, FailedMoves DEF Fence!nftVerify
    <2> QED
      BY <2>2, <2>3
  <1>6. CASE Fence!ipt4(s)
    <2>1. sync[s].in # 0
      BY <1>0, <1>6 DEF Fence!ipt4, SyncRelies
    <2>2. Keeps(kernel, kernel') /\ kernel'.ipt4 # 0
      BY <1>0, <1>6, <2>1 DEF Fence!ipt4, Keeps, FenceShape
    <2> QED
      BY <1>6, <2>1, <2>2, GoesMoves DEF Fence!ipt4, Fence!fence
  <1>7. CASE Fence!ipt6(s)
    <2>1. sync[s].in # 0 /\ (s \notin flushed => kernel.ipt4 # 0)
      BY <1>0, <1>7 DEF Fence!ipt6, SyncRelies
    <2>2. /\ Keeps(kernel, kernel') /\ kernel'.ipt6 # 0
          /\ s \notin flushed => kernel'.ipt4 # 0
      BY <1>0, <1>7, <2>1 DEF Fence!ipt6, Keeps, FenceShape
    <2> QED
      BY <1>7, <2>1, <2>2, GoesMoves DEF Fence!ipt6, Fence!fence
  <1>8. CASE Fence!CommandFails(s)
    <2>1. sync[s].in # 0 /\ (s \notin flushed /\ sync[s].pc = "ipt6" => kernel.ipt4 # 0)
      BY <1>0, <1>8 DEF Fence!CommandFails, SyncRelies
    <2>2. Keeps(kernel, kernel')
      BY <1>0, <1>8, <2>1 DEF Fence!CommandFails, Fence!Restored, Keeps, FenceShape
    <2>3. net' = net /\ marker' = marker /\ flushed' = flushed
      BY <1>8 DEF Fence!CommandFails, Fence!fence
    <2>4. CASE Fence!Goes(s, "nftLoad")
      BY Zenon, <2>1, <2>2, <2>3, <2>4, GoesMoves
    <2>5. CASE Fence!Goes(s, "iptables") /\ sync[s].pc = "ipt6" /\ FenceIpv6 = "no"
      <3>1. s \notin flushed => kernel'.ipt4 # 0
        BY <2>1, <2>2, <2>5 DEF Keeps
      <3> QED
        BY Zenon, <2>1, <2>2, <2>3, <2>5, <3>1, GoesMoves
    <2>6. CASE Fence!Failed(s)
      BY Zenon, <2>1, <2>2, <2>3, <2>6, FailedMoves
    <2> QED
      BY <1>8, <2>4, <2>5, <2>6 DEF Fence!CommandFails
  <1> QED
    BY <1>1, <1>2, <1>3, <1>4, <1>5, <1>6, <1>7, <1>8 DEF Fence!Steps

\* writing the marker keeps the invariant: it is sure only if nothing was flushed
LEMMA MarkerHolds == ASSUME FenceInv, NEW s \in FenceSyncs, Fence!writeMarker(s) PROVE FenceInv'
  <1>0. FenceShape /\ SyncRelies(s) /\ kernel' = kernel /\ net' = net
    BY DEF FenceInv, Fence!writeMarker
  <1>1. FenceShape'
    <2>1. sync' \in [FenceSyncs -> [pc : Pcs, in : Nat, left : SUBSET {"nft", "iptables"}]]
      BY <1>0 DEF Fence!writeMarker, FenceShape, Fence!Idle, Pcs
    <2>2. marker' \in [active : {"yes", "no"}, backend : {"none", "nft", "iptables"},
                       sure : {"yes", "no"}]
      BY DEF Fence!writeMarker
    <2> QED
      BY <1>0, <2>1, <2>2 DEF FenceShape
  <1>2. ASSUME NEW t \in FenceSyncs PROVE SyncRelies(t)'
    <2>1. CASE t = s
      <3>1. sync'[t].pc = "idle"
        BY Zenon, <1>0, <2>1 DEF Fence!writeMarker, FenceShape, Fence!Idle
      <3> QED
        BY <3>1 DEF SyncRelies
    <2>2. CASE t # s
      <3>1. sync'[t] = sync[t] /\ (t \in flushed <=> t \in flushed')
        BY <1>0, <2>2 DEF Fence!writeMarker, FenceShape
      <3>2. SyncRelies(t)
        BY DEF FenceInv
      <3> QED
        BY <1>0, <3>1, <3>2 DEF SyncRelies, Ipt6Held
    <2> QED
      BY <2>1, <2>2
  <1>3. Marked'
    <2>1. CASE sync[s].pc = "none"
      BY <2>1 DEF Fence!writeMarker, Marked
    <2>2. CASE s \in flushed
      BY <2>2 DEF Fence!writeMarker, Marked
    <2>3. CASE sync[s].pc = "nft" /\ s \notin flushed
      BY <1>0, <2>3 DEF Fence!writeMarker, Marked, SyncRelies
    <2>4. CASE sync[s].pc = "iptables" /\ s \notin flushed
      BY <1>0, <2>4 DEF Fence!writeMarker, Marked, SyncRelies, Ipt6Held
    <2> QED
      BY <2>1, <2>2, <2>3, <2>4 DEF Fence!writeMarker
  <1> QED
    BY <1>1, <1>2, <1>3 DEF FenceInv

\* a flush leaves nothing to rely on, neither to the syncs in flight nor to the marker
LEMMA FlushHolds == ASSUME FenceInv, Fence!Flush PROVE FenceInv'
  <1>1. FenceShape'
    BY DEF FenceInv, Fence!Flush, FenceShape
  <1>2. ASSUME NEW t \in FenceSyncs PROVE SyncRelies(t)'
    <2>1. sync' = sync /\ (t \notin flushed' => sync[t].pc = "idle") /\ SyncRelies(t)
      BY DEF FenceInv, Fence!Flush
    <2> QED
      BY <2>1 DEF SyncRelies
  <1>3. Marked'
    BY DEF FenceInv, Fence!Flush, Marked, FenceShape
  <1> QED
    BY <1>1, <1>2, <1>3 DEF FenceInv

LEMMA FenceNext == FenceInv /\ [Fence!Next]_fvars => FenceInv'
  <1> SUFFICES ASSUME FenceInv, [Fence!Next]_fvars PROVE FenceInv'
    OBVIOUS
  <1>1. CASE \E s \in FenceSyncs : Fence!start(s) \/ Fence!Steps(s) \/ Fence!CommandFails(s)
    BY <1>1, SyncStep, MarkerHolds
  <1>2. CASE Fence!AddressesChange
    BY <1>2 DEF Fence!AddressesChange, FenceInv, FenceShape, SyncRelies, Marked, Ipt6Held, Fence!fence
  <1>3. CASE Fence!Flush
    BY <1>3, FlushHolds
  <1>4. CASE UNCHANGED fvars
    BY <1>4 DEF fvars, Fence!vars, Fence!fence, FenceInv, FenceShape, SyncRelies, Marked, Ipt6Held
  <1> QED
    BY <1>1, <1>2, <1>3, <1>4 DEF Fence!Next

(* Fail closed, for any number of overlapping syncs and faults: a marker   *)
(* that lets plugins start names rules that are in the kernel, unless      *)
(* others flushed them (fenceRules.js apply, gatewayLink.js sync).         *)
THEOREM FenceFailsClosed == Fence!Spec => []MarkerIsTrue
  <1>1. FenceInv => MarkerIsTrue
    BY DEF FenceInv, FenceShape, Marked, MarkerIsTrue, Fence!MarkerIsTrue, Ipt6Held
  <1>2. Fence!Init => FenceInv
    BY FenceInit
  <1>3. FenceInv /\ [Fence!Next]_fvars => FenceInv'
    BY FenceNext
  <1> QED
    BY <1>1, <1>2, <1>3, PTL DEF Fence!Spec, fvars

-----------------------------------------------------------------------------
(* The files of a plugin: a directory on disk is empty or holds a whole    *)
(* package with its .ready.json, at every step, so nothing a dying host    *)
(* leaves behind counts as installed.                                      *)

Files == INSTANCE EdgeFiles WITH
    Versions <- FileVersions, Shas <- FileShas, Defects <- FileDefects,
    MaxStates <- FileStates, MaxFaults <- FileFaults, MaxSets <- FileSets, used <- pused

pvars == Files!vars

(* Wherever the host dies or the disk is full: what counts as installed is *)
(* whole, and what gc.store.set answered for is stored (packages.js,       *)
(* store.js).                                                              *)
FilesAreWhole == Files!InstalledIsWhole /\ Files!AckedIsStored

Stated == [version : FileVersions, sha : FileShas, defect : FileDefects \cup {"none"}]
Whole(h) == [files |-> h, ready |-> h]
Places == {Whole(h) : h \in FileShas \cup {"none"}}

PackagesInv ==
    /\ want \in Stated /\ job \in Stated
    /\ entry \in [version : FileVersions \cup {"none"}, sha : FileShas \cup {"none"},
                  spec : FileVersions \cup {"none"}]
    /\ status \in {"ok", "denied", "retry"} /\ left \in {"yes", "no"}
    /\ pc \in {"idle", "download", "files", "ready", "remove", "rename"}
    /\ proc \in FileShas \cup {"none"}
    /\ dest \in [FileVersions -> Places]
    /\ pc \in {"remove", "rename"} => tmp = Whole(job.sha)

StoreInv ==
    /\ file = acked /\ data \in {Files!Unread, acked}
    /\ acked \in 0..FileSets /\ fileTmp \in 0..FileSets
    /\ pused \in [states : Nat, faults : Nat, sets : 0..FileSets]

\* the sets of a place
LEMMA PlaceIsWhole ==
    ASSUME NEW d \in Places
    PROVE  /\ d.files = d.ready /\ d.ready \in FileShas \cup {"none"}
           /\ d \in [files : FileShas \cup {"none", "part"}, ready : FileShas \cup {"none"}]
  BY DEF Places, Whole

\* the process is started from a whole package
LEMMA StartsWhole ==
    ASSUME PackagesInv, NEW w \in Stated, Files!Starts(w), dest' \in [FileVersions -> Places]
    PROVE  /\ proc' \in FileShas \cup {"none"} /\ status' = "ok" /\ left' = left
           /\ entry' = [version |-> w.version, sha |-> w.sha, spec |-> w.version]
  <1>1. dest'[w.version] \in Places
    BY DEF Stated
  <1>2. dest'[w.version].files \in FileShas \cup {"none"}
    BY <1>1, PlaceIsWhole
  <1> QED
    BY <1>2 DEF Files!Starts, PackagesInv

LEMMA PackagesInit == Files!Init => PackagesInv /\ StoreInv
  <1> SUFFICES ASSUME Files!Init PROVE PackagesInv /\ StoreInv
    OBVIOUS
  <1>1. Files!Empty \in Places
    BY DEF Files!Empty, Files!None, Places, Whole
  <1>2. PackagesInv
    BY <1>1 DEF Files!Init, PackagesInv, Stated, Files!None
  <1>3. StoreInv
    BY FilesAssumption DEF Files!Init, StoreInv
  <1> QED
    BY <1>2, <1>3

LEMMA PackagesStep == PackagesInv /\ [Files!Next]_pvars => PackagesInv'
  <1> SUFFICES ASSUME PackagesInv, [Files!Next]_pvars PROVE PackagesInv'
    OBVIOUS
  <1>0. Files!Empty \in Places
    BY DEF Files!Empty, Files!None, Places, Whole
  <1>1. CASE Files!StateChanges
    BY <1>1 DEF Files!StateChanges, PackagesInv, Stated, Files!None
  <1>2. CASE Files!ensurePlugin
    <2>1. CASE Files!installed(want.version, want.sha)
      <3>1. Files!Starts(want) /\ dest' = dest /\ pc' = pc /\ want' = want /\ job' = want
            /\ pc = "idle"
        BY <1>2, <2>1 DEF Files!ensurePlugin
      <3>2. /\ proc' \in FileShas \cup {"none"} /\ status' = "ok" /\ left' = left
            /\ entry' = [version |-> want.version, sha |-> want.sha, spec |-> want.version]
        BY <3>1, StartsWhole DEF PackagesInv
      <3> QED
        BY <3>1, <3>2 DEF PackagesInv, Stated
    <2>2. CASE ~Files!installed(want.version, want.sha)
      BY <1>2, <2>2 DEF Files!ensurePlugin, PackagesInv
    <2> QED
      BY <2>1, <2>2
  <1>3. CASE Files!Downloaded
    BY Zenon, <1>3 DEF Files!Downloaded, PackagesInv, Stated, Files!None
  <1>4. CASE Files!DownloadFails
    BY Zenon, <1>4 DEF Files!DownloadFails, PackagesInv, Stated
  <1>5. CASE Files!ExtractSome \/ Files!ExtractReady
    BY <1>5 DEF Files!ExtractSome, Files!ExtractReady, PackagesInv, Whole
  <1>6. CASE Files!ExtractRemove
    BY <1>0, <1>6 DEF Files!ExtractRemove, PackagesInv, Stated
  <1>7. CASE Files!ExtractRename
    <2>1. tmp \in Places
      BY <1>7 DEF Files!ExtractRename, PackagesInv, Stated, Places
    <2>2. dest' \in [FileVersions -> Places]
      BY <1>7, <2>1 DEF Files!ExtractRename, PackagesInv, Stated
    <2>3. /\ Files!Starts(job) /\ pc' = "idle" /\ want' = want /\ job' = job
      BY <1>7 DEF Files!ExtractRename
    <2>4. /\ proc' \in FileShas \cup {"none"} /\ status' = "ok" /\ left' = left
          /\ entry' = [version |-> job.version, sha |-> job.sha, spec |-> job.version]
      BY <2>2, <2>3, StartsWhole DEF PackagesInv
    <2> QED
      BY <2>2, <2>3, <2>4 DEF PackagesInv, Stated
  <1>8. CASE Files!prune
    BY <1>0, <1>8 DEF Files!prune, PackagesInv
  <1>9. CASE Files!WriteFails
    BY Zenon, <1>9 DEF Files!WriteFails, PackagesInv, Stated, Files!None
  <1>10. CASE Files!HostDies
    BY <1>10 DEF Files!HostDies, PackagesInv, Files!None
  <1>11. CASE Files!write \/ Files!Renamed \/ Files!SetFails \/ UNCHANGED pvars
    BY <1>11 DEF Files!write, Files!Renamed, Files!SetFails, Files!pkg, pvars, Files!vars, PackagesInv
  <1> QED
    BY <1>1, <1>2, <1>3, <1>4, <1>5, <1>6, <1>7, <1>8, <1>9, <1>10, <1>11
    DEF Files!Next, Files!Packages, Files!Store, Files!Extract

LEMMA StoreStep == StoreInv /\ [Files!Next]_pvars => StoreInv'
  <1> SUFFICES ASSUME StoreInv, [Files!Next]_pvars PROVE StoreInv'
    OBVIOUS
  <1>1. CASE Files!write
    <2>1. pused.sets < FileSets /\ pused' = [pused EXCEPT !.sets = @ + 1]
      BY Zenon, <1>1 DEF Files!write, Files!Use
    <2>2. pused' \in [states : Nat, faults : Nat, sets : 0..FileSets]
      BY <2>1, FilesAssumption DEF StoreInv
    <2>3. fileTmp' \in 0..FileSets
      BY <1>1, <2>2 DEF Files!write
    <2> QED
      BY <1>1, <2>2, <2>3 DEF Files!write, StoreInv
  <1>2. CASE Files!Renamed
    BY <1>2, FilesAssumption DEF Files!Renamed, StoreInv
  <1>3. ASSUME NEW f \in {"states", "faults"}, NEW m, Files!Use(f, m)
        PROVE  pused' \in [states : Nat, faults : Nat, sets : 0..FileSets]
    BY <1>3 DEF Files!Use, StoreInv
  <1>4. CASE Files!SetFails \/ Files!HostDies
    BY <1>3, <1>4, FilesAssumption DEF Files!SetFails, Files!HostDies, StoreInv
  <1>5. CASE Files!StateChanges \/ Files!DownloadFails \/ Files!WriteFails
    BY <1>3, <1>5 DEF Files!StateChanges, Files!DownloadFails, Files!WriteFails, Files!kv, StoreInv
  <1>6. CASE \/ Files!ensurePlugin \/ Files!Downloaded \/ Files!Extract \/ Files!prune
             \/ UNCHANGED pvars
    BY <1>6 DEF Files!ensurePlugin, Files!Downloaded, Files!Extract, Files!ExtractSome,
                Files!ExtractReady, Files!ExtractRemove, Files!ExtractRename, Files!prune,
                Files!kv, pvars, Files!vars, StoreInv
  <1> QED
    BY <1>1, <1>2, <1>4, <1>5, <1>6 DEF Files!Next, Files!Packages, Files!Store

(* Wherever the host dies or the disk is full: what counts as installed is *)
(* whole, no process runs from a part of a package, and what gc.store.set  *)
(* answered for is stored (packages.js extract, store.js write).           *)
THEOREM FilesStayWhole == Files!Spec => []FilesAreWhole
  <1>1. PackagesInv /\ StoreInv => FilesAreWhole
    BY PlaceIsWhole, FilesAssumption
    DEF PackagesInv, StoreInv, FilesAreWhole, Files!InstalledIsWhole, Files!AckedIsStored
  <1>2. Files!Init => PackagesInv /\ StoreInv
    BY PackagesInit
  <1>3. PackagesInv /\ [Files!Next]_pvars => PackagesInv'
    BY PackagesStep
  <1>4. StoreInv /\ [Files!Next]_pvars => StoreInv'
    BY StoreStep
  <1> QED
    BY <1>1, <1>2, <1>3, <1>4, PTL DEF Files!Spec, pvars

-----------------------------------------------------------------------------
(* MQTT: the reference counts are the subscriptions, and with MQTT on each *)
(* subscription is to a granted topic.                                     *)

Mq == INSTANCE Mqtt WITH
    Plugins <- MqttPlugins, Filters <- MqttFilters, Configs <- MqttConfigs, Addrs <- MqttAddrs,
    Ids <- MqttIds, MaxSubs <- MqttSubs, MaxApplies <- MqttApplies, MaxLosses <- MqttLosses,
    MaxMoves <- MqttMoves, MaxBrowses <- MqttBrowses,
    cfg <- mcfg, files <- mfiles, broker <- mbroker, client <- mclient, retry <- mretry,
    loop <- mloop, wire <- mwire, atBroker <- matBroker, refused <- mrefused, subs <- msubs,
    filterRefs <- mfilterRefs, addrs <- maddrs, lastAddrs <- mlastAddrs, mdns <- mmdns,
    used <- mused

mvars == Mq!vars

(* A plugin's connection at the broker carries only granted filters        *)
(* (manager.js apply, refresh) and covers is exactly inclusion of the      *)
(* topics that match (topics.js); the counts of the plugins' subscriptions *)
(* and searches are true (manager.js, mdnsService.js).                     *)
OnlyGranted == Mq!OnlyGranted /\ Mq!RefsAreSubs /\ Mq!MdnsInUse /\ CoversIsInclusion

LEMMA MqCardinality == ASSUME NEW S PROVE Mq!Cardinality(S) = Cardinality(S)
  BY Zenon DEF Mq!Cardinality, Cardinality, Mq!IsFiniteSet, IsFiniteSet

\* a part of a finite set leaves the rest
LEMMA RestCounted ==
    ASSUME NEW S, IsFiniteSet(S), NEW T \in SUBSET S
    PROVE  /\ Cardinality(S \ T) = Cardinality(S) - Cardinality(T)
           /\ Cardinality(S) - Cardinality(T) \in Nat
  <1>1. IsFiniteSet(T) /\ IsFiniteSet(S \ T)
    BY FS_Subset
  <1>2. (S \ T) \cup T = S /\ (S \ T) \cap T = {}
    OBVIOUS
  <1>3. Cardinality(S) = Cardinality(S \ T) + Cardinality(T) - 0
    BY <1>1, <1>2, FS_Union, FS_EmptySet
  <1>4. Cardinality(S) \in Nat /\ Cardinality(T) \in Nat /\ Cardinality(S \ T) \in Nat
    BY <1>1, FS_CardinalityType
  <1> QED
    BY <1>3, <1>4

Settings == [on : {"yes", "no"}, topics : [MqttPlugins -> SUBSET MqttFilters]]
Subscriptions == [st : {"new", "live", "gone"}, p : MqttPlugins \cup {"-"},
                  f : MqttFilters \cup {"-"}]
LiveOn(f) == {i \in Mq!Live : msubs[i].f = f}

SubsTyped ==
    /\ msubs \in [MqttIds -> Subscriptions]
    /\ \A i \in Mq!Live : msubs[i].p \in MqttPlugins /\ msubs[i].f \in MqttFilters
    /\ mfilterRefs \in [MqttFilters -> Nat]
SubsCounted == \A f \in MqttFilters : mfilterRefs[f] = Cardinality(LiveOn(f))
SubsInv == mcfg \in Settings /\ SubsTyped /\ SubsCounted /\ Mq!OnlyGranted

LEMMA LiveFinite == ASSUME NEW f PROVE IsFiniteSet(LiveOn(f))
  <1>1. LiveOn(f) \in SUBSET MqttIds
    BY DEF LiveOn, Mq!Live
  <1> QED
    BY <1>1, SubsAssumption, FS_Subset

LEMMA SubsInit == Mq!Init => SubsInv
  <1> SUFFICES ASSUME Mq!Init PROVE SubsInv
    OBVIOUS
  <1>1. Mq!Live = {}
    BY DEF Mq!Init, Mq!Live
  <1>2. \A f : LiveOn(f) = {}
    BY <1>1 DEF LiveOn
  <1>3. SubsTyped
    BY <1>1 DEF Mq!Init, SubsTyped, Subscriptions
  <1>4. SubsCounted
    BY Zenon, <1>2, FS_EmptySet DEF Mq!Init, SubsCounted
  <1> QED
    BY Zenon, <1>3, <1>4 DEF SubsInv, Mq!Init, Mq!Off, Mq!OnlyGranted, Settings

\* removeSubs takes the given subscriptions and their counts
LEMMA SubsRemoved ==
    ASSUME SubsTyped, SubsCounted, NEW gone \in SUBSET Mq!Live, Mq!removeSubs(gone)
    PROVE  /\ SubsTyped' /\ SubsCounted' /\ Mq!Live' = Mq!Live \ gone
           /\ \A i \in Mq!Live \ gone : msubs'[i] = msubs[i]
  <1>1. /\ msubs' = [i \in MqttIds |-> IF i \in gone THEN [msubs[i] EXCEPT !.st = "gone"]
                                       ELSE msubs[i]]
        /\ mfilterRefs' = [f \in MqttFilters |->
                              mfilterRefs[f] - Cardinality({i \in gone : msubs[i].f = f})]
    BY MqCardinality DEF Mq!removeSubs
  <1>2. gone \in SUBSET MqttIds
    BY DEF Mq!Live
  <1>3. \A i \in MqttIds : IF i \in gone THEN msubs'[i] = [msubs[i] EXCEPT !.st = "gone"]
                                         ELSE msubs'[i] = msubs[i]
    BY <1>1
  <1>4. msubs' \in [MqttIds -> Subscriptions]
    BY <1>1 DEF SubsTyped, Subscriptions
  <1>5. \A i \in gone : msubs'[i].st = "gone"
    BY Zenon, <1>2, <1>3 DEF SubsTyped, Subscriptions
  <1>6. Mq!Live' = Mq!Live \ gone
    BY Zenon, <1>3, <1>5 DEF Mq!Live
  <1>7. \A i \in Mq!Live \ gone : msubs'[i] = msubs[i]
    BY Zenon, <1>3 DEF Mq!Live
  <1>8. ASSUME NEW f \in MqttFilters
        PROVE  mfilterRefs'[f] = Cardinality(LiveOn(f)') /\ mfilterRefs'[f] \in Nat
    <2>1. LiveOn(f)' = LiveOn(f) \ {i \in gone : msubs[i].f = f}
      BY <1>6, <1>7 DEF LiveOn
    <2>2. {i \in gone : msubs[i].f = f} \in SUBSET LiveOn(f)
      BY DEF LiveOn
    <2>3. mfilterRefs'[f] = Cardinality(LiveOn(f)) - Cardinality({i \in gone : msubs[i].f = f})
      BY <1>1 DEF SubsCounted
    <2>4. /\ Cardinality(LiveOn(f) \ {i \in gone : msubs[i].f = f})
               = Cardinality(LiveOn(f)) - Cardinality({i \in gone : msubs[i].f = f})
          /\ Cardinality(LiveOn(f)) - Cardinality({i \in gone : msubs[i].f = f}) \in Nat
      BY Zenon, <2>2, LiveFinite, RestCounted
    <2> QED
      BY <2>1, <2>3, <2>4
  <1>9. mfilterRefs' \in [MqttFilters -> Nat]
    BY <1>1, <1>8
  <1>10. SubsTyped'
    BY <1>4, <1>6, <1>7, <1>9 DEF SubsTyped
  <1> QED
    BY <1>6, <1>7, <1>8, <1>10 DEF SubsCounted

\* the first place of a filter, or one more
LEMMA SubsAdded ==
    ASSUME SubsInv, NEW i \in MqttIds, msubs[i].st = "new", mcfg.on = "yes",
           NEW p \in MqttPlugins, NEW f \in mcfg.topics[p],
           msubs' = [msubs EXCEPT ![i] = [st |-> "live", p |-> p, f |-> f]],
           mfilterRefs' = [mfilterRefs EXCEPT ![f] = @ + 1], mcfg' = mcfg
    PROVE  SubsInv'
  <1>1. f \in MqttFilters
    BY DEF SubsInv, Settings
  <1>2. /\ msubs' \in [MqttIds -> Subscriptions]
        /\ msubs'[i] = [st |-> "live", p |-> p, f |-> f]
        /\ \A j \in MqttIds \ {i} : msubs'[j] = msubs[j]
    BY <1>1 DEF SubsInv, SubsTyped, Subscriptions
  <1>3. Mq!Live' = Mq!Live \cup {i} /\ i \notin Mq!Live
    BY Zenon, <1>2 DEF Mq!Live
  <1>4. \A j \in Mq!Live : msubs'[j] = msubs[j]
    BY <1>2, <1>3 DEF Mq!Live
  <1>5. SubsTyped'
    BY <1>1, <1>2, <1>3, <1>4 DEF SubsInv, SubsTyped
  <1>6. ASSUME NEW g \in MqttFilters PROVE mfilterRefs'[g] = Cardinality(LiveOn(g)')
    <2>1. CASE g = f
      <3>1. LiveOn(g)' = LiveOn(g) \cup {i} /\ i \notin LiveOn(g)
        BY Zenon, <1>2, <1>3, <1>4, <2>1 DEF LiveOn
      <3>2. Cardinality(LiveOn(g) \cup {i}) = Cardinality(LiveOn(g)) + 1
        BY Zenon, <3>1, LiveFinite, FS_AddElement
      <3> QED
        BY <1>1, <2>1, <3>1, <3>2 DEF SubsInv, SubsTyped, SubsCounted
    <2>2. CASE g # f
      <3>1. LiveOn(g)' = LiveOn(g)
        BY <1>2, <1>3, <1>4, <2>2 DEF LiveOn
      <3>2. mfilterRefs'[g] = mfilterRefs[g]
        BY Zenon, <1>1, <2>2 DEF SubsInv, SubsTyped
      <3> QED
        BY Zenon, <3>1, <3>2 DEF SubsInv, SubsCounted
    <2> QED
      BY <2>1, <2>2
  <1>7. Mq!OnlyGranted'
    BY Zenon, <1>2, <1>3, <1>4 DEF SubsInv, Mq!OnlyGranted
  <1> QED
    BY Zenon, <1>5, <1>6, <1>7 DEF SubsInv, SubsCounted

\* refresh leaves what the settings grant
LEMMA SubsRefreshed ==
    ASSUME SubsInv, NEW c \in Settings, Mq!refresh(c), mcfg' = c
    PROVE  SubsInv'
  <1> DEFINE gone == {i \in Mq!Live : msubs[i].f \notin c.topics[msubs[i].p]}
  <1>1. /\ SubsTyped' /\ SubsCounted' /\ Mq!Live' = Mq!Live \ gone
        /\ \A i \in Mq!Live \ gone : msubs'[i] = msubs[i]
    BY Zenon, SubsRemoved DEF SubsInv, Mq!refresh
  <1> QED
    BY Zenon, <1>1 DEF SubsInv, Mq!OnlyGranted

LEMMA SubsStep == SubsInv /\ [Mq!Next]_mvars => SubsInv'
  <1> SUFFICES ASSUME SubsInv, [Mq!Next]_mvars PROVE SubsInv'
    OBVIOUS
  <1>1. ASSUME NEW i \in MqttIds, Mq!subscribe(i) PROVE SubsInv'
    <2>1. msubs[i].st = "new" /\ mcfg.on = "yes" /\ mcfg' = mcfg
      BY Zenon, <1>1 DEF Mq!subscribe, Mq!settings
    <2>2. PICK p \in MqttPlugins : \E f \in mcfg.topics[p] :
             /\ msubs' = [msubs EXCEPT ![i] = [st |-> "live", p |-> p, f |-> f]]
             /\ mfilterRefs' = [mfilterRefs EXCEPT ![f] = @ + 1]
      BY Zenon, <1>1 DEF Mq!subscribe
    <2> QED
      BY Zenon, <2>1, <2>2, SubsAdded
  <1>2. ASSUME NEW gone \in SUBSET Mq!Live, Mq!removeSubs(gone), mcfg' = mcfg PROVE SubsInv'
    BY Zenon, <1>2, SubsRemoved DEF SubsInv, Mq!OnlyGranted
  <1>3. ASSUME NEW i \in MqttIds, Mq!unsubscribe(i) PROVE SubsInv'
    BY <1>2, <1>3 DEF Mq!unsubscribe, Mq!settings
  <1>4. ASSUME NEW p \in MqttPlugins, Mq!dropPlugin(p) PROVE SubsInv'
    BY <1>2, <1>4 DEF Mq!dropPlugin, Mq!settings
  <1>5. ASSUME NEW c \in MqttConfigs, Mq!applyOn(c) PROVE SubsInv'
    <2>1. c \in Settings
      BY ConfigsAssumption DEF Settings
    <2> QED
      BY <1>5, <2>1, SubsRefreshed DEF Mq!applyOn
  <1>6. ASSUME NEW c \in MqttConfigs, Mq!applyOff(c) PROVE SubsInv'
    <2>1. c \in Settings
      BY ConfigsAssumption DEF Settings
    <2>2. msubs' = msubs /\ mfilterRefs' = mfilterRefs /\ mcfg' = c /\ c.on = "no"
      BY <1>6 DEF Mq!applyOff, Mq!plugin
    <2> QED
      BY <2>1, <2>2 DEF SubsInv, SubsTyped, SubsCounted, LiveOn, Mq!Live, Mq!OnlyGranted
  <1>7. CASE Mq!tick
    BY <1>7, SubsRefreshed DEF Mq!tick, SubsInv
  <1>8. ASSUME msubs' = msubs, mfilterRefs' = mfilterRefs, mcfg' = mcfg PROVE SubsInv'
    BY <1>8 DEF SubsInv, SubsTyped, SubsCounted, LiveOn, Mq!Live, Mq!OnlyGranted
  <1>9. CASE \/ Mq!Connected \/ Mq!ConnectFails \/ Mq!Resubscribe \/ Mq!RetryTimer
             \/ Mq!BrokerHandles \/ Mq!BrokerWatches \/ Mq!onClose \/ Mq!browse \/ Mq!stopBrowse
             \/ (\E as \in MqttAddrs : Mq!AddressesChange(as)) \/ UNCHANGED mvars
    BY <1>8, <1>9 DEF Mq!Connected, Mq!ConnectFails, Mq!Resubscribe, Mq!RetryTimer,
         Mq!BrokerHandles, Mq!BrokerWatches, Mq!onClose, Mq!browse, Mq!stopBrowse,
         Mq!AddressesChange, Mq!Lost, Mq!plugin, Mq!settings, Mq!service, mvars, Mq!vars
  <1> QED
    BY <1>1, <1>3, <1>4, <1>5, <1>6, <1>7, <1>9 DEF Mq!Next

(* The mDNS instance is open exactly while something needs it.             *)

Mdns == [open : {"yes", "no"}, announced : SUBSET UNION MqttAddrs, browses : Nat]
InUse(m) == m.browses > 0 \/ m.announced # {}
MdnsInv == mmdns \in Mdns /\ maddrs \in MqttAddrs /\ ((mmdns.open = "yes") <=> InUse(mmdns))

\* maybeClose leaves open what is in use
LEMMA Closed ==
    ASSUME NEW m \in Mdns, m.open = "yes" \/ (m.browses = 0 /\ m.announced = {})
    PROVE  /\ Mq!maybeClose(m) \in Mdns
           /\ (Mq!maybeClose(m).open = "yes") <=> InUse(Mq!maybeClose(m))
  <1>1. CASE m.browses = 0 /\ m.announced = {}
    BY <1>1 DEF Mdns, InUse, Mq!maybeClose
  <1>2. CASE ~(m.browses = 0 /\ m.announced = {})
    <2>1. Mq!maybeClose(m) = m
      BY <1>2 DEF Mq!maybeClose
    <2>2. m.browses \in Nat
      BY DEF Mdns
    <2> QED
      BY <1>2, <2>1, <2>2 DEF InUse
  <1> QED
    BY <1>1, <1>2

LEMMA Announced ==
    ASSUME MdnsInv, NEW as, as \in SUBSET UNION MqttAddrs, mmdns' = Mq!announce(as),
           maddrs' \in MqttAddrs
    PROVE  MdnsInv'
  <1>1. CASE as = {}
    <2> DEFINE m == [mmdns EXCEPT !.announced = {}]
    <2>1. /\ m \in Mdns /\ m.announced = {} /\ m.open = mmdns.open /\ m.browses = mmdns.browses
          /\ m.browses \in Nat
      BY DEF MdnsInv, Mdns
    <2>2. mmdns' = Mq!maybeClose(m)
      BY <1>1 DEF Mq!announce
    <2>3. m.open = "yes" \/ m.browses = 0
      BY <2>1 DEF MdnsInv, InUse, Mdns
    <2> HIDE DEF m
    <2>4. mmdns' \in Mdns /\ ((mmdns'.open = "yes") <=> InUse(mmdns'))
      BY <2>1, <2>2, <2>3, Closed
    <2> QED
      BY Zenon, <2>4 DEF MdnsInv
  <1>2. CASE as # {}
    <2>1. mmdns' = [mmdns EXCEPT !.announced = as, !.open = "yes"]
      BY Zenon, <1>2 DEF Mq!announce
    <2>2. mmdns' \in Mdns /\ mmdns'.open = "yes" /\ mmdns'.announced = as
      BY Zenon, <2>1 DEF MdnsInv, Mdns
    <2> QED
      BY Zenon, <1>2, <2>2 DEF MdnsInv, InUse
  <1> QED
    BY Zenon, <1>1, <1>2

LEMMA MdnsStep == MdnsInv /\ [Mq!Next]_mvars => MdnsInv'
  <1> SUFFICES ASSUME MdnsInv, [Mq!Next]_mvars PROVE MdnsInv'
    OBVIOUS
  <1>1. ASSUME mmdns' = mmdns, maddrs' \in MqttAddrs PROVE MdnsInv'
    BY <1>1 DEF MdnsInv
  <1>2. maddrs \in MqttAddrs /\ maddrs \in SUBSET UNION MqttAddrs /\ {} \in SUBSET UNION MqttAddrs
    BY DEF MdnsInv
  <1>3. ASSUME NEW c, Mq!refresh(c), maddrs' = maddrs PROVE MdnsInv'
    BY Zenon, <1>1, <1>2, <1>3, Announced DEF Mq!refresh
  <1>4. ASSUME NEW c \in MqttConfigs, Mq!applyOn(c) PROVE MdnsInv'
    BY <1>3, <1>4 DEF Mq!applyOn
  <1>5. CASE Mq!tick
    BY <1>3, <1>5 DEF Mq!tick
  <1>6. ASSUME NEW c \in MqttConfigs, Mq!applyOff(c) PROVE MdnsInv'
    BY <1>2, <1>6, Announced DEF Mq!applyOff
  <1>7. CASE Mq!browse
    <2>1. mmdns' = [mmdns EXCEPT !.open = "yes", !.browses = @ + 1] /\ maddrs' = maddrs
      BY <1>7 DEF Mq!browse
    <2>2. mmdns.browses + 1 \in Nat /\ mmdns.browses + 1 > 0
      BY DEF MdnsInv, Mdns
    <2>3. mmdns' \in Mdns /\ mmdns'.open = "yes" /\ mmdns'.browses = mmdns.browses + 1
      BY Zenon, <2>1, <2>2 DEF MdnsInv, Mdns
    <2> QED
      BY <2>1, <2>2, <2>3 DEF MdnsInv, InUse
  <1>8. CASE Mq!stopBrowse
    <2> DEFINE m == [mmdns EXCEPT !.browses = @ - 1]
    <2>1. mmdns' = Mq!maybeClose(m) /\ maddrs' = maddrs /\ mmdns.browses > 0
      BY <1>8 DEF Mq!stopBrowse
    <2>2. mmdns.browses - 1 \in Nat
      BY <2>1 DEF MdnsInv, Mdns
    <2>3. m \in Mdns /\ m.open = mmdns.open
      BY <2>2 DEF MdnsInv, Mdns
    <2>4. m.open = "yes"
      BY <2>1, <2>3 DEF MdnsInv, InUse
    <2> HIDE DEF m
    <2>5. mmdns' \in Mdns /\ ((mmdns'.open = "yes") <=> InUse(mmdns'))
      BY <2>1, <2>3, <2>4, Closed
    <2> QED
      BY <2>1, <2>5 DEF MdnsInv
  <1>9. ASSUME NEW as \in MqttAddrs, Mq!AddressesChange(as) PROVE MdnsInv'
    BY <1>1, <1>9 DEF Mq!AddressesChange, Mq!service, Mq!settings
  <1>10. CASE \/ (\E i \in MqttIds : Mq!subscribe(i) \/ Mq!unsubscribe(i))
              \/ (\E p \in MqttPlugins : Mq!dropPlugin(p))
    BY Zenon, <1>1, <1>2, <1>10 DEF Mq!subscribe, Mq!unsubscribe, Mq!dropPlugin, Mq!settings
  <1>11. CASE \/ Mq!Connected \/ Mq!ConnectFails \/ Mq!Resubscribe \/ Mq!RetryTimer
              \/ Mq!BrokerHandles \/ Mq!BrokerWatches \/ Mq!onClose \/ UNCHANGED mvars
    BY Zenon, <1>1, <1>2, <1>11 DEF Mq!Connected, Mq!ConnectFails, Mq!Resubscribe, Mq!RetryTimer,
         Mq!BrokerHandles, Mq!BrokerWatches, Mq!onClose, Mq!settings, Mq!service,
         mvars, Mq!vars
  <1> QED
    BY <1>4, <1>5, <1>6, <1>7, <1>8, <1>9, <1>10, <1>11 DEF Mq!Next

LEMMA MdnsInit == Mq!Init => MdnsInv
  <1> SUFFICES ASSUME Mq!Init PROVE MdnsInv
    OBVIOUS
  <1>1. mmdns = [open |-> "no", announced |-> {}, browses |-> 0] /\ maddrs \in MqttAddrs
    BY Zenon DEF Mq!Init
  <1>2. mmdns.open = "no" /\ mmdns.announced = {} /\ mmdns.browses = 0 /\ mmdns \in Mdns
    BY <1>1 DEF Mdns
  <1> QED
    BY <1>1, <1>2 DEF MdnsInv, InUse

\* what the two invariants say of MQTT
LEMMA MqttAgrees == SubsInv /\ MdnsInv => Mq!RefsAreSubs /\ Mq!MdnsInUse
  BY Zenon, MqCardinality DEF SubsInv, SubsCounted, LiveOn, Mq!RefsAreSubs, MdnsInv, InUse, Mq!MdnsInUse

(* A plugin's subscriptions are within its grant after every change of the *)
(* settings and the counts of subscriptions and searches are true          *)
(* (manager.js apply, refresh, removeSub; mdnsService.js maybeClose), and  *)
(* covers decides exactly the inclusion of topics (topics.js covers).      *)
THEOREM OnlyGrantedHolds == Spec /\ Mq!Spec => []OnlyGranted
  <1> DEFINE Inv == SubsInv /\ MdnsInv /\ validPluginFilter(own) /\ asked \in BoundedFilters \cup {<<>>}
  <1>1. Init /\ Mq!Init => Inv
    BY SubsInit, MdnsInit DEF Init
  <1>2. Inv /\ [Next]_vars /\ [Mq!Next]_mvars => Inv'
    BY SubsStep, MdnsStep DEF Next, Ask, vars
  <1>3. Inv => OnlyGranted
    <2> SUFFICES ASSUME Inv, asked # <<>> PROVE CoversIsInclusion
      BY MqttAgrees DEF OnlyGranted, SubsInv, CoversIsInclusion
    <2>1. asked \in BoundedFilters /\ validFilter(asked)
      BY DEF BoundedFilters
    <2>2. ASSUME NEW t \in Bounded(Levels), covers(own, asked), matches(asked, t)
          PROVE  matches(own, t)
      BY <2>1, <2>2, BoundedTopics, CoversSound
    <2> QED
      BY <2>1, <2>2, CoversComplete DEF CoversIsInclusion
  <1> QED
    BY <1>1, <1>2, <1>3, PTL DEF Spec, Mq!Spec, mvars
=============================================================================
