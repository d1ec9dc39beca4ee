------------------------------- MODULE Routes -------------------------------
(***************************************************************************)
(* What the gateway listens on for its configuration, side by side: the    *)
(* poller and its store, the three appliers of a configuration (L4 proxy,  *)
(* egress proxy, near manager) and the sockets of the DNS filter.  What    *)
(* they promise together, and the proofs of it for all configurations,     *)
(* numbers of servers, addresses and runs of the DNS loop.                 *)
(*                                                                         *)
(* The appliers are taken one call of setRoutes or apply at a time (c1).   *)
(***************************************************************************)
EXTENDS ConfigSync, Sequences, FiniteSets, FiniteSetTheorems, WellFoundedInduction, TLAPS

CONSTANTS
    c1,                                         \* the setRoutes or apply call under way
    L4Ids, L4Ports, L4Targets, L4Configs,       \* routes and configurations of the L4 proxy
    L4Servers, L4Changes, L4Foreign, L4Conns,   \* its bounds
    EgressIds, EgressPorts, EgressSofts, EgressConfigs,
    EgressServers, EgressChanges, EgressForeign,
    Redirects, None, NearChanges, NearDeaths, NearRestarts,
    DnsAddrs, DnsRuns, DnsApplies, DnsChanges, DnsForeign

L4Routes == [id : L4Ids, port : L4Ports, target : L4Targets]
EgressRoutes == [id : EgressIds, bind : EgressPorts, soft : EgressSofts]

ASSUME L4ConfigsType == L4Configs \subseteq Seq(L4Routes)
ASSUME L4ServersType == L4Servers \in Nat
ASSUME EgressConfigsType == EgressConfigs \subseteq Seq(EgressRoutes)
ASSUME EgressServersType == EgressServers \in Nat
ASSUME DnsRunsType == {"free", "foreign", "bound"} \cap DnsRuns = {}

VARIABLES
    l4srv, l4listeners, l4call, l4overlap, l4store, l4check, l4foreign, l4used,
    esrv, elisteners, estatus, ecall, eoverlap, estore, eforeign, eused,
    nstore, nactive, nlastSig, ncall, nrules, ndaemon, nconfFile, nused,
    dnsOn, dnsTimer, wanted, bound, socket, rec, dnsUsed

-----------------------------------------------------------------------------
(* Proofs about ConfigSync for every set of configurations, every delay    *)
(* and every bound: its type invariant, and that the poller never falls    *)
(* asleep while the gateway is up.                                         *)

\* the provers that a step names no other for
USE SMTT(30), Z3T(30), Zenon

(* A backoff is a positive delay: a timer armed with it is a pending timer. *)
LEMMA BackoffPositive == \A f \in Nat : computeBackoff(f) \in Nat \ {0}
  BY DelayAssumption DEF computeBackoff

(* The variables of poller.js, configStore.js and the server keep their    *)
(* types in every reachable state.                                         *)
THEOREM TypeCorrect == Spec => []TypeOK
<1>1. Init => TypeOK
  <2> SUFFICES ASSUME Init PROVE TypeOK
    OBVIOUS
  <2>1. debounce \in BOOLEAN /\ unseen \in BOOLEAN
    BY Zenon DEF Init
  <2>2. used \in [changes : Nat, errors : Nat, pushes : Nat, restarts : Nat]
    BY DEF Init
  <2> QED
    BY <2>1, <2>2 DEF Init, TypeOK
<1>2. TypeOK /\ [Next]_vars => TypeOK'
  <2> SUFFICES ASSUME TypeOK, [Next]_vars PROVE TypeOK'
    OBVIOUS
  <2> USE HashAssumption, DelayAssumption
  <2>1. CASE InitialPoll
    BY <2>1 DEF InitialPoll, _runOnce, running, TypeOK
  <2>2. CASE TimerFires
    BY <2>2 DEF TimerFires, _runOnce, running, TypeOK
  <2>3. CASE DebounceFires
    BY Zenon, <2>3 DEF DebounceFires, _runOnce, running, TypeOK
  <2>4. CASE triggerImmediate
    BY <2>4 DEF triggerImmediate, poll, TypeOK
  <2>5. CASE ServerAnswers
    BY Zenon, <2>5 DEF ServerAnswers, TypeOK
  <2>6. CASE CheckReturns
    BY <2>6 DEF CheckReturns, PollSucceeds, _scheduleNext, TypeOK
  <2>7. CASE FetchReturns
    BY <2>7 DEF FetchReturns, PollSucceeds, replaceConfig, _scheduleNext, TypeOK
  <2>8. CASE PollFails
    <3>1. computeBackoff(fails + 1) \in Nat
      BY BackoffPositive DEF TypeOK
    <3> QED
      BY <2>8, <3>1 DEF PollFails, _scheduleNext, TypeOK
  <2>9. CASE ServerChanges
    BY <2>9 DEF ServerChanges, poll, TypeOK
  <2>10. CASE stop
    BY Zenon, <2>10 DEF stop, poll, TypeOK
  <2>11. CASE Restart
    <3>1. debounce' \in BOOLEAN /\ unseen' \in BOOLEAN
      BY Zenon, <2>11 DEF Restart
    <3>2. used' \in [changes : Nat, errors : Nat, pushes : Nat, restarts : Nat]
      BY <2>11 DEF Restart, TypeOK
    <3> QED
      BY <2>11, <3>1, <3>2 DEF Restart, TypeOK
  <2>12. CASE UNCHANGED vars
    BY <2>12 DEF vars, TypeOK
  <2> QED
    BY <2>1, <2>2, <2>3, <2>4, <2>5, <2>6, <2>7, <2>8, <2>9, <2>10, <2>11,
       <2>12 DEF Next
<1> QED
  BY <1>1, <1>2, PTL DEF Spec

(* While the gateway is up, a poll runs or the timer of the next one is    *)
(* pending (poller.js _runOnce and _scheduleNext, bootstrap.js start).     *)
THEOREM PollerNeverAsleep == Spec => []NeverAsleep
<1>1. Init => NeverAsleep
  BY DEF Init, NeverAsleep
<1>2. TypeOK /\ NeverAsleep /\ [Next]_vars => NeverAsleep'
  <2> SUFFICES ASSUME TypeOK, NeverAsleep, [Next]_vars PROVE NeverAsleep'
    OBVIOUS
  <2> USE DelayAssumption DEF NeverAsleep, running
  <2>1. CASE InitialPoll
    BY <2>1 DEF InitialPoll, _runOnce
  <2>2. CASE TimerFires
    BY <2>2 DEF TimerFires, _runOnce
  <2>3. CASE DebounceFires
    BY <2>3 DEF DebounceFires, _runOnce
  <2>4. CASE triggerImmediate
    BY <2>4 DEF triggerImmediate, poll
  <2>5. CASE ServerAnswers
    BY <2>5 DEF ServerAnswers
  <2>6. CASE CheckReturns
    BY <2>6 DEF CheckReturns, PollSucceeds, _scheduleNext
  <2>7. CASE FetchReturns
    BY <2>7 DEF FetchReturns, PollSucceeds, _scheduleNext
  <2>8. CASE PollFails
    <3>1. computeBackoff(fails + 1) # 0
      BY BackoffPositive DEF TypeOK
    <3> QED
      BY <2>8, <3>1 DEF PollFails, _scheduleNext
  <2>9. CASE ServerChanges
    BY <2>9 DEF ServerChanges, poll
  <2>10. CASE stop
    BY <2>10 DEF stop
  <2>11. CASE Restart
    BY <2>11 DEF Restart
  <2>12. CASE UNCHANGED vars
    BY <2>12 DEF vars
  <2> QED
    BY <2>1, <2>2, <2>3, <2>4, <2>5, <2>6, <2>7, <2>8, <2>9, <2>10, <2>11,
       <2>12 DEF Next
<1> QED
  BY <1>1, <1>2, TypeCorrect, PTL DEF Spec

\* fewer numbers come before a smaller one
LEMMA BeforeGrows ==
  ASSUME NEW S \in SUBSET Nat, NEW x \in S, NEW z \in S, x < z
  PROVE  /\ {y \in S : y < x} \in SUBSET {y \in S : y < z}
         /\ x \in {y \in S : y < z} /\ x \notin {y \in S : y < x}
<1>1. x \in Nat /\ z \in Nat /\ ~(x < x)
  OBVIOUS
<1>2. ASSUME NEW y \in S, y < x PROVE y < z
  <2>1. y \in Nat
    OBVIOUS
  <2> QED  BY <1>1, <1>2, <2>1
<1> QED  BY Zenon, <1>1, <1>2

\* a finite set of numbers has a least one
LEMMA LeastOf ==
  ASSUME NEW S \in SUBSET Nat, IsFiniteSet(S), S # {}
  PROVE  \E x \in S : \A y \in S : x <= y
<1> DEFINE Before(x) == {y \in S : y < x}
           T == {Before(x) : x \in S}
<1>1. T \subseteq FiniteSubsetsOf(S) /\ T # {}
  <2>1. ASSUME NEW x \in S PROVE Before(x) \in FiniteSubsetsOf(S)
    <3>1. Before(x) \in SUBSET S
      OBVIOUS
    <3>2. IsFiniteSet(Before(x))
      BY <3>1, FS_Subset
    <3> QED  BY <3>1, <3>2 DEF FiniteSubsetsOf
  <2> QED  BY Zenon, <2>1
<1>2. PICK B \in T : \A C \in T : ~(<<C, B>> \in StrictSubsetOrdering(S))
  BY <1>1, FS_StrictSubsetOrderingWellFounded, WFMin, Zenon
<1>3. PICK x \in S : B = Before(x)
  OBVIOUS
<1>4. ASSUME NEW y \in S, y < x PROVE FALSE
  <2>1. Before(y) \subseteq Before(x) /\ y \in Before(x) /\ y \notin Before(y)
    BY <1>4, BeforeGrows
  <2>2. <<Before(y), Before(x)>> \in StrictSubsetOrdering(S)
    BY <2>1 DEF StrictSubsetOrdering
  <2> QED  BY Zenon, <1>2, <1>3, <2>2
<1>5. ASSUME NEW y \in S PROVE x <= y
  BY <1>4
<1> QED  BY <1>5

\* the first of some indices of a sequence is one of them
LEMMA FirstIndex ==
  ASSUME NEW R, NEW s \in Seq(R), NEW S \in SUBSET DOMAIN s, S # {}
  PROVE  (CHOOSE i \in S : \A j \in S : i <= j) \in S
<1>1. DOMAIN s = 1..Len(s) /\ Len(s) \in Nat
  OBVIOUS
<1>2. IsFiniteSet(1..Len(s))
  BY <1>1, FS_Interval
<1>3. IsFiniteSet(S) /\ S \in SUBSET Nat
  BY <1>1, <1>2, FS_Subset
<1>4. \E i \in S : \A j \in S : i <= j
  BY <1>3, LeastOf
<1> QED  BY <1>4

\* what is left of a sequence from one of its indices on
LEMMA RestOf ==
  ASSUME NEW R, NEW s \in Seq(R), NEW i \in DOMAIN s
  PROVE  /\ SubSeq(s, i, Len(s)) \in Seq(R) /\ SubSeq(s, i, Len(s)) # <<>>
         /\ \A k \in DOMAIN SubSeq(s, i, Len(s)) :
               \E j \in DOMAIN s : SubSeq(s, i, Len(s))[k] = s[j]
<1>1. DOMAIN s = 1..Len(s) /\ Len(s) \in Nat /\ i \in 1..Len(s)
  OBVIOUS
<1>2. PICK t : t = SubSeq(s, i, Len(s))
  BY Zenon
<1>3. Len(t) = Len(s) - i + 1 /\ t \in Seq(R)
  BY <1>1, <1>2
<1>4. ASSUME NEW k \in 1..(Len(s) - i + 1)
      PROVE  t[k] = s[i + k - 1] /\ i + k - 1 \in 1..Len(s)
  BY <1>1, <1>2
<1>5. DOMAIN t = 1..(Len(s) - i + 1) /\ Len(t) > 0
  BY <1>1, <1>3
<1>6. t # <<>>
  BY <1>5
<1>7. \A k \in DOMAIN t : \E j \in DOMAIN s : t[k] = s[j]
  BY <1>1, <1>4, <1>5
<1> QED  BY <1>2, <1>3, <1>6, <1>7, Zenon

\* a server of NetServers
SrvShape(s) == s = [st |-> s.st, port |-> s.port, route |-> s.route, conn |-> s.conn]

-----------------------------------------------------------------------------
(* The egress proxy, one call of setRoutes at a time. *)
Egress == INSTANCE EgressProxy WITH
    Ids <- EgressIds, Ports <- EgressPorts, Softs <- EgressSofts,
    Configs <- EgressConfigs, Calls <- {c1},
    MaxServers <- EgressServers, MaxChanges <- EgressChanges, MaxForeign <- EgressForeign,
    srv <- esrv, listeners <- elisteners, status <- estatus, call <- ecall,
    overlap <- eoverlap, store <- estore, foreign <- eforeign, used <- eused

EOwn ==
    /\ esrv = [s \in Egress!Slots |-> esrv[s]] /\ \A s \in Egress!Slots : SrvShape(esrv[s])
    /\ eoverlap \subseteq Egress!Slots
    /\ \A i \in DOMAIN elisteners : elisteners[i] \in Egress!Slots \ eoverlap
    /\ \A i, j \in DOMAIN elisteners : elisteners[i] = elisteners[j] => i = j

\* the status names the address the listener has
EStatus ==
    \A i \in DOMAIN estatus : estatus[i].bound =>
        i \in DOMAIN elisteners /\ esrv[elisteners[i]].port = estatus[i].bind

EReplaced(id, L) == IF id \in DOMAIN L THEN L[id] ELSE 0

ECall(k) ==
    \/ k = Egress!IdleCall /\ DOMAIN estatus \subseteq Egress!RouteIds(estore)
    \/ /\ k.pc = "close" /\ k.routes = estore
       /\ k.id \in DOMAIN elisteners /\ k.srv = elisteners[k.id]
       /\ esrv[k.srv].st # "listening"
    \/ /\ k.pc = "listen" /\ k.todo \in Seq(EgressRoutes) /\ k.todo # <<>>
       /\ Egress!RouteIds(k.todo) \subseteq Egress!RouteIds(estore)
       /\ DOMAIN estatus \subseteq Egress!RouteIds(estore)
       /\ k.srv = EReplaced(Head(k.todo).id, elisteners)

EUp ==
    \A i \in DOMAIN elisteners :
        \/ esrv[elisteners[i]].st = "listening"
        \/ ecall[c1].pc = "close" /\ ecall[c1].id = i

EInv ==
    /\ EOwn /\ EStatus /\ ecall = [c \in {c1} |-> ecall[c1]] /\ ECall(ecall[c1]) /\ EUp
    /\ Egress!NoLeakedServer /\ estore \in Seq(EgressRoutes)

\* an update in place leaves a server where it is
LEMMA ESoft ==
    ASSUME NEW t, NEW n, NEW L, NEW S, \A s \in Egress!Slots : SrvShape(S[s]),
           NEW U, U = Egress!SoftUpdated(t, n, L, S)
    PROVE  /\ U = [s \in Egress!Slots |-> U[s]]
           /\ \A s \in Egress!Slots : SrvShape(U[s]) /\ U[s].st = S[s].st /\ U[s].port = S[s].port
  <1>2. U = [s \in Egress!Slots |-> U[s]]
    BY DEF Egress!SoftUpdated
  <1>3. ASSUME NEW s \in Egress!Slots
        PROVE  SrvShape(U[s]) /\ U[s].st = S[s].st /\ U[s].port = S[s].port
    <2>1. PICK r : U[s] = S[s] \/ U[s] = [S[s] EXCEPT !.route = r]
      BY Zenon DEF Egress!SoftUpdated
    <2>2. PICK b : b = S[s]
      OBVIOUS
    <2>3. b = [st |-> b.st, port |-> b.port, route |-> b.route, conn |-> b.conn]
      BY <2>2 DEF SrvShape
    <2>4. PICK x : x = [b EXCEPT !.route = r]
      BY Zenon
    <2>5. x = [st |-> b.st, port |-> b.port, route |-> r, conn |-> b.conn]
      BY <2>3, <2>4
    <2>6. SrvShape(x) /\ x.st = b.st /\ x.port = b.port
      BY <2>5 DEF SrvShape
    <2> QED
      BY Zenon, <2>1, <2>2, <2>4, <2>6
  <1> QED
    BY <1>2, <1>3

\* the add loop of setRoutes
LEMMA EAdds ==
    ASSUME ecall = [c \in {c1} |-> ecall[c1]], NEW t \in Seq(EgressRoutes),
           Egress!RouteIds(t) \subseteq Egress!RouteIds(estore'),
           DOMAIN estatus' \subseteq Egress!RouteIds(estore'),
           NEW S, \A s \in Egress!Slots : SrvShape(S[s]),
           Egress!AddLoop(c1, t, elisteners', S)
    PROVE  /\ ecall' = [c \in {c1} |-> ecall'[c1]] /\ ECall(ecall[c1])' /\ ecall'[c1].pc # "close"
           /\ esrv' = [s \in Egress!Slots |-> esrv'[s]]
           /\ \A s \in Egress!Slots :
                 SrvShape(esrv'[s]) /\ esrv'[s].st = S[s].st /\ esrv'[s].port = S[s].port
  <1>1. PICK open \in SUBSET DOMAIN t : open = Egress!ToBind(t, elisteners', S)
    BY Zenon DEF Egress!ToBind
  <1>2. PICK m : m = Egress!First(open)
    OBVIOUS
  <1>3. PICK n, d :
           /\ d = IF open = {} THEN Egress!IdleCall
                  ELSE [pc |-> "listen", todo |-> SubSeq(t, m, Len(t)), routes |-> <<>>,
                        id |-> t[m].id, srv |-> EReplaced(t[m].id, elisteners')]
           /\ esrv' = Egress!SoftUpdated(t, n, elisteners', S)
           /\ ecall' = [ecall EXCEPT ![c1] = d]
    <2>1. CASE open = {}
      <3>1. /\ esrv' = Egress!SoftUpdated(t, Len(t) + 1 - 1, elisteners', S)
            /\ ecall' = [ecall EXCEPT ![c1] = Egress!IdleCall]
        BY <1>1, <2>1 DEF Egress!AddLoop
      <3> QED
        BY Zenon, <2>1, <3>1
    <2>2. CASE open # {}
      <3>1. /\ esrv' = Egress!SoftUpdated(t, m - 1, elisteners', S)
            /\ ecall' = [ecall EXCEPT ![c1] =
                  [pc |-> "listen", todo |-> SubSeq(t, m, Len(t)), routes |-> <<>>,
                   id |-> t[m].id, srv |-> EReplaced(t[m].id, elisteners')]]
        BY Zenon, <1>1, <1>2, <2>2 DEF Egress!AddLoop, EReplaced
      <3> QED
        BY Zenon, <2>2, <3>1
    <2> QED
      BY <2>1, <2>2
  <1>4. /\ esrv' = [s \in Egress!Slots |-> esrv'[s]]
        /\ \A s \in Egress!Slots :
              SrvShape(esrv'[s]) /\ esrv'[s].st = S[s].st /\ esrv'[s].port = S[s].port
    <2>1. PICK U : U = esrv'
      OBVIOUS
    <2> QED
      BY <1>3, <2>1, ESoft
  <1>5. ecall' = [c \in {c1} |-> ecall'[c1]] /\ ecall'[c1] = d
    BY Zenon, <1>3
  <1>6. CASE open = {}
    BY <1>3, <1>4, <1>5, <1>6 DEF ECall, Egress!IdleCall
  <1>7. CASE open # {}
    <2>1. m \in DOMAIN t
      BY <1>2, <1>7, FirstIndex DEF Egress!First
    <2>2. PICK u : u = SubSeq(t, m, Len(t))
      BY Zenon
    <2>3. /\ u \in Seq(EgressRoutes) /\ u # <<>>
          /\ \A i \in DOMAIN u : \E j \in DOMAIN t : u[i] = t[j]
      BY Zenon, <2>1, <2>2, RestOf
    <2>4. Head(u) = t[m]
      BY <2>1, <2>2
    <2>5. Egress!RouteIds(u) \subseteq Egress!RouteIds(estore')
      BY ZenonT(30), <2>3 DEF Egress!RouteIds
    <2>6. d.pc = "listen" /\ d.todo = u /\ d.srv = EReplaced(Head(u).id, elisteners')
      BY Zenon, <1>3, <1>7, <2>2, <2>4
    <2>7. ECall(ecall[c1])' /\ ecall'[c1].pc # "close"
      BY <1>5, <2>3, <2>5, <2>6 DEF ECall, EReplaced
    <2> QED
      BY <1>4, <1>5, <2>7
  <1> QED
    BY <1>6, <1>7

LEMMA ERemoves ==
    ASSUME ecall = [c \in {c1} |-> ecall[c1]],
           esrv = [s \in Egress!Slots |-> esrv[s]], \A s \in Egress!Slots : SrvShape(esrv[s]),
           eoverlap' = eoverlap, eoverlap \subseteq Egress!Slots, estore' \in Seq(EgressRoutes),
           \A i \in DOMAIN elisteners' : /\ elisteners'[i] \in Egress!Slots \ eoverlap
                                         /\ esrv[elisteners'[i]].st = "listening",
           \A i, j \in DOMAIN elisteners' : elisteners'[i] = elisteners'[j] => i = j,
           \A s \in Egress!Slots : esrv[s].st = "listening" =>
               s \in eoverlap \/ \E i \in DOMAIN elisteners' : elisteners'[i] = s,
           NEW T, \A i \in DOMAIN T : T[i].bound =>
               i \in DOMAIN elisteners' /\ esrv[elisteners'[i]].port = T[i].bind,
           Egress!RemoveLoop(c1, estore', elisteners', T)
    PROVE  EInv'
  <1>1. ASSUME NEW i \in DOMAIN elisteners', estatus' = T,
               ecall' = [ecall EXCEPT ![c1] =
                  [pc |-> "close", todo |-> <<>>, routes |-> estore',
                   id |-> i, srv |-> elisteners'[i]]],
               esrv' = Egress!Closed(esrv, elisteners'[i])
        PROVE  EInv'
    <2>1. PICK z \in Egress!Slots : z = elisteners'[i]
      OBVIOUS
    <2>2. /\ esrv' = [s \in Egress!Slots |-> esrv'[s]] /\ esrv'[z].st = "closed" /\ SrvShape(esrv'[z])
          /\ esrv'[z].port = esrv[z].port
          /\ \A s \in Egress!Slots \ {z} : esrv'[s] = esrv[s]
      BY <1>1, <2>1 DEF Egress!Closed, SrvShape
    <2>3. EOwn'
      BY Zenon, <2>2 DEF EOwn
    <2>4. /\ ecall' = [c \in {c1} |-> ecall'[c1]] /\ ecall'[c1].pc = "close"
          /\ ecall'[c1].routes = estore' /\ ecall'[c1].id = i /\ ecall'[c1].srv = z
      BY Zenon, <1>1, <2>1
    <2>5. ECall(ecall[c1])' /\ EUp'
      BY <2>1, <2>2, <2>4 DEF ECall, EUp
    <2>6. Egress!NoLeakedServer'
      BY <2>2 DEF Egress!NoLeakedServer
    <2>7. EStatus'
      BY <1>1, <2>2 DEF EStatus
    <2> QED
      BY <2>3, <2>4, <2>5, <2>6, <2>7 DEF EInv
  <1>2. ASSUME estatus' = Egress!Pruned(estore', T),
               Egress!AddLoop(c1, estore', elisteners', esrv)
        PROVE  EInv'
    <2>1. /\ DOMAIN estatus' \subseteq Egress!RouteIds(estore')
          /\ \A i \in DOMAIN estatus' : i \in DOMAIN T /\ estatus'[i] = T[i]
      BY <1>2 DEF Egress!Pruned, Egress!Without
    <2>2. /\ ecall' = [c \in {c1} |-> ecall'[c1]] /\ ECall(ecall[c1])'
          /\ esrv' = [s \in Egress!Slots |-> esrv'[s]]
          /\ \A s \in Egress!Slots :
                SrvShape(esrv'[s]) /\ esrv'[s].st = esrv[s].st /\ esrv'[s].port = esrv[s].port
      BY <1>2, <2>1, EAdds
    <2>3. EOwn' /\ EUp' /\ Egress!NoLeakedServer'
      BY ZenonT(30), <2>2 DEF EOwn, EUp, Egress!NoLeakedServer
    <2>4. EStatus'
      BY <2>1, <2>2 DEF EStatus
    <2> QED
      BY <2>2, <2>3, <2>4 DEF EInv
  <1> QED
    BY <1>1, <1>2 DEF Egress!RemoveLoop

LEMMA EFree ==
    ASSUME NEW S, NEW R, Egress!FreeSlots(S, R) # {}
    PROVE  Egress!FreeSlot(S, R) \in Egress!FreeSlots(S, R)
  <1>1. Egress!FreeSlots(S, R) \subseteq Egress!Slots
    BY DEF Egress!FreeSlots
  <1>2. IsFiniteSet(Egress!Slots) /\ Egress!Slots \subseteq Nat
    BY EgressServersType, FS_Interval DEF Egress!Slots
  <1>3. IsFiniteSet(Egress!FreeSlots(S, R))
    BY <1>1, <1>2, FS_Subset
  <1>4. \E x \in Egress!FreeSlots(S, R) : \A y \in Egress!FreeSlots(S, R) : x <= y
    BY Zenon, <1>1, <1>2, <1>3, LeastOf
  <1> QED
    BY <1>4 DEF Egress!FreeSlot

\* what a call that awaits a listen() relies on
LEMMA EListens ==
    ASSUME EInv, NEW k, k = ecall[c1], k.pc = "listen"
    PROVE  /\ k.todo \in Seq(EgressRoutes) /\ Head(k.todo) \in EgressRoutes
           /\ Head(k.todo).id \in Egress!RouteIds(estore)
           /\ Tail(k.todo) \in Seq(EgressRoutes)
           /\ Egress!RouteIds(Tail(k.todo)) \subseteq Egress!RouteIds(estore)
           /\ DOMAIN estatus \subseteq Egress!RouteIds(estore)
           /\ k.srv = EReplaced(Head(k.todo).id, elisteners)
           /\ \A i \in DOMAIN elisteners : esrv[elisteners[i]].st = "listening"
  <1>1. /\ k.todo \in Seq(EgressRoutes) /\ k.todo # <<>>
        /\ Egress!RouteIds(k.todo) \subseteq Egress!RouteIds(estore)
        /\ DOMAIN estatus \subseteq Egress!RouteIds(estore)
        /\ k.srv = EReplaced(Head(k.todo).id, elisteners)
    BY DEF EInv, ECall, Egress!IdleCall
  <1>2. Tail(k.todo) \in Seq(EgressRoutes) /\ Egress!RouteIds(Tail(k.todo)) \subseteq Egress!RouteIds(k.todo)
    BY <1>1 DEF Egress!RouteIds
  <1>3. Head(k.todo) \in EgressRoutes /\ Head(k.todo).id \in Egress!RouteIds(k.todo)
    BY <1>1 DEF Egress!RouteIds
  <1>4. \A i \in DOMAIN elisteners : esrv[elisteners[i]].st = "listening"
    BY DEF EInv, EUp
  <1> QED
    BY <1>1, <1>2, <1>3, <1>4

LEMMA EBinds == EInv /\ Egress!Bound(c1) => EInv'
  <1> SUFFICES ASSUME EInv, Egress!Bound(c1) PROVE EInv'
    OBVIOUS
  <1>1. PICK k : k = ecall[c1]
    OBVIOUS
  <1>2. PICK r : r = Head(k.todo)
    OBVIOUS
  <1>3. PICK refs : refs = {elisteners[i] : i \in DOMAIN elisteners} \cup eoverlap \cup {ecall[d].srv : d \in {c1}}
    BY Zenon
  <1>4. PICK s : s = Egress!FreeSlot(esrv, refs)
    OBVIOUS
  <1>5. PICK S : S = Egress!Listening(Egress!Recycled(esrv, refs), s, r.bind, r)
    OBVIOUS
  <1>6. /\ k.pc = "listen" /\ Egress!FreeSlots(esrv, refs) # {}
        /\ elisteners' = Egress!With(elisteners, r.id, s)
        /\ estatus' = Egress!With(estatus, r.id, [bound |-> TRUE, bind |-> r.bind])
        /\ eoverlap' = eoverlap \cup ({k.srv} \ {0})
        /\ Egress!AddLoop(c1, Tail(k.todo), elisteners', S)
        /\ estore' = estore
    BY Zenon, <1>1, <1>2, <1>3, <1>4, <1>5 DEF Egress!Bound, Egress!OverlapOf
  <1>7. /\ r.id \in Egress!RouteIds(estore) /\ Tail(k.todo) \in Seq(EgressRoutes)
        /\ Egress!RouteIds(Tail(k.todo)) \subseteq Egress!RouteIds(estore)
        /\ DOMAIN estatus \subseteq Egress!RouteIds(estore)
        /\ k.srv = EReplaced(r.id, elisteners)
        /\ \A i \in DOMAIN elisteners : esrv[elisteners[i]].st = "listening"
    BY Zenon, <1>1, <1>2, <1>6, EListens
  <1>8. /\ s \in Egress!Slots /\ s \notin eoverlap /\ s # k.srv
        /\ \A i \in DOMAIN elisteners : elisteners[i] # s
    <2>1. s \in Egress!FreeSlots(esrv, refs)
      BY <1>4, <1>6, EFree
    <2> QED
      BY <1>1, <1>3, <2>1 DEF Egress!FreeSlots
  <1>9. /\ \A t \in Egress!Slots : SrvShape(S[t])
        /\ S[s].st = "listening" /\ S[s].port = r.bind
        /\ \A t \in Egress!Slots \ {s} : S[t].st = "listening" <=> esrv[t].st = "listening"
        /\ \A t \in refs \cap Egress!Slots : S[t] = esrv[t]
    <2>1. PICK b : b = Egress!Recycled(esrv, refs)
      OBVIOUS
    <2>2. /\ b = [t \in Egress!Slots |-> b[t]]
          /\ \A t \in Egress!Slots : SrvShape(b[t]) /\ (b[t].st = "listening" <=> esrv[t].st = "listening")
          /\ \A t \in refs \cap Egress!Slots : b[t] = esrv[t]
      BY ZenonT(30), <2>1 DEF EInv, EOwn, Egress!Recycled, Egress!FreeSlots, Egress!Unused, SrvShape
    <2>3. S = [b EXCEPT ![s] = [st |-> "listening", port |-> r.bind, route |-> r, conn |-> FALSE]]
      BY <1>5, <2>1 DEF Egress!Listening
    <2>4. s \notin refs
      BY <1>1, <1>3, <1>8
    <2> QED
      BY Zenon, <1>8, <2>2, <2>3, <2>4 DEF SrvShape
  <1>10. /\ DOMAIN elisteners' = DOMAIN elisteners \cup {r.id} /\ elisteners'[r.id] = s
         /\ \A i \in DOMAIN elisteners \ {r.id} : elisteners'[i] = elisteners[i]
         /\ DOMAIN estatus' = DOMAIN estatus \cup {r.id}
         /\ estatus'[r.id].bind = r.bind
         /\ \A i \in DOMAIN estatus \ {r.id} : estatus'[i] = estatus[i]
    BY <1>6 DEF Egress!With
  <1>11. k.srv = IF r.id \in DOMAIN elisteners THEN elisteners[r.id] ELSE 0
    BY <1>7 DEF EReplaced
  <1>12. 0 \notin Egress!Slots
    BY DEF Egress!Slots
  <1>13. /\ ecall' = [c \in {c1} |-> ecall'[c1]] /\ ECall(ecall[c1])' /\ ecall'[c1].pc # "close"
         /\ esrv' = [t \in Egress!Slots |-> esrv'[t]]
         /\ \A t \in Egress!Slots :
               SrvShape(esrv'[t]) /\ esrv'[t].st = S[t].st /\ esrv'[t].port = S[t].port
    <2>1. DOMAIN estatus' \subseteq Egress!RouteIds(estore')
      BY Zenon, <1>6, <1>7, <1>10
    <2>2. ecall = [c \in {c1} |-> ecall[c1]]
      BY DEF EInv
    <2> QED
      BY ZenonT(30), <1>6, <1>7, <1>9, <2>1, <2>2, EAdds
  <1>14. EOwn'
    <2>1. eoverlap' \subseteq Egress!Slots
      BY <1>6, <1>11 DEF EInv, EOwn
    <2>2. \A i \in DOMAIN elisteners' : elisteners'[i] \in Egress!Slots \ eoverlap'
      BY <1>6, <1>8, <1>10, <1>11 DEF EInv, EOwn
    <2>3. \A i, j \in DOMAIN elisteners' : elisteners'[i] = elisteners'[j] => i = j
      BY <1>8, <1>10 DEF EInv, EOwn
    <2> QED
      BY <1>13, <2>1, <2>2, <2>3 DEF EOwn
  <1>15. Egress!NoLeakedServer'
    <2>1. \A t \in Egress!Slots \ {s} : esrv'[t].st = "listening" => esrv[t].st = "listening"
      BY <1>9, <1>13
    <2> QED
      BY <1>6, <1>8, <1>10, <1>11, <1>12, <2>1 DEF EInv, Egress!NoLeakedServer
  <1>16. EUp'
    <2>1. \A t \in Egress!Slots \ {s} : esrv[t].st = "listening" => esrv'[t].st = "listening"
      BY <1>9, <1>13
    <2>2. esrv'[s].st = "listening"
      BY <1>8, <1>9, <1>13
    <2>3. \A i \in DOMAIN elisteners : elisteners[i] \in Egress!Slots \ {s}
      BY <1>8 DEF EInv, EOwn
    <2>4. \A i \in DOMAIN elisteners : esrv'[elisteners[i]].st = "listening"
      BY ZenonT(30), <1>7, <2>1, <2>3
    <2>5. \A i \in DOMAIN elisteners' : esrv'[elisteners'[i]].st = "listening"
      BY Zenon, <1>10, <2>2, <2>4
    <2> QED
      BY Zenon, <2>5 DEF EUp
  <1>17. EStatus'
    <2>1. \A i \in DOMAIN elisteners : elisteners[i] \in refs \cap Egress!Slots
      BY <1>3 DEF EInv, EOwn
    <2>2. \A i \in DOMAIN elisteners : esrv'[elisteners[i]].port = esrv[elisteners[i]].port
      BY <1>9, <1>13, <2>1
    <2>3. esrv'[s].port = r.bind
      BY <1>8, <1>9, <1>13
    <2> QED
      BY <1>10, <2>2, <2>3 DEF EStatus, EInv
  <1> QED
    BY <1>6, <1>13, <1>14, <1>15, <1>16, <1>17 DEF EInv

\* a step that leaves the Map, the status and the call alone
LEMMA ERest ==
    ASSUME EInv, elisteners' = elisteners, estatus' = estatus, ecall' = ecall, estore' = estore,
           esrv' = [s \in Egress!Slots |-> esrv'[s]], \A s \in Egress!Slots : SrvShape(esrv'[s]),
           eoverlap' \subseteq eoverlap,
           \A s \in Egress!Slots : /\ esrv'[s].port = esrv[s].port
                                   /\ \/ esrv'[s].st = esrv[s].st
                                      \/ s \in eoverlap /\ esrv'[s].st = "closed",
           \A s \in eoverlap : s \in eoverlap' \/ esrv'[s].st # "listening"
    PROVE  EInv'
  <1>1. EOwn'
    BY DEF EInv, EOwn
  <1>2. ECall(ecall[c1])'
    BY DEF EInv, EOwn, ECall
  <1>3. EUp'
    BY DEF EInv, EOwn, EUp
  <1>4. Egress!NoLeakedServer'
    BY DEF EInv, EOwn, Egress!NoLeakedServer
  <1>5. EStatus'
    BY DEF EInv, EOwn, EStatus
  <1> QED
    BY <1>1, <1>2, <1>3, <1>4, <1>5 DEF EInv

LEMMA EInit == Egress!Init => EInv
  <1> SUFFICES ASSUME Egress!Init PROVE EInv
    OBVIOUS
  <1>1. EOwn
    BY Zenon DEF Egress!Init, EOwn, SrvShape, Egress!Unused
  <1>2. ecall = [c \in {c1} |-> ecall[c1]] /\ ecall[c1] = Egress!IdleCall
    BY DEF Egress!Init
  <1>3. ECall(ecall[c1]) /\ EUp /\ EStatus /\ estore \in Seq(EgressRoutes)
    BY <1>2 DEF Egress!Init, ECall, EUp, EStatus
  <1>4. Egress!NoLeakedServer
    BY DEF Egress!Init, Egress!NoLeakedServer, Egress!Unused
  <1> QED
    BY <1>1, <1>2, <1>3, <1>4 DEF EInv

LEMMA ENext == EInv /\ [Egress!Next]_(Egress!vars) => EInv'
  <1> SUFFICES ASSUME EInv, [Egress!Next]_(Egress!vars) PROVE EInv'
    OBVIOUS
  <1>t. /\ ecall = [c \in {c1} |-> ecall[c1]] /\ EOwn /\ EStatus /\ ECall(ecall[c1]) /\ EUp
        /\ Egress!NoLeakedServer /\ estore \in Seq(EgressRoutes)
    BY DEF EInv
  <1>s. ASSUME UNCHANGED <<esrv, elisteners, estatus, ecall, eoverlap, estore>> PROVE EInv'
    <2>1. EOwn' /\ EStatus'
      BY <1>t, <1>s DEF EOwn, EStatus
    <2>2. ECall(ecall[c1])'
      BY <1>t, <1>s DEF ECall
    <2>3. EUp' /\ Egress!NoLeakedServer'
      BY <1>t, <1>s DEF EUp, Egress!NoLeakedServer
    <2> QED
      BY <1>t, <1>s, <2>1, <2>2, <2>3 DEF EInv
  <1>u. ASSUME ecall[c1].pc = "idle", elisteners' = elisteners, eoverlap' = eoverlap,
               estore' \in Seq(EgressRoutes), Egress!RemoveLoop(c1, estore', elisteners', estatus)
        PROVE  EInv'
    <2>1. \A i \in DOMAIN elisteners : /\ elisteners[i] \in Egress!Slots \ eoverlap
                                       /\ esrv[elisteners[i]].st = "listening"
      BY Zenon, <1>t, <1>u DEF EUp, EOwn
    <2>2. \A i, j \in DOMAIN elisteners' : elisteners'[i] = elisteners'[j] => i = j
      BY <1>t, <1>u DEF EOwn
    <2>3. \A i \in DOMAIN elisteners' : /\ elisteners'[i] \in Egress!Slots \ eoverlap
                                        /\ esrv[elisteners'[i]].st = "listening"
      BY Zenon, <1>u, <2>1
    <2>4. \A s \in Egress!Slots : esrv[s].st = "listening" =>
             s \in eoverlap \/ \E i \in DOMAIN elisteners' : elisteners'[i] = s
      BY <1>t, <1>u DEF Egress!NoLeakedServer
    <2>5. \A i \in DOMAIN estatus : estatus[i].bound =>
             i \in DOMAIN elisteners' /\ esrv[elisteners'[i]].port = estatus[i].bind
      BY <1>t, <1>u DEF EStatus
    <2>6. /\ esrv = [s \in Egress!Slots |-> esrv[s]] /\ \A s \in Egress!Slots : SrvShape(esrv[s])
          /\ eoverlap \subseteq Egress!Slots
      BY <1>t DEF EOwn
    <2> QED
      BY <1>t, <1>u, <2>2, <2>3, <2>4, <2>5, <2>6, ERemoves
  <1>1. ASSUME NEW routes \in EgressConfigs, Egress!ConfigChange(c1, routes) PROVE EInv'
    <2>1. /\ ecall[c1].pc = "idle" /\ elisteners' = elisteners /\ eoverlap' = eoverlap
          /\ estore' = routes /\ Egress!RemoveLoop(c1, routes, elisteners, estatus)
      BY Zenon, <1>1 DEF Egress!ConfigChange
    <2>2. estore' \in Seq(EgressRoutes)
      BY <2>1, EgressConfigsType
    <2>3. Egress!RemoveLoop(c1, estore', elisteners', estatus)
      BY Zenon, <2>1
    <2> QED
      BY Zenon, <1>u, <2>1, <2>2, <2>3
  <1>2. CASE Egress!Heartbeat(c1)
    <2>1. /\ ecall[c1].pc = "idle" /\ elisteners' = elisteners /\ eoverlap' = eoverlap
          /\ estore' = estore /\ Egress!RemoveLoop(c1, estore, elisteners, estatus)
      BY Zenon, <1>2 DEF Egress!Heartbeat
    <2>2. Egress!RemoveLoop(c1, estore', elisteners', estatus)
      BY Zenon, <2>1
    <2> QED
      BY <1>t, <1>u, <2>1, <2>2
  <1>3. CASE Egress!_stopListener(c1)
    <2>1. PICK k : k = ecall[c1]
      OBVIOUS
    <2>2. /\ k.pc = "close" /\ k.routes = estore /\ k.id \in DOMAIN elisteners
          /\ k.srv = elisteners[k.id] /\ esrv[k.srv].st # "listening"
      BY <1>t, <1>3, <2>1 DEF Egress!_stopListener, ECall, Egress!IdleCall
    <2>3. PICK T : T = Egress!Without(estatus, {k.id})
      OBVIOUS
    <2>4. /\ elisteners' = Egress!Without(elisteners, {k.id})
          /\ Egress!RemoveLoop(c1, k.routes, elisteners', T)
          /\ eoverlap' = eoverlap /\ estore' = estore
      BY Zenon, <1>3, <2>1, <2>3 DEF Egress!_stopListener
    <2>5. /\ DOMAIN elisteners' = DOMAIN elisteners \ {k.id}
          /\ \A i \in DOMAIN elisteners' : elisteners'[i] = elisteners[i]
          /\ DOMAIN T = DOMAIN estatus \ {k.id} /\ \A i \in DOMAIN T : T[i] = estatus[i]
      BY Zenon, <2>3, <2>4 DEF Egress!Without
    <2>6. \A i \in DOMAIN elisteners' : /\ elisteners'[i] \in Egress!Slots \ eoverlap
                                        /\ esrv[elisteners'[i]].st = "listening"
      BY <1>t, <2>1, <2>5 DEF EUp, EOwn
    <2>7. \A i, j \in DOMAIN elisteners' : elisteners'[i] = elisteners'[j] => i = j
      BY <1>t, <2>5 DEF EOwn
    <2>8. \A s \in Egress!Slots : esrv[s].st = "listening" =>
             s \in eoverlap \/ \E i \in DOMAIN elisteners' : elisteners'[i] = s
      BY <1>t, <2>2, <2>5 DEF Egress!NoLeakedServer
    <2>9. \A i \in DOMAIN T : T[i].bound =>
             i \in DOMAIN elisteners' /\ esrv[elisteners'[i]].port = T[i].bind
      BY <1>t, <2>5 DEF EStatus
    <2>10. Egress!RemoveLoop(c1, estore', elisteners', T) /\ estore' \in Seq(EgressRoutes)
      BY ZenonT(30), <1>t, <2>2, <2>4
    <2> QED
      BY ZenonT(30), <1>t, <2>4, <2>6, <2>7, <2>8, <2>9, <2>10, ERemoves DEF EOwn
  <1>4. CASE Egress!BindFailed(c1)
    <2>1. PICK k : k = ecall[c1]
      OBVIOUS
    <2>2. PICK r : r = Head(k.todo)
      OBVIOUS
    <2>3. /\ k.pc = "listen"
          /\ estatus' = Egress!With(estatus, r.id, [bound |-> FALSE, bind |-> r.bind])
          /\ Egress!AddLoop(c1, Tail(k.todo), elisteners, esrv)
          /\ elisteners' = elisteners /\ eoverlap' = eoverlap /\ estore' = estore
      BY Zenon, <1>4, <2>1, <2>2 DEF Egress!BindFailed
    <2>4. /\ r.id \in Egress!RouteIds(estore) /\ Tail(k.todo) \in Seq(EgressRoutes)
          /\ Egress!RouteIds(Tail(k.todo)) \subseteq Egress!RouteIds(estore)
          /\ DOMAIN estatus \subseteq Egress!RouteIds(estore)
          /\ \A i \in DOMAIN elisteners : esrv[elisteners[i]].st = "listening"
      BY ZenonT(30), <2>1, <2>2, <2>3, EListens
    <2>5. /\ DOMAIN estatus' = DOMAIN estatus \cup {r.id} /\ estatus'[r.id].bound = FALSE
          /\ \A i \in DOMAIN estatus \ {r.id} : estatus'[i] = estatus[i]
      BY <2>3 DEF Egress!With
    <2>6. Egress!AddLoop(c1, Tail(k.todo), elisteners', esrv)
      BY ZenonT(30), <2>3
    <2>7. DOMAIN estatus' \subseteq Egress!RouteIds(estore')
      BY <2>3, <2>4, <2>5
    <2>a. \A s \in Egress!Slots : SrvShape(esrv[s])
      BY <1>t DEF EOwn
    <2>8. /\ ecall' = [c \in {c1} |-> ecall'[c1]] /\ ECall(ecall[c1])'
          /\ esrv' = [s \in Egress!Slots |-> esrv'[s]]
          /\ \A s \in Egress!Slots :
                SrvShape(esrv'[s]) /\ esrv'[s].st = esrv[s].st /\ esrv'[s].port = esrv[s].port
      BY ZenonT(30), <1>t, <2>3, <2>4, <2>6, <2>7, <2>a, EAdds
    <2>9. EOwn' /\ Egress!NoLeakedServer'
      BY <1>t, <2>3, <2>8 DEF EOwn, Egress!NoLeakedServer
    <2>b. \A i \in DOMAIN elisteners : elisteners[i] \in Egress!Slots
      BY <1>t DEF EOwn
    <2>10. EUp'
      BY <2>3, <2>4, <2>8, <2>b DEF EUp
    <2>11. EStatus'
      <3>1. \A i \in DOMAIN elisteners : esrv'[elisteners[i]].port = esrv[elisteners[i]].port
        BY <2>8, <2>b
      <3> QED
        BY Zenon, <1>t, <2>3, <2>5, <3>1 DEF EStatus
    <2> QED
      BY <1>t, <2>3, <2>8, <2>9, <2>10, <2>11 DEF EInv
  <1>5. ASSUME NEW z \in Egress!Slots, Egress!OverlapExpires(z) PROVE EInv'
    <2>1. elisteners' = elisteners /\ estatus' = estatus /\ ecall' = ecall /\ estore' = estore
      BY Zenon, <1>5 DEF Egress!OverlapExpires
    <2>2. /\ esrv' = [s \in Egress!Slots |-> esrv'[s]] /\ SrvShape(esrv'[z])
          /\ \A s \in Egress!Slots \ {z} : esrv'[s] = esrv[s]
          /\ esrv'[z].port = esrv[z].port /\ z \in eoverlap
          /\ eoverlap' = eoverlap \ {z} /\ esrv'[z].st = "closed"
      BY <1>t, <1>5 DEF Egress!OverlapExpires, Egress!Closed, EOwn, SrvShape
    <2>3. \A s \in Egress!Slots : SrvShape(esrv'[s])
      BY <1>t, <2>2 DEF EOwn
    <2>4. \A s \in Egress!Slots : /\ esrv'[s].port = esrv[s].port
                                  /\ \/ esrv'[s].st = esrv[s].st
                                     \/ s \in eoverlap /\ esrv'[s].st = "closed"
      BY <2>2
    <2>5. /\ eoverlap' \subseteq eoverlap
          /\ \A s \in eoverlap : s \in eoverlap' \/ esrv'[s].st # "listening"
      BY <2>2
    <2> QED
      BY <2>1, <2>2, <2>3, <2>4, <2>5, ERest
  <1>6. ASSUME (\E p \in EgressPorts : Egress!ForeignBind(p) \/ Egress!ForeignRelease(p))
               \/ UNCHANGED Egress!vars
        PROVE  EInv'
    <2>1. UNCHANGED <<esrv, elisteners, estatus, ecall, eoverlap, estore>>
      BY Zenon, <1>6 DEF Egress!ForeignBind, Egress!ForeignRelease, Egress!vars
    <2> QED
      BY <1>s, <2>1
  <1>7. Egress!Bound(c1) => EInv'
    BY EBinds
  <1> QED
    BY <1>1, <1>2, <1>3, <1>4, <1>5, <1>6, <1>7 DEF Egress!Next, Egress!Step

(* With one call of setRoutes at a time the egress proxy loses no server,  *)
(* a route reported as bound is served on that address, and only           *)
(* configured routes have a status, whatever binds fail and whenever the   *)
(* overlap timers fire (proxy/egress.js).                                  *)
THEOREM EgressHolds ==
    Egress!Spec => [](Egress!NoLeakedServer /\ Egress!BoundIsTrue /\ Egress!StatusIsConfigured)
  <1>1. EInv => Egress!NoLeakedServer /\ Egress!BoundIsTrue /\ Egress!StatusIsConfigured
    <2> SUFFICES ASSUME EInv PROVE Egress!BoundIsTrue /\ Egress!StatusIsConfigured
      BY DEF EInv
    <2>1. Egress!BoundIsTrue
      BY DEF EInv, EUp, EStatus, Egress!BoundIsTrue, Egress!Quiet
    <2>2. Egress!StatusIsConfigured
      BY DEF EInv, ECall, Egress!StatusIsConfigured, Egress!Quiet
    <2> QED
      BY <2>1, <2>2
  <1> QED
    BY <1>1, EInit, ENext, PTL DEF Egress!Spec

-----------------------------------------------------------------------------
(* The near manager, one apply at a time. *)
Near == INSTANCE NearManager WITH
    Calls <- {c1}, MaxChanges <- NearChanges, MaxDeaths <- NearDeaths, MaxRestarts <- NearRestarts,
    store <- nstore, active <- nactive, lastSig <- nlastSig, call <- ncall,
    rules <- nrules, daemon <- ndaemon, confFile <- nconfFile, used <- nused

Applying(pc, cfg, todo, obj, run, missing) ==
    [pc |-> pc, cfg |-> cfg, todo |-> todo, obj |-> obj, run |-> run, missing |-> missing]

\* the rules that may be in the kernel while an apply of cfg is at pc
Expected(k, keys) ==
    CASE k.pc = "clear" -> k.todo
      [] k.pc = "ensure" -> keys \cup k.cfg
      [] k.pc = "delete" -> k.cfg \cup k.todo
      [] k.pc = "ensureAll" -> k.cfg
      [] OTHER -> keys

NCall(k, keys, rules, fresh) ==
    /\ k = Applying(k.pc, k.cfg, k.todo, k.obj, k.run, k.missing)
    /\ k.cfg \subseteq Redirects /\ k.todo \subseteq Redirects
    /\ k.pc \in {"idle", "probe", "pkill", "clear", "write", "load", "ensure", "delete",
                 "ensureAll", "reensure"}
    /\ k.missing # None => /\ k.pc \in {"ensure", "ensureAll", "reensure"}
                           /\ k.missing \in Redirects /\ rules[k.missing] = 0
    /\ fresh =>
          /\ \A r \in Redirects : rules[r] > 0 => r \in Expected(k, keys)
          /\ k.missing # None => k.missing \in Expected(k, keys)
          /\ k.pc \in {"ensure", "ensureAll"} => k.todo \subseteq k.cfg
          /\ k.pc = "reensure" => k.todo \subseteq keys

NShape ==
    /\ nstore \subseteq Redirects /\ nactive.keys \subseteq Redirects
    /\ nactive = [obj |-> nactive.obj, keys |-> nactive.keys]
    /\ ncall = [c \in {c1} |-> ncall[c1]]
    /\ nrules \in [Redirects -> {0, 1}]
    /\ nused \in [changes : Nat, deaths : Nat, restarts : Nat]

NInv == NShape /\ NCall(ncall[c1], nactive.keys, nrules, nused.restarts = 0)

\* a step that moves the call on, and leaves the Map and the rules alone
LEMMA NGoes ==
    ASSUME NInv, nactive' = nactive, nrules' = nrules, nstore' \subseteq Redirects,
           nused' \in [changes : Nat, deaths : Nat, restarts : Nat], nused'.restarts = nused.restarts,
           NEW k, ncall' = [ncall EXCEPT ![c1] = k],
           NCall(k, nactive.keys, nrules, nused.restarts = 0)
    PROVE  NInv'
  <1>1. ncall' = [c \in {c1} |-> ncall'[c1]] /\ ncall'[c1] = k
    BY DEF NInv, NShape
  <1>2. NShape'
    BY <1>1 DEF NInv, NShape
  <1> QED
    BY <1>1, <1>2 DEF NInv

LEMMA NInit == Near!Init => NInv
  <1> SUFFICES ASSUME Near!Init PROVE NInv
    OBVIOUS
  <1>1. NShape
    BY DEF Near!Init, NShape
  <1>2. ncall[c1] = Applying("idle", {}, {}, 0, FALSE, None)
    BY DEF Near!Init, Near!Idle, Applying
  <1>3. \A r \in Redirects : nrules[r] = 0
    BY DEF Near!Init
  <1> QED
    BY <1>1, <1>2, <1>3 DEF NInv, NCall, Applying

LEMMA NNext == NInv /\ [Near!Next]_(Near!vars) => NInv'
  <1> SUFFICES ASSUME NInv, [Near!Next]_(Near!vars) PROVE NInv'
    OBVIOUS
  <1>k. PICK k : k = ncall[c1]
    OBVIOUS
  <1>t. /\ NShape /\ NCall(k, nactive.keys, nrules, nused.restarts = 0)
        /\ k = Applying(k.pc, k.cfg, k.todo, k.obj, k.run, k.missing)
    BY Zenon, <1>k DEF NInv, NCall
  <1>f. ncall = [c \in {c1} |-> k]
    BY <1>k, <1>t DEF NShape
  <1>r. k = [pc |-> k.pc, cfg |-> k.cfg, todo |-> k.todo, obj |-> k.obj, run |-> k.run,
             missing |-> k.missing]
    BY Zenon, <1>t DEF Applying
  <1>d. ASSUME NEW d, ncall' = [c \in {c1} |-> d] PROVE ncall' = [ncall EXCEPT ![c1] = d]
    BY <1>d, <1>f
  <1>g. ASSUME NEW pc, NEW todo, ncall' = Near!Go(c1, pc, todo)
        PROVE  ncall' = [ncall EXCEPT ![c1] =
                            Applying(pc, k.cfg, todo, nactive.obj, k.run, k.missing)]
    <2>1. ncall' = [ncall EXCEPT ![c1].pc = pc, ![c1].todo = todo, ![c1].obj = nactive.obj]
      BY Zenon, <1>g DEF Near!Go
    <2>2. PICK d : d = Applying(pc, k.cfg, todo, nactive.obj, k.run, k.missing)
      OBVIOUS
    <2>3. ncall' = [c \in {c1} |-> ncall'[c1]] /\ ncall'[c1] = d
      BY ZenonT(30), <1>f, <1>r, <2>1, <2>2 DEF Applying
    <2> QED
      BY <1>d, <2>2, <2>3
  <1>s. ASSUME UNCHANGED Near!system PROVE /\ nactive' = nactive /\ nrules' = nrules
            /\ nstore' \subseteq Redirects /\ nused'.restarts = nused.restarts
            /\ nused' \in [changes : Nat, deaths : Nat, restarts : Nat]
    BY <1>t, <1>s DEF Near!system, NShape
  <1>i. PICK idle : idle = Applying("idle", {}, {}, 0, FALSE, None)
    BY Zenon
  <1>j. idle = Near!Idle
    BY Zenon, <1>i DEF Near!Idle, Applying
  <1>1. ASSUME NEW cfg \in SUBSET Redirects, Near!Apply(c1, cfg)
        PROVE  \E d : /\ ncall' = [ncall EXCEPT ![c1] = d]
                      /\ NCall(d, nactive.keys, nrules, nused.restarts = 0)
    <2>1. PICK d : d = [Near!Idle EXCEPT !.pc = "probe", !.cfg = cfg]
      OBVIOUS
    <2>2. ncall' = [ncall EXCEPT ![c1] = d] /\ ncall[c1].pc = "idle"
      BY Zenon, <1>1, <2>1 DEF Near!Apply
    <2>3. d = Applying("probe", cfg, {}, 0, FALSE, None)
      <3>1. d = [idle EXCEPT !.pc = "probe", !.cfg = cfg]
        BY Zenon, <1>j, <2>1
      <3> QED
        BY Zenon, <1>i, <3>1 DEF Applying
    <2>4. NCall(d, nactive.keys, nrules, nused.restarts = 0)
      BY <1>k, <1>t, <2>2, <2>3 DEF NCall, Applying, Expected
    <2> QED
      BY Zenon, <2>2, <2>4
  <1>2. ASSUME NEW cfg \in SUBSET Redirects, Near!ConfigChange(c1, cfg) PROVE NInv'
    <2>1. /\ nactive' = nactive /\ nrules' = nrules /\ nstore' \subseteq Redirects
          /\ nused' = [nused EXCEPT !.changes = @ + 1] /\ Near!Apply(c1, cfg)
      BY <1>2 DEF Near!ConfigChange
    <2>2. /\ nused' \in [changes : Nat, deaths : Nat, restarts : Nat]
          /\ nused'.restarts = nused.restarts
      BY <1>t, <2>1 DEF NShape
    <2> QED
      BY <1>1, <2>1, <2>2, NGoes
  <1>3. CASE Near!Heartbeat(c1)
    <2>1. Near!Apply(c1, nstore) /\ nstore \in SUBSET Redirects /\ UNCHANGED Near!system
      BY <1>t, <1>3 DEF Near!Heartbeat, NShape
    <2> QED
      BY <1>1, <1>s, <2>1, NGoes
  <1>4. CASE Near!Probed(c1)
    <2>a. PICK pc : /\ pc \in {"pkill", "clear", "reensure", "write"}
                    /\ ncall' = [Near!Go(c1, pc, nactive.keys) EXCEPT ![c1].run = (ndaemon # None)]
      BY Zenon, <1>4 DEF Near!Probed
    <2>1. PICK run : ncall' = [Near!Go(c1, pc, nactive.keys) EXCEPT ![c1].run = run]
      BY Zenon, <2>a
    <2>2. PICK d : d = Applying(pc, k.cfg, nactive.keys, nactive.obj, run, k.missing)
      OBVIOUS
    <2>3. k.pc = "probe" /\ UNCHANGED Near!system
      BY <1>4, <1>k DEF Near!Probed
    <2>4. ncall' = [ncall EXCEPT ![c1] = d]
      <3>1. PICK g : g = Near!Go(c1, pc, nactive.keys)
        OBVIOUS
      <3>2. g = [ncall EXCEPT ![c1].pc = pc, ![c1].todo = nactive.keys, ![c1].obj = nactive.obj]
        BY Zenon, <3>1 DEF Near!Go
      <3>3. PICK e : e = Applying(pc, k.cfg, nactive.keys, nactive.obj, k.run, k.missing)
        OBVIOUS
      <3>4. g = [c \in {c1} |-> g[c1]] /\ g[c1] = e
        BY Zenon, <1>f, <1>r, <3>2, <3>3 DEF Applying
      <3>5. ncall' = [g EXCEPT ![c1].run = run]
        BY Zenon, <2>1, <3>1
      <3>6. e = [pc |-> pc, cfg |-> k.cfg, todo |-> nactive.keys, obj |-> nactive.obj, run |-> k.run,
                 missing |-> k.missing]
        BY Zenon, <3>3 DEF Applying
      <3>7. PICK h : h = [e EXCEPT !.run = run]
        BY Zenon
      <3>8. h = d
        BY <2>2, <3>6, <3>7 DEF Applying
      <3>9. ncall' = [c \in {c1} |-> ncall'[c1]] /\ ncall'[c1] = h
        BY Zenon, <3>4, <3>5, <3>7
      <3> QED
        BY <1>d, <3>8, <3>9
    <2>5. NCall(d, nactive.keys, nrules, nused.restarts = 0)
      BY <1>t, <2>a, <2>2, <2>3 DEF NCall, NShape, Applying, Expected
    <2> QED
      BY ZenonT(30), <1>s, <2>3, <2>4, <2>5, NGoes
  <1>5. CASE Near!Killed(c1)
    <2>1. /\ k.pc = "pkill" /\ ncall' = Near!Go(c1, "clear", nactive.keys)
          /\ nactive' = nactive /\ nrules' = nrules /\ nstore' = nstore /\ nused' = nused
      BY <1>5, <1>k DEF Near!Killed
    <2>2. PICK d : d = Applying("clear", k.cfg, nactive.keys, nactive.obj, k.run, k.missing)
      OBVIOUS
    <2>3. ncall' = [ncall EXCEPT ![c1] = d]
      BY Zenon, <1>g, <2>1, <2>2
    <2>4. NCall(d, nactive.keys, nrules, nused.restarts = 0)
      BY <1>t, <2>1, <2>2 DEF NCall, NShape, Applying, Expected
    <2> QED
      BY <1>t, <2>1, <2>3, <2>4, NGoes DEF NShape
  <1>6. CASE Near!_delRedirect(c1)
    <2>1. PICK r \in k.todo : /\ nrules' = [nrules EXCEPT ![r] = IF @ = 0 THEN 0 ELSE @ - 1]
                              /\ ncall' = [ncall EXCEPT ![c1].todo = @ \ {r}]
                              /\ k.pc \in {"clear", "delete"} /\ nactive' = nactive
                              /\ nstore' = nstore /\ nused' = nused
      BY Zenon, <1>6, <1>k DEF Near!_delRedirect
    <2>2. PICK d : d = Applying(k.pc, k.cfg, k.todo \ {r}, k.obj, k.run, k.missing)
      OBVIOUS
    <2>3. ncall' = [c \in {c1} |-> ncall'[c1]] /\ ncall'[c1] = d
      BY <1>f, <1>r, <2>1, <2>2 DEF Applying
    <2>4. r \in Redirects /\ k.missing = None
      BY <1>t, <2>1 DEF NCall
    <2>5. /\ nrules' \in [Redirects -> {0, 1}] /\ nrules'[r] = 0
          /\ \A q \in Redirects \ {r} : nrules'[q] = nrules[q]
      BY <1>t, <2>1, <2>4 DEF NShape
    <2>6. NCall(d, nactive.keys, nrules', nused.restarts = 0)
      BY <1>t, <2>1, <2>2, <2>4, <2>5 DEF NCall, Applying, Expected
    <2>7. NShape'
      BY <1>t, <2>1, <2>3, <2>5 DEF NShape
    <2> QED
      BY Zenon, <2>1, <2>3, <2>6, <2>7 DEF NInv
  <1>7. CASE Near!Cleared(c1)
    <2>1. /\ k.pc = "clear" /\ k.todo = {} /\ nactive' = [nactive EXCEPT !.keys = {}]
          /\ ncall' = [c \in {c1} |-> idle]
          /\ nrules' = nrules /\ nstore' = nstore /\ nused' = nused
      BY <1>7, <1>k, <1>j DEF Near!Cleared
    <2>2. nactive'.keys = {} /\ nactive' = [obj |-> nactive'.obj, keys |-> nactive'.keys]
      BY <1>t, <2>1 DEF NShape
    <2>3. nused.restarts = 0 => \A r \in Redirects : ~(nrules[r] > 0)
      BY <1>t, <2>1 DEF NCall, Expected
    <2>4. NCall(idle, {}, nrules, nused.restarts = 0)
      BY <1>i, <2>3 DEF NCall, Applying, Expected
    <2>5. NShape'
      BY <1>t, <2>1, <2>2 DEF NShape
    <2> QED
      BY <2>1, <2>2, <2>4, <2>5 DEF NInv
  <1>8. CASE Near!Written(c1)
    <2>1. /\ k.pc = "write" /\ ncall' = [ncall EXCEPT ![c1].pc = "load"]
          /\ nactive' = nactive /\ nrules' = nrules /\ nstore' = nstore /\ nused' = nused
      BY <1>8, <1>k DEF Near!Written
    <2>2. PICK d : d = Applying("load", k.cfg, k.todo, k.obj, k.run, k.missing)
      OBVIOUS
    <2>a. ncall' = [c \in {c1} |-> ncall'[c1]] /\ ncall'[c1] = d
      BY Zenon, <1>f, <1>r, <2>1, <2>2 DEF Applying
    <2>3. ncall' = [ncall EXCEPT ![c1] = d]
      BY <1>d, <2>a
    <2>4. NCall(d, nactive.keys, nrules, nused.restarts = 0)
      BY <1>t, <2>1, <2>2 DEF NCall, Applying, Expected
    <2> QED
      BY <1>t, <2>1, <2>3, <2>4, NGoes DEF NShape
  <1>9. CASE Near!Loaded(c1)
    <2>1. /\ k.pc = "load" /\ ncall' = Near!Go(c1, "ensure", k.cfg \ nactive.keys)
          /\ nactive' = nactive /\ nrules' = nrules /\ nstore' = nstore /\ nused' = nused
      BY ZenonT(30), <1>9, <1>k DEF Near!Loaded
    <2>2. PICK d : d = Applying("ensure", k.cfg, k.cfg \ nactive.keys, nactive.obj, k.run, k.missing)
      OBVIOUS
    <2>3. ncall' = [ncall EXCEPT ![c1] = d]
      BY Zenon, <1>g, <2>1, <2>2
    <2>4. NCall(d, nactive.keys, nrules, nused.restarts = 0)
      BY <1>t, <2>1, <2>2 DEF NCall, NShape, Applying, Expected
    <2> QED
      BY <1>t, <2>1, <2>3, <2>4, NGoes DEF NShape
  <1>10. CASE Near!_ensureRedirect(c1)
    <2>1. PICK r \in k.todo :
             /\ ncall' = [ncall EXCEPT ![c1].todo = @ \ {r},
                                       ![c1].missing = IF nrules[r] = 0 THEN r ELSE None]
             /\ k.pc \in {"ensure", "ensureAll", "reensure"} /\ UNCHANGED Near!system
      BY Zenon, <1>10, <1>k DEF Near!_ensureRedirect
    <2>2. PICK d : d = Applying(k.pc, k.cfg, k.todo \ {r}, k.obj, k.run,
                                IF nrules[r] = 0 THEN r ELSE None)
      OBVIOUS
    <2>a. ncall' = [c \in {c1} |-> ncall'[c1]] /\ ncall'[c1] = d
      BY Zenon, <1>f, <1>r, <2>1, <2>2 DEF Applying
    <2>3. ncall' = [ncall EXCEPT ![c1] = d]
      BY <1>d, <2>a
    <2>4. NCall(d, nactive.keys, nrules, nused.restarts = 0)
      BY <1>t, <2>1, <2>2 DEF NCall, NShape, Applying, Expected
    <2> QED
      BY Zenon, <1>s, <2>1, <2>3, <2>4, NGoes
  <1>11. CASE Near!Appended(c1)
    <2>1. /\ k.missing # None /\ nrules' = [nrules EXCEPT ![k.missing] = @ + 1]
          /\ ncall' = [ncall EXCEPT ![c1].missing = None]
          /\ nactive' = nactive /\ nstore' = nstore /\ nused' = nused
      BY <1>11, <1>k DEF Near!Appended
    <2>2. PICK d : d = Applying(k.pc, k.cfg, k.todo, k.obj, k.run, None)
      OBVIOUS
    <2>3. ncall' = [c \in {c1} |-> ncall'[c1]] /\ ncall'[c1] = d
      BY ZenonT(30), <1>f, <1>r, <2>1, <2>2 DEF Applying
    <2>4. PICK r \in Redirects : r = k.missing /\ nrules[r] = 0
      BY <1>t, <2>1 DEF NCall
    <2>5. /\ nrules' \in [Redirects -> {0, 1}] /\ nrules'[r] = 1
          /\ \A q \in Redirects \ {r} : nrules'[q] = nrules[q]
      BY <1>t, <2>1, <2>4 DEF NShape
    <2>6. NCall(d, nactive.keys, nrules', nused.restarts = 0)
      BY <1>t, <2>1, <2>2, <2>4, <2>5 DEF NCall, Applying, Expected
    <2>7. NShape'
      BY <1>t, <2>1, <2>3, <2>5 DEF NShape
    <2> QED
      BY <2>1, <2>3, <2>6, <2>7 DEF NInv
  <1>12. CASE Near!NextLoop(c1)
    <2>1. /\ k.todo = {} /\ k.missing = None /\ UNCHANGED Near!system
          /\ \/ k.pc = "ensure" /\ ncall' = Near!Go(c1, "delete", nactive.keys \ k.cfg)
             \/ k.pc = "delete" /\ ncall' = Near!Go(c1, "ensureAll", k.cfg)
             \/ k.pc = "reensure" /\ ncall' = [ncall EXCEPT ![c1] = idle]
      BY Zenon, <1>12, <1>k, <1>j DEF Near!NextLoop
    <2>2. CASE k.pc = "ensure" /\ ncall' = Near!Go(c1, "delete", nactive.keys \ k.cfg)
      <3>1. PICK d : d = Applying("delete", k.cfg, nactive.keys \ k.cfg, nactive.obj, k.run, k.missing)
        OBVIOUS
      <3>2. ncall' = [ncall EXCEPT ![c1] = d]
        BY Zenon, <1>g, <2>2, <3>1
      <3>3. NCall(d, nactive.keys, nrules, nused.restarts = 0)
        BY <1>t, <2>1, <2>2, <3>1 DEF NCall, NShape, Applying, Expected
      <3> QED
        BY ZenonT(30), <1>s, <2>1, <3>2, <3>3, NGoes
    <2>3. CASE k.pc = "delete" /\ ncall' = Near!Go(c1, "ensureAll", k.cfg)
      <3>1. PICK d : d = Applying("ensureAll", k.cfg, k.cfg, nactive.obj, k.run, k.missing)
        OBVIOUS
      <3>2. ncall' = [ncall EXCEPT ![c1] = d]
        BY Zenon, <1>g, <2>3, <3>1
      <3>3. NCall(d, nactive.keys, nrules, nused.restarts = 0)
        BY <1>t, <2>1, <2>3, <3>1 DEF NCall, NShape, Applying, Expected
      <3> QED
        BY Zenon, <1>s, <2>1, <3>2, <3>3, NGoes
    <2>4. CASE k.pc = "reensure" /\ ncall' = [ncall EXCEPT ![c1] = idle]
      <3>1. NCall(idle, nactive.keys, nrules, nused.restarts = 0)
        BY <1>t, <1>i, <2>4 DEF NCall, Applying, Expected
      <3> QED
        BY Zenon, <1>s, <2>1, <2>4, <3>1, NGoes
    <2> QED
      BY <2>1, <2>2, <2>3, <2>4
  <1>13. CASE Near!Applied(c1)
    <2>1. /\ k.pc = "ensureAll" /\ k.missing = None
          /\ nactive' = [obj |-> Near!FreshObj, keys |-> k.cfg]
          /\ ncall' = [ncall EXCEPT ![c1] = idle]
          /\ nrules' = nrules /\ nstore' = nstore /\ nused' = nused
      BY Zenon, <1>13, <1>k, <1>j DEF Near!Applied
    <2>2. nactive'.keys = k.cfg /\ nactive' = [obj |-> nactive'.obj, keys |-> nactive'.keys]
      BY <2>1
    <2>3. ncall' = [c \in {c1} |-> idle]
      BY Zenon, <1>f, <2>1
    <2>4. NCall(idle, k.cfg, nrules, nused.restarts = 0)
      BY <1>t, <1>i, <2>1 DEF NCall, Applying, Expected
    <2>5. NShape'
      BY <1>t, <2>1, <2>2, <2>3 DEF NShape, NCall
    <2> QED
      BY <2>1, <2>2, <2>3, <2>4, <2>5 DEF NInv
  <1>14. CASE Near!KeepalivedDies
    <2>1. /\ UNCHANGED <<nstore, nactive, ncall, nrules>>
          /\ nused' = [nused EXCEPT !.deaths = @ + 1]
      BY <1>14 DEF Near!KeepalivedDies
    <2>2. /\ nused' \in [changes : Nat, deaths : Nat, restarts : Nat]
          /\ nused'.restarts = nused.restarts
      BY <1>t, <2>1 DEF NShape
    <2> QED
      BY <1>t, <1>k, <2>1, <2>2 DEF NInv, NShape
  <1>15. CASE Near!Restart
    <2>1. /\ nused' = [nused EXCEPT !.restarts = @ + 1] /\ nstore' = {}
          /\ nactive' = [obj |-> 0, keys |-> {}] /\ ncall' = [c \in {c1} |-> idle] /\ nrules' = nrules
      BY <1>15, <1>j DEF Near!Restart
    <2>2. /\ nused' \in [changes : Nat, deaths : Nat, restarts : Nat]
          /\ nused'.restarts # 0
      BY <1>t, <2>1 DEF NShape
    <2>3. NCall(idle, {}, nrules, FALSE)
      BY <1>i DEF NCall, Applying
    <2>4. NShape'
      BY <1>t, <2>1, <2>2 DEF NShape
    <2> QED
      BY Zenon, <2>1, <2>2, <2>3, <2>4 DEF NInv
  <1>16. CASE UNCHANGED Near!vars
    BY <1>16 DEF Near!vars, NInv, NShape
  <1> QED
    BY <1>2, <1>3, <1>4, <1>5, <1>6, <1>7, <1>8, <1>9, <1>10, <1>11, <1>12, <1>13, <1>14, <1>15,
       <1>16 DEF Near!Next, Near!Step

(* In a gateway that has not restarted, one apply at a time leaves no      *)
(* REDIRECT in the kernel that the near manager does not know of, whatever *)
(* configurations follow one another and however often keepalived dies     *)
(* (near/nearManager.js).                                                  *)
THEOREM NearHolds == Near!Spec => []Near!RulesAreKnown
  <1>1. NInv => Near!RulesAreKnown
    BY DEF NInv, NCall, Expected, Near!RulesAreKnown, Near!Quiet, Near!Ruled
  <1> QED
    BY <1>1, NInit, NNext, PTL DEF Near!Spec

-----------------------------------------------------------------------------
(* The L4 proxy, one call of setRoutes at a time. *)
L4 == INSTANCE L4Proxy WITH
    Ids <- L4Ids, Ports <- L4Ports, Targets <- L4Targets,
    Configs <- L4Configs, Calls <- {c1}, Busy <- {"idle", "close", "listen"},
    MaxServers <- L4Servers, MaxChanges <- L4Changes, MaxForeign <- L4Foreign, MaxConns <- L4Conns,
    srv <- l4srv, listeners <- l4listeners, call <- l4call, overlap <- l4overlap,
    store <- l4store, check <- l4check, foreign <- l4foreign, used <- l4used

\* a listener that is registered is no other's, and waits for no timer
L4Own ==
    /\ l4srv = [s \in L4!Slots |-> l4srv[s]] /\ \A s \in L4!Slots : SrvShape(l4srv[s])
    /\ l4overlap \subseteq L4!Slots
    /\ \A i \in DOMAIN l4listeners : l4listeners[i].srv \in L4!Slots \ l4overlap
    /\ \A i, j \in DOMAIN l4listeners : l4listeners[i].srv = l4listeners[j].srv => i = j

\* what the call under way relies on
L4Call(k) ==
    \/ k = L4!IdleCall /\ DOMAIN l4listeners \subseteq L4!RouteIds(l4store)
    \/ /\ k.pc = "close" /\ k.routes = l4store
       /\ k.id \in DOMAIN l4listeners /\ k.srv = l4listeners[k.id].srv
       /\ l4srv[k.srv].st # "listening"
    \/ /\ k.pc = "listen" /\ k.routes = l4store
       /\ k.todo \in Seq(L4Routes) /\ k.todo # <<>>
       /\ L4!RouteIds(k.todo) \subseteq L4!RouteIds(l4store)
       /\ k.srv = L4!Replaced(Head(k.todo).id, l4listeners)
       /\ DOMAIN l4listeners \subseteq L4!RouteIds(l4store)

L4Up ==
    \A i \in DOMAIN l4listeners :
        \/ l4srv[l4listeners[i].srv].st = "listening"
        \/ l4call[c1].pc = "close" /\ l4call[c1].id = i

L4Inv ==
    /\ L4Own /\ l4call = [c \in {c1} |-> l4call[c1]] /\ L4Call(l4call[c1]) /\ L4Up
    /\ L4!NoLeakedServer /\ l4store \in Seq(L4Routes)

\* what is still to do is part of the routes
LEMMA L4Undone ==
    ASSUME NEW L, NEW t \in Seq(L4Routes)
    PROVE  /\ L4!Undone(L, t) \in Seq(L4Routes)
           /\ L4!RouteIds(L4!Undone(L, t)) \subseteq L4!RouteIds(t)
  <1>1. PICK open \in SUBSET DOMAIN t : open = {i \in DOMAIN t : t[i].id \notin DOMAIN L \/ L4!Changed(L[t[i].id], t[i])}
    BY ZenonT(30)
  <1>2. CASE open = {}
    BY <1>1, <1>2 DEF L4!Undone, L4!RouteIds
  <1>3. CASE open # {}
    <2>1. PICK k : k = CHOOSE i \in open : \A j \in open : i <= j
      OBVIOUS
    <2>2. k \in DOMAIN t
      BY <1>3, <2>1, FirstIndex
    <2>3. L4!Undone(L, t) = SubSeq(t, k, Len(t))
      BY ZenonT(30), <1>1, <1>3, <2>1 DEF L4!Undone
    <2>4. PICK u : u = SubSeq(t, k, Len(t))
      BY Zenon
    <2>5. u \in Seq(L4Routes) /\ \A i \in DOMAIN u : \E j \in DOMAIN t : u[i] = t[j]
      BY <2>2, <2>4, RestOf
    <2>6. L4!RouteIds(u) \subseteq L4!RouteIds(t)
      BY <2>5 DEF L4!RouteIds
    <2> QED
      BY <2>3, <2>4, <2>5, <2>6
  <1> QED
    BY <1>2, <1>3

\* the second loop of setRoutes
LEMMA L4Adds ==
    ASSUME l4call = [c \in {c1} |-> l4call[c1]], NEW t \in Seq(L4Routes),
           L4!RouteIds(t) \subseteq L4!RouteIds(l4store'),
           DOMAIN l4listeners' \subseteq L4!RouteIds(l4store'),
           l4call' = L4!AddLoop(c1, l4store', t, l4listeners')
    PROVE  l4call' = [c \in {c1} |-> l4call'[c1]] /\ L4Call(l4call[c1])' /\ l4call'[c1].pc # "close"
  <1>1. PICK u : u = L4!Undone(l4listeners', t)
    OBVIOUS
  <1>2. u \in Seq(L4Routes) /\ L4!RouteIds(u) \subseteq L4!RouteIds(l4store')
    BY <1>1, L4Undone
  <1>3. PICK k : k = (IF u = <<>> THEN L4!IdleCall
                      ELSE [pc |-> "listen", routes |-> l4store', todo |-> u,
                            id |-> u[1].id, srv |-> L4!Replaced(u[1].id, l4listeners')])
    BY Zenon
  <1>4. l4call' = [l4call EXCEPT ![c1] = k]
    BY Zenon, <1>1, <1>3 DEF L4!AddLoop
  <1>5. l4call' = [c \in {c1} |-> l4call'[c1]] /\ l4call'[c1] = k
    BY ZenonT(30), <1>4
  <1>6. CASE u = <<>>
    BY <1>3, <1>5, <1>6 DEF L4Call, L4!IdleCall
  <1>7. CASE u # <<>>
    <2>1. u[1] = Head(u)
      BY <1>2, <1>7
    <2>2. /\ k.pc = "listen" /\ k.routes = l4store' /\ k.todo = u
          /\ k.srv = L4!Replaced(Head(u).id, l4listeners')
      BY <1>3, <1>7, <2>1
    <2> QED
      BY <1>2, <1>5, <1>7, <2>2 DEF L4Call, L4!Replaced
  <1> QED
    BY <1>6, <1>7

\* the first loop, when all that is registered is up
LEMMA L4Removes ==
    ASSUME l4call = [c \in {c1} |-> l4call[c1]],
           l4srv = [s \in L4!Slots |-> l4srv[s]], \A s \in L4!Slots : SrvShape(l4srv[s]),
           l4overlap' = l4overlap, l4overlap \subseteq L4!Slots, l4store' \in Seq(L4Routes),
           \A i \in DOMAIN l4listeners' : /\ l4listeners'[i].srv \in L4!Slots \ l4overlap
                                          /\ l4srv[l4listeners'[i].srv].st = "listening",
           \A i, j \in DOMAIN l4listeners' : l4listeners'[i].srv = l4listeners'[j].srv => i = j,
           \A s \in L4!Slots : l4srv[s].st = "listening" =>
               s \in l4overlap \/ \E i \in DOMAIN l4listeners' : l4listeners'[i].srv = s,
           L4!RemoveLoop(c1, l4store', l4listeners')
    PROVE  L4Inv'
  <1>1. ASSUME NEW i \in DOMAIN l4listeners',
               l4call' = [l4call EXCEPT ![c1] =
                  [pc |-> "close", routes |-> l4store', todo |-> <<>>,
                   id |-> i, srv |-> l4listeners'[i].srv]],
               l4srv' = L4!Closed(l4srv, l4listeners'[i].srv)
        PROVE  L4Inv'
    <2>1. PICK z \in L4!Slots : z = l4listeners'[i].srv
      OBVIOUS
    <2>2. /\ l4srv' = [s \in L4!Slots |-> l4srv'[s]] /\ l4srv'[z].st = "closed" /\ SrvShape(l4srv'[z])
          /\ \A s \in L4!Slots \ {z} : l4srv'[s] = l4srv[s]
      BY <1>1, <2>1 DEF L4!Closed, SrvShape
    <2>3. L4Own'
      BY <2>2 DEF L4Own
    <2>4. /\ l4call' = [c \in {c1} |-> l4call'[c1]] /\ l4call'[c1].pc = "close"
          /\ l4call'[c1].routes = l4store' /\ l4call'[c1].id = i /\ l4call'[c1].srv = z
      BY ZenonT(30), <1>1, <2>1
    <2>5. L4Call(l4call[c1])' /\ L4Up'
      BY <2>1, <2>2, <2>4 DEF L4Call, L4Up
    <2>6. L4!NoLeakedServer'
      BY <2>2 DEF L4!NoLeakedServer
    <2> QED
      BY <2>3, <2>4, <2>5, <2>6 DEF L4Inv
  <1>2. ASSUME DOMAIN l4listeners' \subseteq L4!RouteIds(l4store'),
               l4call' = L4!AddLoop(c1, l4store', l4store', l4listeners'), l4srv' = l4srv
        PROVE  L4Inv'
    <2>1. l4call' = [c \in {c1} |-> l4call'[c1]] /\ L4Call(l4call[c1])'
      BY <1>2, L4Adds
    <2>2. L4Own' /\ L4Up' /\ L4!NoLeakedServer'
      BY <1>2 DEF L4Own, L4Up, L4!NoLeakedServer
    <2> QED
      BY <2>1, <2>2 DEF L4Inv
  <1> QED
    BY <1>1, <1>2 DEF L4!RemoveLoop

LEMMA L4Free ==
    ASSUME NEW S, NEW R, L4!FreeSlots(S, R) # {}
    PROVE  L4!FreeSlot(S, R) \in L4!FreeSlots(S, R)
  <1>1. L4!FreeSlots(S, R) \subseteq L4!Slots
    BY DEF L4!FreeSlots
  <1>2. IsFiniteSet(L4!Slots) /\ L4!Slots \subseteq Nat
    BY L4ServersType, FS_Interval DEF L4!Slots
  <1>3. IsFiniteSet(L4!FreeSlots(S, R))
    BY <1>1, <1>2, FS_Subset
  <1>4. \E x \in L4!FreeSlots(S, R) : \A y \in L4!FreeSlots(S, R) : x <= y
    BY Zenon, <1>1, <1>2, <1>3, LeastOf
  <1> QED
    BY <1>4 DEF L4!FreeSlot

LEMMA L4TailIds ==
    ASSUME NEW t \in Seq(L4Routes), t # <<>>
    PROVE  Tail(t) \in Seq(L4Routes) /\ L4!RouteIds(Tail(t)) \subseteq L4!RouteIds(t)
  <1>1. /\ Tail(t) \in Seq(L4Routes)
        /\ \A i \in DOMAIN Tail(t) : i + 1 \in DOMAIN t /\ Tail(t)[i] = t[i + 1]
    OBVIOUS
  <1> QED
    BY Zenon, <1>1 DEF L4!RouteIds

\* listen() succeeded
LEMMA L4Binds == L4Inv /\ L4!Bound(c1) => L4Inv'
  <1> SUFFICES ASSUME L4Inv, L4!Bound(c1) PROVE L4Inv'
    OBVIOUS
  <1>1. PICK k : k = l4call[c1]
    OBVIOUS
  <1>2. /\ k.pc = "listen" /\ k.routes = l4store /\ k.todo \in Seq(L4Routes) /\ k.todo # <<>>
        /\ L4!RouteIds(k.todo) \subseteq L4!RouteIds(l4store)
        /\ k.srv = L4!Replaced(Head(k.todo).id, l4listeners)
        /\ DOMAIN l4listeners \subseteq L4!RouteIds(l4store)
    <2>1. L4Call(k)
      BY Zenon, <1>1 DEF L4Inv
    <2>2. k.pc = "listen"
      BY ZenonT(30), <1>1 DEF L4!Bound
    <2> QED
      BY <2>1, <2>2 DEF L4Call, L4!IdleCall
  <1>3. PICK r \in L4Routes : r = Head(k.todo)
    BY <1>2
  <1>4. PICK refs : refs = L4!Referenced(l4listeners, l4call, l4overlap) \cup {l4call[d].srv : d \in {c1}}
    BY Zenon
  <1>5. PICK s : s = L4!FreeSlot(l4srv, refs)
    OBVIOUS
  <1>6. /\ L4!FreeSlots(l4srv, refs) # {}
        /\ l4srv' = L4!Listening(L4!Recycled(l4srv, refs), s, r.port, r)
        /\ l4listeners' = [i \in DOMAIN l4listeners \cup {r.id} |->
              IF i = r.id THEN [srv |-> s, port |-> r.port, target |-> r.target]
              ELSE l4listeners[i]]
        /\ l4overlap' = l4overlap \cup ({k.srv} \ {0})
        /\ l4call' = L4!AddLoop(c1, k.routes, Tail(k.todo), l4listeners')
        /\ l4store' = l4store
    BY ZenonT(30), <1>1, <1>3, <1>4, <1>5 DEF L4!Bound
  <1>7. /\ s \in L4!Slots /\ s \notin l4overlap /\ s # k.srv
        /\ \A i \in DOMAIN l4listeners : l4listeners[i].srv # s
    <2>1. s \in L4!FreeSlots(l4srv, refs)
      BY Zenon, <1>5, <1>6, L4Free
    <2> QED
      BY <1>1, <1>4, <2>1 DEF L4!FreeSlots, L4!Referenced
  <1>8. /\ l4srv' = [t \in L4!Slots |-> l4srv'[t]]
        /\ \A t \in L4!Slots : SrvShape(l4srv'[t])
        /\ l4srv'[s].st = "listening"
        /\ \A t \in L4!Slots \ {s} : l4srv'[t].st = "listening" <=> l4srv[t].st = "listening"
    <2>1. PICK b : b = L4!Recycled(l4srv, refs)
      OBVIOUS
    <2>2. /\ b = [t \in L4!Slots |-> b[t]]
          /\ \A t \in L4!Slots : SrvShape(b[t]) /\ (b[t].st = "listening" <=> l4srv[t].st = "listening")
      BY ZenonT(30), <2>1 DEF L4Inv, L4Own, L4!Recycled, L4!FreeSlots, L4!Unused, SrvShape
    <2>3. l4srv' = [b EXCEPT ![s] = [st |-> "listening", port |-> r.port, route |-> r, conn |-> FALSE]]
      BY Zenon, <1>6, <2>1 DEF L4!Listening
    <2> QED
      BY ZenonT(30), <1>7, <2>2, <2>3 DEF SrvShape
  <1>9. /\ DOMAIN l4listeners' = DOMAIN l4listeners \cup {r.id}
        /\ l4listeners'[r.id].srv = s
        /\ \A i \in DOMAIN l4listeners \ {r.id} : l4listeners'[i] = l4listeners[i]
    BY ZenonT(30), <1>6
  <1>10. k.srv = IF r.id \in DOMAIN l4listeners THEN l4listeners[r.id].srv ELSE 0
    BY <1>2, <1>3 DEF L4!Replaced
  <1>11. 0 \notin L4!Slots
    BY DEF L4!Slots
  <1>12. L4Own'
    <2>1. l4overlap' \subseteq L4!Slots
      BY <1>6, <1>10 DEF L4Inv, L4Own
    <2>2. \A i \in DOMAIN l4listeners' : l4listeners'[i].srv \in L4!Slots \ l4overlap'
      BY <1>6, <1>7, <1>9, <1>10 DEF L4Inv, L4Own
    <2>3. \A i, j \in DOMAIN l4listeners' : l4listeners'[i].srv = l4listeners'[j].srv => i = j
      BY <1>7, <1>9 DEF L4Inv, L4Own
    <2> QED
      BY <1>8, <2>1, <2>2, <2>3 DEF L4Own
  <1>13. L4!NoLeakedServer'
    BY <1>6, <1>7, <1>8, <1>9, <1>10, <1>11 DEF L4Inv, L4!NoLeakedServer
  <1>14. /\ l4call' = [c \in {c1} |-> l4call'[c1]] /\ L4Call(l4call[c1])' /\ l4call'[c1].pc # "close"
    <2>1. Tail(k.todo) \in Seq(L4Routes) /\ L4!RouteIds(Tail(k.todo)) \subseteq L4!RouteIds(k.todo)
      BY ZenonT(30), <1>2, L4TailIds
    <2>2. r.id \in L4!RouteIds(k.todo)
      BY <1>2, <1>3 DEF L4!RouteIds
    <2>3. l4call = [c \in {c1} |-> l4call[c1]]
      BY DEF L4Inv
    <2> QED
      BY ZenonT(30), <1>2, <1>6, <1>9, <2>1, <2>2, <2>3, L4Adds
  <1>15. L4Up'
    <2>1. \A i \in DOMAIN l4listeners : l4srv[l4listeners[i].srv].st = "listening"
      BY <1>1, <1>2 DEF L4Inv, L4Up
    <2> QED
      BY <1>7, <1>8, <1>9, <2>1 DEF L4Up, L4Inv, L4Own
  <1> QED
    BY <1>6, <1>12, <1>13, <1>14, <1>15 DEF L4Inv

\* a step that leaves the Map and the call alone, and what listens in it
LEMMA L4Rest ==
    ASSUME L4Inv, l4listeners' = l4listeners, l4call' = l4call, l4store' = l4store,
           l4srv' = [s \in L4!Slots |-> l4srv'[s]], \A s \in L4!Slots : SrvShape(l4srv'[s]),
           l4overlap' \subseteq l4overlap,
           \A s \in L4!Slots : l4srv'[s].st = l4srv[s].st \/ (s \in l4overlap /\ l4srv'[s].st = "closed"),
           \A s \in l4overlap : s \in l4overlap' \/ l4srv'[s].st # "listening"
    PROVE  L4Inv'
  <1>1. L4Own'
    BY DEF L4Inv, L4Own
  <1>2. L4Call(l4call[c1])'
    BY DEF L4Inv, L4Own, L4Call
  <1>3. L4Up'
    BY DEF L4Inv, L4Own, L4Up
  <1>4. L4!NoLeakedServer'
    BY DEF L4Inv, L4Own, L4!NoLeakedServer
  <1> QED
    BY <1>1, <1>2, <1>3, <1>4 DEF L4Inv

LEMMA L4Init == L4!Init => L4Inv
  <1> SUFFICES ASSUME L4!Init PROVE L4Inv
    OBVIOUS
  <1>1. L4Own
    BY DEF L4!Init, L4Own, SrvShape, L4!Unused
  <1>2. l4call = [c \in {c1} |-> l4call[c1]] /\ l4call[c1] = L4!IdleCall
    BY ZenonT(30) DEF L4!Init
  <1>3. L4Call(l4call[c1]) /\ L4Up /\ l4store \in Seq(L4Routes)
    BY <1>2 DEF L4!Init, L4Call, L4Up
  <1>4. L4!NoLeakedServer
    BY DEF L4!Init, L4!NoLeakedServer, L4!Unused
  <1> QED
    BY ZenonT(30), <1>1, <1>2, <1>3, <1>4 DEF L4Inv

LEMMA L4Next == L4Inv /\ [L4!Next]_(L4!vars) => L4Inv'
  <1> SUFFICES ASSUME L4Inv, [L4!Next]_(L4!vars) PROVE L4Inv'
    OBVIOUS
  <1>t. /\ l4call = [c \in {c1} |-> l4call[c1]] /\ L4Own /\ L4Call(l4call[c1]) /\ L4Up
        /\ L4!NoLeakedServer /\ l4store \in Seq(L4Routes)
    BY DEF L4Inv
  <1>s. ASSUME UNCHANGED <<l4srv, l4listeners, l4call, l4overlap, l4store>> PROVE L4Inv'
    <2>1. L4Own'
      BY <1>t, <1>s DEF L4Own
    <2>2. L4Call(l4call[c1])'
      BY <1>t, <1>s DEF L4Call
    <2>3. L4Up' /\ L4!NoLeakedServer'
      BY <1>t, <1>s DEF L4Up, L4!NoLeakedServer
    <2> QED
      BY <1>t, <1>s, <2>1, <2>2, <2>3 DEF L4Inv
  <1>u. ASSUME l4call[c1].pc = "idle", l4listeners' = l4listeners, l4overlap' = l4overlap,
               l4store' \in Seq(L4Routes), L4!RemoveLoop(c1, l4store', l4listeners')
        PROVE  L4Inv'
    <2>1. \A i \in DOMAIN l4listeners : /\ l4listeners[i].srv \in L4!Slots \ l4overlap
                                        /\ l4srv[l4listeners[i].srv].st = "listening"
      BY <1>t, <1>u DEF L4Up, L4Own
    <2> QED
      BY <1>t, <1>u, <2>1, L4Removes DEF L4Own, L4!NoLeakedServer
  <1>1. ASSUME NEW routes \in L4Configs, L4!ConfigChange(c1, routes) PROVE L4Inv'
    <2>1. /\ l4call[c1].pc = "idle" /\ l4listeners' = l4listeners /\ l4overlap' = l4overlap
          /\ l4store' = routes /\ L4!RemoveLoop(c1, routes, l4listeners)
      BY ZenonT(30), <1>1 DEF L4!ConfigChange
    <2>2. l4store' \in Seq(L4Routes)
      BY <2>1, L4ConfigsType
    <2>3. L4!RemoveLoop(c1, l4store', l4listeners')
      BY Zenon, <2>1
    <2> QED
      BY ZenonT(30), <1>u, <2>1, <2>2, <2>3
  <1>2. CASE L4!_stopListener(c1)
    <2>1. PICK k : k = l4call[c1]
      OBVIOUS
    <2>2. /\ k.pc = "close" /\ k.routes = l4store /\ k.id \in DOMAIN l4listeners
          /\ k.srv = l4listeners[k.id].srv /\ l4srv[k.srv].st # "listening"
      BY <1>t, <1>2, <2>1 DEF L4!_stopListener, L4Call, L4!IdleCall
    <2>3. /\ l4listeners' = [i \in DOMAIN l4listeners \ {k.id} |-> l4listeners[i]]
          /\ L4!RemoveLoop(c1, k.routes, l4listeners')
          /\ l4overlap' = l4overlap /\ l4store' = l4store
      BY Zenon, <1>2, <2>1 DEF L4!_stopListener
    <2>4. DOMAIN l4listeners' = DOMAIN l4listeners \ {k.id}
          /\ \A i \in DOMAIN l4listeners' : l4listeners'[i] = l4listeners[i]
      BY ZenonT(30), <2>3
    <2>5. \A i \in DOMAIN l4listeners' : /\ l4listeners'[i].srv \in L4!Slots \ l4overlap
                                         /\ l4srv[l4listeners'[i].srv].st = "listening"
      BY <1>t, <2>1, <2>4 DEF L4Up, L4Own
    <2>6. \A i, j \in DOMAIN l4listeners' : l4listeners'[i].srv = l4listeners'[j].srv => i = j
      BY <1>t, <2>4 DEF L4Own
    <2>7. \A s \in L4!Slots : l4srv[s].st = "listening" =>
             s \in l4overlap \/ \E i \in DOMAIN l4listeners' : l4listeners'[i].srv = s
      BY <1>t, <2>2, <2>4 DEF L4!NoLeakedServer
    <2>8. L4!RemoveLoop(c1, l4store', l4listeners') /\ l4store' \in Seq(L4Routes)
      BY Zenon, <1>t, <2>2, <2>3
    <2> QED
      BY ZenonT(30), <1>t, <2>3, <2>5, <2>6, <2>7, <2>8, L4Removes DEF L4Own
  <1>3. CASE L4!BindFailed(c1)
    <2>1. PICK k : k = l4call[c1]
      OBVIOUS
    <2>2. /\ k.pc = "listen" /\ k.routes = l4store /\ k.todo \in Seq(L4Routes) /\ k.todo # <<>>
          /\ L4!RouteIds(k.todo) \subseteq L4!RouteIds(l4store)
          /\ DOMAIN l4listeners \subseteq L4!RouteIds(l4store)
      BY <1>t, <1>3, <2>1 DEF L4Call, L4!BindFailed, L4!IdleCall
    <2>3. /\ l4call' = L4!AddLoop(c1, k.routes, Tail(k.todo), l4listeners)
          /\ UNCHANGED <<l4srv, l4listeners, l4overlap, l4store>>
      BY ZenonT(30), <1>3, <2>1 DEF L4!BindFailed
    <2>4. Tail(k.todo) \in Seq(L4Routes) /\ L4!RouteIds(Tail(k.todo)) \subseteq L4!RouteIds(k.todo)
      BY <2>2 DEF L4!RouteIds
    <2>5. l4call' = [c \in {c1} |-> l4call'[c1]] /\ L4Call(l4call[c1])'
      BY ZenonT(30), <1>t, <2>2, <2>3, <2>4, L4Adds
    <2>6. L4Own' /\ L4!NoLeakedServer'
      BY <1>t, <2>3 DEF L4Own, L4!NoLeakedServer
    <2>7. L4Up'
      BY <1>t, <2>1, <2>2, <2>3 DEF L4Up
    <2> QED
      BY ZenonT(30), <1>t, <2>3, <2>5, <2>6, <2>7 DEF L4Inv
  <1>4. CASE L4!HeartbeatActs(c1)
    <2>1. /\ l4listeners' = l4listeners /\ l4overlap' = l4overlap /\ l4store' = l4store
          /\ \/ l4call[c1].pc = "idle" /\ L4!RemoveLoop(c1, l4store, l4listeners)
             \/ UNCHANGED <<l4call, l4srv>>
      BY <1>4 DEF L4!HeartbeatActs
    <2>2. CASE l4call[c1].pc = "idle" /\ L4!RemoveLoop(c1, l4store, l4listeners)
      <3>1. L4!RemoveLoop(c1, l4store', l4listeners')
        BY ZenonT(30), <2>1, <2>2
      <3> QED
        BY <1>t, <1>u, <2>1, <2>2, <3>1
    <2>3. CASE UNCHANGED <<l4call, l4srv>>
      BY <1>s, <2>1, <2>3
    <2> QED
      BY <2>1, <2>2, <2>3
  <1>5. ASSUME NEW z \in L4!Slots, L4!OverlapExpires(z) \/ L4!Connect(z) \/ L4!Disconnect(z)
        PROVE  L4Inv'
    <2>1. l4listeners' = l4listeners /\ l4call' = l4call /\ l4store' = l4store
      BY <1>5 DEF L4!OverlapExpires, L4!Connect, L4!Disconnect
    <2>2. /\ l4srv' = [s \in L4!Slots |-> l4srv'[s]] /\ SrvShape(l4srv'[z])
          /\ \A s \in L4!Slots \ {z} : l4srv'[s] = l4srv[s]
          /\ \/ l4srv'[z].st = l4srv[z].st /\ l4overlap' = l4overlap
             \/ z \in l4overlap /\ l4overlap' = l4overlap \ {z} /\ l4srv'[z].st = "closed"
      BY <1>t, <1>5 DEF L4!OverlapExpires, L4!Connect, L4!Disconnect, L4!Closed, L4Own, SrvShape
    <2>3. \A s \in L4!Slots : SrvShape(l4srv'[s])
      BY <1>t, <2>2 DEF L4Own
    <2>4. \A s \in L4!Slots : l4srv'[s].st = l4srv[s].st \/ (s \in l4overlap /\ l4srv'[s].st = "closed")
      BY <2>2
    <2>5. /\ l4overlap' \subseteq l4overlap
          /\ \A s \in l4overlap : s \in l4overlap' \/ l4srv'[s].st # "listening"
      BY <2>2
    <2> QED
      BY ZenonT(30), <2>1, <2>2, <2>3, <2>4, <2>5, L4Rest
  <1>6. ASSUME \/ L4!HeartbeatCheck \/ \E p \in L4Ports : L4!ForeignBind(p) \/ L4!ForeignRelease(p)
               \/ UNCHANGED L4!vars
        PROVE  L4Inv'
    <2>1. UNCHANGED <<l4srv, l4listeners, l4call, l4overlap, l4store>>
      BY ZenonT(30), <1>6 DEF L4!HeartbeatCheck, L4!ForeignBind, L4!ForeignRelease, L4!vars
    <2> QED
      BY <1>s, <2>1
  <1>7. L4!Bound(c1) => L4Inv'
    BY L4Binds
  <1> QED
    BY <1>1, <1>2, <1>3, <1>4, <1>5, <1>6, <1>7 DEF L4!Next, L4!Step

(* With one call of setRoutes at a time the L4 proxy loses no server, a    *)
(* registered listener is up unless its removal is under way, and only     *)
(* configured routes are registered when no call runs, whatever binds fail *)
(* (proxy/tcp.js).                                                         *)
THEOREM L4Holds == L4!Spec => [](L4!NoLeakedServer /\ L4!RegisteredIsUp /\ L4!OnlyConfigured)
  <1>1. L4Inv => L4!NoLeakedServer /\ L4!RegisteredIsUp /\ L4!OnlyConfigured
    <2> SUFFICES ASSUME L4Inv PROVE L4!RegisteredIsUp /\ L4!OnlyConfigured
      BY DEF L4Inv
    <2>1. L4!RegisteredIsUp
      BY DEF L4Inv, L4Up, L4!RegisteredIsUp
    <2>2. L4!OnlyConfigured
      BY DEF L4Inv, L4Call, L4!OnlyConfigured, L4!Quiet
    <2> QED
      BY <2>1, <2>2
  <1> QED
    BY <1>1, L4Init, L4Next, PTL DEF L4!Spec

-----------------------------------------------------------------------------
(* The sockets of the DNS filter, any number of runs of the loop at once. *)
Dns == INSTANCE DnsListener WITH
    Addrs <- DnsAddrs, Runs <- DnsRuns, MaxApplies <- DnsApplies,
    MaxChanges <- DnsChanges, MaxForeign <- DnsForeign, timer <- dnsTimer

DnsSpec == Dns!Init /\ [][Dns!Next]_(Dns!dvars)

RunShape(k) == k = [pc |-> k.pc, left |-> k.left, addr |-> k.addr]

\* the Map is within the addresses, runs hold UDP sockets only
DShape ==
    /\ bound \subseteq DnsAddrs
    /\ rec = [r \in DnsRuns |-> rec[r]] /\ \A r \in DnsRuns : RunShape(rec[r])
    /\ socket = [p \in {"udp", "tcp"} |-> socket[p]]
    /\ \A p \in {"udp", "tcp"} : socket[p] = [a \in DnsAddrs |-> socket[p][a]]
    /\ \A a \in DnsAddrs : socket["tcp"][a] \notin DnsRuns

\* a run that binds TCP holds the UDP socket of its address
DHolds ==
    \A r \in DnsRuns : rec[r].pc = "tcp" =>
        \E a \in DnsAddrs : rec[r].addr = {a} /\ socket["udp"][a] = r

DInv == DShape /\ DHolds /\ Dns!NoLostSocket

\* closing addresses of the Map
LEMMA DCloses ==
    ASSUME DInv, NEW A \in SUBSET bound, bound' = bound \ A, socket' = Dns!Closed(A),
           rec' = [r \in DnsRuns |-> rec'[r]], \A r \in DnsRuns : RunShape(rec'[r]),
           \A r \in DnsRuns : \/ rec'[r] = rec[r]
                              \/ rec[r].pc # "tcp" /\ rec'[r].pc # "tcp"
    PROVE  DInv'
  <1>1. /\ DShape /\ DHolds /\ Dns!NoLostSocket
    BY DEF DInv
  <1>2. /\ socket' = [p \in {"udp", "tcp"} |-> socket'[p]]
        /\ \A p \in {"udp", "tcp"} : socket'[p] = [a \in DnsAddrs |-> socket'[p][a]]
        /\ \A p \in {"udp", "tcp"}, a \in DnsAddrs :
              socket'[p][a] = IF a \in A /\ socket[p][a] = "bound" THEN "free" ELSE socket[p][a]
    BY DEF Dns!Closed
  <1>3. /\ bound' \subseteq DnsAddrs /\ \A a \in DnsAddrs : socket'["tcp"][a] \notin DnsRuns
    BY <1>1, <1>2, DnsRunsType DEF DShape
  <1>4. \A a \in DnsAddrs, r \in DnsRuns : socket'["udp"][a] = r <=> socket["udp"][a] = r
    BY <1>2, DnsRunsType
  <1>5. DHolds'
    BY <1>1, <1>4 DEF DHolds
  <1>6. \A a \in DnsAddrs :
           /\ a \in bound' <=> socket'["udp"][a] = "bound" /\ socket'["tcp"][a] = "bound"
           /\ \A p \in {"udp", "tcp"} : socket'[p][a] = "bound" => a \in bound'
    BY <1>1, <1>2 DEF Dns!NoLostSocket
  <1>7. \A a \in DnsAddrs, r \in DnsRuns :
           socket'["udp"][a] = r => rec'[r].pc = "tcp" /\ rec'[r].addr = {a}
    BY <1>1, <1>4 DEF Dns!NoLostSocket
  <1> QED
    BY ZenonT(30), <1>2, <1>3, <1>5, <1>6, <1>7 DEF DInv, DShape, Dns!NoLostSocket

\* one socket changes hands outside the Map: free, foreign, or a run's
LEMMA DMoves ==
    ASSUME DInv, bound' = bound, NEW p \in {"udp", "tcp"}, NEW b \in DnsAddrs, NEW v,
           socket' = [socket EXCEPT ![p][b] = v], socket[p][b] # "bound", v # "bound",
           rec' = [r \in DnsRuns |-> rec'[r]], \A r \in DnsRuns : RunShape(rec'[r]),
           p = "tcp" => v \notin DnsRuns,
           \A r \in DnsRuns : rec'[r].pc = "tcp" =>
               \E a \in DnsAddrs : rec'[r].addr = {a} /\ socket'["udp"][a] = r,
           \A a \in DnsAddrs, r \in DnsRuns :
               socket'["udp"][a] = r => rec'[r].pc = "tcp" /\ rec'[r].addr = {a}
    PROVE  DInv'
  <1>1. /\ DShape /\ DHolds /\ Dns!NoLostSocket
    BY DEF DInv
  <1>2. /\ socket' = [q \in {"udp", "tcp"} |-> socket'[q]]
        /\ \A q \in {"udp", "tcp"} : socket'[q] = [a \in DnsAddrs |-> socket'[q][a]]
        /\ \A q \in {"udp", "tcp"}, a \in DnsAddrs :
              socket'[q][a] = IF q = p /\ a = b THEN v ELSE socket[q][a]
    BY ZenonT(30), <1>1 DEF DShape
  <1>3. bound' \subseteq DnsAddrs /\ \A a \in DnsAddrs : socket'["tcp"][a] \notin DnsRuns
    BY <1>1, <1>2 DEF DShape
  <1>4. \A a \in DnsAddrs :
           /\ a \in bound' <=> socket'["udp"][a] = "bound" /\ socket'["tcp"][a] = "bound"
           /\ \A q \in {"udp", "tcp"} : socket'[q][a] = "bound" => a \in bound'
    BY <1>1, <1>2 DEF Dns!NoLostSocket
  <1> QED
    BY ZenonT(30), <1>2, <1>3, <1>4 DEF DInv, DShape, DHolds, Dns!NoLostSocket

LEMMA DInit == Dns!Init => DInv
  BY DnsRunsType DEF Dns!Init, Dns!IdleRun, DInv, DShape, DHolds, RunShape, Dns!NoLostSocket

LEMMA DNext == DInv /\ [Dns!Next]_(Dns!dvars) => DInv'
  <1> SUFFICES ASSUME DInv, [Dns!Next]_(Dns!dvars) PROVE DInv'
    OBVIOUS
  <1>t. /\ DShape /\ DHolds /\ Dns!NoLostSocket
    BY DEF DInv
  <1>s. ASSUME UNCHANGED <<bound, socket>>, rec' = [r \in DnsRuns |-> rec'[r]],
               \A r \in DnsRuns : RunShape(rec'[r]),
               \A r \in DnsRuns : \/ rec'[r] = rec[r]
                                  \/ rec[r].pc # "tcp" /\ rec'[r].pc # "tcp"
        PROVE  DInv'
    <2>1. DShape'
      BY <1>t, <1>s DEF DShape
    <2>2. DHolds' /\ Dns!NoLostSocket'
      BY <1>t, <1>s DEF DHolds, Dns!NoLostSocket
    <2> QED
      BY <2>1, <2>2 DEF DInv
  <1>0. rec = [r \in DnsRuns |-> rec[r]] /\ \A r \in DnsRuns : RunShape(rec[r])
    BY <1>t DEF DShape
  <1>1. CASE UNCHANGED <<bound, socket, rec>>
    BY <1>0, <1>1, <1>s
  <1>2. CASE Dns!applyOff
    <2>1. bound' = bound \ bound /\ socket' = Dns!Closed(bound) /\ rec' = rec
      BY <1>2 DEF Dns!applyOff
    <2> QED
      BY <1>0, <2>1, DCloses
  <1>3. ASSUME NEW r \in DnsRuns, Dns!reconcile(r) PROVE DInv'
    <2>a. /\ bound' = bound \cap wanted /\ socket' = Dns!Closed(bound \ wanted)
          /\ rec[r].pc = "idle"
          /\ rec' = [rec EXCEPT ![r] = [Dns!IdleRun EXCEPT !.pc = "next", !.left = wanted]]
      BY Zenon, <1>3 DEF Dns!reconcile
    <2>b. [Dns!IdleRun EXCEPT !.pc = "next", !.left = wanted]
            = [pc |-> "next", left |-> wanted, addr |-> {}]
      <3>1. PICK i : i = Dns!IdleRun
        OBVIOUS
      <3>2. i = [pc |-> "idle", left |-> {}, addr |-> {}]
        BY <3>1 DEF Dns!IdleRun
      <3>3. PICK x : x = [i EXCEPT !.pc = "next", !.left = wanted]
        OBVIOUS
      <3>4. x = [pc |-> "next", left |-> wanted, addr |-> {}]
        BY Zenon, <3>2, <3>3
      <3> QED
        BY ZenonT(30), <3>1, <3>3, <3>4
    <2>1. /\ bound' = bound \ (bound \ wanted) /\ socket' = Dns!Closed(bound \ wanted)
          /\ rec[r].pc = "idle"
          /\ rec' = [rec EXCEPT ![r] = [pc |-> "next", left |-> wanted, addr |-> {}]]
      BY ZenonT(30), <2>a, <2>b
    <2>2. /\ rec' = [q \in DnsRuns |-> rec'[q]] /\ rec'[r].pc # "tcp"
          /\ \A q \in DnsRuns : RunShape(rec'[q]) /\ (q # r => rec'[q] = rec[q])
      BY ZenonT(30), <1>0, <2>1 DEF RunShape
    <2> QED
      BY ZenonT(30), <2>1, <2>2, DCloses
  <1>4. ASSUME NEW r \in DnsRuns, NEW a \in DnsAddrs, Dns!bindUdp(r, a) PROVE DInv'
    <2>1. PICK k : k = rec[r]
      OBVIOUS
    <2>2. k = [pc |-> k.pc, left |-> k.left, addr |-> k.addr]
      BY <1>0, <2>1 DEF RunShape
    <2>3. k.pc = "next" /\ UNCHANGED <<bound, socket>>
      BY <1>4, <2>1 DEF Dns!bindUdp
    <2>4. /\ rec'[r] = [pc |-> IF a \in bound THEN "next" ELSE "udp", left |-> k.left \ {a}, addr |-> {a}]
          /\ rec' = [q \in DnsRuns |-> rec'[q]] /\ \A q \in DnsRuns \ {r} : rec'[q] = rec[q]
      <3>1. rec' = [rec EXCEPT ![r].left = @ \ {a},
                   ![r].pc = IF a \in bound THEN "next" ELSE "udp", ![r].addr = {a}]
        BY <1>4 DEF Dns!bindUdp
      <3> QED
        BY ZenonT(30), <1>0, <2>1, <2>2, <3>1
    <2>5. /\ rec' = [q \in DnsRuns |-> rec'[q]] /\ rec'[r].pc # "tcp"
          /\ \A q \in DnsRuns : RunShape(rec'[q]) /\ (q # r => rec'[q] = rec[q])
      BY <1>0, <2>3, <2>4 DEF RunShape
    <2> QED
      BY <1>s, <2>1, <2>3, <2>5
  <1>5. ASSUME NEW r \in DnsRuns, NEW a \in DnsAddrs, Dns!boundUdp(r, a) PROVE DInv'
    <2>1. PICK k : k = rec[r]
      OBVIOUS
    <2>2. k = [pc |-> k.pc, left |-> k.left, addr |-> k.addr] /\ k.pc = "udp" /\ k.addr = {a}
      BY <1>0, <1>5, <2>1 DEF RunShape, Dns!boundUdp
    <2>3. CASE socket["udp"][a] = "free"
      <3>1. /\ socket' = [socket EXCEPT !["udp"][a] = r] /\ bound' = bound
            /\ rec' = [rec EXCEPT ![r].pc = "tcp"]
        BY <1>5, <2>3 DEF Dns!boundUdp
      <3>2. rec'[r] = [pc |-> "tcp", left |-> k.left, addr |-> {a}]
        BY <1>0, <2>1, <2>2, <3>1
      <3>3. /\ rec' = [q \in DnsRuns |-> rec'[q]]
            /\ \A q \in DnsRuns : RunShape(rec'[q]) /\ (q # r => rec'[q] = rec[q])
        BY <1>0, <3>1, <3>2 DEF RunShape
      <3>4. \A b \in DnsAddrs : socket'["udp"][b] = IF b = a THEN r ELSE socket["udp"][b]
        BY <1>t, <3>1 DEF DShape
      <3>5. \A q \in DnsRuns : rec'[q].pc = "tcp" =>
               \E b \in DnsAddrs : rec'[q].addr = {b} /\ socket'["udp"][b] = q
        BY <1>t, <2>3, <3>2, <3>3, <3>4, DnsRunsType DEF DHolds
      <3>6. \A b \in DnsAddrs, q \in DnsRuns :
               socket'["udp"][b] = q => rec'[q].pc = "tcp" /\ rec'[q].addr = {b}
        BY <1>t, <2>1, <2>2, <3>2, <3>3, <3>4 DEF Dns!NoLostSocket
      <3>7. r # "bound"
        BY DnsRunsType
      <3> QED
        BY ZenonT(30), <2>3, <3>1, <3>3, <3>5, <3>6, <3>7, DMoves
    <2>4. CASE socket["udp"][a] # "free"
      <3>1. UNCHANGED <<bound, socket>> /\ rec' = [rec EXCEPT ![r].pc = "next"]
        BY <1>5, <2>4 DEF Dns!boundUdp
      <3>2. rec'[r] = [pc |-> "next", left |-> k.left, addr |-> {a}]
        BY <1>0, <2>1, <2>2, <3>1
      <3>3. /\ rec' = [q \in DnsRuns |-> rec'[q]] /\ rec'[r].pc # "tcp"
            /\ \A q \in DnsRuns : RunShape(rec'[q]) /\ (q # r => rec'[q] = rec[q])
        BY <1>0, <3>1, <3>2 DEF RunShape
      <3> QED
        BY <1>s, <2>1, <2>2, <3>1, <3>3
    <2> QED
      BY <2>3, <2>4
  <1>6. ASSUME NEW r \in DnsRuns, NEW a \in DnsAddrs, Dns!boundTcp(r, a) PROVE DInv'
    <2>1. PICK k : k = rec[r]
      OBVIOUS
    <2>2. /\ k = [pc |-> k.pc, left |-> k.left, addr |-> k.addr] /\ k.pc = "tcp" /\ k.addr = {a}
          /\ rec' = [rec EXCEPT ![r].pc = "next"]
      BY <1>0, <1>6, <2>1 DEF RunShape, Dns!boundTcp
    <2>3. rec'[r] = [pc |-> "next", left |-> k.left, addr |-> {a}]
      BY <1>0, <2>1, <2>2
    <2>4. /\ rec' = [q \in DnsRuns |-> rec'[q]]
          /\ \A q \in DnsRuns : RunShape(rec'[q]) /\ (q # r => rec'[q] = rec[q])
      BY <1>0, <2>2, <2>3 DEF RunShape
    <2>5. socket["udp"][a] = r /\ a \notin bound
      BY <1>t, <2>1, <2>2, DnsRunsType DEF DHolds, Dns!NoLostSocket
    <2>6. \A q \in DnsRuns : rec'[q].pc = "tcp" =>
             q # r /\ \E b \in DnsAddrs \ {a} : rec'[q].addr = {b} /\ socket["udp"][b] = q
      BY <1>t, <2>3, <2>4, <2>5 DEF DHolds
    <2>7. \A b \in DnsAddrs \ {a}, q \in DnsRuns :
             socket["udp"][b] = q => rec'[q].pc = "tcp" /\ rec'[q].addr = {b}
      BY <1>t, <2>1, <2>2, <2>4 DEF Dns!NoLostSocket
    <2>8. CASE socket["tcp"][a] = "free"
      <3>1. /\ socket' = [socket EXCEPT !["udp"][a] = "bound", !["tcp"][a] = "bound"]
            /\ bound' = bound \cup {a}
        BY <1>6, <2>8 DEF Dns!boundTcp
      <3>2. /\ socket' = [q \in {"udp", "tcp"} |-> socket'[q]]
            /\ \A q \in {"udp", "tcp"} : socket'[q] = [b \in DnsAddrs |-> socket'[q][b]]
            /\ \A q \in {"udp", "tcp"}, b \in DnsAddrs :
                  socket'[q][b] = IF b = a THEN "bound" ELSE socket[q][b]
        BY ZenonT(30), <1>t, <3>1 DEF DShape
      <3>3. DShape'
        BY <1>t, <2>4, <3>1, <3>2, DnsRunsType DEF DShape
      <3>4. DHolds'
        BY <2>6, <3>2 DEF DHolds
      <3>5. \A b \in DnsAddrs :
               /\ b \in bound' <=> socket'["udp"][b] = "bound" /\ socket'["tcp"][b] = "bound"
               /\ \A q \in {"udp", "tcp"} : socket'[q][b] = "bound" => b \in bound'
        <4> SUFFICES ASSUME NEW b \in DnsAddrs
                     PROVE  /\ b \in bound' <=> socket'["udp"][b] = "bound" /\ socket'["tcp"][b] = "bound"
                            /\ \A q \in {"udp", "tcp"} : socket'[q][b] = "bound" => b \in bound'
          OBVIOUS
        <4>1. CASE b = a
          BY ZenonT(30), <3>1, <3>2, <4>1
        <4>2. CASE b # a
          <5>1. (b \in bound' <=> b \in bound) /\ \A q \in {"udp", "tcp"} : socket'[q][b] = socket[q][b]
            BY ZenonT(30), <3>1, <3>2, <4>2
          <5> QED
            BY <1>t, <5>1 DEF Dns!NoLostSocket
        <4> QED
          BY <4>1, <4>2
      <3>6. \A b \in DnsAddrs, q \in DnsRuns :
               socket'["udp"][b] = q => rec'[q].pc = "tcp" /\ rec'[q].addr = {b}
        BY <2>7, <3>2, DnsRunsType
      <3> QED
        BY <3>3, <3>4, <3>5, <3>6 DEF DInv, Dns!NoLostSocket
    <2>9. CASE socket["tcp"][a] # "free"
      <3>1. socket' = [socket EXCEPT !["udp"][a] = "free"] /\ bound' = bound
        BY <1>6, <2>9 DEF Dns!boundTcp
      <3>2. \A b \in DnsAddrs : socket'["udp"][b] = IF b = a THEN "free" ELSE socket["udp"][b]
        BY <1>t, <3>1 DEF DShape
      <3>3. /\ \A q \in DnsRuns : rec'[q].pc = "tcp" =>
                  \E b \in DnsAddrs : rec'[q].addr = {b} /\ socket'["udp"][b] = q
            /\ \A b \in DnsAddrs, q \in DnsRuns :
                  socket'["udp"][b] = q => rec'[q].pc = "tcp" /\ rec'[q].addr = {b}
        BY ZenonT(30), <2>6, <2>7, <3>2, DnsRunsType
      <3>4. socket["udp"][a] # "bound"
        BY <2>5, DnsRunsType
      <3> QED
        BY ZenonT(30), <2>4, <3>1, <3>3, <3>4, DMoves
    <2> QED
      BY <2>8, <2>9
  <1>7. ASSUME NEW r \in DnsRuns, Dns!reconciled(r) PROVE DInv'
    <2>1. /\ rec[r].pc = "next" /\ UNCHANGED <<bound, socket>>
          /\ rec' = [rec EXCEPT ![r] = [pc |-> "idle", left |-> {}, addr |-> {}]]
      BY Zenon, <1>7 DEF Dns!reconciled, Dns!IdleRun
    <2>2. /\ rec' = [q \in DnsRuns |-> rec'[q]] /\ rec'[r].pc # "tcp"
          /\ \A q \in DnsRuns : RunShape(rec'[q]) /\ (q # r => rec'[q] = rec[q])
      BY ZenonT(30), <1>0, <2>1 DEF RunShape
    <2> QED
      BY ZenonT(30), <1>s, <2>1, <2>2
  <1>8. ASSUME NEW p \in {"udp", "tcp"}, NEW a \in DnsAddrs,
               Dns!ForeignTakes(p, a) \/ Dns!ForeignLeaves(p, a)
        PROVE  DInv'
    <2>1. PICK v \in {"free", "foreign"} :
             /\ socket' = [socket EXCEPT ![p][a] = v] /\ socket[p][a] \in {"free", "foreign"}
             /\ UNCHANGED <<bound, rec>>
      BY <1>8 DEF Dns!ForeignTakes, Dns!ForeignLeaves
    <2>2. \A b \in DnsAddrs :
             socket'["udp"][b] = IF p = "udp" /\ b = a THEN v ELSE socket["udp"][b]
      BY <1>t, <2>1 DEF DShape
    <2>3. \A b \in DnsAddrs, q \in DnsRuns : socket'["udp"][b] = q <=> socket["udp"][b] = q
      BY <2>1, <2>2, DnsRunsType
    <2>4. /\ \A q \in DnsRuns : rec'[q].pc = "tcp" =>
                \E b \in DnsAddrs : rec'[q].addr = {b} /\ socket'["udp"][b] = q
          /\ \A b \in DnsAddrs, q \in DnsRuns :
                socket'["udp"][b] = q => rec'[q].pc = "tcp" /\ rec'[q].addr = {b}
      BY <1>t, <2>1, <2>3 DEF DHolds, Dns!NoLostSocket
    <2>5. v # "bound" /\ v \notin DnsRuns /\ socket[p][a] # "bound"
      BY <2>1, DnsRunsType
    <2> QED
      BY ZenonT(30), <1>0, <2>1, <2>4, <2>5, DMoves
  <1>9. ASSUME Dns!applyOn \/ Dns!applied \/ (\E a \in DnsAddrs : Dns!AddressChanges(a)) \/ UNCHANGED Dns!dvars
        PROVE  UNCHANGED <<bound, socket, rec>>
    BY <1>9 DEF Dns!applyOn, Dns!applied, Dns!AddressChanges, Dns!dvars
  <1> QED
    BY <1>1, <1>2, <1>3, <1>4, <1>5, <1>6, <1>7, <1>8, <1>9 DEF Dns!Next, Dns!Step, Dns!Host

(* Runs of the listen loop that overlap, however many, lose no DNS socket: *)
(* an open one is in the Map or in the hands of the run that binds it      *)
(* (dns/server.js).                                                        *)
THEOREM DnsHolds == DnsSpec => []Dns!NoLostSocket
  <1>1. DInv => Dns!NoLostSocket
    BY DEF DInv
  <1> QED
    BY <1>1, DInit, DNext, PTL DEF DnsSpec

-----------------------------------------------------------------------------
(* The parts together. *)

(* No listening server is lost to both managers: one that holds a port is  *)
(* registered or awaits its overlap timer (tcp.js, egress.js); and no DNS  *)
(* socket is lost when two runs of the loop overlap (dns/server.js).       *)
NothingLeaks == L4!NoLeakedServer /\ Egress!NoLeakedServer /\ Dns!NoLostSocket

(* The managers' records are true, failed binds included: a registered L4  *)
(* listener is up unless its removal is under way, an egress route that is *)
(* reported as bound is served on that address, only configured routes are *)
(* in either, and in a gateway that has not restarted every REDIRECT in    *)
(* the kernel is known to the near manager.                                *)
RecordsAreTrue ==
    /\ L4!RegisteredIsUp /\ L4!OnlyConfigured
    /\ Egress!BoundIsTrue /\ Egress!StatusIsConfigured
    /\ Near!RulesAreKnown

(* Whatever the host takes and releases and whichever binds fail, no       *)
(* server of tcp.js and egress.js and no socket of dns/server.js is lost.  *)
THEOREM NothingLeaksHolds == L4!Spec /\ Egress!Spec /\ DnsSpec => []NothingLeaks
  <1>1. L4!NoLeakedServer /\ Egress!NoLeakedServer /\ Dns!NoLostSocket => NothingLeaks
    BY DEF NothingLeaks
  <1> QED
    BY <1>1, L4Holds, EgressHolds, DnsHolds, PTL

(* With one call at a time, what tcp.js, egress.js and nearManager.js have *)
(* on record is true in every reachable state.                             *)
THEOREM RecordsAreTrueHold == L4!Spec /\ Egress!Spec /\ Near!Spec => []RecordsAreTrue
  <1>1. ASSUME L4!RegisteredIsUp, L4!OnlyConfigured, Egress!BoundIsTrue,
               Egress!StatusIsConfigured, Near!RulesAreKnown
        PROVE  RecordsAreTrue
    BY Zenon, <1>1 DEF RecordsAreTrue
  <1> QED
    BY <1>1, L4Holds, EgressHolds, NearHolds, PTL
=============================================================================
