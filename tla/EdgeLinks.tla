----------------------------- MODULE EdgeLinks ------------------------------
(***************************************************************************)
(* The links of the edge host: the relayed connection to the server, the   *)
(* calls to the gateway and their sockets, and a plugin process and its    *)
(* host.  They share no state here.  That the two ends of each agree is    *)
(* proved for every number of connections, calls, sessions, processes,     *)
(* faults and changes of the state.                                        *)
(***************************************************************************)
EXTENDS Naturals, Sequences, FiniteSetTheorems, TLAPS

CONSTANTS
    RelayConns, RelayChanges, RelayFaults,                    \* of EdgeRelay
    RpcCalls, RpcSessions, RpcProcs, RpcKinds,                \* of EdgeRpc
    RpcInflight, RpcSockets, RpcFaults, RpcStates, RpcOverlaps,
    ChildAsks, ChildCalls, HostCallsMax, OpenMax,             \* of EdgeChild
    MaxChildren, ChildConfigs

ASSUME NumberedFromOne == RelayConns \subseteq Nat \ {0} /\ RpcSessions \subseteq Nat \ {0}
ASSUME FinitelyMany == IsFiniteSet(RpcCalls) /\ IsFiniteSet(ChildAsks)
ASSUME KindsAssumption == RpcKinds \in [RpcCalls -> SUBSET {"open", "close", "request"}]
ASSUME LimitsAssumption == RpcInflight \in Nat /\ HostCallsMax \in Nat

VARIABLES
    xchan, xlocal, xupstream, xsilent, xtimer, xrelay, xserver, xfromServer, xtoHost, xgateway,
    xhost, xused,
    rws, rcall, rproc, rlink, rup, rdown, rbound, rrpc, rdesired, rentry, rnets, rruns, rsock,
    rinflight, rused,
    cstate, cchild, cstarted, crestart, cask, chostCalls, ccall, cconfig, ctoChild, ctoHost

-----------------------------------------------------------------------------
(* The gateway socket: only the session of this.rpc has frames under way,  *)
(* a call that waits to be read is not handled yet and is there once, and  *)
(* a socket that may still be reached belongs to the current entry.        *)

Rpc == INSTANCE EdgeRpc WITH
    Calls <- RpcCalls, Sessions <- RpcSessions, Procs <- RpcProcs, Kinds <- RpcKinds,
    MaxInflight <- RpcInflight, MaxSockets <- RpcSockets, MaxFaults <- RpcFaults,
    MaxStates <- RpcStates, MaxOverlaps <- RpcOverlaps,
    ws <- rws, call <- rcall, proc <- rproc, link <- rlink, up <- rup, down <- rdown,
    bound <- rbound, rpc <- rrpc, desired <- rdesired, entry <- rentry, nets <- rnets,
    runs <- rruns, sock <- rsock, inflight <- rinflight, used <- rused

rvars == Rpc!vars

Frames == [t : {"call"}, id : RpcCalls] \cup [t : {"close"}, id : RpcProcs]
Procs == RpcProcs \cup {0}
CallStates == [st : {"new", "waiting", "ended"}, by : Procs, kind : {"open", "close", "request"}]
Sockets == [st : {"none", "opening", "open", "closed"}, net : Nat, late : {"yes", "no"}]

ClientTyped ==
    /\ rws \in [n : Nat, st : {"retry", "connecting", "open"}, sessions : Nat]
    /\ rcall \in [RpcCalls -> CallStates]
    /\ rproc \in [cur : Procs, dying : SUBSET Procs, n : Procs]
GatewayTyped ==
    /\ rdesired \in {"on", "off"} /\ rentry \in Nat /\ rnets \in Nat
    /\ rruns \in [RpcCalls -> Nat] /\ rsock \in [RpcCalls -> Sockets]
RpcTyped == ClientTyped /\ GatewayTyped

LinkInv ==
    /\ rlink \in [RpcSessions -> {"none", "asked", "open", "cut"}]
    /\ rrpc \in Nat /\ rrpc <= rws.n
    /\ \A m \in RpcSessions : /\ m > rws.n => rlink[m] = "none"
                              /\ m < rws.n => rlink[m] = "cut"
                              /\ m = rws.n /\ rws.st = "retry" => rlink[m] = "cut"
                              /\ rlink[m] = "open" => rrpc = m
                              /\ rup[m] # <<>> => rrpc = m

\* calls that may wait to be read: made, and not handled
Unread == {c \in RpcCalls : rcall[c].st # "new" /\ rruns[c] = 0}
Running == {c \in RpcCalls : rruns[c] # 0}
CallsWait(s, W) ==
    /\ \A i \in 1..Len(s) : s[i].t = "call" => s[i].id \in W
    /\ \A i, j \in 1..Len(s) : s[i].t = "call" /\ s[j].t = "call" /\ s[i].id = s[j].id => i = j
WaitInv ==
    /\ rup \in [RpcSessions -> Seq(Frames)]
    /\ \A n \in RpcSessions : CallsWait(rup[n], Unread)
    /\ \A c \in RpcCalls : rcall[c].st = "new" => rruns[c] = 0
    /\ rinflight = Cardinality(Running) /\ rinflight <= RpcInflight

\* the sockets a close must still reach
Held == {c \in RpcCalls : rsock[c].st \in {"opening", "open"} /\ rsock[c].late = "no"}
SocksInv ==
    \A c \in Held : rsock[c].net = rentry /\ rentry # 0 /\ rdesired = "on" /\ rrpc # 0

RpcInv == RpcTyped /\ LinkInv /\ WaitInv /\ SocksInv

\* the provers that a step names no other for
USE SMTT(30), Z3T(30), Zenon

LEMMA RpcCardinality == ASSUME NEW S PROVE Rpc!Cardinality(S) = Cardinality(S)
  BY Zenon DEF Rpc!Cardinality, Cardinality, Rpc!IsFiniteSet, IsFiniteSet

LEMMA RunningFinite == IsFiniteSet(Running) /\ Cardinality(Running) \in Nat
  <1>1. Running \in SUBSET RpcCalls
    BY DEF Running
  <1> QED
    BY <1>1, FinitelyMany, FS_Subset, FS_CardinalityType

LEMMA WaitMore ==
    ASSUME NEW s, NEW W, CallsWait(s, W), NEW V, W \subseteq V PROVE CallsWait(s, V)
  BY DEF CallsWait

\* one frame more
LEMMA WaitLonger ==
    ASSUME NEW s \in Seq(Frames), NEW W, CallsWait(s, W), NEW V, W \subseteq V,
           NEW m \in Frames, m.t = "call" => m.id \in V \ W
    PROVE  Append(s, m) \in Seq(Frames) /\ CallsWait(Append(s, m), V)
  <1>1. /\ Append(s, m) \in Seq(Frames) /\ Len(Append(s, m)) = Len(s) + 1 /\ Len(s) \in Nat
        /\ \A i \in 1..Len(s) : Append(s, m)[i] = s[i]
        /\ Append(s, m)[Len(s) + 1] = m
    OBVIOUS
  <1>2. \A i \in 1..Len(s) + 1 : i \in 1..Len(s) \/ i = Len(s) + 1
    BY <1>1
  <1>3. \A i \in 1..Len(s) + 1 : Append(s, m)[i].t = "call" => Append(s, m)[i].id \in V
    BY <1>1, <1>2 DEF CallsWait
  <1>4. ASSUME NEW i \in 1..Len(s) + 1, NEW j \in 1..Len(s) + 1,
               Append(s, m)[i].t = "call", Append(s, m)[j].t = "call",
               Append(s, m)[i].id = Append(s, m)[j].id
        PROVE  i = j
    <2>1. CASE i \in 1..Len(s) /\ j \in 1..Len(s)
      <3>1. Append(s, m)[i] = s[i] /\ Append(s, m)[j] = s[j]
        BY <1>1, <2>1
      <3> QED
        BY <1>4, <2>1, <3>1 DEF CallsWait
    <2>2. CASE i = Len(s) + 1 \/ j = Len(s) + 1
      BY <1>1, <1>2, <1>4, <2>2 DEF CallsWait
    <2> QED
      BY <1>2, <2>1, <2>2
  <1> QED
    BY <1>1, <1>3, <1>4 DEF CallsWait

\* the first frame is read
LEMMA WaitShorter ==
    ASSUME NEW s \in Seq(Frames), NEW W, CallsWait(s, W), s # <<>>, NEW V,
           IF Head(s).t = "call" THEN W \ {Head(s).id} \subseteq V ELSE W \subseteq V
    PROVE  /\ Tail(s) \in Seq(Frames) /\ Head(s) \in Frames /\ CallsWait(Tail(s), V)
           /\ Head(s).t = "call" => Head(s).id \in W
  <1>1. /\ Tail(s) \in Seq(Frames) /\ Len(s) \in Nat /\ Len(s) > 0
        /\ Len(Tail(s)) = Len(s) - 1 /\ Head(s) = s[1] /\ s[1] \in Frames
        /\ \A i \in 1..Len(s) - 1 : Tail(s)[i] = s[i + 1]
    OBVIOUS
  <1>2. 1 \in 1..Len(s) /\ \A i \in 1..Len(s) - 1 : i + 1 \in 1..Len(s) /\ i + 1 # 1
    BY <1>1
  <1>3. \A i \in 1..Len(s) - 1 : Tail(s)[i].t = "call" =>
           Tail(s)[i].id \in W /\ (Head(s).t = "call" => Tail(s)[i].id # Head(s).id)
    BY <1>1, <1>2 DEF CallsWait
  <1>4. \A i \in 1..Len(s) - 1 : Tail(s)[i].t = "call" => Tail(s)[i].id \in V
    BY <1>3
  <1>5. ASSUME NEW i \in 1..Len(s) - 1, NEW j \in 1..Len(s) - 1,
               Tail(s)[i].t = "call", Tail(s)[j].t = "call", Tail(s)[i].id = Tail(s)[j].id
        PROVE  i = j
    <2>1. i + 1 = j + 1
      BY <1>1, <1>2, <1>5 DEF CallsWait
    <2> QED
      BY <1>1, <2>1
  <1> QED
    BY <1>1, <1>2, <1>4, <1>5 DEF CallsWait

LEMMA NothingWaits == ASSUME NEW W PROVE CallsWait(<<>>, W) /\ <<>> \in Seq(Frames)
  BY DEF CallsWait

LEMMA RpcInit == Rpc!Init => RpcInv
  <1> SUFFICES ASSUME Rpc!Init PROVE RpcInv
    OBVIOUS
  <1>1. ClientTyped
    BY DEF Rpc!Init, ClientTyped, CallStates, Procs
  <1>2. /\ rup \in [RpcSessions -> Seq(Frames)]
        /\ rlink \in [RpcSessions -> {"none", "asked", "open", "cut"}]
        /\ \A n \in RpcSessions : rup[n] = <<>> /\ rlink[n] = "none"
    BY DEF Rpc!Init
  <1>3. GatewayTyped
    BY DEF Rpc!Init, GatewayTyped, Sockets, Rpc!NoSocket
  <1>4. LinkInv
    <2>1. rws.n = 0 /\ rrpc = 0
      BY DEF Rpc!Init
    <2>2. \A m \in RpcSessions : m \in Nat /\ m # 0
      BY NumberedFromOne
    <2> QED
      BY <1>2, <2>1, <2>2 DEF LinkInv
  <1>5. WaitInv
    <2>1. Running = {} /\ rinflight = 0 /\ \A c \in RpcCalls : rruns[c] = 0
      BY DEF Rpc!Init, Running
    <2> QED
      BY <1>2, <2>1, NothingWaits, FS_EmptySet, LimitsAssumption DEF WaitInv
  <1>6. SocksInv
    BY DEF Rpc!Init, Rpc!NoSocket, Held, SocksInv
  <1> QED
    BY <1>1, <1>2, <1>3, <1>4, <1>5, <1>6 DEF RpcInv, RpcTyped

LEMMA ProcMoves ==
    ASSUME NEW p \in [cur : Procs, dying : SUBSET Procs, n : Procs], NEW a \in Procs,
           NEW d \in SUBSET Procs
    PROVE  /\ [p EXCEPT !.cur = a, !.dying = d] \in [cur : Procs, dying : SUBSET Procs, n : Procs]
           /\ [p EXCEPT !.cur = a, !.n = a] \in [cur : Procs, dying : SUBSET Procs, n : Procs]
  BY Zenon

LEMMA ClientStep == ClientTyped /\ [Rpc!Next]_rvars => ClientTyped'
  <1> SUFFICES ASSUME ClientTyped, [Rpc!Next]_rvars PROVE ClientTyped'
    OBVIOUS
  <1>t. /\ rws \in [n : Nat, st : {"retry", "connecting", "open"}, sessions : Nat]
        /\ rcall \in [RpcCalls -> CallStates]
        /\ rproc \in [cur : Procs, dying : SUBSET Procs, n : Procs]
        /\ rws.n + 1 \in Nat /\ rws.sessions + 1 \in Nat
        /\ rproc.cur \in Procs /\ rproc.dying \in SUBSET Procs /\ 0 \in Procs
    BY DEF ClientTyped, Procs
  <1>1. ASSUME NEW x, NEW s \in {"new", "waiting", "ended"}
        PROVE  [rcall EXCEPT ![x].st = s] \in [RpcCalls -> CallStates]
    BY Zenon, <1>t DEF CallStates
  <1>2. CASE UNCHANGED Rpc!client
    BY <1>2 DEF Rpc!client, ClientTyped
  <1>3. CASE Rpc!connect
    <2>1. rws' = [rws EXCEPT !.n = rws.n + 1, !.st = "connecting"] /\ UNCHANGED <<rcall, rproc>>
      BY <1>3 DEF Rpc!connect
    <2> QED
      BY Zenon, <1>t, <2>1 DEF ClientTyped
  <1>4. CASE Rpc!onOpen
    <2>1. /\ rws' = [rws EXCEPT !.st = "open", !.sessions = rws.sessions + 1] /\ rcall' = rcall
          /\ \/ rproc' = [rproc EXCEPT !.cur = 0, !.dying = rproc.dying \cup {rproc.cur}]
             \/ rproc' = rproc
      BY <1>4 DEF Rpc!onOpen
    <2>2. rproc' \in [cur : Procs, dying : SUBSET Procs, n : Procs]
      <3>1. rproc.dying \cup {rproc.cur} \in SUBSET Procs
        BY <1>t
      <3>2. [rproc EXCEPT !.cur = 0, !.dying = rproc.dying \cup {rproc.cur}]
                \in [cur : Procs, dying : SUBSET Procs, n : Procs]
        BY <1>t, <3>1, ProcMoves, Zenon
      <3> QED
        BY <1>t, <2>1, <3>2, Zenon
    <2>3. rws' \in [n : Nat, st : {"retry", "connecting", "open"}, sessions : Nat]
      BY Zenon, <1>t, <2>1
    <2> QED
      BY <1>t, <2>1, <2>2, <2>3 DEF ClientTyped
  <1>5. CASE Rpc!onClose
    <2>1. /\ rws' = [rws EXCEPT !.st = "retry"] /\ rproc' = rproc
          /\ rcall' = [c \in RpcCalls |-> IF rcall[c].st = "waiting"
                          THEN [rcall[c] EXCEPT !.st = "ended"] ELSE rcall[c]]
      BY <1>5 DEF Rpc!onClose
    <2>2. rcall' \in [RpcCalls -> CallStates]
      BY <1>t, <2>1 DEF CallStates
    <2> QED
      BY <1>t, <2>1, <2>2 DEF ClientTyped
  <1>6. CASE Rpc!onMessage
    <2>1. rcall' = [rcall EXCEPT ![Head(rdown[rws.n])].st = "ended"] /\ UNCHANGED <<rws, rproc>>
      BY <1>6 DEF Rpc!onMessage
    <2> QED
      BY ZenonT(30), <1>t, <1>1, <2>1 DEF ClientTyped
  <1>7. CASE Rpc!ProcessStarts \/ Rpc!ProcessStops \/ \E p \in RpcProcs : Rpc!ProcessExits(p)
    <2>1. /\ UNCHANGED <<rws, rcall>>
          /\ \/ /\ rproc.n + 1 \in RpcProcs
                /\ rproc' = [rproc EXCEPT !.cur = rproc.n + 1, !.n = rproc.n + 1]
             \/ rproc' = [rproc EXCEPT !.cur = 0, !.dying = rproc.dying \cup {rproc.cur}]
             \/ \E p \in RpcProcs :
                   rproc' = [rproc EXCEPT !.cur = IF p = rproc.cur THEN 0 ELSE rproc.cur,
                                          !.dying = rproc.dying \ {p}]
      BY Zenon, <1>7 DEF Rpc!ProcessStarts, Rpc!ProcessStops, Rpc!ProcessExits
    <2>2. rproc' \in [cur : Procs, dying : SUBSET Procs, n : Procs]
      <3>1. /\ rproc.dying \cup {rproc.cur} \in SUBSET Procs
            /\ \A p : rproc.dying \ {p} \in SUBSET Procs
            /\ \A p : (IF p = rproc.cur THEN 0 ELSE rproc.cur) \in Procs
            /\ rproc.n + 1 \in RpcProcs => rproc.n + 1 \in Procs
        BY <1>t DEF Procs
      <3>2. [rproc EXCEPT !.cur = 0, !.dying = rproc.dying \cup {rproc.cur}]
                \in [cur : Procs, dying : SUBSET Procs, n : Procs]
        BY <1>t, <3>1, ProcMoves, Zenon
      <3>3. rproc.n + 1 \in RpcProcs =>
               [rproc EXCEPT !.cur = rproc.n + 1, !.n = rproc.n + 1]
                  \in [cur : Procs, dying : SUBSET Procs, n : Procs]
        BY <1>t, <3>1, ProcMoves, Zenon
      <3>4. \A p : [rproc EXCEPT !.cur = IF p = rproc.cur THEN 0 ELSE rproc.cur,
                                 !.dying = rproc.dying \ {p}]
                      \in [cur : Procs, dying : SUBSET Procs, n : Procs]
        BY <1>t, <3>1, ProcMoves, Zenon
      <3> QED
        BY <2>1, <3>2, <3>3, <3>4, Zenon
    <2> QED
      BY Zenon, <1>t, <2>1, <2>2 DEF ClientTyped
  <1>8. ASSUME NEW c \in RpcCalls, Rpc!Call(c) \/ Rpc!TimedOut(c) PROVE ClientTyped'
    <2>1. /\ UNCHANGED <<rws, rproc>>
          /\ \/ \E k \in RpcKinds[c], s \in {"waiting", "ended"} :
                   rcall' = [rcall EXCEPT ![c] = [st |-> s, by |-> rproc.cur, kind |-> k]]
             \/ rcall' = [rcall EXCEPT ![c].st = "ended"]
      BY <1>8 DEF Rpc!Call, Rpc!TimedOut
    <2>2. \A k \in RpcKinds[c], s \in {"waiting", "ended"} :
             [st |-> s, by |-> rproc.cur, kind |-> k] \in CallStates
      BY <1>t, KindsAssumption DEF CallStates
    <2>3. rcall' \in [RpcCalls -> CallStates]
      <3>1. \A v \in CallStates : [rcall EXCEPT ![c] = v] \in [RpcCalls -> CallStates]
        BY <1>t
      <3>2. ASSUME NEW k \in RpcKinds[c], NEW s \in {"waiting", "ended"},
                   rcall' = [rcall EXCEPT ![c] = [st |-> s, by |-> rproc.cur, kind |-> k]]
            PROVE  rcall' \in [RpcCalls -> CallStates]
        BY <2>2, <3>1, <3>2, Zenon
      <3>3. rcall' = [rcall EXCEPT ![c].st = "ended"] => rcall' \in [RpcCalls -> CallStates]
        BY <1>1, Zenon
      <3> QED
        BY <2>1, <3>2, <3>3, Zenon
    <2> QED
      BY <1>t, <2>1, <2>3 DEF ClientTyped
  <1>9. Rpc!Bridge => UNCHANGED Rpc!client
    BY DEF Rpc!Bridge, Rpc!bindRpc, Rpc!RpcClosed, Rpc!onRpc
  <1>10. ASSUME NEW c \in RpcCalls, Rpc!Work(c) \/ Rpc!OpenFails(c) \/ Rpc!PeerCloses(c)
         PROVE  UNCHANGED Rpc!client
    BY <1>10 DEF Rpc!Work, Rpc!RequestEnds, Rpc!Opened, Rpc!OpenFails, Rpc!PeerCloses
  <1>11. ASSUME \/ \E n \in RpcSessions : Rpc!Cut(n)
                \/ Rpc!setDesired \/ Rpc!GatewayRestarts \/ UNCHANGED rvars
         PROVE  UNCHANGED Rpc!client
    BY <1>11 DEF Rpc!Cut, Rpc!setDesired, Rpc!GatewayRestarts, rvars, Rpc!vars
  <1> QED
    BY <1>2, <1>3, <1>4, <1>5, <1>6, <1>7, <1>8, <1>9, <1>10, <1>11
       DEF Rpc!Next, Rpc!Client, Rpc!Exits

LEMMA LinkStep == ClientTyped /\ LinkInv /\ WaitInv /\ [Rpc!Next]_rvars => LinkInv'
  <1> SUFFICES ASSUME ClientTyped, LinkInv, WaitInv, [Rpc!Next]_rvars PROVE LinkInv'
    OBVIOUS
  <1>t. /\ rws \in [n : Nat, st : {"retry", "connecting", "open"}, sessions : Nat]
        /\ rws.n \in Nat /\ \A m \in RpcSessions : m \in Nat /\ m # 0
        /\ rlink \in [RpcSessions -> {"none", "asked", "open", "cut"}]
    BY NumberedFromOne DEF ClientTyped, LinkInv
  <1>u. rup \in [RpcSessions -> Seq(Frames)]
    BY DEF WaitInv
  <1>1. ASSUME rlink' = rlink, rrpc' = rrpc, rws'.n = rws.n,
               rws'.st = "retry" => rws.st = "retry" \/ rlink[rws.n] = "cut",
               \A m \in RpcSessions : rup'[m] # <<>> => rup[m] # <<>> \/ rlink[m] = "open"
        PROVE  LinkInv'
    BY <1>t, <1>1 DEF LinkInv
  <1>2. CASE UNCHANGED <<rws, rlink, rup, rrpc>>
    BY <1>1, <1>2
  <1>3. ASSUME UNCHANGED <<rws, rlink, rrpc>>, NEW x, Rpc!send(x) PROVE LinkInv'
    <2>1. \A m \in RpcSessions : rup'[m] = rup[m] \/ (m = rws.n /\ rlink[m] = "open")
      BY <1>3 DEF Rpc!send
    <2> QED
      BY <1>1, <1>3, <2>1
  <1>4. CASE Rpc!connect
    <2>1. /\ rws.st = "retry" /\ rws'.n = rws.n + 1 /\ rws'.st = "connecting"
          /\ rlink' = [rlink EXCEPT ![rws.n + 1] = "asked"]
          /\ UNCHANGED <<rup, rrpc>>
      BY <1>4, <1>t DEF Rpc!connect, Rpc!gateway
    <2>2. rlink' \in [RpcSessions -> {"none", "asked", "open", "cut"}]
      BY Zenon, <1>t, <2>1
    <2>u. rrpc' \in Nat /\ rrpc' <= rws'.n
      BY <1>t, <2>1 DEF LinkInv
    <2>3. ASSUME NEW m \in RpcSessions
          PROVE  /\ m > rws.n + 1 => rlink'[m] = "none"
                 /\ m < rws.n + 1 => rlink'[m] = "cut"
                 /\ rlink'[m] = "open" => rlink[m] = "open"
      BY <1>t, <2>1 DEF LinkInv
    <2> QED
      BY <2>1, <2>2, <2>u, <2>3 DEF LinkInv
  <1>5. CASE Rpc!onOpen \/ Rpc!onClose
    <2>1. /\ rws'.n = rws.n /\ UNCHANGED <<rlink, rup, rrpc>>
          /\ rws'.st = "retry" => rlink[rws.n] = "cut"
      BY Zenon, <1>5, <1>t DEF Rpc!onOpen, Rpc!onClose, Rpc!wire, Rpc!gateway
    <2> QED
      BY <1>1, <2>1
  <1>6. Rpc!onMessage \/ Rpc!ProcessStarts \/ Rpc!ProcessStops => UNCHANGED <<rws, rlink, rup, rrpc>>
    BY DEF Rpc!onMessage, Rpc!ProcessStarts, Rpc!ProcessStops, Rpc!wire, Rpc!gateway
  <1>7. ASSUME NEW p \in RpcProcs, Rpc!ProcessExits(p) PROVE LinkInv'
    BY <1>3, <1>7 DEF Rpc!ProcessExits, Rpc!gateway
  <1>8. ASSUME NEW c \in RpcCalls, Rpc!Call(c) PROVE LinkInv'
    BY <1>3, <1>8 DEF Rpc!Call, Rpc!gateway
  <1>9. ASSUME NEW c \in RpcCalls, \/ Rpc!TimedOut(c) \/ Rpc!Work(c) \/ Rpc!OpenFails(c)
                                  \/ Rpc!PeerCloses(c)
        PROVE  UNCHANGED <<rws, rlink, rup, rrpc>>
    BY <1>9 DEF Rpc!TimedOut, Rpc!Work, Rpc!RequestEnds, Rpc!Opened, Rpc!OpenFails,
                Rpc!PeerCloses, Rpc!client, Rpc!wire, Rpc!gateway
  <1>10. ASSUME NEW n \in RpcSessions, Rpc!bindRpc(n) PROVE LinkInv'
    <2>1. /\ rlink[n] = "asked" /\ (\A m \in RpcSessions : m < n => rup[m] = <<>>)
          /\ rlink' = [m \in RpcSessions |-> IF m = n THEN "open"
                                             ELSE IF m = rrpc THEN "cut" ELSE rlink[m]]
          /\ rrpc' = n /\ UNCHANGED <<rws, rup>>
      BY <1>10 DEF Rpc!bindRpc, Rpc!client
    <2>2. n = rws.n /\ rws.st # "retry"
      BY <1>t, <2>1 DEF LinkInv
    <2>3. rlink' \in [RpcSessions -> {"none", "asked", "open", "cut"}]
      BY <1>t, <2>1
    <2>4. ASSUME NEW m \in RpcSessions
          PROVE  /\ m > rws.n => rlink'[m] = "none" /\ rup[m] = <<>>
                 /\ m < rws.n => rlink'[m] = "cut" /\ rup[m] = <<>>
      BY <1>t, <2>1, <2>2 DEF LinkInv
    <2>5. \A m \in RpcSessions : m > rws.n \/ m < rws.n \/ m = rws.n
      BY <1>t
    <2>6. \A m \in RpcSessions : /\ rlink'[m] = "open" => rrpc' = m
                                 /\ rup[m] # <<>> => rrpc' = m
      BY <2>1, <2>2, <2>4, <2>5
    <2>7. rrpc' \in Nat /\ rrpc' <= rws.n
      BY <1>t, <2>1, <2>2
    <2> QED
      BY <2>1, <2>2, <2>3, <2>4, <2>6, <2>7 DEF LinkInv
  <1>11. ASSUME NEW n \in RpcSessions, Rpc!RpcClosed(n) PROVE LinkInv'
    <2>1. /\ rlink[n] = "cut" /\ rup' = [rup EXCEPT ![n] = <<>>]
          /\ rrpc' = (IF rrpc = n THEN 0 ELSE rrpc) /\ UNCHANGED <<rws, rlink>>
      BY <1>11 DEF Rpc!RpcClosed, Rpc!client
    <2>2. rrpc' <= rws.n
      BY <1>t, <2>1 DEF LinkInv
    <2>3. ASSUME NEW m \in RpcSessions
          PROVE  /\ rlink[m] = "open" => m # n /\ rrpc = m
                 /\ rup'[m] # <<>> => rup[m] # <<>> /\ rrpc' = m
      <3>1. rup'[m] = IF m = n THEN <<>> ELSE rup[m]
        BY <1>u, <2>1
      <3> QED
        BY <2>1, <3>1 DEF LinkInv
    <2> QED
      BY <1>t, <2>1, <2>2, <2>3 DEF LinkInv
  <1>12. ASSUME NEW n \in RpcSessions, Rpc!onRpc(n) PROVE LinkInv'
    <2>1. rup[n] # <<>> /\ rup' = [rup EXCEPT ![n] = Tail(@)] /\ UNCHANGED <<rws, rlink, rrpc>>
      BY <1>12 DEF Rpc!onRpc, Rpc!client
    <2>2. \A m \in RpcSessions : rup'[m] # <<>> => rup[m] # <<>>
      BY <1>u, <2>1
    <2> QED
      BY <1>1, <2>1, <2>2
  <1>13. ASSUME NEW n \in RpcSessions, Rpc!Cut(n) PROVE LinkInv'
    <2>1. /\ rlink[n] \in {"asked", "open"} /\ rlink' = [rlink EXCEPT ![n] = "cut"]
          /\ UNCHANGED <<rws, rup, rrpc>>
      BY <1>13 DEF Rpc!Cut, Rpc!client, Rpc!gateway
    <2>2. /\ rlink' \in [RpcSessions -> {"none", "asked", "open", "cut"}]
          /\ \A m \in RpcSessions : rlink'[m] = IF m = n THEN "cut" ELSE rlink[m]
      BY <1>t, <2>1
    <2>3. rlink[n] # "none"
      BY <2>1
    <2> QED
      BY <2>1, <2>2, <2>3 DEF LinkInv
  <1>14. Rpc!setDesired \/ UNCHANGED rvars => UNCHANGED <<rws, rlink, rup, rrpc>>
    BY DEF Rpc!setDesired, rvars, Rpc!vars, Rpc!client, Rpc!wire, Rpc!gateway
  <1>15. CASE Rpc!GatewayRestarts
    <2>1. /\ rlink' = [n \in RpcSessions |-> IF rlink[n] = "none" THEN "none" ELSE "cut"]
          /\ rup' = [n \in RpcSessions |-> <<>>] /\ rrpc' = 0 /\ rws' = rws
      BY <1>15 DEF Rpc!GatewayRestarts, Rpc!client
    <2>2. rlink' \in [RpcSessions -> {"none", "asked", "open", "cut"}]
      BY <2>1
    <2>3. \A m \in RpcSessions : /\ rlink'[m] = IF rlink[m] = "none" THEN "none" ELSE "cut"
                                 /\ rup'[m] = <<>>
      BY <2>1
    <2> QED
      BY <1>t, <2>1, <2>2, <2>3 DEF LinkInv
  <1> QED
    BY <1>2, <1>4, <1>5, <1>6, <1>7, <1>8, <1>9, <1>10, <1>11, <1>12, <1>13, <1>14, <1>15
       DEF Rpc!Next, Rpc!Client, Rpc!Exits, Rpc!Bridge

LEMMA SentFrame ==
    ASSUME WaitInv, NEW V, Unread \subseteq V, NEW m \in Frames,
           m.t = "call" => m.id \in V \ Unread, Rpc!send(m)
    PROVE  /\ rup' \in [RpcSessions -> Seq(Frames)]
           /\ \A n \in RpcSessions : CallsWait(rup'[n], V)
  <1>1. /\ rup \in [RpcSessions -> Seq(Frames)]
        /\ \A n \in RpcSessions : CallsWait(rup[n], Unread) /\ CallsWait(rup[n], V)
    BY WaitMore DEF WaitInv
  <1>2. CASE rup' = rup
    BY <1>1, <1>2
  <1>3. CASE rup' = [rup EXCEPT ![rws.n] = Append(rup[rws.n], m)] /\ rws.n \in RpcSessions
    <2>1. /\ Append(rup[rws.n], m) \in Seq(Frames)
          /\ CallsWait(Append(rup[rws.n], m), V)
      <3>1. rup[rws.n] \in Seq(Frames) /\ CallsWait(rup[rws.n], Unread)
        BY <1>1, <1>3
      <3> QED
        BY <3>1, WaitLonger
    <2>2. \A n \in RpcSessions : rup'[n] = IF n = rws.n THEN Append(rup[rws.n], m) ELSE rup[n]
      BY <1>1, <1>3
    <2>3. rup' \in [RpcSessions -> Seq(Frames)]
      BY <1>1, <1>3, <2>1
    <2> QED
      BY Zenon, <1>1, <2>1, <2>2, <2>3
  <1>4. CASE rup' = [rup EXCEPT ![rws.n] = Append(rup[rws.n], m)] /\ rws.n \notin RpcSessions
    <2>1. rup' = rup
      BY <1>1, <1>4
    <2> QED
      BY <1>2, <2>1
  <1> QED
    BY <1>2, <1>3, <1>4 DEF Rpc!send

\* a frame is read, or the frames of a connection are gone
LEMMA ReadFrame ==
    ASSUME WaitInv, LinkInv, NEW n \in RpcSessions, NEW V, NEW s \in Seq(Frames),
           rup[n] # <<>> \/ Unread \subseteq V, CallsWait(s, V), rup' = [rup EXCEPT ![n] = s]
    PROVE  /\ rup' \in [RpcSessions -> Seq(Frames)]
           /\ \A m \in RpcSessions : CallsWait(rup'[m], V)
  <1>1. /\ rup \in [RpcSessions -> Seq(Frames)]
        /\ \A m \in RpcSessions : CallsWait(rup[m], Unread)
    BY DEF WaitInv
  <1>2. /\ rup' \in [RpcSessions -> Seq(Frames)]
        /\ \A m \in RpcSessions : rup'[m] = IF m = n THEN s ELSE rup[m]
    BY <1>1
  <1>3. ASSUME NEW m \in RpcSessions, m # n PROVE CallsWait(rup[m], V)
    <2>1. CASE Unread \subseteq V
      BY <1>1, <2>1, WaitMore
    <2>2. CASE rup[n] # <<>>
      <3>1. rup[m] = <<>>
        BY <1>3, <2>2 DEF LinkInv
      <3> QED
        BY <3>1, NothingWaits
    <2> QED
      BY <2>1, <2>2
  <1> QED
    BY <1>2, <1>3

LEMMA WaitStep == RpcTyped /\ LinkInv /\ WaitInv /\ [Rpc!Next]_rvars => WaitInv'
  <1> SUFFICES ASSUME RpcTyped, LinkInv, WaitInv, [Rpc!Next]_rvars PROVE WaitInv'
    OBVIOUS
  <1>t. /\ rcall \in [RpcCalls -> CallStates] /\ rruns \in [RpcCalls -> Nat]
        /\ rup \in [RpcSessions -> Seq(Frames)]
    BY DEF RpcTyped, ClientTyped, GatewayTyped, WaitInv
  <1>0. /\ \A n \in RpcSessions : CallsWait(rup[n], Unread)
        /\ \A c \in RpcCalls : rcall[c].st = "new" => rruns[c] = 0
        /\ rinflight = Cardinality(Running) /\ rinflight <= RpcInflight
        /\ rinflight \in Nat
    BY RunningFinite DEF WaitInv
  <1>1. ASSUME rruns' = rruns, rinflight' = rinflight,
               \A c \in RpcCalls : rcall'[c].st = "new" => rcall[c].st = "new",
               rup' \in [RpcSessions -> Seq(Frames)],
               \A n \in RpcSessions : CallsWait(rup'[n], Unread')
        PROVE  WaitInv'
    <2>1. Running' = Running
      BY <1>1 DEF Running
    <2> QED
      BY <1>0, <1>1, <2>1 DEF WaitInv
  <1>2. ASSUME rruns' = rruns, rinflight' = rinflight, rup' = rup,
               \A c \in RpcCalls : rcall'[c].st = "new" => rcall[c].st = "new"
        PROVE  WaitInv'
    <2>1. Unread \subseteq Unread'
      BY <1>2 DEF Unread
    <2>2. \A n \in RpcSessions : CallsWait(rup[n], Unread')
      BY <1>0, <2>1, WaitMore
    <2> QED
      BY <1>1, <1>2, <1>t, <2>2
  <1>3. CASE UNCHANGED <<rup, rcall, rruns, rinflight>>
    BY <1>2, <1>3
  <1>4. Rpc!connect \/ Rpc!onOpen \/ Rpc!ProcessStarts \/ Rpc!ProcessStops
            => UNCHANGED <<rup, rcall, rruns, rinflight>>
    BY DEF Rpc!connect, Rpc!onOpen, Rpc!ProcessStarts, Rpc!ProcessStops, Rpc!wire, Rpc!gateway
  <1>5. ASSUME Rpc!onClose \/ Rpc!onMessage \/ \E c \in RpcCalls : Rpc!TimedOut(c)
        PROVE  WaitInv'
    <2>1. /\ UNCHANGED <<rup, rruns, rinflight>>
          /\ \/ \E x : rcall' = [rcall EXCEPT ![x].st = "ended"]
             \/ rcall' = [c \in RpcCalls |-> IF rcall[c].st = "waiting"
                             THEN [rcall[c] EXCEPT !.st = "ended"] ELSE rcall[c]]
      BY <1>5 DEF Rpc!onClose, Rpc!onMessage, Rpc!TimedOut, Rpc!wire, Rpc!gateway
    <2>2. \A c \in RpcCalls : rcall'[c].st = "new" => rcall[c].st = "new"
      BY Zenon, <1>t, <2>1 DEF CallStates
    <2> QED
      BY <1>2, <2>1, <2>2
  <1>6. ASSUME NEW p \in RpcProcs, Rpc!ProcessExits(p) PROVE WaitInv'
    <2> DEFINE m == [t |-> "close", id |-> p]
    <2>1. Rpc!send(m) /\ UNCHANGED <<rcall, rruns, rinflight>>
      BY <1>6 DEF Rpc!ProcessExits, Rpc!gateway
    <2>2. m \in Frames /\ m.t # "call"
      BY DEF Frames
    <2> HIDE DEF m
    <2>3. Unread' = Unread
      BY <2>1 DEF Unread
    <2>4. /\ rup' \in [RpcSessions -> Seq(Frames)]
          /\ \A n \in RpcSessions : CallsWait(rup'[n], Unread)
      BY Zenon, <2>1, <2>2, SentFrame
    <2> QED
      BY <1>1, <2>1, <2>3, <2>4
  <1>7. ASSUME NEW c \in RpcCalls, Rpc!Call(c) PROVE WaitInv'
    <2> DEFINE m == [t |-> "call", id |-> c]
    <2>1. /\ rcall[c].st = "new" /\ Rpc!send(m) /\ UNCHANGED <<rruns, rinflight>>
          /\ \E v : v.st # "new" /\ rcall' = [rcall EXCEPT ![c] = v]
      <3>1. PICK k \in RpcKinds[c] :
               rcall' = [rcall EXCEPT ![c] = [st |-> IF rws.st = "open" THEN "waiting" ELSE "ended",
                                              by |-> rproc.cur, kind |-> k]]
        BY Zenon, <1>7 DEF Rpc!Call
      <3>2. [st |-> IF rws.st = "open" THEN "waiting" ELSE "ended",
             by |-> rproc.cur, kind |-> k].st # "new"
        OBVIOUS
      <3>3. rcall[c].st = "new" /\ Rpc!send(m) /\ UNCHANGED <<rruns, rinflight>>
        BY <1>7 DEF Rpc!Call, Rpc!gateway
      <3> QED
        BY Zenon, <3>1, <3>2, <3>3
    <2>2. m \in Frames /\ m.id = c
      BY DEF Frames
    <2> HIDE DEF m
    <2>3. rcall'[c].st # "new" /\ \A d \in RpcCalls \ {c} : rcall'[d] = rcall[d]
      BY <1>t, <2>1
    <2>4. Unread \subseteq Unread' /\ c \in Unread' /\ c \notin Unread
      BY <1>0, <2>1, <2>3 DEF Unread
    <2>5. /\ rup' \in [RpcSessions -> Seq(Frames)]
          /\ \A n \in RpcSessions : CallsWait(rup'[n], Unread')
      <3>1. PICK V : V = Unread'
        OBVIOUS
      <3>2. Unread \subseteq V /\ m.id \in V \ Unread
        BY <2>2, <2>4, <3>1
      <3>3. /\ rup' \in [RpcSessions -> Seq(Frames)]
            /\ \A n \in RpcSessions : CallsWait(rup'[n], V)
        BY Zenon, <2>1, <2>2, <3>2, SentFrame
      <3> QED
        BY <3>1, <3>3
    <2> QED
      BY <1>1, <2>1, <2>3, <2>5
  <1>8. ASSUME NEW c \in RpcCalls, rruns[c] # 0, rinflight' = rinflight - 1,
               rruns' = [rruns EXCEPT ![c] = 0], UNCHANGED <<rup, rcall>>
        PROVE  WaitInv'
    <2>1. Running' = Running \ {c} /\ c \in Running
      BY <1>t, <1>8 DEF Running
    <2>2. Cardinality(Running') = Cardinality(Running) - 1
      BY <2>1, RunningFinite, FS_RemoveElement
    <2>3. Unread \subseteq Unread'
      BY <1>t, <1>8 DEF Unread
    <2>4. \A n \in RpcSessions : CallsWait(rup[n], Unread')
      BY <1>0, <2>3, WaitMore
    <2>5. \A d \in RpcCalls : rcall'[d].st = "new" => rruns'[d] = 0
      BY <1>0, <1>t, <1>8
    <2>6. rinflight' = Cardinality(Running') /\ rinflight' <= RpcInflight
      BY <1>0, <1>8, <2>2, LimitsAssumption
    <2> QED
      BY <1>t, <1>8, <2>4, <2>5, <2>6 DEF WaitInv
  <1>9. ASSUME NEW c \in RpcCalls, Rpc!Work(c) \/ Rpc!OpenFails(c) PROVE WaitInv'
    BY <1>8, <1>9 DEF Rpc!Work, Rpc!RequestEnds, Rpc!Opened, Rpc!OpenFails, Rpc!Settled,
                      Rpc!client
  <1>10. ASSUME NEW c \in RpcCalls, Rpc!PeerCloses(c) PROVE UNCHANGED <<rup, rcall, rruns, rinflight>>
    BY <1>10 DEF Rpc!PeerCloses, Rpc!client, Rpc!wire
  <1>11. ASSUME NEW n \in RpcSessions, Rpc!bindRpc(n) PROVE UNCHANGED <<rup, rcall, rruns, rinflight>>
    BY Zenon, <1>11 DEF Rpc!bindRpc, Rpc!client
  <1>12. ASSUME NEW n \in RpcSessions, Rpc!RpcClosed(n) PROVE WaitInv'
    <2>1. rup' = [rup EXCEPT ![n] = <<>>] /\ UNCHANGED <<rcall, rruns, rinflight>>
      BY <1>12 DEF Rpc!RpcClosed, Rpc!client
    <2>2. Unread' = Unread
      BY <2>1 DEF Unread
    <2>3. /\ rup' \in [RpcSessions -> Seq(Frames)]
          /\ \A m \in RpcSessions : CallsWait(rup'[m], Unread)
      BY Zenon, <2>1, NothingWaits, ReadFrame
    <2> QED
      BY <1>1, <2>1, <2>2, <2>3
  <1>13. ASSUME NEW n \in RpcSessions, Rpc!onRpc(n) PROVE WaitInv'
    <2> DEFINE h == Head(rup[n])
    <2>0. rup[n] \in Seq(Frames) /\ CallsWait(rup[n], Unread)
      BY ZenonT(30), <1>0, <1>t
    <2>1. /\ rup[n] # <<>> /\ rup' = [rup EXCEPT ![n] = Tail(rup[n])] /\ rcall' = rcall
          /\ h.t = "close" \/ h.t = "call"
          /\ \/ UNCHANGED <<rruns, rinflight>>
             \/ /\ h.t = "call" /\ rinflight < RpcInflight
                /\ rruns' = [rruns EXCEPT ![h.id] = n] /\ rinflight' = rinflight + 1
      BY <1>13 DEF Rpc!onRpc, Rpc!OnCall, Rpc!Handle, Rpc!client
    <2>2. CASE UNCHANGED <<rruns, rinflight>>
      <3>1. Unread' = Unread
        BY <2>1, <2>2 DEF Unread
      <3>2. Tail(rup[n]) \in Seq(Frames) /\ CallsWait(Tail(rup[n]), Unread)
        BY <2>0, <2>1, WaitShorter
      <3>3. /\ rup' \in [RpcSessions -> Seq(Frames)]
            /\ \A m \in RpcSessions : CallsWait(rup'[m], Unread)
        BY ZenonT(30), <2>1, <3>2, ReadFrame
      <3> QED
        BY <1>1, <2>1, <2>2, <3>1, <3>3
    <2>3. CASE /\ h.t = "call" /\ rinflight < RpcInflight
               /\ rruns' = [rruns EXCEPT ![h.id] = n] /\ rinflight' = rinflight + 1
      <3>1. PICK V : V = Unread \ {h.id}
        BY Zenon
      <3>2. /\ Tail(rup[n]) \in Seq(Frames) /\ CallsWait(Tail(rup[n]), V)
            /\ h.id \in Unread
        BY Zenon, <2>0, <2>1, <2>3, <3>1, WaitShorter
      <3>3. h.id \in RpcCalls /\ rruns[h.id] = 0 /\ n # 0 /\ rcall[h.id].st # "new"
        BY <3>2, NumberedFromOne DEF Unread
      <3> HIDE DEF h
      <3>4. Unread' = V /\ Running' = Running \cup {h.id} /\ h.id \notin Running
        BY <1>t, <2>1, <2>3, <3>1, <3>3 DEF Unread, Running
      <3>5. Cardinality(Running') = Cardinality(Running) + 1
        BY Zenon, <3>4, RunningFinite, FS_AddElement
      <3>6. /\ rup' \in [RpcSessions -> Seq(Frames)]
            /\ \A m \in RpcSessions : CallsWait(rup'[m], V)
        BY Zenon, <2>1, <3>2, ReadFrame
      <3>7. \A d \in RpcCalls : rcall'[d].st = "new" => rruns'[d] = 0
        BY <1>0, <1>t, <2>1, <2>3, <3>3
      <3>8. rinflight' = Cardinality(Running') /\ rinflight' <= RpcInflight
        BY <1>0, <2>3, <3>5, LimitsAssumption
      <3> QED
        BY <3>4, <3>6, <3>7, <3>8 DEF WaitInv
    <2> QED
      BY <2>1, <2>2, <2>3
  <1>14. (\E n \in RpcSessions : Rpc!Cut(n)) \/ Rpc!setDesired \/ UNCHANGED rvars
            => UNCHANGED <<rup, rcall, rruns, rinflight>>
    BY DEF Rpc!Cut, Rpc!setDesired, rvars, Rpc!vars, Rpc!client, Rpc!wire, Rpc!gateway
  <1>15. CASE Rpc!GatewayRestarts
    <2>1. /\ rup' = [n \in RpcSessions |-> <<>>] /\ rinflight' = 0
          /\ rruns' = [c \in RpcCalls |-> 0]
      BY <1>15 DEF Rpc!GatewayRestarts
    <2>2. Running' = {} /\ \A c \in RpcCalls : rruns'[c] = 0
      BY <2>1 DEF Running
    <2>3. /\ rup' \in [RpcSessions -> Seq(Frames)]
          /\ \A n \in RpcSessions : CallsWait(rup'[n], Unread')
      BY <2>1, NothingWaits
    <2>4. rinflight' = Cardinality(Running') /\ rinflight' <= RpcInflight
      BY <2>1, <2>2, FS_EmptySet, LimitsAssumption
    <2> QED
      BY Zenon, <2>2, <2>3, <2>4 DEF WaitInv
  <1> QED
    BY <1>3, <1>4, <1>5, <1>6, <1>7, <1>9, <1>10, <1>11, <1>12, <1>13, <1>14, <1>15
       DEF Rpc!Next, Rpc!Client, Rpc!Exits, Rpc!Bridge

\* one socket changes its state
LEMMA SocketMoves ==
    ASSUME NEW f \in [RpcCalls -> Sockets], NEW c \in RpcCalls,
           NEW s \in {"none", "opening", "open", "closed"}, NEW g, g = [f EXCEPT ![c].st = s]
    PROVE  /\ g \in [RpcCalls -> Sockets]
           /\ \A d \in RpcCalls : /\ g[d].net = f[d].net /\ g[d].late = f[d].late
                                  /\ g[d].st = IF d = c THEN s ELSE f[d].st
  BY DEF Sockets

\* closePlugin: nothing is held any more
LEMMA ClosedAll ==
    ASSUME rsock \in [RpcCalls -> Sockets], SocksInv, Rpc!closePlugin
    PROVE  rsock' \in [RpcCalls -> Sockets] /\ rentry' = 0 /\ Held' = {}
  <1>1. /\ rsock' = [c \in RpcCalls |-> Rpc!CloseSocket(rsock[c], rentry)] /\ rentry' = 0
    BY DEF Rpc!closePlugin, Rpc!closeAll
  <1>2. ASSUME NEW c \in RpcCalls
        PROVE  /\ Rpc!CloseSocket(rsock[c], rentry) \in Sockets
               /\ ~ /\ Rpc!CloseSocket(rsock[c], rentry).st \in {"opening", "open"}
                    /\ Rpc!CloseSocket(rsock[c], rentry).late = "no"
    <2>1. rsock[c] \in Sockets
      OBVIOUS
    <2>2. rsock[c].st \in {"opening", "open"} /\ rsock[c].late = "no" => rsock[c].net = rentry
      BY DEF SocksInv, Held
    <2> QED
      BY Zenon, <2>1, <2>2 DEF Rpc!CloseSocket, Sockets
  <1>3. \A c \in RpcCalls : rsock'[c] = Rpc!CloseSocket(rsock[c], rentry)
    BY <1>1
  <1>4. rsock' \in [RpcCalls -> Sockets]
    BY <1>1, <1>2
  <1> QED
    BY <1>1, <1>2, <1>3, <1>4 DEF Held

LEMMA SocksStep ==
    RpcInv /\ [Rpc!Next]_rvars => GatewayTyped' /\ SocksInv'
  <1> SUFFICES ASSUME RpcInv, [Rpc!Next]_rvars PROVE GatewayTyped' /\ SocksInv'
    OBVIOUS
  <1>t. /\ rdesired \in {"on", "off"} /\ rentry \in Nat /\ rnets \in Nat
        /\ rruns \in [RpcCalls -> Nat] /\ rsock \in [RpcCalls -> Sockets]
        /\ rnets + 1 \in Nat /\ rnets + 1 # 0
    BY DEF RpcInv, RpcTyped, GatewayTyped
  <1>0. SocksInv /\ \A n \in RpcSessions : rup[n] # <<>> => rrpc # 0
    BY NumberedFromOne DEF RpcInv, LinkInv
  <1>c. ASSUME NEW d \in RpcCalls, rsock' = [rsock EXCEPT ![d].st = "closed"]
        PROVE  /\ rsock' \in [RpcCalls -> Sockets]
               /\ \A c \in RpcCalls : /\ rsock'[c].net = rsock[c].net
                                      /\ rsock'[c].late = rsock[c].late
                                      /\ rsock'[c].st = rsock[c].st \/ rsock'[c].st = "closed"
    BY <1>t, <1>c, SocketMoves
  <1>1. ASSUME GatewayTyped', Held' = {} PROVE GatewayTyped' /\ SocksInv'
    BY <1>1 DEF SocksInv
  <1>2. ASSUME rsock' \in [RpcCalls -> Sockets], rruns' \in [RpcCalls -> Nat],
               UNCHANGED <<rdesired, rentry, rnets>>, rrpc # 0 => rrpc' # 0,
               \A c \in Held' : c \in Held /\ rsock'[c].net = rsock[c].net
        PROVE  GatewayTyped' /\ SocksInv'
    BY <1>0, <1>t, <1>2 DEF GatewayTyped, SocksInv
  <1>3. CASE UNCHANGED <<rsock, rruns, rdesired, rentry, rnets, rrpc>>
    BY <1>2, <1>3, <1>t DEF Held
  <1>4. ASSUME \/ Rpc!Client \/ Rpc!Exits \/ Rpc!ProcessStarts \/ Rpc!ProcessStops
               \/ UNCHANGED rvars
        PROVE  UNCHANGED <<rsock, rruns, rdesired, rentry, rnets, rrpc>>
    BY Zenon, <1>4 DEF Rpc!Client, Rpc!connect, Rpc!onOpen, Rpc!onClose, Rpc!onMessage, Rpc!Exits,
                Rpc!ProcessExits, Rpc!ProcessStarts, Rpc!ProcessStops, rvars, Rpc!vars,
                Rpc!gateway
  <1>5. ASSUME \/ \E c \in RpcCalls : Rpc!Call(c) \/ Rpc!TimedOut(c)
               \/ \E n \in RpcSessions : Rpc!Cut(n)
        PROVE  UNCHANGED <<rsock, rruns, rdesired, rentry, rnets, rrpc>>
    BY Zenon, <1>5 DEF Rpc!Call, Rpc!TimedOut, Rpc!Cut, Rpc!gateway
  <1>6. ASSUME NEW c \in RpcCalls, Rpc!Work(c) \/ Rpc!OpenFails(c) \/ Rpc!PeerCloses(c)
        PROVE  GatewayTyped' /\ SocksInv'
    <2>1. /\ UNCHANGED <<rdesired, rentry, rnets, rrpc>>
          /\ rruns' = rruns \/ rruns' = [rruns EXCEPT ![c] = 0]
          /\ \/ rsock' = rsock
             \/ rsock' = [rsock EXCEPT ![c].st = "closed"]
             \/ rsock[c].st = "opening" /\ rsock' = [rsock EXCEPT ![c].st = "open"]
      BY <1>6 DEF Rpc!Work, Rpc!RequestEnds, Rpc!Opened, Rpc!OpenFails, Rpc!PeerCloses,
                  Rpc!Settled
    <2>2. rruns' \in [RpcCalls -> Nat]
      BY <1>t, <2>1
    <2>3. /\ rsock' \in [RpcCalls -> Sockets]
          /\ \A d \in RpcCalls : /\ rsock'[d].net = rsock[d].net /\ rsock'[d].late = rsock[d].late
                                 /\ rsock'[d].st \in {"opening", "open"}
                                        => rsock[d].st \in {"opening", "open"}
      <3>1. CASE rsock' = rsock
        BY <1>t, <3>1
      <3>2. CASE rsock' = [rsock EXCEPT ![c].st = "closed"]
        BY Zenon, <1>c, <3>2
      <3>3. CASE rsock[c].st = "opening" /\ rsock' = [rsock EXCEPT ![c].st = "open"]
        <4>1. /\ rsock' \in [RpcCalls -> Sockets]
              /\ \A d \in RpcCalls : /\ rsock'[d].net = rsock[d].net /\ rsock'[d].late = rsock[d].late
                                     /\ rsock'[d].st = IF d = c THEN "open" ELSE rsock[d].st
          BY <1>t, <3>3, SocketMoves
        <4> QED
          BY <3>3, <4>1
      <3> QED
        BY <2>1, <3>1, <3>2, <3>3
    <2> QED
      BY <1>2, <2>1, <2>2, <2>3 DEF Held
  <1>7. ASSUME NEW n \in RpcSessions, Rpc!bindRpc(n) PROVE GatewayTyped' /\ SocksInv'
    <2>1. /\ rrpc' = n /\ UNCHANGED <<rdesired, rnets, rruns>>
          /\ IF rrpc # 0 THEN Rpc!closePlugin ELSE UNCHANGED <<rsock, rentry>>
      BY <1>7 DEF Rpc!bindRpc
    <2>2. CASE rrpc # 0
      BY <1>0, <1>1, <1>t, <2>1, <2>2, ClosedAll DEF GatewayTyped
    <2>3. CASE rrpc = 0
      BY <1>2, <1>t, <2>1, <2>3 DEF Held
    <2> QED
      BY <2>2, <2>3
  <1>8. ASSUME NEW n \in RpcSessions, Rpc!RpcClosed(n) PROVE GatewayTyped' /\ SocksInv'
    <2>1. /\ UNCHANGED <<rdesired, rnets, rruns>>
          /\ Rpc!closePlugin \/ UNCHANGED <<rsock, rentry, rrpc>>
      BY <1>8 DEF Rpc!RpcClosed
    <2>2. CASE Rpc!closePlugin
      BY <1>0, <1>1, <1>t, <2>1, <2>2, ClosedAll DEF GatewayTyped
    <2> QED
      BY <1>3, <2>1, <2>2
  <1>9. ASSUME NEW n \in RpcSessions, Rpc!onRpc(n) PROVE GatewayTyped' /\ SocksInv'
    <2> DEFINE h == Head(rup[n])
    <2>1. /\ UNCHANGED <<rdesired, rrpc>> /\ rrpc # 0
          /\ \/ Rpc!closePlugin /\ UNCHANGED <<rnets, rruns>>
             \/ UNCHANGED <<rsock, rruns, rentry, rnets>>
             \/ /\ rdesired = "on"
                /\ rnets' = IF rentry = 0 THEN rnets + 1 ELSE rnets
                /\ rentry' = IF rentry = 0 THEN rnets + 1 ELSE rentry
                /\ \/ /\ rsock' = [rsock EXCEPT ![h.id] = [st |-> "opening", net |-> rentry',
                                                          late |-> "no"]]
                      /\ rruns' = [rruns EXCEPT ![h.id] = n]
                   \/ rsock' = rsock /\ (rruns' = rruns \/ rruns' = [rruns EXCEPT ![h.id] = n])
                   \/ /\ rruns' = rruns
                      /\ \E d \in RpcCalls : rsock' = [rsock EXCEPT ![d].st = "closed"]
      BY <1>0, <1>9 DEF Rpc!onRpc, Rpc!OnCall, Rpc!Handle, Rpc!InMap
    <2> HIDE DEF h
    <2>2. CASE Rpc!closePlugin /\ UNCHANGED <<rnets, rruns>>
      BY <1>0, <1>1, <1>t, <2>1, <2>2, ClosedAll DEF GatewayTyped
    <2>3. CASE UNCHANGED <<rsock, rruns, rentry, rnets>>
      BY <1>3, <2>1, <2>3
    <2>4. ASSUME rdesired = "on",
                 rnets' = IF rentry = 0 THEN rnets + 1 ELSE rnets,
                 rentry' = IF rentry = 0 THEN rnets + 1 ELSE rentry
          PROVE  /\ rnets' \in Nat /\ rentry' \in Nat /\ rentry' # 0
                 /\ \A c \in Held : rsock[c].net = rentry'
      BY <1>0, <1>t, <2>4 DEF SocksInv
    <2>5. ASSUME rdesired = "on", rnets' \in Nat, rentry' \in Nat, rentry' # 0,
                 \A c \in Held : rsock[c].net = rentry',
                 rsock' = [rsock EXCEPT ![h.id] = [st |-> "opening", net |-> rentry',
                                                  late |-> "no"]],
                 rruns' = [rruns EXCEPT ![h.id] = n]
          PROVE  GatewayTyped' /\ SocksInv'
      <3>1. n \in Nat
        BY NumberedFromOne
      <3>2. PICK v : v = [st |-> "opening", net |-> rentry', late |-> "no"]
        BY Zenon
      <3>3. v \in Sockets /\ v.net = rentry'
        BY <2>5, <3>2 DEF Sockets
      <3>4. rsock' = [rsock EXCEPT ![h.id] = v]
        BY <2>5, <3>2
      <3>5. rsock' \in [RpcCalls -> Sockets] /\ rruns' \in [RpcCalls -> Nat]
        <4>1. rsock' \in [RpcCalls -> Sockets]
          BY Zenon, <1>t, <3>3, <3>4
        <4>2. rruns' \in [RpcCalls -> Nat]
          BY Zenon, <1>t, <2>5, <3>1
        <4> QED
          BY <4>1, <4>2
      <3>6. \A c \in RpcCalls : rsock'[c] = v \/ rsock'[c] = rsock[c]
        BY <1>t, <3>4
      <3>7. \A c \in Held' : rsock'[c].net = rentry'
        BY <2>5, <3>3, <3>6 DEF Held
      <3> QED
        BY <1>t, <2>1, <2>5, <3>5, <3>7 DEF GatewayTyped, SocksInv
    <2>6. ASSUME rdesired = "on", rnets' \in Nat, rentry' \in Nat, rentry' # 0,
                 \A c \in Held : rsock[c].net = rentry',
                 \/ rsock' = rsock /\ (rruns' = rruns \/ rruns' = [rruns EXCEPT ![h.id] = n])
                 \/ /\ rruns' = rruns
                    /\ \E d \in RpcCalls : rsock' = [rsock EXCEPT ![d].st = "closed"]
          PROVE  GatewayTyped' /\ SocksInv'
      <3>1. rruns' \in [RpcCalls -> Nat]
        <4>1. n \in Nat
          BY NumberedFromOne
        <4> QED
          BY <1>t, <2>6, <4>1
      <3>2. /\ rsock' \in [RpcCalls -> Sockets]
            /\ \A c \in RpcCalls : /\ rsock'[c].net = rsock[c].net
                                   /\ rsock'[c].late = rsock[c].late
                                   /\ rsock'[c].st = rsock[c].st \/ rsock'[c].st = "closed"
        <4>1. CASE rsock' = rsock
          BY <1>t, <4>1
        <4>2. CASE \E d \in RpcCalls : rsock' = [rsock EXCEPT ![d].st = "closed"]
          BY Zenon, <1>c, <4>2
        <4> QED
          BY <2>6, <4>1, <4>2
      <3>3. \A c \in Held' : rsock'[c].net = rentry'
        BY <2>6, <3>2 DEF Held
      <3> QED
        BY <1>t, <2>1, <2>6, <3>1, <3>2, <3>3 DEF GatewayTyped, SocksInv
    <2> QED
      BY ZenonT(30), <2>1, <2>2, <2>3, <2>4, <2>5, <2>6
  <1>10. CASE Rpc!setDesired
    <2>1. /\ rdesired' = (IF rdesired = "on" THEN "off" ELSE "on")
          /\ UNCHANGED <<rrpc, rnets, rruns>>
          /\ IF rdesired' = "off" THEN Rpc!closePlugin ELSE UNCHANGED <<rsock, rentry>>
      BY <1>10 DEF Rpc!setDesired
    <2>2. CASE rdesired = "on"
      BY <1>0, <1>1, <1>t, <2>1, <2>2, ClosedAll DEF GatewayTyped
    <2>3. CASE rdesired = "off"
      <3>1. Held = {} /\ UNCHANGED <<rsock, rentry>> /\ rdesired' = "on"
        BY <1>0, <2>1, <2>3 DEF SocksInv
      <3>2. Held' = {}
        BY <3>1 DEF Held
      <3> QED
        BY <1>1, <1>t, <2>1, <3>1, <3>2 DEF GatewayTyped
    <2> QED
      BY <1>t, <2>2, <2>3
  <1>11. CASE Rpc!GatewayRestarts
    <2>1. /\ rruns' = [c \in RpcCalls |-> 0] /\ rentry' = 0 /\ rdesired' = "off"
          /\ rsock' = [c \in RpcCalls |-> [rsock[c] EXCEPT
                         !.st = IF rsock[c].st = "none" THEN rsock[c].st ELSE "closed"]]
          /\ rnets' = rnets
      BY <1>11 DEF Rpc!GatewayRestarts
    <2>2. /\ rsock' \in [RpcCalls -> Sockets]
          /\ \A c \in RpcCalls : rsock'[c].st \in {"none", "closed"}
      BY <1>t, <2>1 DEF Sockets
    <2>3. GatewayTyped' /\ Held' = {}
      BY <1>t, <2>1, <2>2 DEF GatewayTyped, Held
    <2> QED
      BY <1>1, <2>3
  <1> QED
    BY <1>3, <1>4, <1>5, <1>6, <1>7, <1>8, <1>9, <1>10, <1>11 DEF Rpc!Next, Rpc!Bridge

LEMMA RpcStep == RpcInv /\ [Rpc!Next]_rvars => RpcInv'
  BY ClientStep, LinkStep, WaitStep, SocksStep DEF RpcInv, RpcTyped

LEMMA RpcAgrees == RpcInv => Rpc!InflightIsTrue /\ Rpc!SocketsOwned
  <1> SUFFICES ASSUME RpcInv PROVE Rpc!InflightIsTrue /\ Rpc!SocketsOwned
    OBVIOUS
  <1>1. rinflight = Rpc!Cardinality({c \in RpcCalls : rruns[c] # 0}) /\ rinflight <= RpcInflight
    BY RpcCardinality DEF RpcInv, WaitInv, Running
  <1>2. \A c \in RpcCalls : rsock[c].st = "open" /\ rsock[c].late = "no" => c \in Held
    BY DEF Held
  <1> QED
    BY <1>1, <1>2 DEF RpcInv, SocksInv, Rpc!InflightIsTrue, Rpc!SocketsOwned

-----------------------------------------------------------------------------
(* A plugin process: a gc.* call on its way to the host is counted nowhere *)
(* yet and is there once, so each takes one place and gives it back.       *)

Child == INSTANCE EdgeChild WITH
    Asks <- ChildAsks, Calls <- ChildCalls, MaxHostCalls <- HostCallsMax, MaxOpen <- OpenMax,
    MaxConfigs <- ChildConfigs,
    state <- cstate, child <- cchild, started <- cstarted, restart <- crestart, ask <- cask,
    hostCalls <- chostCalls, call <- ccall, config <- cconfig, toChild <- ctoChild,
    toHost <- ctoHost

cvars == Child!vars

ChildMessages ==
    [t : {"init", "configure"}, id : Nat, v : Nat] \cup [t : {"call"}, id : Nat, v : ChildCalls]
        \cup [t : {"hostResult"}, id : Nat, v : ChildAsks]
HostMessages ==
    [t : {"ready"}, id : Nat, v : Nat] \cup [t : {"result"}, id : Nat, v : ChildCalls]
        \cup [t : {"host"}, id : Nat, v : ChildAsks]
HostAsks ==
    [st : {"new", "sent", "working", "done"}, n : Nat, id : Nat, got : ChildAsks \cup {0}]

ChildTyped ==
    /\ cchild \in [n : Nat, config : Nat, seq : Nat, hung : {"yes", "no"}]
    /\ cstarted \in Nat /\ cconfig \in Nat
    /\ cask \in [ChildAsks -> HostAsks]
    /\ ccall \in [ChildCalls -> {"new", "waiting", "ended"}]
    /\ ctoChild \in Seq(ChildMessages) /\ ctoHost \in Seq(HostMessages)

\* the gc.* calls on the way: sent, and each of them once
OnTheWay(s, a) ==
    /\ \A i \in 1..Len(s) : s[i].t = "host" => a[s[i].v].st = "sent"
    /\ \A i, j \in 1..Len(s) : s[i].t = "host" /\ s[j].t = "host" /\ s[i].v = s[j].v => i = j

Working(a) == {x \in ChildAsks : a[x].st = "working"}
AsksInv ==
    /\ ChildTyped /\ OnTheWay(ctoHost, cask)
    /\ chostCalls = Cardinality(Working(cask)) /\ chostCalls <= HostCallsMax

LEMMA ChildCardinality == ASSUME NEW S PROVE Child!Cardinality(S) = Cardinality(S)
  BY Zenon DEF Child!Cardinality, Cardinality, Child!IsFiniteSet, IsFiniteSet

LEMMA WorkingFinite == ASSUME NEW a PROVE IsFiniteSet(Working(a)) /\ Cardinality(Working(a)) \in Nat
  <1>1. Working(a) \in SUBSET ChildAsks
    BY DEF Working
  <1> QED
    BY <1>1, FinitelyMany, FS_Subset, FS_CardinalityType

\* a message that is no gc.* call changes nothing on the way
LEMMA WayPlain ==
    ASSUME NEW s \in Seq(HostMessages), NEW a, OnTheWay(s, a),
           NEW m \in HostMessages, m.t # "host"
    PROVE  Append(s, m) \in Seq(HostMessages) /\ OnTheWay(Append(s, m), a)
  <1>1. /\ Append(s, m) \in Seq(HostMessages) /\ Len(Append(s, m)) = Len(s) + 1 /\ Len(s) \in Nat
        /\ \A i \in 1..Len(s) : Append(s, m)[i] = s[i]
        /\ Append(s, m)[Len(s) + 1] = m
    OBVIOUS
  <1>2. \A i \in 1..Len(s) + 1 : i \in 1..Len(s) \/ i = Len(s) + 1
    BY <1>1
  <1>3. \A i \in 1..Len(s) + 1 : Append(s, m)[i].t = "host" =>
            i \in 1..Len(s) /\ Append(s, m)[i] = s[i]
    BY <1>1, <1>2
  <1>4. \A i \in 1..Len(s) + 1 : Append(s, m)[i].t = "host" => a[Append(s, m)[i].v].st = "sent"
    BY <1>3 DEF OnTheWay
  <1>5. ASSUME NEW i \in 1..Len(s) + 1, NEW j \in 1..Len(s) + 1,
               Append(s, m)[i].t = "host", Append(s, m)[j].t = "host",
               Append(s, m)[i].v = Append(s, m)[j].v
        PROVE  i = j
    BY ZenonT(30), <1>3, <1>5 DEF OnTheWay
  <1> QED
    BY <1>1, <1>4, <1>5 DEF OnTheWay

\* one more gc.* call, which was not sent before
LEMMA WayLonger ==
    ASSUME NEW s \in Seq(HostMessages), NEW a, OnTheWay(s, a), NEW b, NEW x \in ChildAsks,
           a[x].st = "new", b[x].st = "sent",
           \A y \in ChildAsks \ {x} : b[y].st = a[y].st,
           NEW m \in HostMessages, m.t = "host", m.v = x
    PROVE  Append(s, m) \in Seq(HostMessages) /\ OnTheWay(Append(s, m), b)
  <1>1. /\ Append(s, m) \in Seq(HostMessages) /\ Len(Append(s, m)) = Len(s) + 1 /\ Len(s) \in Nat
        /\ \A i \in 1..Len(s) : Append(s, m)[i] = s[i] /\ s[i] \in HostMessages
        /\ Append(s, m)[Len(s) + 1] = m
    OBVIOUS
  <1>2. \A i \in 1..Len(s) + 1 : i \in 1..Len(s) \/ i = Len(s) + 1
    BY <1>1
  <1>3. \A i \in 1..Len(s) : s[i].t = "host" => s[i].v \in ChildAsks
    BY <1>1 DEF HostMessages
  <1>4. \A i \in 1..Len(s) : s[i].t = "host" => s[i].v # x /\ b[s[i].v].st = "sent"
    BY ZenonT(30), <1>3 DEF OnTheWay
  <1>5. \A i \in 1..Len(s) + 1 : Append(s, m)[i].t = "host" => b[Append(s, m)[i].v].st = "sent"
    BY ZenonT(30), <1>1, <1>2, <1>4
  <1>6. ASSUME NEW i \in 1..Len(s) + 1, NEW j \in 1..Len(s) + 1,
               Append(s, m)[i].t = "host", Append(s, m)[j].t = "host",
               Append(s, m)[i].v = Append(s, m)[j].v
        PROVE  i = j
    <2>1. CASE i \in 1..Len(s) /\ j \in 1..Len(s)
      <3>1. Append(s, m)[i] = s[i] /\ Append(s, m)[j] = s[j]
        BY ZenonT(30), <1>1, <2>1
      <3> QED
        BY ZenonT(30), <1>6, <2>1, <3>1 DEF OnTheWay
    <2>2. CASE i = Len(s) + 1 \/ j = Len(s) + 1
      BY ZenonT(30), <1>1, <1>2, <1>4, <1>6, <2>2
    <2> QED
      BY <1>2, <2>1, <2>2
  <1> QED
    BY <1>1, <1>5, <1>6 DEF OnTheWay

\* the first message is taken; a gc.* call is not among the others
LEMMA WayShorter ==
    ASSUME NEW s \in Seq(HostMessages), NEW a, OnTheWay(s, a), s # <<>>,
           NEW b, \A y \in ChildAsks : (Head(s).t # "host" \/ y # Head(s).v) => b[y].st = a[y].st
    PROVE  Tail(s) \in Seq(HostMessages) /\ Head(s) \in HostMessages /\ OnTheWay(Tail(s), b)
  <1>1. /\ Tail(s) \in Seq(HostMessages) /\ Len(s) \in Nat /\ Len(s) > 0
        /\ Len(Tail(s)) = Len(s) - 1 /\ Head(s) = s[1]
        /\ \A i \in 1..Len(s) : s[i] \in HostMessages
        /\ \A i \in 1..Len(s) - 1 : Tail(s)[i] = s[i + 1]
    OBVIOUS
  <1>2. 1 \in 1..Len(s) /\ \A i \in 1..Len(s) - 1 : i + 1 \in 1..Len(s) /\ i + 1 # 1
    BY <1>1
  <1>3. \A i \in 1..Len(s) : s[i].t = "host" => s[i].v \in ChildAsks
    BY <1>1 DEF HostMessages
  <1>4. \A i \in 1..Len(s) - 1 : Tail(s)[i].t = "host" =>
           /\ a[Tail(s)[i].v].st = "sent" /\ Tail(s)[i].v \in ChildAsks
           /\ Head(s).t # "host" \/ Tail(s)[i].v # Head(s).v
    BY <1>1, <1>2, <1>3 DEF OnTheWay
  <1>5. \A i \in 1..Len(s) - 1 : Tail(s)[i].t = "host" => b[Tail(s)[i].v].st = "sent"
    BY <1>4
  <1>6. ASSUME NEW i \in 1..Len(s) - 1, NEW j \in 1..Len(s) - 1,
               Tail(s)[i].t = "host", Tail(s)[j].t = "host", Tail(s)[i].v = Tail(s)[j].v
        PROVE  i = j
    <2>1. i + 1 = j + 1
      BY <1>1, <1>2, <1>6 DEF OnTheWay
    <2> QED
      BY <1>1, <2>1
  <1> QED
    BY <1>1, <1>2, <1>5, <1>6 DEF OnTheWay

LEMMA AskMoves ==
    ASSUME NEW r \in HostAsks
    PROVE  /\ \A st \in {"new", "sent", "working", "done"} :
                  [r EXCEPT !.st = st] \in HostAsks /\ [r EXCEPT !.st = st].st = st
           /\ \A g \in ChildAsks : [r EXCEPT !.got = g] \in HostAsks /\ [r EXCEPT !.got = g].st = r.st
  BY DEF HostAsks

\* one message more
LEMMA Longer ==
    ASSUME NEW S, NEW s \in Seq(S), NEW m \in S PROVE Append(s, m) \in Seq(S)
  OBVIOUS

\* the same calls are worked on, so the count stays
LEMMA SameWorking ==
    ASSUME NEW a, NEW b, \A x \in ChildAsks : (a[x].st = "working") <=> (b[x].st = "working")
    PROVE  Working(a) = Working(b)
  BY DEF Working

LEMMA AsksInit == Child!Init => AsksInv /\ Child!CallsHaveChild
  <1> SUFFICES ASSUME Child!Init PROVE AsksInv /\ Child!CallsHaveChild
    OBVIOUS
  <1>1. ChildTyped
    BY DEF Child!Init, Child!NoChild, ChildTyped, HostAsks
  <1>2. OnTheWay(ctoHost, cask) /\ Working(cask) = {}
    BY DEF Child!Init, OnTheWay, Working
  <1>3. chostCalls = 0
    BY DEF Child!Init
  <1> QED
    BY <1>1, <1>2, <1>3, FS_EmptySet, LimitsAssumption DEF AsksInv, Child!Init, Child!CallsHaveChild

LEMMA CallsStep == ChildTyped /\ Child!CallsHaveChild /\ [Child!Next]_cvars => Child!CallsHaveChild'
  <1> SUFFICES ASSUME ChildTyped, Child!CallsHaveChild, [Child!Next]_cvars
               PROVE  Child!CallsHaveChild'
    OBVIOUS
  <1>1. ASSUME ccall' = ccall, cstate' = cstate \/ cstate' = "running", cchild'.n = cchild.n
        PROVE  Child!CallsHaveChild'
    BY <1>1 DEF Child!CallsHaveChild
  <1>2. CASE Child!spawn
    BY <1>2 DEF Child!spawn, Child!CallsHaveChild
  <1>3. CASE Child!onExit
    BY <1>3 DEF Child!onExit, Child!CallsHaveChild
  <1>4. CASE Child!Hangs
    BY <1>1, <1>4 DEF Child!Hangs, Child!host, ChildTyped
  <1>5. CASE Child!ChildHandles
    <2>1. cchild'.n = cchild.n
      BY <1>5 DEF Child!ChildHandles, Child!ConfigureTaken, ChildTyped
    <2> QED
      BY <1>1, <1>5, <2>1 DEF Child!ChildHandles, Child!host
  <1>6. CASE Child!HostHandles
    <2>1. \A c \in ChildCalls : ccall'[c] = "waiting" => ccall[c] = "waiting"
      BY <1>6 DEF Child!HostHandles, ChildTyped
    <2> QED
      BY <1>6, <2>1 DEF Child!HostHandles, Child!CallsHaveChild
  <1>7. CASE Child!Configured
    BY <1>1, <1>7 DEF Child!Configured
  <1>8. ASSUME NEW a \in ChildAsks, Child!Asked(a) \/ Child!AskTimesOut(a) \/ Child!HostAnswers(a)
        PROVE  Child!CallsHaveChild'
    BY ZenonT(30), <1>1, <1>8 DEF Child!Asked, Child!AskTimesOut, Child!HostAnswers, Child!host, ChildTyped
  <1>9. ASSUME NEW c \in ChildCalls, Child!Called(c) \/ Child!CallTimesOut(c)
        PROVE  Child!CallsHaveChild'
    <2>1. \A d \in ChildCalls : ccall'[d] = "waiting" =>
             ccall[d] = "waiting" \/ (cchild.n # 0 /\ cstate = "running")
      BY <1>9 DEF Child!Called, Child!CallTimesOut, ChildTyped
    <2> QED
      BY ZenonT(30), <1>9, <2>1 DEF Child!Called, Child!CallTimesOut, Child!CallsHaveChild
  <1>10. CASE UNCHANGED cvars
    BY <1>1, <1>10 DEF cvars, Child!vars, Child!host
  <1> QED
    BY <1>2, <1>3, <1>4, <1>5, <1>6, <1>7, <1>8, <1>9, <1>10 DEF Child!Next, Child!Watchdog

LEMMA AsksStep == AsksInv /\ [Child!Next]_cvars => AsksInv'
  <1> SUFFICES ASSUME AsksInv, [Child!Next]_cvars PROVE AsksInv'
    OBVIOUS
  <1>0. /\ ChildTyped /\ OnTheWay(ctoHost, cask)
        /\ chostCalls = Cardinality(Working(cask)) /\ chostCalls <= HostCallsMax
    BY DEF AsksInv
  <1>t. /\ cask \in [ChildAsks -> HostAsks] /\ ctoChild \in Seq(ChildMessages)
        /\ ctoHost \in Seq(HostMessages) /\ \A a \in ChildAsks : cask[a] \in HostAsks
    BY <1>0 DEF ChildTyped
  <1>1. ASSUME ChildTyped', cask' = cask, chostCalls' = chostCalls, OnTheWay(ctoHost', cask)
        PROVE  AsksInv'
    BY <1>0, <1>1 DEF AsksInv
  <1>2. CASE Child!spawn \/ Child!onExit \/ Child!Hangs \/ Child!Configured
    <2>1. ChildTyped'
      <3>1. CASE Child!spawn
        BY <1>0, <3>1 DEF Child!spawn, Child!NoChild, ChildTyped, ChildMessages
      <3>2. CASE Child!onExit
        BY <1>0, <3>2 DEF Child!onExit, Child!NoChild, ChildTyped
      <3>3. CASE Child!Hangs
        BY <1>0, <3>3 DEF Child!Hangs, Child!host, ChildTyped
      <3>4. CASE Child!Configured
        <4>1. [t |-> "configure", id |-> 0, v |-> cconfig + 2] \in ChildMessages
          <5>1. cconfig + 2 \in Nat
            BY <1>0 DEF ChildTyped
          <5> QED
            BY <5>1 DEF ChildMessages
        <4>2. Append(ctoChild, [t |-> "configure", id |-> 0, v |-> cconfig + 2]) \in Seq(ChildMessages)
          BY <1>t, <4>1
        <4>3. ctoChild' \in Seq(ChildMessages) /\ cconfig' = cconfig + 1
          BY <1>t, <3>4, <4>2 DEF Child!Configured
        <4>4. cconfig' \in Nat
          <5>1. cconfig \in Nat
            BY Zenon, <1>0 DEF ChildTyped
          <5> QED
            BY <4>3, <5>1
        <4>5. UNCHANGED <<cstarted, ccall, cchild, cask, ctoHost>>
          BY Zenon, <3>4 DEF Child!Configured
        <4> QED
          BY Zenon, <1>0, <4>3, <4>4, <4>5 DEF ChildTyped
      <3> QED
        BY <1>2, <3>1, <3>2, <3>3, <3>4
    <2>2. OnTheWay(<<>>, cask)
      BY DEF OnTheWay
    <2>3. cask' = cask /\ chostCalls' = chostCalls /\ (ctoHost' = ctoHost \/ ctoHost' = <<>>)
      BY <1>2 DEF Child!spawn, Child!onExit, Child!Hangs, Child!Configured, Child!host
    <2> QED
      BY <1>0, <1>1, <2>1, <2>2, <2>3
  <1>3. ASSUME NEW c \in ChildCalls, Child!Called(c) \/ Child!CallTimesOut(c) PROVE AsksInv'
    <2>1. [t |-> "call", id |-> 0, v |-> c] \in ChildMessages
      BY ZenonT(30) DEF ChildMessages
    <2>2. ChildTyped'
      <3>1. ccall' \in [ChildCalls -> {"new", "waiting", "ended"}]
        BY ZenonT(30), <1>0, <1>3 DEF Child!Called, Child!CallTimesOut, ChildTyped
      <3>2. ctoChild' = ctoChild \/ ctoChild' = Append(ctoChild, [t |-> "call", id |-> 0, v |-> c])
        BY <1>3 DEF Child!Called, Child!CallTimesOut
      <3>3. ctoChild' \in Seq(ChildMessages)
        BY ZenonT(30), <1>t, <2>1, <3>2, Longer
      <3> QED
        BY ZenonT(30), <1>0, <1>3, <3>1, <3>3 DEF Child!Called, Child!CallTimesOut, ChildTyped
    <2>3. cask' = cask /\ chostCalls' = chostCalls /\ ctoHost' = ctoHost
      BY <1>3 DEF Child!Called, Child!CallTimesOut
    <2> QED
      BY ZenonT(30), <1>0, <1>1, <2>2, <2>3
  <1>4. ASSUME NEW a \in ChildAsks, Child!Asked(a) PROVE AsksInv'
    <2> DEFINE m == [t |-> "host", id |-> cchild.seq + 1, v |-> a]
    <2>1. /\ cask[a].st = "new" /\ chostCalls' = chostCalls /\ ctoHost' = Append(ctoHost, m)
          /\ cask' = [cask EXCEPT ![a] = [st |-> "sent", n |-> cchild.n,
                                          id |-> cchild.seq + 1, got |-> 0]]
          /\ cchild' = [cchild EXCEPT !.seq = @ + 1]
          /\ UNCHANGED <<cstarted, cconfig, ccall, ctoChild>>
      BY <1>4 DEF Child!Asked, Child!host
    <2>2. /\ cask' \in [ChildAsks -> HostAsks] /\ cask'[a].st = "sent"
          /\ \A y \in ChildAsks \ {a} : cask'[y] = cask[y]
      <3>1. PICK h : h = [st |-> "sent", n |-> cchild.n, id |-> cchild.seq + 1, got |-> 0]
        BY Zenon
      <3>2. cchild.n \in Nat /\ cchild.seq + 1 \in Nat /\ cask \in [ChildAsks -> HostAsks]
        BY <1>0 DEF ChildTyped
      <3>3. h \in HostAsks /\ h.st = "sent"
        BY <3>1, <3>2 DEF HostAsks
      <3>4. cask' = [cask EXCEPT ![a] = h]
        BY ZenonT(30), <2>1, <3>1
      <3> QED
        BY <3>2, <3>3, <3>4
    <2>3. m \in HostMessages /\ m.t = "host" /\ m.v = a
      BY <1>0 DEF ChildTyped, HostMessages
    <2> HIDE DEF m
    <2>4. ctoHost' \in Seq(HostMessages) /\ OnTheWay(ctoHost', cask')
      <3>1. PICK b : b = cask'
        OBVIOUS
      <3>2. /\ cask[a].st = "new" /\ b[a].st = "sent" /\ OnTheWay(ctoHost, cask)
            /\ \A y \in ChildAsks \ {a} : b[y].st = cask[y].st
        BY <1>0, <2>1, <2>2, <3>1
      <3>3. Append(ctoHost, m) \in Seq(HostMessages) /\ OnTheWay(Append(ctoHost, m), b)
        BY <1>t, <2>3, <3>2, WayLonger
      <3> QED
        BY <2>1, <3>1, <3>3
    <2>5. cchild' \in [n : Nat, config : Nat, seq : Nat, hung : {"yes", "no"}]
      <3>1. cchild.seq + 1 \in Nat
        BY <1>0 DEF ChildTyped
      <3> QED
        BY <1>0, <2>1, <3>1 DEF ChildTyped
    <2>6. ChildTyped'
      BY <1>0, <1>t, <2>1, <2>2, <2>4, <2>5 DEF ChildTyped
    <2>7. Working(cask') = Working(cask)
      BY ZenonT(30), <2>1, <2>2, SameWorking
    <2> QED
      BY <1>0, <2>1, <2>4, <2>6, <2>7 DEF AsksInv
  <1>5. ASSUME cask' \in [ChildAsks -> HostAsks], \A y \in ChildAsks : cask'[y].st = cask[y].st,
               chostCalls' = chostCalls, ChildTyped', ctoHost' = ctoHost
        PROVE  AsksInv'
    <2>1. Working(cask') = Working(cask)
      BY <1>5, SameWorking
    <2>2. \A i \in 1..Len(ctoHost) : ctoHost[i].t = "host" => ctoHost[i].v \in ChildAsks
      <3>a. ctoHost \in Seq(HostMessages)
        BY Zenon, <1>0 DEF ChildTyped
      <3>1. \A i \in 1..Len(ctoHost) : ctoHost[i] \in HostMessages
        BY <3>a
      <3> QED
        BY <3>1 DEF HostMessages
    <2>3. OnTheWay(ctoHost', cask')
      BY <1>0, <1>5, <2>2 DEF OnTheWay
    <2> QED
      BY <1>0, <1>5, <2>1, <2>3 DEF AsksInv
  <1>6. ASSUME NEW a \in ChildAsks, Child!AskTimesOut(a) PROVE AsksInv'
    <2>1. cask' = [cask EXCEPT ![a].got = a] /\ UNCHANGED <<Child!host, cchild, ctoChild, ctoHost>>
      BY <1>6 DEF Child!AskTimesOut
    <2>2. cask' \in [ChildAsks -> HostAsks] /\ \A y \in ChildAsks : cask'[y].st = cask[y].st
      BY <1>0, <2>1 DEF ChildTyped, HostAsks
    <2>3. ChildTyped' /\ chostCalls' = chostCalls
      BY <1>0, <2>1, <2>2 DEF ChildTyped, Child!host
    <2> QED
      BY <1>5, <2>1, <2>2, <2>3
  <1>7. ASSUME NEW a \in ChildAsks, Child!HostAnswers(a) PROVE AsksInv'
    <2>1. /\ cask[a].st = "working" /\ cask' = [cask EXCEPT ![a].st = "done"]
          /\ chostCalls' = chostCalls - 1
          /\ \/ ctoChild' = ctoChild
             \/ ctoChild' = Append(ctoChild, [t |-> "hostResult", id |-> cask[a].id, v |-> a])
          /\ UNCHANGED <<cstarted, ccall, cconfig, cchild, ctoHost>>
      BY <1>7 DEF Child!HostAnswers, Child!PlaceBack
    <2>2. /\ cask' \in [ChildAsks -> HostAsks] /\ cask'[a].st = "done"
          /\ \A y \in ChildAsks \ {a} : cask'[y] = cask[y]
      BY Zenon, <1>t, <2>1, AskMoves
    <2>3. ctoChild' \in Seq(ChildMessages)
      <3>1. [t |-> "hostResult", id |-> cask[a].id, v |-> a] \in ChildMessages
        BY <1>0 DEF ChildTyped, HostAsks, ChildMessages
      <3> QED
        BY ZenonT(30), <1>t, <2>1, <3>1, Longer
    <2>4. ChildTyped'
      BY <1>0, <2>1, <2>2, <2>3 DEF ChildTyped
    <2>5. OnTheWay(ctoHost', cask')
      <3>1. \A i \in 1..Len(ctoHost) : ctoHost[i] \in HostMessages
        BY <1>0 DEF ChildTyped
      <3>2. \A i \in 1..Len(ctoHost) : ctoHost[i].t = "host" => ctoHost[i].v \in ChildAsks \ {a}
        BY <1>0, <2>1, <3>1 DEF HostMessages, OnTheWay
      <3> QED
        BY <1>0, <2>1, <2>2, <3>2 DEF OnTheWay
    <2>6. Working(cask') = Working(cask) \ {a} /\ a \in Working(cask)
      BY <2>1, <2>2 DEF Working
    <2>7. Cardinality(Working(cask')) = Cardinality(Working(cask)) - 1
      BY ZenonT(30), <2>6, WorkingFinite, FS_RemoveElement
    <2> QED
      BY <1>0, <2>1, <2>4, <2>5, <2>7, WorkingFinite, LimitsAssumption DEF AsksInv
  <1>8. CASE Child!ChildHandles
    <2> DEFINE m == Head(ctoChild)
    <2>1. /\ ctoChild' = Tail(ctoChild) /\ UNCHANGED Child!host /\ ctoChild # <<>>
          /\ \/ /\ m.t = "init" /\ cchild' = [cchild EXCEPT !.config = m.v + 1] /\ cask' = cask
                /\ ctoHost' = Append(ctoHost, [t |-> "ready", id |-> 0, v |-> 0])
             \/ /\ m.t = "configure" /\ cchild' = [cchild EXCEPT !.config = m.v]
                /\ cask' = cask /\ ctoHost' = ctoHost
             \/ /\ m.t = "call" /\ ctoHost' = Append(ctoHost, [t |-> "result", id |-> 0, v |-> m.v])
                /\ cask' = cask /\ cchild' = cchild
             \/ /\ m.t = "hostResult" /\ cchild' = cchild /\ ctoHost' = ctoHost
                /\ cask' = [a \in ChildAsks |-> IF a \in Child!Pending /\ cask[a].id = m.id
                                               THEN [cask[a] EXCEPT !.got = m.v] ELSE cask[a]]
      BY <1>8 DEF Child!ChildHandles, Child!ConfigureTaken
    <2>2. ctoChild' \in Seq(ChildMessages) /\ m \in ChildMessages
      BY <1>0, <2>1 DEF ChildTyped
    <2> HIDE DEF m
    <2>3. UNCHANGED <<cstarted, cconfig, ccall, chostCalls>>
      BY <2>1 DEF Child!host
    <2>4. CASE m.t = "init"
      <3>1. m.v + 1 \in Nat
        BY <2>2, <2>4 DEF ChildMessages
      <3>2. [t |-> "ready", id |-> 0, v |-> 0] \in HostMessages
        BY DEF HostMessages
      <3>3. ctoHost' \in Seq(HostMessages) /\ OnTheWay(ctoHost', cask)
        BY ZenonT(30), <1>0, <1>t, <2>1, <2>4, <3>2, WayPlain
      <3>4. cask' = cask /\ cchild' = [cchild EXCEPT !.config = m.v + 1]
        BY <2>1, <2>4
      <3>5. ChildTyped'
        BY ZenonT(30), <1>0, <2>2, <2>3, <3>1, <3>3, <3>4 DEF ChildTyped
      <3> QED
        BY <1>1, <2>3, <3>3, <3>4, <3>5
    <2>5. CASE m.t = "configure"
      <3>1. m.v \in Nat
        BY <2>2, <2>5 DEF ChildMessages
      <3>2. cask' = cask /\ cchild' = [cchild EXCEPT !.config = m.v] /\ ctoHost' = ctoHost
        BY <2>1, <2>5
      <3>3. ChildTyped'
        BY <1>0, <2>2, <2>3, <3>1, <3>2 DEF ChildTyped
      <3> QED
        BY <1>0, <1>1, <2>3, <3>2, <3>3
    <2>6. CASE m.t = "call"
      <3>1. m.v \in ChildCalls
        BY <2>2, <2>6 DEF ChildMessages
      <3>2. [t |-> "result", id |-> 0, v |-> m.v] \in HostMessages
        BY <3>1 DEF HostMessages
      <3>3. ctoHost' \in Seq(HostMessages) /\ OnTheWay(ctoHost', cask)
        BY ZenonT(30), <1>0, <1>t, <2>1, <2>6, <3>2, WayPlain
      <3>4. cask' = cask /\ cchild' = cchild
        BY <2>1, <2>6
      <3>5. ChildTyped'
        BY <1>0, <2>2, <2>3, <3>3, <3>4 DEF ChildTyped
      <3> QED
        BY <1>1, <2>3, <3>3, <3>4, <3>5
    <2>7. CASE m.t = "hostResult"
      <3>1. m.v \in ChildAsks
        BY <2>2, <2>7 DEF ChildMessages
      <3>2. /\ cchild' = cchild /\ ctoHost' = ctoHost
            /\ cask' = [a \in ChildAsks |-> IF a \in Child!Pending /\ cask[a].id = m.id
                                           THEN [cask[a] EXCEPT !.got = m.v] ELSE cask[a]]
        BY <2>1, <2>7
      <3>3. cask' \in [ChildAsks -> HostAsks] /\ \A y \in ChildAsks : cask'[y].st = cask[y].st
        BY ZenonT(30), <1>t, <3>1, <3>2, AskMoves
      <3>4. ChildTyped'
        BY <1>0, <2>2, <2>3, <3>2, <3>3 DEF ChildTyped
      <3> QED
        BY <1>5, <2>3, <3>2, <3>3, <3>4
    <2> QED
      BY <2>1, <2>4, <2>5, <2>6, <2>7
  <1>9. CASE Child!HostHandles
    <2> DEFINE m == Head(ctoHost)
    <2>1. /\ ctoHost # <<>> /\ ctoHost' = Tail(ctoHost)
          /\ \/ m.t = "ready" /\ UNCHANGED <<chostCalls, ccall, cask, ctoChild>>
             \/ /\ m.t = "result" /\ ccall' = [ccall EXCEPT ![m.v] = "ended"]
                /\ UNCHANGED <<chostCalls, cask, ctoChild>>
             \/ /\ m.t = "host" /\ chostCalls < HostCallsMax
                /\ chostCalls' = chostCalls + 1 /\ cask' = [cask EXCEPT ![m.v].st = "working"]
                /\ UNCHANGED <<ccall, ctoChild>>
             \/ /\ m.t = "host" /\ cask' = [cask EXCEPT ![m.v].st = "done"]
                /\ ctoChild' = Append(ctoChild, [t |-> "hostResult", id |-> m.id, v |-> m.v])
                /\ UNCHANGED <<chostCalls, ccall>>
          /\ UNCHANGED <<cstarted, cconfig, cchild>>
      BY <1>9 DEF Child!HostHandles
    <2>2. m \in HostMessages
      BY <1>0, <2>1 DEF ChildTyped
    <2>3. CASE m.t # "host"
      <3>1. cask' = cask /\ chostCalls' = chostCalls /\ ctoChild' = ctoChild
        BY <2>1, <2>3
      <3>2. ctoHost' \in Seq(HostMessages) /\ OnTheWay(ctoHost', cask)
        BY <1>0, <2>1, WayShorter DEF ChildTyped
      <3>3. ccall' \in [ChildCalls -> {"new", "waiting", "ended"}]
        BY <1>0, <2>1, <2>3 DEF ChildTyped
      <3>4. ChildTyped'
        BY <1>0, <2>1, <3>1, <3>2, <3>3 DEF ChildTyped
      <3> QED
        BY <1>1, <3>1, <3>2, <3>4
    <2>4. CASE m.t = "host"
      <3>1. m.v \in ChildAsks /\ m.id \in Nat
        BY <2>2, <2>4 DEF HostMessages
      <3>2. cask[m.v].st = "sent"
        <4>1. m = ctoHost[1] /\ 1 \in 1..Len(ctoHost)
          BY <1>0, <2>1 DEF ChildTyped
        <4> QED
          BY <1>0, <2>4, <4>1 DEF OnTheWay
      <3>3. ccall' = ccall
        BY ZenonT(30), <2>1, <2>4
      <3>4. ASSUME NEW st \in {"working", "done"}, cask' = [cask EXCEPT ![m.v].st = st]
            PROVE  /\ cask' \in [ChildAsks -> HostAsks] /\ cask'[m.v].st = st
                   /\ \A y \in ChildAsks \ {m.v} : cask'[y] = cask[y]
                   /\ ctoHost' \in Seq(HostMessages) /\ OnTheWay(ctoHost', cask')
        <4>1. /\ cask' \in [ChildAsks -> HostAsks] /\ cask'[m.v].st = st
              /\ \A y \in ChildAsks \ {m.v} : cask'[y] = cask[y]
          <5>1. [cask[m.v] EXCEPT !.st = st] \in HostAsks /\ [cask[m.v] EXCEPT !.st = st].st = st
            <6>1. PICK r : r = cask[m.v]
              OBVIOUS
            <6>2. r \in HostAsks
              BY <1>t, <3>1, <6>1
            <6>3. [r EXCEPT !.st = st] \in HostAsks /\ [r EXCEPT !.st = st].st = st
              BY ZenonT(30), <6>2, AskMoves
            <6> QED
              BY <6>1, <6>3
          <5> QED
            BY <1>t, <3>1, <3>4, <5>1
        <4>2. ctoHost' \in Seq(HostMessages) /\ OnTheWay(ctoHost', cask')
          BY <1>0, <2>1, <4>1, WayShorter DEF ChildTyped
        <4> QED
          BY <4>1, <4>2
      <3>5. CASE /\ chostCalls < HostCallsMax /\ chostCalls' = chostCalls + 1
                 /\ cask' = [cask EXCEPT ![m.v].st = "working"] /\ ctoChild' = ctoChild
        <4>1. /\ cask' \in [ChildAsks -> HostAsks] /\ cask'[m.v].st = "working"
              /\ \A y \in ChildAsks \ {m.v} : cask'[y] = cask[y]
              /\ ctoHost' \in Seq(HostMessages) /\ OnTheWay(ctoHost', cask')
          BY ZenonT(30), <3>4, <3>5
        <4>2. ChildTyped'
          BY ZenonT(30), <1>0, <2>1, <3>3, <3>5, <4>1 DEF ChildTyped
        <4>3. Working(cask') = Working(cask) \cup {m.v} /\ m.v \notin Working(cask)
          BY <3>1, <3>2, <4>1 DEF Working
        <4>4. Cardinality(Working(cask')) = Cardinality(Working(cask)) + 1
          BY ZenonT(30), <4>3, WorkingFinite, FS_AddElement
        <4>5. chostCalls' <= HostCallsMax
          BY <1>0, <3>5, WorkingFinite, LimitsAssumption
        <4> QED
          BY <1>0, <3>5, <4>1, <4>2, <4>4, <4>5 DEF AsksInv
      <3>6. CASE /\ cask' = [cask EXCEPT ![m.v].st = "done"] /\ chostCalls' = chostCalls
                 /\ ctoChild' = Append(ctoChild, [t |-> "hostResult", id |-> m.id, v |-> m.v])
        <4>1. /\ cask' \in [ChildAsks -> HostAsks] /\ cask'[m.v].st = "done"
              /\ \A y \in ChildAsks \ {m.v} : cask'[y] = cask[y]
              /\ ctoHost' \in Seq(HostMessages) /\ OnTheWay(ctoHost', cask')
          BY ZenonT(30), <3>4, <3>6
        <4>2. [t |-> "hostResult", id |-> m.id, v |-> m.v] \in ChildMessages
          BY <3>1 DEF ChildMessages
        <4>3. ctoChild' \in Seq(ChildMessages)
          BY <1>0, <3>6, <4>2 DEF ChildTyped
        <4>4. ChildTyped'
          BY ZenonT(30), <1>0, <2>1, <3>3, <4>1, <4>3 DEF ChildTyped
        <4>5. Working(cask') = Working(cask)
          BY <3>2, <4>1, SameWorking
        <4> QED
          BY <1>0, <3>6, <4>1, <4>4, <4>5 DEF AsksInv
      <3> QED
        BY <2>1, <2>4, <3>5, <3>6
    <2> QED
      BY <2>3, <2>4
  <1>10. CASE UNCHANGED cvars
    <2>1. ChildTyped' /\ cask' = cask /\ chostCalls' = chostCalls /\ ctoHost' = ctoHost
      BY <1>0, <1>10 DEF cvars, Child!vars, Child!host, ChildTyped
    <2> QED
      BY <1>0, <1>1, <2>1
  <1> QED
    BY <1>2, <1>3, <1>4, <1>6, <1>7, <1>8, <1>9, <1>10 DEF Child!Next, Child!Watchdog

LEMMA ChildAgrees == AsksInv => Child!PlacesCounted
  BY ChildCardinality DEF AsksInv, Working, Child!PlacesCounted

-----------------------------------------------------------------------------
(* The relay: only the pair of this.relay is open to the server, so what   *)
(* the gateway reads never goes back, and it is read before it is passed   *)
(* on.                                                                     *)

Relay == INSTANCE EdgeRelay WITH
    Conns <- RelayConns, MaxChanges <- RelayChanges, MaxFaults <- RelayFaults,
    chan <- xchan, local <- xlocal, upstream <- xupstream, silent <- xsilent, timer <- xtimer,
    relay <- xrelay, server <- xserver, fromServer <- xfromServer, toHost <- xtoHost,
    gateway <- xgateway, host <- xhost, used <- xused

xvars == Relay!vars

Between(s, lo, hi) == \A i \in 1..Len(s) : lo <= s[i] /\ s[i] <= hi
Rising(s) == \A i, j \in 1..Len(s) : i <= j => s[i] <= s[j]

EndsTyped ==
    /\ xchan \in [n : Nat, st : {"retry", "connecting", "open"}]
    /\ xlocal \in [RelayConns -> {"none", "asked", "open", "dying", "closed"}]
    /\ xupstream \in [RelayConns -> {"none", "connecting", "open", "dying", "closed"}]
    /\ xtimer \in SUBSET RelayConns
EndsInv ==
    /\ EndsTyped /\ (xchan.st # "retry" => xchan.n \in RelayConns)
    /\ \A c \in RelayConns : c > xchan.n => xlocal[c] = "none"
    /\ \A c \in RelayConns : xupstream[c] = "open" => xlocal[c] \in {"open", "dying"} /\ xrelay = c
    /\ \A c \in xtimer : xupstream[c] \in {"open", "dying"} /\ xlocal[c] \in {"open", "dying"}

FramesInv ==
    /\ xserver \in Nat /\ xgateway \in Nat /\ xhost \in Nat
    /\ xfromServer \in [RelayConns -> Seq(Nat)] /\ xtoHost \in [RelayConns -> Seq(Nat)]
    /\ xhost <= xgateway /\ xgateway <= xserver
    /\ \A c \in RelayConns : Between(xtoHost[c], 0, xgateway)
    /\ \A c \in RelayConns : xupstream[c] = "open" =>
          Between(xfromServer[c], xgateway, xserver) /\ Rising(xfromServer[c])

LEMMA Added ==
    ASSUME NEW s \in Seq(Nat), NEW lo \in Nat, NEW hi \in Nat, NEW v \in Nat,
           Between(s, lo, hi), hi <= v, lo <= v
    PROVE  /\ Append(s, v) \in Seq(Nat) /\ Between(Append(s, v), lo, v)
           /\ Rising(s) => Rising(Append(s, v))
  <1>1. /\ Append(s, v) \in Seq(Nat) /\ Len(Append(s, v)) = Len(s) + 1 /\ Len(s) \in Nat
        /\ \A i \in 1..Len(s) : Append(s, v)[i] = s[i] /\ s[i] \in Nat
        /\ Append(s, v)[Len(s) + 1] = v
    OBVIOUS
  <1>2. \A i \in 1..Len(s) + 1 : i \in 1..Len(s) \/ i = Len(s) + 1
    BY <1>1
  <1>3. Between(Append(s, v), lo, v)
    BY <1>1, <1>2 DEF Between
  <1>4. ASSUME Rising(s) PROVE Rising(Append(s, v))
    <2> SUFFICES ASSUME NEW i \in 1..Len(s) + 1, NEW j \in 1..Len(s) + 1, i <= j
                 PROVE  Append(s, v)[i] <= Append(s, v)[j]
      BY <1>1 DEF Rising
    <2>1. CASE j = Len(s) + 1
      BY <1>1, <1>3, <2>1 DEF Between
    <2>2. CASE j \in 1..Len(s)
      <3>1. i \in 1..Len(s)
        BY <1>1, <2>2
      <3> QED
        BY <1>1, <1>4, <2>2, <3>1 DEF Rising
    <2> QED
      BY <1>2, <2>1, <2>2
  <1> QED
    BY <1>1, <1>3, <1>4

LEMMA Taken ==
    ASSUME NEW s \in Seq(Nat), NEW lo \in Nat, NEW hi \in Nat, s # <<>>, Between(s, lo, hi)
    PROVE  /\ Tail(s) \in Seq(Nat) /\ Head(s) \in Nat /\ lo <= Head(s) /\ Head(s) <= hi
           /\ Between(Tail(s), lo, hi)
           /\ Rising(s) => Between(Tail(s), Head(s), hi) /\ Rising(Tail(s))
  <1>1. /\ Tail(s) \in Seq(Nat) /\ Len(s) \in Nat /\ Len(s) > 0 /\ Len(Tail(s)) = Len(s) - 1
        /\ \A i \in 1..Len(s) - 1 : Tail(s)[i] = s[i + 1] /\ s[i + 1] \in Nat
        /\ Head(s) = s[1] /\ s[1] \in Nat
    OBVIOUS
  <1>2. \A i \in 1..Len(s) - 1 : i + 1 \in 1..Len(s) /\ 1 <= i + 1
    BY <1>1
  <1>3. 1 \in 1..Len(s)
    BY <1>1
  <1>4. Between(Tail(s), lo, hi) /\ lo <= Head(s) /\ Head(s) <= hi
    BY <1>1, <1>2, <1>3 DEF Between
  <1>5. ASSUME Rising(s) PROVE Between(Tail(s), Head(s), hi) /\ Rising(Tail(s))
    <2>1. \A i \in 1..Len(s) - 1 : s[1] <= s[i + 1]
      BY <1>2, <1>3, <1>5 DEF Rising
    <2>2. ASSUME NEW i \in 1..Len(s) - 1, NEW j \in 1..Len(s) - 1, i <= j
          PROVE  s[i + 1] <= s[j + 1]
      <3>1. i + 1 <= j + 1
        BY <2>2
      <3> QED
        BY <1>2, <1>5, <3>1 DEF Rising
    <2> QED
      BY <1>1, <1>4, <2>1, <2>2 DEF Between, Rising
  <1> QED
    BY <1>1, <1>4, <1>5

\* connections are numbered in their order
LEMMA Later ==
    ASSUME NEW k \in Nat
    PROVE  k + 1 > k /\ \A c \in Nat : c > k + 1 => c > k /\ c # k + 1
  OBVIOUS

LEMMA EndsStep == EndsInv /\ [Relay!Next]_xvars => EndsInv'
  <1> SUFFICES ASSUME EndsInv, [Relay!Next]_xvars PROVE EndsInv'
    OBVIOUS
  <1> USE NumberedFromOne DEF EndsInv, EndsTyped
  <1>1. CASE Relay!connect
    <2>1. PICK n : n = xchan.n + 1
      BY ZenonT(30)
    <2>2. /\ n \in RelayConns /\ xchan' = [n |-> n, st |-> "connecting"]
          /\ xlocal' = [xlocal EXCEPT ![n] = "asked"]
          /\ xupstream' = xupstream /\ xtimer' = xtimer /\ xrelay' = xrelay
      BY <1>1, <2>1 DEF Relay!connect
    <2>3. \A c \in RelayConns : c \in Nat
      OBVIOUS
    <2>4. xchan.n \in Nat
      OBVIOUS
    <2>5. n > xchan.n /\ \A c \in RelayConns : c > n => c > xchan.n /\ c # n
      BY ZenonT(30), <2>1, <2>3, <2>4, Later
    <2>6. xlocal[n] = "none" /\ xupstream[n] # "open" /\ n \notin xtimer
      BY <2>2, <2>5
    <2> QED
      BY <2>2, <2>5, <2>6
  <1>2. CASE Relay!onOpen \/ Relay!onClose \/ Relay!onState \/ UNCHANGED xvars
    BY <1>2 DEF Relay!onOpen, Relay!onClose, Relay!onState, Relay!ends, xvars, Relay!vars
  <1>3. CASE Relay!terminate
    BY ZenonT(30), <1>3 DEF Relay!terminate
  <1>4. CASE Relay!StateChanges
    BY <1>4 DEF Relay!StateChanges, Relay!ends
  <1>5. ASSUME NEW c \in RelayConns, Relay!relayUpgrade(c) \/ Relay!fail(c) \/ Relay!Unasked(c)
        PROVE  EndsInv'
    BY ZenonT(30), <1>5 DEF Relay!relayUpgrade, Relay!fail, Relay!Unasked
  <1>6. ASSUME NEW c \in RelayConns, Relay!UpstreamOpen(c) PROVE EndsInv'
    BY Zenon, <1>6 DEF Relay!UpstreamOpen, Relay!bindRelay
  <1>7. ASSUME NEW c \in RelayConns, Relay!onMessage(c) \/ Relay!Silence(c) PROVE EndsInv'
    BY ZenonT(30), <1>7 DEF Relay!onMessage, Relay!Silence, Relay!ends
  <1>8. ASSUME NEW c \in RelayConns, Relay!UpstreamClosed(c) PROVE EndsInv'
    BY ZenonT(30), <1>8 DEF Relay!UpstreamClosed, Relay!Without
  <1>9. ASSUME NEW c \in RelayConns, Relay!LocalClosed(c) PROVE EndsInv'
    BY <1>9 DEF Relay!LocalClosed, Relay!Without
  <1>10. ASSUME NEW c \in RelayConns, Relay!PingTimer(c) \/ Relay!ServerCloses(c) PROVE EndsInv'
    BY ZenonT(30), <1>10 DEF Relay!PingTimer, Relay!ServerCloses
  <1> QED
    BY ZenonT(30), <1>1, <1>2, <1>3, <1>4, <1>5, <1>6, <1>7, <1>8, <1>9, <1>10
    DEF Relay!Next, Relay!Channel, Relay!Relay

LEMMA FramesStep == EndsInv /\ FramesInv /\ [Relay!Next]_xvars => FramesInv'
  <1> SUFFICES ASSUME EndsInv, FramesInv, [Relay!Next]_xvars PROVE FramesInv'
    OBVIOUS
  <1>0. /\ xserver \in Nat /\ xgateway \in Nat /\ xhost \in Nat
        /\ xfromServer \in [RelayConns -> Seq(Nat)] /\ xtoHost \in [RelayConns -> Seq(Nat)]
        /\ xhost <= xgateway /\ xgateway <= xserver /\ 0 \in Nat /\ 0 <= xgateway
    BY DEF FramesInv
  <1>1. \A c \in RelayConns : Between(xtoHost[c], 0, xgateway)
    BY DEF FramesInv
  <1>2. \A c \in RelayConns : xupstream[c] = "open" =>
           Between(xfromServer[c], xgateway, xserver) /\ Rising(xfromServer[c])
    BY DEF FramesInv
  <1>3. ASSUME NEW up \in RelayConns, xupstream[up] = "open", NEW c \in RelayConns, c # up
        PROVE  xupstream[c] # "open"
    BY <1>3 DEF EndsInv
  <1>4. Between(<<>>, 0, xgateway) /\ <<>> \in Seq(Nat)
    BY DEF Between
  <1>5. ASSUME xserver' = xserver, xfromServer' = xfromServer, xgateway' = xgateway,
               \A c \in RelayConns : xupstream'[c] = "open" => xupstream[c] = "open",
               xhost' \in Nat, xhost' <= xgateway, xtoHost' \in [RelayConns -> Seq(Nat)],
               \A c \in RelayConns : Between(xtoHost'[c], 0, xgateway)
        PROVE  FramesInv'
    BY ZenonT(30), <1>0, <1>2, <1>5 DEF FramesInv
  <1>6. ASSUME UNCHANGED Relay!frames,
               \A c \in RelayConns : xupstream'[c] = "open" => xupstream[c] = "open"
        PROVE  FramesInv'
    BY <1>0, <1>1, <1>5, <1>6 DEF Relay!frames
  <1>7. CASE Relay!connect \/ Relay!onOpen \/ UNCHANGED xvars
    BY ZenonT(30), <1>6, <1>7 DEF Relay!connect, Relay!onOpen, Relay!ends, xvars, Relay!vars
  <1>8. CASE Relay!onClose \/ Relay!terminate
    <2>1. /\ xserver' = xserver /\ xfromServer' = xfromServer /\ xgateway' = xgateway
          /\ xhost' = xhost /\ xupstream' = xupstream
          /\ xtoHost' = [xtoHost EXCEPT ![xchan.n] = <<>>]
      BY <1>8 DEF Relay!onClose, Relay!terminate, Relay!ends
    <2>2. /\ xtoHost' \in [RelayConns -> Seq(Nat)]
          /\ \A c \in RelayConns : xtoHost'[c] = <<>> \/ xtoHost'[c] = xtoHost[c]
      BY ZenonT(30), <1>0, <1>4, <2>1
    <2>3. \A c \in RelayConns : Between(xtoHost'[c], 0, xgateway)
      BY <1>1, <1>4, <2>2
    <2> QED
      BY <1>0, <1>5, <2>1, <2>2, <2>3
  <1>9. CASE Relay!onState
    <2> DEFINE n == xchan.n
    <2>1. /\ xserver' = xserver /\ xfromServer' = xfromServer /\ xgateway' = xgateway
          /\ xupstream' = xupstream /\ xtoHost[n] # <<>> /\ xhost' = Head(xtoHost[n])
          /\ xtoHost' = [xtoHost EXCEPT ![n] = Tail(@)]
      BY ZenonT(30), <1>9 DEF Relay!onState, Relay!ends
    <2>2. CASE n \in RelayConns
      <3>1. /\ Tail(xtoHost[n]) \in Seq(Nat) /\ xhost' \in Nat /\ xhost' <= xgateway
            /\ Between(Tail(xtoHost[n]), 0, xgateway)
        BY <1>0, <1>1, <2>1, <2>2, Taken
      <3>2. /\ xtoHost' \in [RelayConns -> Seq(Nat)]
            /\ \A c \in RelayConns : xtoHost'[c] = Tail(xtoHost[n]) \/ xtoHost'[c] = xtoHost[c]
        BY <1>0, <2>1, <2>2, <3>1
      <3>3. \A c \in RelayConns : Between(xtoHost'[c], 0, xgateway)
        BY ZenonT(30), <1>1, <3>1, <3>2
      <3> QED
        BY <1>5, <2>1, <3>1, <3>2, <3>3
    <2>3. n \in RelayConns
      BY <1>9 DEF Relay!onState, EndsInv
    <2> QED
      BY <2>2, <2>3
  <1>10. ASSUME NEW c \in RelayConns,
                \/ Relay!relayUpgrade(c) \/ Relay!fail(c) \/ Relay!Unasked(c) \/ Relay!LocalClosed(c)
                \/ Relay!PingTimer(c) \/ Relay!ServerCloses(c) \/ Relay!Silence(c)
         PROVE  FramesInv'
    <2>1. UNCHANGED Relay!frames
      BY ZenonT(30), <1>10 DEF Relay!relayUpgrade, Relay!fail, Relay!Unasked, Relay!LocalClosed,
                   Relay!PingTimer, Relay!ServerCloses, Relay!Silence
    <2>2. \A d \in RelayConns : xupstream'[d] = "open" => xupstream[d] = "open"
      BY <1>10 DEF EndsInv, EndsTyped, Relay!relayUpgrade, Relay!fail, Relay!Unasked,
                   Relay!LocalClosed, Relay!PingTimer, Relay!ServerCloses, Relay!Silence
    <2> QED
      BY ZenonT(30), <1>6, <2>1, <2>2
  <1>11. ASSUME NEW c \in RelayConns, Relay!UpstreamOpen(c) PROVE FramesInv'
    <2>1. /\ xserver' = xserver /\ xgateway' = xgateway /\ xhost' = xhost /\ xtoHost' = xtoHost
          /\ xfromServer' = [xfromServer EXCEPT ![c] = <<xserver>>]
          /\ \A d \in RelayConns : xupstream'[d] = "open" => d = c \/ xupstream[d] = "open"
      BY ZenonT(30), <1>11 DEF Relay!UpstreamOpen, Relay!bindRelay
    <2>2. <<xserver>> \in Seq(Nat) /\ Between(<<xserver>>, xgateway, xserver) /\ Rising(<<xserver>>)
      BY <1>0 DEF Between, Rising
    <2>3. /\ xfromServer' \in [RelayConns -> Seq(Nat)] /\ xfromServer'[c] = <<xserver>>
          /\ \A d \in RelayConns \ {c} : xfromServer'[d] = xfromServer[d]
      BY ZenonT(30), <1>0, <2>1, <2>2
    <2>4. \A d \in RelayConns : xupstream'[d] = "open" =>
             Between(xfromServer'[d], xgateway, xserver) /\ Rising(xfromServer'[d])
      BY Zenon, <1>2, <2>1, <2>2, <2>3
    <2> QED
      BY ZenonT(30), <1>0, <1>1, <2>1, <2>3, <2>4 DEF FramesInv
  <1>12. ASSUME NEW c \in RelayConns, Relay!onMessage(c) PROVE FramesInv'
    <2> DEFINE v == Head(xfromServer[c])
    <2>1. /\ xupstream[c] = "open" /\ xupstream' = xupstream /\ xfromServer[c] # <<>>
          /\ xserver' = xserver /\ xhost' = xhost /\ xgateway' = v
          /\ xfromServer' = [xfromServer EXCEPT ![c] = Tail(@)]
          /\ xtoHost' = IF xlocal[c] = "open" THEN [xtoHost EXCEPT ![c] = Append(@, v)] ELSE xtoHost
      BY Zenon, <1>12 DEF Relay!onMessage, Relay!ends
    <2>2. xfromServer[c] \in Seq(Nat) /\ xtoHost[c] \in Seq(Nat)
      BY <1>0
    <2>3. /\ Tail(xfromServer[c]) \in Seq(Nat) /\ v \in Nat /\ xgateway <= v /\ v <= xserver
          /\ Between(Tail(xfromServer[c]), v, xserver) /\ Rising(Tail(xfromServer[c]))
      BY ZenonT(30), <1>0, <1>2, <2>1, <2>2, Taken
    <2>4. ASSUME NEW d \in RelayConns
          PROVE  Between(xtoHost[d], 0, v) /\ xtoHost[d] \in Seq(Nat)
      BY <1>0, <1>1, <2>3 DEF Between
    <2>a. 0 \in Nat /\ v \in Nat /\ 0 <= v /\ v <= v
      BY <2>3
    <2>b. xtoHost[c] \in Seq(Nat) /\ Between(xtoHost[c], 0, v)
      BY Zenon, <2>4
    <2>5. Append(xtoHost[c], v) \in Seq(Nat) /\ Between(Append(xtoHost[c], v), 0, v)
      <3> HIDE DEF v
      <3> QED
        BY ZenonT(30), <2>a, <2>b, Added
    <2>6. /\ xtoHost' \in [RelayConns -> Seq(Nat)]
          /\ \A d \in RelayConns : xtoHost'[d] = xtoHost[d] \/ xtoHost'[d] = Append(xtoHost[c], v)
      BY ZenonT(30), <1>0, <2>1, <2>5
    <2>7. \A d \in RelayConns : Between(xtoHost'[d], 0, v)
      BY ZenonT(30), <2>4, <2>5, <2>6
    <2>8. xfromServer' \in [RelayConns -> Seq(Nat)] /\ xfromServer'[c] = Tail(xfromServer[c])
      BY ZenonT(30), <1>0, <2>1, <2>3
    <2>9. \A d \in RelayConns : xupstream'[d] = "open" => d = c
      BY <1>3, <2>1
    <2>10. xhost <= v
      BY <1>0, <2>3
    <2> QED
      BY ZenonT(30), <1>0, <2>1, <2>3, <2>6, <2>7, <2>8, <2>9, <2>10 DEF FramesInv
  <1>13. ASSUME NEW c \in RelayConns, Relay!UpstreamClosed(c) PROVE FramesInv'
    <2>1. /\ xserver' = xserver /\ xgateway' = xgateway /\ xhost' = xhost /\ xtoHost' = xtoHost
          /\ xfromServer' = [xfromServer EXCEPT ![c] = <<>>]
          /\ xupstream' = [xupstream EXCEPT ![c] = "closed"]
      BY ZenonT(30), <1>13 DEF Relay!UpstreamClosed
    <2>2. /\ xfromServer' \in [RelayConns -> Seq(Nat)]
          /\ \A d \in RelayConns \ {c} : xfromServer'[d] = xfromServer[d]
          /\ \A d \in RelayConns : xupstream'[d] = "open" => d # c /\ xupstream[d] = "open"
      BY ZenonT(30), <1>0, <1>4, <2>1 DEF EndsInv, EndsTyped
    <2> QED
      BY <1>0, <1>1, <1>2, <2>1, <2>2 DEF FramesInv
  <1>14. CASE Relay!StateChanges
    <2>1. /\ xserver' = xserver + 1 /\ xgateway' = xgateway /\ xhost' = xhost /\ xtoHost' = xtoHost
          /\ xfromServer' = [c \in RelayConns |->
                IF xupstream[c] = "open" THEN Append(xfromServer[c], xserver + 1)
                ELSE xfromServer[c]]
          /\ xupstream' = xupstream
      BY ZenonT(30), <1>14 DEF Relay!StateChanges, Relay!ends
    <2>2. xserver + 1 \in Nat /\ xserver <= xserver + 1 /\ xgateway <= xserver + 1
      BY <1>0
    <2>3. ASSUME NEW c \in RelayConns
          PROVE  /\ xfromServer'[c] \in Seq(Nat)
                 /\ xupstream[c] = "open" =>
                       Between(xfromServer'[c], xgateway, xserver + 1) /\ Rising(xfromServer'[c])
      <3>1. CASE xupstream[c] = "open"
        <4>1. xfromServer'[c] = Append(xfromServer[c], xserver + 1) /\ xfromServer[c] \in Seq(Nat)
          BY <1>0, <2>1, <3>1
        <4> QED
          BY ZenonT(30), <1>0, <1>2, <2>2, <3>1, <4>1, Added
      <3>2. CASE xupstream[c] # "open"
        BY ZenonT(30), <1>0, <2>1, <3>2
      <3> QED
        BY ZenonT(30), <3>1, <3>2
    <2>4. xfromServer' \in [RelayConns -> Seq(Nat)]
      BY <2>1, <2>3
    <2> QED
      BY <1>0, <1>1, <2>1, <2>2, <2>3, <2>4 DEF FramesInv
  <1> QED
    BY <1>7, <1>8, <1>9, <1>10, <1>11, <1>12, <1>13, <1>14
    DEF Relay!Next, Relay!Channel, Relay!Relay

LEMMA RelayInit == Relay!Init => EndsInv /\ FramesInv
  <1> SUFFICES ASSUME Relay!Init PROVE EndsInv /\ FramesInv
    BY ZenonT(30)
  <1>1. EndsTyped
    BY ZenonT(30) DEF Relay!Init, EndsTyped
  <1>2. EndsInv
    BY ZenonT(30), <1>1 DEF Relay!Init, EndsInv
  <1>3. xserver = 1 /\ xgateway = 0 /\ xhost = 0
    BY ZenonT(30) DEF Relay!Init
  <1>4. \A c \in RelayConns : xfromServer[c] = <<>> /\ xtoHost[c] = <<>> /\ xupstream[c] = "none"
    BY ZenonT(30) DEF Relay!Init
  <1>5. xfromServer \in [RelayConns -> Seq(Nat)] /\ xtoHost \in [RelayConns -> Seq(Nat)]
    BY DEF Relay!Init
  <1>6. FramesInv
    BY <1>3, <1>4, <1>5 DEF FramesInv, Between
  <1> QED
    BY <1>2, <1>6

LEMMA RelayAgrees == EndsInv /\ FramesInv => Relay!OneRelay /\ Relay!HostNotAhead
  BY DEF EndsInv, EndsTyped, FramesInv, Relay!OneRelay, Relay!HostNotAhead

-----------------------------------------------------------------------------
(* Both ends of a link agree, whatever ended what: the gateway's counts of *)
(* the plugins' calls and sockets are true (netProxy.js, bridge.js); a     *)
(* plugin process and its host agree on what is open between them, over    *)
(* crashes and restarts (pluginProcess.js); there is one relay at a time,  *)
(* and the edge host never acts on a state the gateway has not read        *)
(* (bridge.js).                                                            *)
LinksAgree ==
    /\ Rpc!InflightIsTrue /\ Rpc!SocketsOwned
    /\ Child!PlacesCounted /\ Child!CallsHaveChild
    /\ Relay!OneRelay /\ Relay!HostNotAhead

(* For every number of connections, calls, sessions, processes and faults, *)
(* the two ends of the links of the edge host agree: what the gateway      *)
(* counts of a plugin is what is under way, every socket that is open is   *)
(* within the reach of the next close, the host calls of a plugin process  *)
(* give their places back, and the edge host is never ahead of the gateway *)
(* (bridge.js, netProxy.js, pluginProcess.js, channel.js).                 *)
THEOREM LinksAgreeHolds == Relay!Spec /\ Rpc!Spec /\ Child!Spec => []LinksAgree
  <1>1. Relay!Spec => [](EndsInv /\ FramesInv)
    BY RelayInit, EndsStep, FramesStep, PTL DEF Relay!Spec, xvars
  <1>2. Rpc!Spec => []RpcInv
    BY RpcInit, RpcStep, PTL DEF Rpc!Spec, rvars
  <1>3. Child!Spec => [](AsksInv /\ Child!CallsHaveChild)
    <2>1. AsksInv => ChildTyped
      BY DEF AsksInv
    <2> QED
      BY <2>1, AsksInit, AsksStep, CallsStep, PTL DEF Child!Spec, cvars
  <1>4. EndsInv /\ FramesInv /\ RpcInv /\ AsksInv /\ Child!CallsHaveChild => LinksAgree
    BY RelayAgrees, RpcAgrees, ChildAgrees DEF LinksAgree
  <1> QED
    BY <1>1, <1>2, <1>3, <1>4, PTL
=============================================================================
