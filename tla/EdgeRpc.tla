------------------------------ MODULE EdgeRpc ------------------------------
(***************************************************************************)
(* The gateway socket between the edge host and the gateway: GatewayRpc    *)
(* (edge/remote.js) calls, the bridge (edge/bridge.js) checks and counts,  *)
(* PluginNet (edge/netProxy.js) opens sockets on behalf of one plugin.     *)
(* The processes of the plugin come and go (edge/host.js), the connection  *)
(* breaks and returns as a new session, the server withdraws the plugin.   *)
(*                                                                         *)
(* A call opens a socket (udp.bind, tcp.connect; mdns.browse is one that   *)
(* opens at once), closes one (udp.close, tcp.destroy, mdns.stop) or is a  *)
(* request that leaves nothing behind (http.request, udp.send, tcp.write,  *)
(* ...).  The socket a call opens is named after the call.  `push` and     *)
(* `info` frames change nothing here and are left out.                     *)
(***************************************************************************)
EXTENDS Naturals, Sequences, FiniteSets

CONSTANTS
    Calls,          \* the calls, numbered as by nextId
    Sessions,       \* the connections, in their order
    Procs,          \* the processes of the plugin, in their order
    Kinds,          \* what each call may be: open, close, request
    MaxInflight,    \* MAX_INFLIGHT
    MaxSockets,     \* LIMITS.udpSocketsPerPlugin, tcpSocketsPerPlugin
    MaxFaults,      \* bound: breaking connections, failing opens, dying peers, restarts
                    \* of the gateway
    MaxStates,      \* bound: changes of the desired state
    MaxOverlaps     \* bound: processes started while an older one is ending

VARIABLES
    ws,        \* GatewayRpc: [n: the connection, st: retry, connecting, open,
               \*             sessions: how many of them were opened]
    call,      \* this.pending and how its calls went: [st, by, kind]
    proc,      \* [cur: e.proc or 0, dying: processes that are ending, n: started]
    link,      \* per session: none, asked, open, cut
    up, down,  \* frames on the way to the gateway and back, per session
    bound,     \* sessions the gateway has not seen close
    rpc,       \* bridge: this.rpc, or 0
    desired,   \* bridge: the plugin may run: on, off
    entry,     \* bridge: the PluginNet in this.plugins, or 0
    nets,      \* PluginNets made so far
    runs,      \* calls being handled: the session each came from, or 0
    sock,      \* the socket of each call: [st, net, late]
    inflight,  \* bridge: this.inflight
    used

client == <<ws, call, proc>>
wire == <<link, up, down>>
gateway == <<bound, rpc, desired, entry, nets, runs, sock, inflight>>
vars == <<client, wire, gateway, used>>

NoSocket == [st |-> "none", net |-> 0, late |-> "no"]

Init ==
    /\ ws = [n |-> 0, st |-> "retry", sessions |-> 0]
    /\ call = [c \in Calls |-> [st |-> "new", by |-> 0, kind |-> "request"]]
    /\ proc = [cur |-> 0, dying |-> {}, n |-> 0]
    /\ link = [n \in Sessions |-> "none"]
    /\ up = [n \in Sessions |-> <<>>] /\ down = [n \in Sessions |-> <<>>]
    /\ bound = {} /\ rpc = 0 /\ desired = "off" /\ entry = 0 /\ nets = 0
    /\ runs = [c \in Calls |-> 0]
    /\ sock = [c \in Calls |-> NoSocket]
    /\ inflight = 0
    /\ used = [faults |-> 0, states |-> 0, overlaps |-> 0]

Use(f, max) == used[f] < max /\ used' = [used EXCEPT ![f] = @ + 1]

-----------------------------------------------------------------------------
(* The edge host.                                                          *)

\* send(): a frame written to a broken connection is lost
send(m) ==
    up' = IF ws.st = "open" /\ link[ws.n] = "open" THEN [up EXCEPT ![ws.n] = Append(@, m)] ELSE up

\* the retry timer: connect()
connect ==
    /\ ws.st = "retry" /\ ws.n + 1 \in Sessions
    /\ ws' = [ws EXCEPT !.n = @ + 1, !.st = "connecting"]
    /\ link' = [link EXCEPT ![ws.n + 1] = "asked"]
    /\ UNCHANGED <<call, proc, up, down, gateway, used>>

\* 'open'; after an interruption the host stops what runs (onRpcOpen)
onOpen ==
    /\ ws.st = "connecting" /\ link[ws.n] = "open"
    /\ ws' = [ws EXCEPT !.st = "open", !.sessions = @ + 1]
    /\ proc' = IF ws'.sessions > 1 /\ proc.cur # 0
               THEN [proc EXCEPT !.cur = 0, !.dying = @ \cup {proc.cur}] ELSE proc
    /\ UNCHANGED <<call, wire, gateway, used>>

\* 'close': every pending call fails, the retry timer is set
onClose ==
    /\ ws.st \in {"connecting", "open"} /\ link[ws.n] = "cut"
    /\ ws' = [ws EXCEPT !.st = "retry"]
    /\ call' = [c \in Calls |-> IF call[c].st = "waiting" THEN [call[c] EXCEPT !.st = "ended"]
                                ELSE call[c]]
    /\ down' = [down EXCEPT ![ws.n] = <<>>]
    /\ UNCHANGED <<proc, link, up, gateway, used>>

\* call(): rejected at once without a connection
Call(c) ==
    /\ call[c].st = "new" /\ proc.cur # 0 /\ \A d \in Calls : d < c => call[d].st # "new"
    /\ \E k \in Kinds[c] :
          call' = [call EXCEPT ![c] = [st |-> IF ws.st = "open" THEN "waiting" ELSE "ended",
                                       by |-> proc.cur, kind |-> k]]
    /\ send([t |-> "call", id |-> c])
    /\ UNCHANGED <<ws, proc, link, down, gateway, used>>

\* rpcCallTimeoutMs
TimedOut(c) ==
    /\ call[c].st = "waiting" /\ call' = [call EXCEPT ![c].st = "ended"]
    /\ UNCHANGED <<ws, proc, wire, gateway, used>>

\* a result; one for a call that timed out is ignored
onMessage ==
    /\ ws.st = "open" /\ down[ws.n] # <<>>
    /\ down' = [down EXCEPT ![ws.n] = Tail(@)]
    /\ call' = [call EXCEPT ![Head(down[ws.n])].st = "ended"]
    /\ UNCHANGED <<ws, proc, link, up, gateway, used>>

\* startProcess; while an older process is ending only in the overlap of
\* onRpcOpen and reconcile (EdgeHost)
ProcessStarts ==
    /\ proc.cur = 0 /\ proc.n + 1 \in Procs
    /\ IF proc.dying = {} THEN UNCHANGED used ELSE Use("overlaps", MaxOverlaps)
    /\ proc' = [proc EXCEPT !.cur = proc.n + 1, !.n = @ + 1]
    /\ UNCHANGED <<ws, call, wire, gateway>>

\* stopProcess up to its await
ProcessStops ==
    /\ proc.cur # 0
    /\ proc' = [proc EXCEPT !.cur = 0, !.dying = @ \cup {proc.cur}]
    /\ UNCHANGED <<ws, call, wire, gateway, used>>


\* 'exit', of a process that was stopped or crashed: closeAll tells the
\* gateway (stopProcess tells it once more right behind)
ProcessExits(p) ==
    /\ p = proc.cur \/ p \in proc.dying
    /\ proc' = [proc EXCEPT !.cur = IF p = @ THEN 0 ELSE @, !.dying = @ \ {p}]
    /\ send([t |-> "close", id |-> p])
    /\ UNCHANGED <<ws, call, link, down, gateway, used>>

-----------------------------------------------------------------------------
(* The gateway.                                                            *)


\* closeAll of one PluginNet: its sockets close; one that is still being
\* opened is in none of its Maps
CloseSocket(s, net) ==
    [s EXCEPT !.st = IF s.st = "open" /\ s.net = net THEN "closed" ELSE @,
              !.late = IF s.st = "opening" /\ s.net = net THEN "yes" ELSE @]

closeAll(net) == [c \in Calls |-> CloseSocket(sock[c], net)]

\* closePlugin: closeAll, and the entry goes
closePlugin == sock' = closeAll(entry) /\ entry' = 0

\* bindRpc: a session replaces the one before.  What an older connection
\* delivered was read before the request that opens the new one.
bindRpc(n) ==
    /\ link[n] = "asked" /\ \A m \in Sessions : m < n => up[m] = <<>>
    /\ link' = [m \in Sessions |-> IF m = n THEN "open"
                                   ELSE IF m = rpc THEN "cut" ELSE link[m]]
    /\ rpc' = n /\ bound' = bound \cup {n}
    /\ IF rpc # 0 THEN closePlugin ELSE UNCHANGED <<sock, entry>>
    /\ UNCHANGED <<client, up, down, desired, nets, runs, inflight, used>>

\* 'close' at the gateway
RpcClosed(n) ==
    /\ n \in bound /\ link[n] = "cut"
    /\ bound' = bound \ {n} /\ up' = [up EXCEPT ![n] = <<>>]
    /\ IF rpc = n THEN rpc' = 0 /\ closePlugin ELSE UNCHANGED <<rpc, sock, entry>>
    /\ UNCHANGED <<client, link, down, desired, nets, runs, inflight, used>>

\* rpcSend: a result for a closed connection is lost
Replied(c, n) == IF link[n] = "open" THEN [down EXCEPT ![n] = Append(@, c)] ELSE down

InMap(net) == {c \in Calls : sock[c].st = "open" /\ sock[c].net = net}

\* handleCall of a wanted plugin, up to its first await; net is its PluginNet
Handle(c, n, net) ==
    \/ /\ call[c].kind = "open" /\ Cardinality(InMap(net)) < MaxSockets
       /\ sock' = [sock EXCEPT ![c] = [st |-> "opening", net |-> net, late |-> "no"]]
       /\ runs' = [runs EXCEPT ![c] = n] /\ inflight' = inflight + 1
       /\ UNCHANGED down
    \/ /\ call[c].kind = "open" /\ Cardinality(InMap(net)) >= MaxSockets
       /\ down' = Replied(c, n) /\ UNCHANGED <<sock, runs, inflight>>
    \/ /\ call[c].kind = "request"
       /\ runs' = [runs EXCEPT ![c] = n] /\ inflight' = inflight + 1
       /\ UNCHANGED <<sock, down>>
    \/ /\ call[c].kind = "close"
       /\ \/ \E d \in InMap(net) : sock' = [sock EXCEPT ![d].st = "closed"]
          \/ InMap(net) = {} /\ UNCHANGED sock
       /\ down' = Replied(c, n) /\ UNCHANGED <<runs, inflight>>

\* onRpc for a call: too many are refused, as are those of a plugin that is
\* not wanted; the first one makes the entry
OnCall(c, n) ==
    \/ /\ inflight >= MaxInflight \/ desired = "off"
       /\ down' = Replied(c, n) /\ UNCHANGED <<entry, nets, sock, runs, inflight>>
    \/ /\ inflight < MaxInflight /\ desired = "on"
       /\ nets' = IF entry = 0 THEN nets + 1 ELSE nets
       /\ entry' = IF entry = 0 THEN nets + 1 ELSE entry
       /\ Handle(c, n, entry')

\* onRpc: the next frame of a connection
onRpc(n) ==
    /\ n \in bound /\ up[n] # <<>>
    /\ up' = [up EXCEPT ![n] = Tail(@)]
    /\ LET m == Head(up[n]) IN
       \/ m.t = "close" /\ closePlugin /\ UNCHANGED <<down, nets, runs, inflight>>
       \/ m.t = "call" /\ OnCall(m.id, n)
    /\ UNCHANGED <<client, link, bound, rpc, desired, used>>

\* the promise of a call settles: reply, then inflight--
Settled(c) ==
    /\ inflight' = inflight - 1
    /\ runs' = [runs EXCEPT ![c] = 0] /\ down' = Replied(c, runs[c])

\* a request has its answer, or failed
RequestEnds(c) ==
    /\ runs[c] # 0 /\ call[c].kind = "request" /\ Settled(c)
    /\ UNCHANGED <<client, link, up, bound, rpc, desired, entry, nets, sock, used>>

\* udp.bind or tcp.connect got its socket: into the Map of its PluginNet
Opened(c) ==
    /\ runs[c] # 0 /\ sock[c].st = "opening"
    /\ sock' = [sock EXCEPT ![c].st = "open"] /\ Settled(c)
    /\ UNCHANGED <<client, link, up, bound, rpc, desired, entry, nets, used>>

\* ... or failed
OpenFails(c) ==
    /\ runs[c] # 0 /\ sock[c].st = "opening" /\ Use("faults", MaxFaults)
    /\ sock' = [sock EXCEPT ![c].st = "closed"] /\ Settled(c)
    /\ UNCHANGED <<client, link, up, bound, rpc, desired, entry, nets>>

\* the peer of a TCP connection closes it
PeerCloses(c) ==
    /\ sock[c].st = "open" /\ Use("faults", MaxFaults)
    /\ sock' = [sock EXCEPT ![c].st = "closed"]
    /\ UNCHANGED <<client, wire, bound, rpc, desired, entry, nets, runs, inflight>>

\* setDesired: a plugin that is not wanted any more is closed
setDesired ==
    /\ Use("states", MaxStates)
    /\ desired' = IF desired = "on" THEN "off" ELSE "on"
    /\ IF desired' = "off" THEN closePlugin ELSE UNCHANGED <<sock, entry>>
    /\ UNCHANGED <<client, wire, bound, rpc, nets, runs, inflight>>

\* the connection breaks
Cut(n) ==
    /\ link[n] \in {"asked", "open"} /\ Use("faults", MaxFaults)
    /\ link' = [link EXCEPT ![n] = "cut"]
    /\ UNCHANGED <<client, up, down, gateway>>

\* the gateway container restarts: all of its state goes with it, and the
\* plugin may run once the relay has brought the desired state again
GatewayRestarts ==
    /\ Use("faults", MaxFaults)
    /\ link' = [n \in Sessions |-> IF link[n] = "none" THEN "none" ELSE "cut"]
    /\ up' = [n \in Sessions |-> <<>>]
    /\ bound' = {} /\ rpc' = 0 /\ entry' = 0 /\ inflight' = 0
    /\ runs' = [c \in Calls |-> 0]
    /\ sock' = [c \in Calls |-> [sock[c] EXCEPT !.st = IF @ = "none" THEN @ ELSE "closed"]]
    /\ desired' = "off"
    /\ UNCHANGED <<client, down, nets>>

Client == connect \/ onOpen \/ onClose \/ onMessage
Exits == \E p \in Procs : ProcessExits(p)
Bridge == \E n \in Sessions : bindRpc(n) \/ RpcClosed(n) \/ onRpc(n)
Work(c) == RequestEnds(c) \/ Opened(c)

Next ==
    \/ Client \/ Exits \/ Bridge \/ ProcessStarts \/ ProcessStops
    \/ \E c \in Calls : Call(c) \/ TimedOut(c) \/ Work(c) \/ OpenFails(c) \/ PeerCloses(c)
    \/ \E n \in Sessions : Cut(n)
    \/ setDesired \/ GatewayRestarts

Spec == Init /\ [][Next]_vars

(* Frames are delivered, broken connections are noticed at both ends, the  *)
(* retry and call timers fire, sockets open or fail, and a process that is *)
(* told to stop exits.                                                     *)
Fairness ==
    /\ WF_vars(Client) /\ WF_vars(Bridge)
    /\ WF_vars(\E p \in proc.dying : ProcessExits(p))
    /\ \A c \in Calls : WF_vars(TimedOut(c)) /\ WF_vars(Work(c))

FairSpec == Spec /\ Fairness

-----------------------------------------------------------------------------
(* Type invariant of the gateway socket. *)
TypeOK ==
    /\ ws \in [n : Sessions \cup {0}, st : {"retry", "connecting", "open"},
               sessions : Nat]
    /\ call \in [Calls -> [st : {"new", "waiting", "ended"}, by : Procs \cup {0},
                           kind : {"open", "close", "request"}]]
    /\ link \in [Sessions -> {"none", "asked", "open", "cut"}]
    /\ up \in [Sessions -> Seq([t : {"call", "close"}, id : Calls \cup Procs])]
    /\ down \in [Sessions -> Seq(Calls)]
    /\ bound \subseteq Sessions /\ rpc \in Sessions \cup {0}
    /\ desired \in {"on", "off"} /\ entry \in Nat /\ nets \in Nat
    /\ runs \in [Calls -> Sessions \cup {0}]
    /\ sock \in [Calls -> [st : {"none", "opening", "open", "closed"}, net : Nat,
                           late : {"yes", "no"}]]
    /\ inflight \in Nat

(* The limit of calls counts what is under way: every call that came in    *)
(* gives its place back exactly once, however it ends, also when its       *)
(* connection is gone by then (bridge.js onRpc).                           *)
InflightIsTrue ==
    /\ inflight = Cardinality({c \in Calls : runs[c] # 0})
    /\ inflight <= MaxInflight

(* Sockets have an owner: one that is open is in the PluginNet of the      *)
(* current entry, so that the next close reaches it, and the plugin is     *)
(* wanted and its connection up - except for one that was still being      *)
(* opened when its PluginNet was closed.                                   *)
SocketsOwned ==
    \A c \in Calls : sock[c].st = "open" /\ sock[c].late = "no" =>
        sock[c].net = entry /\ desired = "on" /\ rpc # 0

(* What the edge host is told ends: calls are answered, rejected or time   *)
(* out, and the sockets that stay open belong to the running process (or   *)
(* were being opened while their plugin was closed).                       *)
RpcSettled ==
    /\ \A c \in Calls : call[c].st # "waiting"
    /\ \A c \in Calls : sock[c].st = "open" /\ sock[c].late = "no" =>
          call[c].by = proc.cur \/ call[c].by \in proc.dying

(* docs/edge.md: when the process has ended, or the connection breaks, all *)
(* sockets of the plugin are closed.  An open socket belongs to the entry. *)
(* Not so: a socket whose opening is awaited is open after its close.      *)
AllClosed == \A c \in Calls : sock[c].st = "open" => sock[c].net = entry

(* host.js 440 "ein neuer Prozess abonniert neu": the end of an older      *)
(* process does not close what its successor opened.  Not so when the two  *)
(* overlap (MaxOverlaps > 0): the end of the process closes by plugin.     *)
SuccessorKeeps ==
    [][\A n \in Sessions, c \in Calls :
          onRpc(n) /\ Head(up[n]).t = "close" /\ sock[c].st = "open" /\ sock'[c].st = "closed"
              => call[c].by <= Head(up[n]).id]_vars
=============================================================================
