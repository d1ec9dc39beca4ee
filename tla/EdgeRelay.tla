----------------------------- MODULE EdgeRelay -----------------------------
(***************************************************************************)
(* The channel of the edge host to the server, relayed by the gateway:     *)
(* EdgeChannel (edge/channel.js) asks at the gateway socket, the bridge    *)
(* (edge/bridge.js relayUpgrade, bindRelay) opens the connection to the    *)
(* server and passes frames on, reading every `state` on the way.          *)
(*                                                                         *)
(* The server is external: it accepts or refuses, sends its state when a   *)
(* connection opens and when it changes, closes connections, or falls      *)
(* silent.  Frames other than `state` are left out (EdgeEvents).           *)
(***************************************************************************)
EXTENDS Naturals, Sequences, FiniteSets

CONSTANTS
    Conns,        \* the connections the edge host opens, in their order
    MaxChanges,   \* bound: changes of the state at the server
    MaxFaults     \* bound: refused, silent, broken connections

VARIABLES
    chan,      \* EdgeChannel: [n: the connection, st: retry, connecting, open]
    local,     \* per connection, at the gateway: none, asked, open, dying, closed
    upstream,  \* per connection, to the server: none, connecting, open, dying, closed
    silent,    \* upstream connections without a sign of life
    timer,     \* connections whose ping timer runs
    relay,     \* bridge: this.relay, or 0
    server,    \* the version of the state at the server
    fromServer, toHost,   \* `state` frames on the way, per connection
    gateway,   \* the version the gateway read (this.desired)
    host,      \* the version the edge host has
    used

ends == <<local, upstream, silent, timer, relay>>
frames == <<server, fromServer, toHost, gateway, host>>
vars == <<chan, ends, frames, used>>

Init ==
    /\ chan = [n |-> 0, st |-> "retry"]
    /\ local = [c \in Conns |-> "none"] /\ upstream = [c \in Conns |-> "none"]
    /\ silent = {} /\ timer = {} /\ relay = 0
    /\ server = 1 /\ gateway = 0 /\ host = 0
    /\ fromServer = [c \in Conns |-> <<>>] /\ toHost = [c \in Conns |-> <<>>]
    /\ used = [changes |-> 0, faults |-> 0]

Use(f, max) == used[f] < max /\ used' = [used EXCEPT ![f] = @ + 1]

-----------------------------------------------------------------------------
(* The edge host.                                                          *)

\* connect(), at the start and by the retry timer
connect ==
    /\ chan.st = "retry" /\ chan.n + 1 \in Conns
    /\ chan' = [n |-> chan.n + 1, st |-> "connecting"]
    /\ local' = [local EXCEPT ![chan.n + 1] = "asked"]
    /\ UNCHANGED <<upstream, silent, timer, relay, frames, used>>

\* 'open'
onOpen ==
    /\ chan.st = "connecting" /\ local[chan.n] \in {"open", "dying"}
    /\ chan' = [chan EXCEPT !.st = "open"] /\ UNCHANGED <<ends, frames, used>>

\* 'unexpected-response' or 'close': the retry timer
onClose ==
    /\ chan.st # "retry" /\ local[chan.n] = "closed"
    /\ chan' = [chan EXCEPT !.st = "retry"]
    /\ toHost' = [toHost EXCEPT ![chan.n] = <<>>]
    /\ UNCHANGED <<ends, server, fromServer, gateway, host, used>>

\* the edge host ends the connection: no sign of life, reconnect(), a crash
terminate ==
    /\ chan.st # "retry" /\ local[chan.n] \in {"asked", "open"} /\ Use("faults", MaxFaults)
    /\ chan' = [chan EXCEPT !.st = "retry"]
    /\ local' = [local EXCEPT ![chan.n] = "dying"]
    /\ toHost' = [toHost EXCEPT ![chan.n] = <<>>]
    /\ UNCHANGED <<upstream, silent, timer, relay, server, fromServer, gateway, host>>

\* a `state` arrives
onState ==
    /\ chan.st = "open" /\ toHost[chan.n] # <<>>
    /\ host' = Head(toHost[chan.n])
    /\ toHost' = [toHost EXCEPT ![chan.n] = Tail(@)]
    /\ UNCHANGED <<chan, ends, server, fromServer, gateway, used>>

-----------------------------------------------------------------------------
(* The gateway.                                                            *)

\* relayUpgrade up to the connection to the server
relayUpgrade(c) ==
    /\ local[c] = "asked" /\ upstream[c] = "none"
    /\ upstream' = [upstream EXCEPT ![c] = "connecting"]
    /\ UNCHANGED <<chan, local, silent, timer, relay, frames, used>>

\* fail(): no access data, a refusal of the server, a wrong subprotocol
fail(c) ==
    /\ local[c] = "asked" /\ upstream[c] \in {"none", "connecting"} /\ Use("faults", MaxFaults)
    /\ local' = [local EXCEPT ![c] = "closed"]
    /\ upstream' = [upstream EXCEPT ![c] = IF @ = "none" THEN "none" ELSE "closed"]
    /\ UNCHANGED <<chan, silent, timer, relay, frames>>

\* the socket closes while the server is being asked
Unasked(c) ==
    /\ local[c] = "dying" /\ upstream[c] \in {"none", "connecting"}
    /\ local' = [local EXCEPT ![c] = "closed"]
    /\ upstream' = [upstream EXCEPT ![c] = IF @ = "none" THEN "none" ELSE "closed"]
    /\ UNCHANGED <<chan, silent, timer, relay, frames, used>>

\* bindRelay: closeRelay for the pair before, then the new pair
bindRelay(c) ==
    /\ local' = [d \in Conns |-> IF d = c THEN "open"
                                 ELSE IF d = relay /\ local[d] = "open" THEN "dying" ELSE local[d]]
    /\ upstream' = [d \in Conns |-> IF d = c THEN "open"
                                    ELSE IF d = relay /\ upstream[d] = "open" THEN "dying"
                                    ELSE upstream[d]]
    /\ timer' = (timer \ {relay}) \cup {c}

\* 'open' of the connection to the server
UpstreamOpen(c) ==
    /\ local[c] = "asked" /\ upstream[c] = "connecting"
    /\ bindRelay(c) /\ relay' = c
    /\ fromServer' = [fromServer EXCEPT ![c] = <<server>>]
    /\ UNCHANGED <<chan, silent, server, toHost, gateway, host, used>>

\* 'message' of the server: observe, then on to the edge host
onMessage(c) ==
    /\ upstream[c] = "open" /\ fromServer[c] # <<>> /\ c \notin silent
    /\ fromServer' = [fromServer EXCEPT ![c] = Tail(@)]
    /\ gateway' = Head(fromServer[c])
    /\ toHost' = IF local[c] = "open" THEN [toHost EXCEPT ![c] = Append(@, Head(fromServer[c]))]
                 ELSE toHost
    /\ UNCHANGED <<chan, ends, server, host, used>>

\* "if (this.relay === pair) this.relay = null"
Without(c) == IF relay = c THEN 0 ELSE relay

\* 'close' of the connection to the server: the edge host's is closed
UpstreamClosed(c) ==
    /\ upstream[c] = "dying"
    /\ upstream' = [upstream EXCEPT ![c] = "closed"]
    /\ fromServer' = [fromServer EXCEPT ![c] = <<>>]
    /\ local' = [local EXCEPT ![c] = IF @ = "open" THEN "dying" ELSE @]
    /\ timer' = timer \ {c} /\ silent' = silent \ {c} /\ relay' = Without(c)
    /\ UNCHANGED <<chan, server, toHost, gateway, host, used>>

\* 'close' of the edge host's connection: the server's is closed
LocalClosed(c) ==
    /\ local[c] = "dying" /\ upstream[c] \in {"open", "dying", "closed"}
    /\ local' = [local EXCEPT ![c] = "closed"]
    /\ upstream' = [upstream EXCEPT ![c] = IF @ = "open" THEN "dying" ELSE @]
    /\ timer' = timer \ {c} /\ relay' = Without(c)
    /\ UNCHANGED <<chan, silent, frames, used>>

\* the ping timer: no sign of life for pongTimeoutMs
PingTimer(c) ==
    /\ c \in timer /\ c \in silent
    /\ upstream' = [upstream EXCEPT ![c] = IF @ = "open" THEN "dying" ELSE @]
    /\ local' = [local EXCEPT ![c] = IF @ = "open" THEN "dying" ELSE @]
    /\ UNCHANGED <<chan, silent, timer, relay, frames, used>>

-----------------------------------------------------------------------------
(* The server (external).                                                  *)

StateChanges ==
    /\ Use("changes", MaxChanges) /\ server' = server + 1
    /\ fromServer' = [c \in Conns |-> IF upstream[c] = "open"
                                      THEN Append(fromServer[c], server + 1) ELSE fromServer[c]]
    /\ UNCHANGED <<chan, ends, toHost, gateway, host>>

ServerCloses(c) ==
    /\ upstream[c] = "open" /\ Use("faults", MaxFaults)
    /\ upstream' = [upstream EXCEPT ![c] = "dying"]
    /\ UNCHANGED <<chan, local, silent, timer, relay, frames>>

Silence(c) ==
    /\ upstream[c] = "open" /\ c \notin silent /\ Use("faults", MaxFaults)
    /\ silent' = silent \cup {c}
    /\ UNCHANGED <<chan, local, upstream, timer, relay, frames>>

Channel == connect \/ onOpen \/ onClose \/ onState
Relay(c) ==
    \/ relayUpgrade(c) \/ Unasked(c) \/ UpstreamOpen(c) \/ onMessage(c)
    \/ UpstreamClosed(c) \/ LocalClosed(c) \/ PingTimer(c)

Next ==
    \/ Channel \/ terminate \/ StateChanges
    \/ \E c \in Conns : Relay(c) \/ fail(c) \/ ServerCloses(c) \/ Silence(c)

Spec == Init /\ [][Next]_vars

(* Timers fire and connections are served at both ends. *)
Fairness == WF_vars(Channel) /\ \A c \in Conns : WF_vars(Relay(c))

-----------------------------------------------------------------------------
(* Type invariant of the relay. *)
TypeOK ==
    /\ chan \in [n : Conns \cup {0}, st : {"retry", "connecting", "open"}]
    /\ local \in [Conns -> {"none", "asked", "open", "dying", "closed"}]
    /\ upstream \in [Conns -> {"none", "connecting", "open", "dying", "closed"}]
    /\ silent \subseteq Conns /\ timer \subseteq Conns /\ relay \in Conns \cup {0}
    /\ {server, gateway, host} \subseteq 0..MaxChanges + 1

(* One relay: both ends of a pair are open only for this.relay, a pair     *)
(* whose connection to the server is open still has an edge host that will *)
(* close it, and no ping timer outlives its pair - whatever order the ends *)
(* close in and whichever pair replaces which (bridge.js bindRelay).       *)
OneRelay ==
    /\ \A c \in Conns : upstream[c] = "open" => local[c] \in {"open", "dying"}
    /\ \A c \in Conns : upstream[c] = "open" /\ local[c] = "open" => relay = c
    /\ \A c \in timer : upstream[c] # "closed" /\ local[c] # "closed"

(* The gateway checks calls against the state it read; the edge host never *)
(* works with a newer state than the gateway (bridge.js observe before     *)
(* send), across replaced and broken relays.                               *)
HostNotAhead == host <= gateway

(* The edge host gets the current state in the end. *)
StateArrived == chan.st = "open" /\ relay = chan.n /\ host = server /\ gateway = server
=============================================================================
