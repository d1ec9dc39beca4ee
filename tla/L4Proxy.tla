------------------------------ MODULE L4Proxy ------------------------------
(***************************************************************************)
(* TcpProxyManager (proxy/tcp.js): one TCP listener per L4 route, set up   *)
(* by setRoutes.  setRoutes is called by the 'change' listener of          *)
(* bootstrap.js for every new configuration and by the heartbeat's health  *)
(* check (health/selfCheckRunner.js) when it counts too few listeners.     *)
(* Nothing serialises these calls: each awaits close() and listen(), and   *)
(* the others run meanwhile.                                               *)
(*                                                                         *)
(* A route is [id, port, target].  A call of setRoutes is a record: what   *)
(* it awaits (close, listen), its argument, the routes still to do, and    *)
(* the listener in hand.                                                   *)
(***************************************************************************)
EXTENDS NetServers, Sequences, FiniteSets

CONSTANTS
    Ids,          \* route ids
    Targets,      \* LAN targets (host and port)
    Configs,      \* the l4_routes arrays the server may send
    Calls,        \* bound: calls of setRoutes that overlap
    Busy,         \* what another call may await when a configuration arrives
    MaxChanges,   \* bound: configuration changes
    MaxForeign,   \* bound: how often another process takes a port
    MaxConns      \* bound: connections opened

VARIABLES
    srv,        \* the net.Server objects (NetServers)
    listeners,  \* _listeners: route id -> [srv, port, target]
    call,       \* per overlapping setRoutes call
    overlap,    \* servers whose DUAL_BIND_OVERLAP_MS timer is pending
    store,      \* ConfigStore.l4Routes
    check,      \* the heartbeat: idle, or the verdict it will act on
    foreign,    \* ports held by other processes
    used        \* how much of each bound has been used

vars == <<srv, listeners, call, overlap, store, check, foreign, used>>

IdleCall == [pc |-> "idle", routes |-> <<>>, todo |-> <<>>, id |-> 0, srv |-> 0]

Init ==
    /\ srv = [s \in Slots |-> Unused]
    /\ listeners = [i \in {} |-> 0]
    /\ call = [c \in Calls |-> IdleCall]
    /\ overlap = {} /\ store = <<>> /\ check = "idle" /\ foreign = {}
    /\ used = [changes |-> 0, foreign |-> 0, conns |-> 0]

RouteIds(routes) == {routes[i].id : i \in DOMAIN routes}

\* server slots some variable refers to
Referenced(L, C, O) ==
    {L[i].srv : i \in DOMAIN L} \cup O
    \cup {C[c].srv : c \in {d \in Calls : C[d].pc = "close"}}

\* the listener in the Map no longer fits its route
Changed(l, route) == l.target # route.target \/ l.port # route.port

\* the routes from the first one that is missing or changed on
Undone(L, routes) ==
    LET open == {i \in DOMAIN routes :
                    \/ routes[i].id \notin DOMAIN L
                    \/ Changed(L[routes[i].id], routes[i])}
    IN  IF open = {} THEN <<>>
        ELSE SubSeq(routes, CHOOSE i \in open : \A j \in open : i <= j, Len(routes))


\* the server the transition will close after the overlap
Replaced(id, L) == IF id \in DOMAIN L THEN L[id].srv ELSE 0

\* The second loop: runs on to the next route it has to bind, or returns.
AddLoop(c, routes, todo, L) ==
    LET rest == Undone(L, todo)
    IN  [call EXCEPT ![c] =
            IF rest = <<>> THEN IdleCall
            ELSE [pc |-> "listen", routes |-> routes, todo |-> rest,
                  id |-> rest[1].id, srv |-> Replaced(rest[1].id, L)]]

\* The first loop: closes a listener that is not in the configuration and
\* awaits it, or goes on to the second loop.  The Map is iterated live.
RemoveLoop(c, routes, L) ==
    LET gone == DOMAIN L \ RouteIds(routes)
    IN  \/ \E i \in gone :
              /\ call' = [call EXCEPT ![c] =
                    [pc |-> "close", routes |-> routes, todo |-> <<>>,
                     id |-> i, srv |-> L[i].srv]]
              /\ srv' = Closed(srv, L[i].srv)
        \/ gone = {} /\ call' = AddLoop(c, routes, routes, L) /\ UNCHANGED srv

-----------------------------------------------------------------------------
\* replaceConfig emits 'change'; its listener calls setRoutes
ConfigChange(c, routes) ==
    /\ call[c].pc = "idle" /\ used.changes < MaxChanges /\ routes # store
    /\ \A d \in Calls : call[d].pc \in Busy
    /\ used' = [used EXCEPT !.changes = @ + 1]
    /\ store' = routes
    /\ RemoveLoop(c, routes, listeners)
    /\ UNCHANGED <<listeners, overlap, check, foreign>>

\* close() called back: delete the Map entry (whatever it is by now), go on
_stopListener(c) ==
    /\ call[c].pc = "close" /\ Drained(srv, call[c].srv)
    /\ listeners' = [i \in DOMAIN listeners \ {call[c].id} |-> listeners[i]]
    /\ RemoveLoop(c, call[c].routes, listeners')
    /\ UNCHANGED <<overlap, store, check, foreign, used>>

\* listen() succeeded: register the new server and, in a transition, start the
\* overlap timer of the old one.  Then the next route.
Bound(c) ==
    LET r == Head(call[c].todo)
        refs == Referenced(listeners, call, overlap)
                \cup {call[d].srv : d \in Calls}
        s == FreeSlot(srv, refs)
    IN  /\ call[c].pc = "listen" /\ r.port \notin HeldPorts(srv) \cup foreign
        /\ FreeSlots(srv, refs) # {}
        /\ srv' = Listening(Recycled(srv, refs), s, r.port, r)
        /\ listeners' = [i \in DOMAIN listeners \cup {r.id} |->
              IF i = r.id THEN [srv |-> s, port |-> r.port, target |-> r.target]
              ELSE listeners[i]]
        /\ overlap' = overlap \cup ({call[c].srv} \ {0})
        /\ call' = AddLoop(c, call[c].routes, Tail(call[c].todo), listeners')
        /\ UNCHANGED <<store, check, foreign, used>>

\* mutant: a failed bind rejects setRoutes and leaves it half done
BindFailedRejects(c) ==
    /\ call[c].pc = "listen"
    /\ Head(call[c].todo).port \in HeldPorts(srv) \cup foreign
    /\ call' = [call EXCEPT ![c].pc = "rejected"]
    /\ UNCHANGED <<srv, listeners, overlap, store, check, foreign, used>>

\* listen() failed with EADDRINUSE: logged, the route is skipped
BindFailed(c) ==
    /\ call[c].pc = "listen"
    /\ Head(call[c].todo).port \in HeldPorts(srv) \cup foreign
    /\ call' = AddLoop(c, call[c].routes, Tail(call[c].todo), listeners)
    /\ UNCHANGED <<srv, listeners, overlap, store, check, foreign, used>>

\* the timer of a transition closes the old server
OverlapExpires(s) ==
    /\ s \in overlap /\ overlap' = overlap \ {s}
    /\ srv' = Closed(srv, s)
    /\ UNCHANGED <<listeners, call, store, check, foreign, used>>

-----------------------------------------------------------------------------
\* l4_listeners_missing > 0: fewer listeners registered than routes configured
Missing == Cardinality(DOMAIN listeners) < Len(store)

\* doCheck reads the counters, then awaits its probes
HeartbeatCheck ==
    /\ check = "idle" /\ check' = IF Missing THEN "missing" ELSE "healthy"
    /\ UNCHANGED <<srv, listeners, call, overlap, store, foreign, used>>

\* the probes are done: a deficit re-applies the routes the store has now
HeartbeatActs(c) ==
    /\ check # "idle" /\ check' = "idle"
    /\ IF check = "missing"
       THEN call[c].pc = "idle" /\ RemoveLoop(c, store, listeners)
       ELSE UNCHANGED <<call, srv>>
    /\ UNCHANGED <<listeners, overlap, store, foreign, used>>

\* a client connects to a listening server, a client leaves
Connect(s) ==
    /\ used.conns < MaxConns /\ srv[s].st = "listening" /\ ~srv[s].conn
    /\ used' = [used EXCEPT !.conns = @ + 1]
    /\ srv' = [srv EXCEPT ![s].conn = TRUE]
    /\ UNCHANGED <<listeners, call, overlap, store, check, foreign>>

Disconnect(s) ==
    /\ srv[s].conn /\ srv' = [srv EXCEPT ![s].conn = FALSE]
    /\ UNCHANGED <<listeners, call, overlap, store, check, foreign, used>>

\* another process binds a port, or gives it back
ForeignBind(p) ==
    /\ used.foreign < MaxForeign /\ p \notin HeldPorts(srv) \cup foreign
    /\ used' = [used EXCEPT !.foreign = @ + 1]
    /\ foreign' = foreign \cup {p}
    /\ UNCHANGED <<srv, listeners, call, overlap, store, check>>

ForeignRelease(p) ==
    /\ p \in foreign /\ foreign' = foreign \ {p}
    /\ UNCHANGED <<srv, listeners, call, overlap, store, check, used>>

Step(c) == _stopListener(c) \/ Bound(c) \/ BindFailed(c)

Next ==
    \/ \E c \in Calls : \/ \E routes \in Configs : ConfigChange(c, routes)
                        \/ Step(c) \/ HeartbeatActs(c)
    \/ HeartbeatCheck
    \/ \E s \in Slots : OverlapExpires(s) \/ Connect(s) \/ Disconnect(s)
    \/ \E p \in Ports : ForeignBind(p) \/ ForeignRelease(p)

Spec == Init /\ [][Next]_vars

(* Awaited calls return, timers fire, heartbeats keep coming; clients      *)
(* leave and other processes release their ports in the end (the network's *)
(* part: close() really waits for the clients).                            *)
Fairness ==
    /\ \A c \in Calls : WF_vars(Step(c)) /\ SF_vars(HeartbeatActs(c))
    /\ WF_vars(HeartbeatCheck)
    /\ \A s \in Slots : WF_vars(OverlapExpires(s)) /\ WF_vars(Disconnect(s))
    /\ \A p \in Ports : WF_vars(ForeignRelease(p))

FairSpec == Spec /\ Fairness

-----------------------------------------------------------------------------
Quiet == \A c \in Calls : call[c].pc = "idle"

(* Type invariant of the listeners, the servers and the setRoutes calls. *)
TypeOK ==
    /\ \A s \in Slots : /\ srv[s].st \in {"unused", "listening", "closed"}
                        /\ srv[s].port \in Ports \cup {0} /\ srv[s].conn \in BOOLEAN
    /\ DOMAIN listeners \subseteq Ids
    /\ \A i \in DOMAIN listeners :
          /\ listeners[i].srv \in Slots /\ listeners[i].port \in Ports
          /\ listeners[i].target \in Targets
    /\ \A c \in Calls : call[c].pc \in {"idle", "close", "listen"}
    /\ overlap \subseteq Slots /\ store \in Configs /\ foreign \subseteq Ports
    /\ check \in {"idle", "missing", "healthy"}

(* No server is lost: one that listens is registered in the Map or waits   *)
(* for its overlap timer, so something will close it (tcp.js               *)
(* _transitionListener, _stopListener).                                    *)
NoLeakedServer ==
    \A s \in Slots : srv[s].st = "listening" =>
        s \in overlap \/ \E i \in DOMAIN listeners : listeners[i].srv = s

(* A listener in the Map is up, unless its removal is under way.           *)
RegisteredIsUp ==
    \A i \in DOMAIN listeners :
        \/ srv[listeners[i].srv].st = "listening"
        \/ \E c \in Calls : call[c].pc = "close" /\ call[c].id = i

(* When no setRoutes call is under way, only configured routes have a      *)
(* listener: a removed route stays removed, whatever ports were busy.      *)
OnlyConfigured == Quiet => DOMAIN listeners \subseteq RouteIds(store)

(* The heartbeat heals: once configurations stop changing and ports are    *)
(* free, every configured route gets a listener and keeps one.             *)
DeficitHeals == <>[](RouteIds(store) \subseteq DOMAIN listeners)

(* tcp.js says a port or target change is carried out by a dual-bind       *)
(* overlap: with no other process in the way, once setRoutes has returned  *)
(* each configured route is served by a listener with its target.          *)
ChangeApplied ==
    Quiet /\ used.foreign = 0 =>
        \A i \in DOMAIN store :
            store[i].id \in DOMAIN listeners =>
                listeners[store[i].id].target = store[i].target
=============================================================================
