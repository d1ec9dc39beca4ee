---------------------------- MODULE EgressProxy ----------------------------
(***************************************************************************)
(* EgressProxyManager (proxy/egress.js): one LAN listener per egress       *)
(* route, set up by setRoutes, which the 'change' listener calls for every *)
(* new configuration and getHealth on every heartbeat (bootstrap.js).      *)
(* Unlike the L4 manager it keeps a status per route for the telemetry,    *)
(* re-applies on every heartbeat, and takes changes of the target or the   *)
(* allowlist over in place.  The route of a listener is the object its     *)
(* server's connections read, so it lives in the server's slot.            *)
(*                                                                         *)
(* A route is [id, bind, soft]: the LAN address and port, and the fields   *)
(* read per connection (tunnel target, allowed sources).                   *)
(***************************************************************************)
EXTENDS NetServers, Sequences

CONSTANTS
    Ids, Softs,
    Configs,      \* the egress_routes arrays the server may send
    Calls,        \* bound: calls of setRoutes that overlap
    MaxChanges,   \* bound: configuration changes
    MaxForeign    \* bound: how often another process takes a port

VARIABLES
    srv,        \* the net.Server objects with their routes (NetServers)
    listeners,  \* _listeners: route id -> server slot
    status,     \* _status: route id -> [bound, bind]
    call,       \* per overlapping setRoutes call
    overlap,    \* servers whose overlap timer is pending
    store,      \* ConfigStore.egressRoutes
    foreign,    \* addresses held by other processes
    used        \* how much of each bound has been used

vars == <<srv, listeners, status, call, overlap, store, foreign, used>>

IdleCall == [pc |-> "idle", todo |-> <<>>, routes |-> <<>>, id |-> 0, srv |-> 0]

Init ==
    /\ srv = [s \in Slots |-> Unused]
    /\ listeners = [i \in {} |-> 0] /\ status = [i \in {} |-> 0]
    /\ call = [c \in Calls |-> IdleCall]
    /\ overlap = {} /\ store = <<>> /\ foreign = {}
    /\ used = [changes |-> 0, foreign |-> 0]

RouteIds(routes) == {routes[i].id : i \in DOMAIN routes}
Without(f, S) == [i \in DOMAIN f \ S |-> f[i]]
With(f, i, v) == [j \in DOMAIN f \cup {i} |-> IF j = i THEN v ELSE f[j]]

_bindChanged(a, b) == a.bind # b.bind

_softChanged(a, b) == a.soft # b.soft

First(S) == CHOOSE i \in S : \A j \in S : i <= j

\* the indices of the routes that need a listen(): missing, or bind changed
ToBind(routes, L, S) ==
    {i \in DOMAIN routes : \/ routes[i].id \notin DOMAIN L
                           \/ _bindChanged(S[L[routes[i].id]].route, routes[i])}

\* servers after the in-place updates of routes[1..n]
SoftUpdated(routes, n, L, S) ==
    [s \in Slots |->
        LET mine == {i \in 1..n : /\ routes[i].id \in DOMAIN L
                                  /\ L[routes[i].id] = s
                                  /\ ~_bindChanged(S[s].route, routes[i])
                                  /\ _softChanged(S[s].route, routes[i])}
        IN  IF mine = {} THEN S[s]
            ELSE [S[s] EXCEPT !.route = routes[CHOOSE i \in mine : TRUE]]]

\* The add loop: updates routes in place until one needs a listen(), which is
\* awaited; returns when none is left.
AddLoop(c, todo, L, S) ==
    LET open == ToBind(todo, L, S)
        k == IF open = {} THEN Len(todo) + 1 ELSE First(open)
        r == todo[k]
    IN  /\ srv' = SoftUpdated(todo, k - 1, L, S)
        /\ call' = [call EXCEPT ![c] =
              IF open = {} THEN IdleCall
              ELSE [pc |-> "listen", todo |-> SubSeq(todo, k, Len(todo)),
                    routes |-> <<>>, id |-> r.id,
                    srv |-> IF r.id \in DOMAIN L THEN L[r.id] ELSE 0]]

\* the status of routes no longer configured is dropped (failed binds have a
\* status and no listener)
Pruned(routes, T) == Without(T, DOMAIN T \ RouteIds(routes))

\* setRoutes up to its first await, or after the removal of a listener
RemoveLoop(c, routes, L, T) ==
    LET gone == DOMAIN L \ RouteIds(routes)
    IN  \/ \E i \in gone :
              /\ call' = [call EXCEPT ![c] =
                    [pc |-> "close", todo |-> <<>>, routes |-> routes,
                     id |-> i, srv |-> L[i]]]
              /\ srv' = Closed(srv, L[i]) /\ status' = T
        \/ /\ gone = {}
           /\ status' = Pruned(routes, T)
           /\ AddLoop(c, routes, L, srv)

-----------------------------------------------------------------------------
ConfigChange(c, routes) ==
    /\ call[c].pc = "idle" /\ used.changes < MaxChanges /\ routes # store
    /\ used' = [used EXCEPT !.changes = @ + 1] /\ store' = routes
    /\ RemoveLoop(c, routes, listeners, status)
    /\ UNCHANGED <<listeners, overlap, foreign>>

\* getHealth: await egressMgr.setRoutes(store.egressRoutes)
Heartbeat(c) ==
    /\ call[c].pc = "idle"
    /\ RemoveLoop(c, store, listeners, status)
    /\ UNCHANGED <<listeners, overlap, store, foreign, used>>

\* close() called back: the entry, its status and its drop counter go
_stopListener(c) ==
    /\ call[c].pc = "close" /\ Drained(srv, call[c].srv)
    /\ listeners' = Without(listeners, {call[c].id})
    /\ RemoveLoop(c, call[c].routes, listeners', Without(status, {call[c].id}))
    /\ UNCHANGED <<overlap, store, foreign, used>>

OverlapOf(c) == {call[c].srv} \ {0}

\* listen() succeeded, in _startListener or _transitionListener
Bound(c) ==
    LET r == Head(call[c].todo)
        refs == {listeners[i] : i \in DOMAIN listeners} \cup overlap
                \cup {call[d].srv : d \in Calls}
        s == FreeSlot(srv, refs)
    IN  /\ call[c].pc = "listen" /\ r.bind \notin HeldPorts(srv) \cup foreign
        /\ FreeSlots(srv, refs) # {}
        /\ listeners' = With(listeners, r.id, s)
        /\ status' = With(status, r.id, [bound |-> TRUE, bind |-> r.bind])
        /\ overlap' = overlap \cup OverlapOf(c)
        /\ AddLoop(c, Tail(call[c].todo), listeners',
                   Listening(Recycled(srv, refs), s, r.bind, r))
        /\ UNCHANGED <<store, foreign, used>>

\* listen() failed: the status says so, the other routes go on
BindFailed(c) ==
    LET r == Head(call[c].todo)
    IN  /\ call[c].pc = "listen" /\ r.bind \in HeldPorts(srv) \cup foreign
        /\ status' = With(status, r.id, [bound |-> FALSE, bind |-> r.bind])
        /\ AddLoop(c, Tail(call[c].todo), listeners, srv)
        /\ UNCHANGED <<listeners, overlap, store, foreign, used>>


\* the timer of a transition closes the old server
OverlapExpires(s) ==
    /\ s \in overlap /\ overlap' = overlap \ {s}
    /\ srv' = Closed(srv, s)
    /\ UNCHANGED <<listeners, status, call, store, foreign, used>>

ForeignBind(p) ==
    /\ used.foreign < MaxForeign /\ p \notin HeldPorts(srv) \cup foreign
    /\ used' = [used EXCEPT !.foreign = @ + 1]
    /\ foreign' = foreign \cup {p}
    /\ UNCHANGED <<srv, listeners, status, call, overlap, store>>

ForeignRelease(p) ==
    /\ p \in foreign /\ foreign' = foreign \ {p}
    /\ UNCHANGED <<srv, listeners, status, call, overlap, store, used>>

Step(c) == _stopListener(c) \/ Bound(c) \/ BindFailed(c)

Next ==
    \/ \E c \in Calls : \/ \E routes \in Configs : ConfigChange(c, routes)
                        \/ Step(c) \/ Heartbeat(c)
    \/ \E s \in Slots : OverlapExpires(s)
    \/ \E p \in Ports : ForeignBind(p) \/ ForeignRelease(p)

Spec == Init /\ [][Next]_vars

(* Awaited calls return, timers fire, heartbeats keep coming, and another  *)
(* process gives the address back in the end.                              *)
Fairness ==
    /\ \A c \in Calls : WF_vars(Step(c)) /\ SF_vars(Heartbeat(c))
    /\ \A s \in Slots : WF_vars(OverlapExpires(s))
    /\ \A p \in Ports : WF_vars(ForeignRelease(p))

FairSpec == Spec /\ Fairness

-----------------------------------------------------------------------------
Quiet == \A c \in Calls : call[c].pc = "idle"
Serves(r) ==
    /\ r.id \in DOMAIN listeners
    /\ LET s == srv[listeners[r.id]]
       IN  s.st = "listening" /\ s.port = r.bind /\ s.route = r

(* Type invariant of the listeners, their status and the calls. *)
TypeOK ==
    /\ DOMAIN listeners \subseteq Ids /\ \A i \in DOMAIN listeners : listeners[i] \in Slots
    /\ DOMAIN status \subseteq Ids
    /\ \A i \in DOMAIN status : status[i] \in [bound : BOOLEAN, bind : Ports]
    /\ overlap \subseteq Slots /\ store \in Configs /\ foreign \subseteq Ports
    /\ \A c \in Calls : call[c].pc \in {"idle", "close", "listen"}

(* No server is lost: a listening one is registered or awaits its overlap  *)
(* timer.                                                                  *)
NoLeakedServer ==
    \A s \in Slots : srv[s].st = "listening" =>
        s \in overlap \/ \E i \in DOMAIN listeners : listeners[i] = s

(* The status never claims too much: a route reported as bound is served   *)
(* on that address once setRoutes has returned.                            *)
BoundIsTrue ==
    Quiet => \A i \in DOMAIN status : status[i].bound =>
                /\ i \in DOMAIN listeners
                /\ srv[listeners[i]].st = "listening"
                /\ srv[listeners[i]].port = status[i].bind

(* Only configured routes have a status once setRoutes has returned (also  *)
(* those whose bind failed).                                               *)
StatusIsConfigured == Quiet => DOMAIN status \subseteq RouteIds(store)

(* The egress self-heal converges: once configurations stop changing and   *)
(* addresses are free, every route is served with its current target and   *)
(* allowlist on its own address, and nothing else is registered.           *)
Converges ==
    <>[](/\ DOMAIN listeners = RouteIds(store)
         /\ \A i \in DOMAIN store : Serves(store[i]))
=============================================================================
