----------------------------- MODULE NetServers -----------------------------
(***************************************************************************)
(* The listening sockets of net.Server, as proxy/tcp.js and proxy/egress.js *)
(* use them.  A pool of server slots; a slot is unused, listening or       *)
(* closed.  A listening server holds its port; close() gives the port back *)
(* at once, but its callback waits for the open connections.               *)
(***************************************************************************)
EXTENDS Naturals

CONSTANTS
    Ports,       \* TCP ports of the bind address
    MaxServers   \* bound: server slots

Slots == 1..MaxServers
Unused == [st |-> "unused", port |-> 0, route |-> <<>>, conn |-> FALSE]

\* the ports our own servers hold
HeldPorts(srv) == {srv[s].port : s \in {t \in Slots : srv[t].st = "listening"}}

\* a slot is free when no variable refers to it any more
FreeSlots(srv, referenced) ==
    {s \in Slots : s \notin referenced /\ srv[s].st # "listening" /\ ~srv[s].conn}
FreeSlot(srv, referenced) ==
    CHOOSE s \in FreeSlots(srv, referenced) :
        \A t \in FreeSlots(srv, referenced) : s <= t

Listening(srv, s, port, route) ==
    [srv EXCEPT ![s] = [st |-> "listening", port |-> port, route |-> route,
                        conn |-> FALSE]]

\* server.close(): stops listening; connections go on
Closed(srv, s) == [srv EXCEPT ![s].st = "closed"]

\* the callback of server.close() may run
Drained(srv, s) == ~srv[s].conn

\* Slots that nothing refers to and that are down look alike.
Recycled(srv, referenced) ==
    [s \in Slots |-> IF s \in FreeSlots(srv, referenced) THEN Unused ELSE srv[s]]
=============================================================================
