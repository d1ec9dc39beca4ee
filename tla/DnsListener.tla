---------------------------- MODULE DnsListener ----------------------------
(***************************************************************************)
(* The sockets of the DNS filter (dns/server.js, dns/dns.js): a loop binds *)
(* a UDP and a TCP socket on every LAN address and closes those of         *)
(* addresses that are gone.  FeatureManager applies one configuration      *)
(* after the other; the loop (features/status.js) may be stopped and       *)
(* started while a run of it still binds, so that two runs overlap.        *)
(*                                                                         *)
(* The operating system is external: one holder per address and protocol.  *)
(***************************************************************************)
EXTENDS Naturals, FiniteSets

CONSTANTS
    Addrs,                    \* LAN addresses
    Runs,                     \* bound: reconcile runs at one time
    MaxApplies, MaxChanges, MaxForeign   \* bounds

VARIABLES
    dnsOn,      \* cfg.enabled, and apply: off, lists (setWanted awaited), on
    timer,      \* listenLoop: stopped, wait (timer set), running
    wanted,     \* addresses()
    bound,      \* this.bound
    socket,     \* [udp, tcp] -> address -> free, foreign, bound, or the run that holds it
    rec,        \* reconcile: run -> [pc, left, addr]
    dnsUsed

dvars == <<dnsOn, timer, wanted, bound, socket, rec, dnsUsed>>

IdleRun == [pc |-> "idle", left |-> {}, addr |-> {}]
Count(f, max) == dnsUsed[f] < max /\ dnsUsed' = [dnsUsed EXCEPT ![f] = @ + 1]

Init ==
    /\ dnsOn = "off" /\ timer = "stopped" /\ wanted = Addrs /\ bound = {}
    /\ socket = [p \in {"udp", "tcp"} |-> [a \in Addrs |-> "free"]]
    /\ rec = [r \in Runs |-> IdleRun] /\ dnsUsed = [applies |-> 0, changes |-> 0, foreign |-> 0]

\* the sockets of the addresses A are closed
Closed(A) == [p \in {"udp", "tcp"} |-> [a \in Addrs |->
                 IF a \in A /\ socket[p][a] = "bound" THEN "free" ELSE socket[p][a]]]

-----------------------------------------------------------------------------
(* apply, _shutdown *)

applyOn ==
    /\ dnsOn = "off" /\ Count("applies", MaxApplies) /\ dnsOn' = "lists"
    /\ UNCHANGED <<timer, wanted, bound, socket, rec>>

\* setWanted is done: listenLoop.start(0)
applied ==
    /\ dnsOn = "lists" /\ dnsOn' = "on" /\ timer' = "wait"
    /\ UNCHANGED <<wanted, bound, socket, rec, dnsUsed>>

\* _shutdown: the loop stops and what is bound is closed
applyOff ==
    /\ dnsOn = "on" /\ dnsOn' = "off" /\ timer' = "stopped"
    /\ bound' = {} /\ socket' = Closed(bound) /\ UNCHANGED <<wanted, rec, dnsUsed>>

-----------------------------------------------------------------------------
(* reconcile *)

\* the timer fires: addresses that are gone are closed
reconcile(r) ==
    /\ timer = "wait" /\ rec[r].pc = "idle" /\ timer' = "running"
    /\ bound' = bound \cap wanted /\ socket' = Closed(bound \ wanted)
    /\ rec' = [rec EXCEPT ![r] = [IdleRun EXCEPT !.pc = "next", !.left = wanted]]
    /\ UNCHANGED <<dnsOn, wanted, dnsUsed>>

\* the next address; one that is bound is passed over
bindUdp(r, a) ==
    /\ rec[r].pc = "next" /\ a \in rec[r].left
    /\ rec' = [rec EXCEPT ![r].left = @ \ {a},
                          ![r].pc = IF a \in bound THEN "next" ELSE "udp", ![r].addr = {a}]
    /\ UNCHANGED <<dnsOn, timer, wanted, bound, socket, dnsUsed>>

\* the bind is done or EADDRINUSE
boundUdp(r, a) ==
    /\ rec[r].pc = "udp" /\ rec[r].addr = {a}
    /\ IF socket["udp"][a] = "free"
       THEN /\ socket' = [socket EXCEPT !["udp"][a] = r] /\ rec' = [rec EXCEPT ![r].pc = "tcp"]
       ELSE /\ UNCHANGED socket /\ rec' = [rec EXCEPT ![r].pc = "next"]
    /\ UNCHANGED <<dnsOn, timer, wanted, bound, dnsUsed>>

\* bound.set, or the UDP socket is closed again
boundTcp(r, a) ==
    /\ rec[r].pc = "tcp" /\ rec[r].addr = {a} /\ rec' = [rec EXCEPT ![r].pc = "next"]
    /\ IF socket["tcp"][a] = "free"
       THEN /\ socket' = [socket EXCEPT !["udp"][a] = "bound", !["tcp"][a] = "bound"]
            /\ bound' = bound \cup {a}
       ELSE socket' = [socket EXCEPT !["udp"][a] = "free"] /\ UNCHANGED bound
    /\ UNCHANGED <<dnsOn, timer, wanted, dnsUsed>>

\* the run ends; the loop sets its timer again unless it was stopped
reconciled(r) ==
    /\ rec[r].pc = "next" /\ rec[r].left = {} /\ rec' = [rec EXCEPT ![r] = IdleRun]
    /\ timer' = IF timer = "stopped" THEN "stopped" ELSE "wait"
    /\ UNCHANGED <<dnsOn, wanted, bound, socket, dnsUsed>>

-----------------------------------------------------------------------------
(* The LAN and the host *)

AddressChanges(a) ==
    /\ Count("changes", MaxChanges)
    /\ wanted' = IF a \in wanted THEN wanted \ {a} ELSE wanted \cup {a}
    /\ UNCHANGED <<dnsOn, timer, bound, socket, rec>>

ForeignTakes(p, a) ==
    /\ socket[p][a] = "free" /\ Count("foreign", MaxForeign)
    /\ socket' = [socket EXCEPT ![p][a] = "foreign"] /\ UNCHANGED <<dnsOn, timer, wanted, bound, rec>>

ForeignLeaves(p, a) ==
    /\ socket[p][a] = "foreign" /\ socket' = [socket EXCEPT ![p][a] = "free"]
    /\ UNCHANGED <<dnsOn, timer, wanted, bound, rec, dnsUsed>>

Step(r) == reconcile(r) \/ reconciled(r) \/ \E a \in Addrs : bindUdp(r, a) \/ boundUdp(r, a) \/ boundTcp(r, a)
Host(a) == \E p \in {"udp", "tcp"} : ForeignLeaves(p, a)

Next ==
    \/ applyOn \/ applied \/ applyOff
    \/ \E r \in Runs : Step(r)
    \/ \E a \in Addrs : AddressChanges(a) \/ Host(a) \/ \E p \in {"udp", "tcp"} : ForeignTakes(p, a)

-----------------------------------------------------------------------------
(* Type invariant of the DNS sockets. *)
TypeOK ==
    /\ dnsOn \in {"off", "lists", "on"} /\ timer \in {"stopped", "wait", "running"}
    /\ bound \subseteq Addrs /\ wanted \subseteq Addrs
    /\ \A p \in {"udp", "tcp"}, a \in Addrs : socket[p][a] \in {"free", "foreign", "bound"} \cup Runs

(* No socket is lost: one that is open is in the Map or in the hands of a  *)
(* run that still binds that address, and what is in the Map is open.      *)
NoLostSocket ==
    \A a \in Addrs :
        /\ a \in bound <=> socket["udp"][a] = "bound" /\ socket["tcp"][a] = "bound"
        /\ \A p \in {"udp", "tcp"} : socket[p][a] = "bound" => a \in bound
        /\ \A r \in Runs : socket["udp"][a] = r => rec[r].pc = "tcp" /\ rec[r].addr = {a}

(* An enabled filter listens on all LAN addresses in the end, although two *)
(* runs of the loop take the port from each other.                         *)
Listens == <>[](dnsOn = "on" => bound = wanted)
=============================================================================
