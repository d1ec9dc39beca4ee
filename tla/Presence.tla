------------------------------ MODULE Presence ------------------------------
(***************************************************************************)
(* Who is at home (presence/presence.js): the gateway looks for the        *)
(* tracked devices, turns what it sees into events and posts them in order *)
(* until the server has confirmed them.  The time a device must be missing *)
(* is not counted: a missing device may be away at any tick.               *)
(*                                                                         *)
(* The LAN and the server are external.  The server keeps the last event   *)
(* of every device; a post may be taken and its answer lost.               *)
(***************************************************************************)
EXTENDS Naturals, Sequences, FiniteSets

CONSTANTS
    Macs, MaxQueue,        \* MAX_QUEUE
    MaxMoves, MaxApplies, MaxFaults   \* bounds: devices that come and go, settings, failures

VARIABLES
    home,      \* the devices in the LAN
    tracked,   \* cfg.macs; none when switched off
    online,    \* state: mac -> unknown, yes, no; none when not tracked
    queue,     \* this.queue of [mac, online]
    ptick,     \* tick: [pc, macs, seen, batch]; pc is idle, detect, post or taken
    view,      \* the server's view
    dropped,   \* devices whose last event fell out of a full queue
    presUsed

pvars == <<home, tracked, online, queue, ptick, view, dropped, presUsed>>

Idle == [pc |-> "idle", macs |-> {}, seen |-> {}, batch |-> <<>>]
Count(f) == presUsed' = [presUsed EXCEPT ![f] = @ + 1]

Init ==
    /\ home = {} /\ tracked = {} /\ online = [m \in Macs |-> "none"] /\ queue = <<>>
    /\ ptick = Idle /\ view = [m \in Macs |-> "unknown"] /\ dropped = {}
    /\ presUsed = [moves |-> 0, applies |-> 0, faults |-> 0]

\* a device joins or leaves the LAN
Moves(m) ==
    /\ presUsed.moves < MaxMoves /\ Count("moves")
    /\ home' = IF m \in home THEN home \ {m} ELSE home \cup {m}
    /\ UNCHANGED <<tracked, online, queue, ptick, view, dropped>>

\* apply; with no device it is switched off and the queue dropped
apply(S) ==
    /\ S # tracked /\ tracked' = S /\ presUsed.applies < MaxApplies /\ Count("applies")
    /\ online' = [m \in Macs |-> IF m \notin S THEN "none"
                                 ELSE IF online[m] = "none" THEN "unknown" ELSE online[m]]
    /\ queue' = IF S = {} THEN <<>> ELSE queue
    /\ dropped' = dropped \cap S /\ UNCHANGED <<home, ptick, view>>

\* tick up to the scan
tick ==
    /\ tracked # {} /\ ptick.pc = "idle"
    /\ ptick' = [Idle EXCEPT !.pc = "detect", !.macs = tracked]
    /\ UNCHANGED <<home, tracked, online, queue, view, dropped, presUsed>>

\* _detect, one device at a time: the neighbours, the probes, the sweep
detect(m) ==
    /\ ptick.pc = "detect" /\ m \in ptick.macs
    /\ ptick' = [ptick EXCEPT !.macs = @ \ {m},
                              !.seen = IF m \in home THEN @ \cup {m} ELSE @]
    /\ UNCHANGED <<home, tracked, online, queue, view, dropped, presUsed>>

MacsOf(q) == {q[k].mac : k \in 1..Len(q)}

\* push, and what is too much goes from the front
push(events) ==
    LET all == queue \o events
        over == IF Len(all) > MaxQueue THEN Len(all) - MaxQueue ELSE 0
        kept == SubSeq(all, over + 1, Len(all))
    IN  /\ queue' = kept
        /\ dropped' = (dropped \cup MacsOf(SubSeq(all, 1, over))) \ MacsOf(kept)

\* the events of devices, in the order of this.state, which may be any
Orders(S) == {o \in [1..Cardinality(S) -> S] : \A m \in S : \E k \in 1..Cardinality(S) : o[k] = m}
EventsOf(order, on) == [k \in DOMAIN order |-> [mac |-> order[k], online |-> on[order[k]]]]

\* mutant: a device that leaves while it is unknown is not told
transitionsKnown(seen, away) ==
    LET came == {m \in tracked : m \in seen /\ online[m] # "yes"}
        left == {m \in tracked \cap away : m \notin seen /\ online[m] = "yes"}
        on == [m \in Macs |-> IF m \in came THEN "yes" ELSE IF m \in left THEN "no" ELSE online[m]]
    IN  online' = on /\ \E order \in Orders(came \cup left) : push(EventsOf(order, on))

\* transitions of the devices tracked now; away are those missing long enough
transitions(seen, away) ==
    LET came == {m \in tracked : m \in seen /\ online[m] # "yes"}
        left == {m \in tracked \cap away : m \notin seen /\ online[m] # "no"}
        on == [m \in Macs |-> IF m \in came THEN "yes" ELSE IF m \in left THEN "no" ELSE online[m]]
    IN  online' = on /\ \E order \in Orders(came \cup left) : push(EventsOf(order, on))

\* the scan is over: events, and _flush up to the post
detected(away) ==
    /\ ptick.pc = "detect" /\ ptick.macs = {} /\ transitions(ptick.seen, away)
    /\ ptick' = IF queue' = <<>> THEN Idle ELSE [Idle EXCEPT !.pc = "post", !.batch = queue']
    /\ UNCHANGED <<home, tracked, view, presUsed>>

\* the server takes the post: the last event of a device counts
ServerTakes ==
    /\ ptick.pc = "post" /\ ptick' = [ptick EXCEPT !.pc = "taken"]
    /\ LET b == ptick.batch
           last(m) == CHOOSE k \in 1..Len(b) : b[k].mac = m /\ \A j \in k + 1..Len(b) : b[j].mac # m
       IN  view' = [m \in Macs |-> IF m \in MacsOf(b) THEN b[last(m)].online ELSE view[m]]
    /\ UNCHANGED <<home, tracked, online, queue, dropped, presUsed>>

\* _flush: as many as were sent go from the front of the queue there is now
flushed == queue' = SubSeq(queue, Len(ptick.batch) + 1, Len(queue))

posted ==
    /\ ptick.pc = "taken" /\ ptick' = Idle /\ flushed
    /\ UNCHANGED <<home, tracked, online, view, dropped, presUsed>>

postFails ==
    /\ ptick.pc \in {"post", "taken"} /\ ptick' = Idle
    /\ presUsed.faults < MaxFaults /\ Count("faults")
    /\ UNCHANGED <<home, tracked, online, queue, view, dropped>>

\* a scan that fails ends the tick
detectFails ==
    /\ ptick.pc = "detect" /\ ptick' = Idle /\ presUsed.faults < MaxFaults /\ Count("faults")
    /\ UNCHANGED <<home, tracked, online, queue, view, dropped>>

Step == tick \/ ServerTakes \/ posted \/ \E m \in Macs : detect(m)

Next ==
    \/ Step \/ postFails \/ detectFails
    \/ \E m \in Macs : Moves(m)
    \/ \E S \in SUBSET Macs : apply(S) \/ detected(S)

-----------------------------------------------------------------------------
(* Type invariant of the presence. *)
TypeOK ==
    /\ home \subseteq Macs /\ tracked \subseteq Macs /\ dropped \subseteq Macs
    /\ online \in [Macs -> {"none", "unknown", "yes", "no"}]
    /\ Len(queue) <= MaxQueue /\ ptick.pc \in {"idle", "detect", "post", "taken"}
    /\ view \in [Macs -> {"unknown", "yes", "no"}]

(* Only a device whose last event is on its way, or was dropped from a     *)
(* full queue, may differ between the gateway and the server.              *)
ToldOrQueued ==
    \A m \in tracked \ dropped :
        online[m] \in {"yes", "no"} /\ m \notin MacsOf(queue) => view[m] = online[m]

(* In the end the server knows of every tracked device whether it is at    *)
(* home, also after lost answers and changed settings.                     *)
PresenceConverges ==
    <>[](\A m \in tracked \ dropped : view[m] = IF m \in home THEN "yes" ELSE "no")
=============================================================================
