----------------------------- MODULE EdgeEvents -----------------------------
(***************************************************************************)
(* The events of one plugin on their way to the server: the buffer         *)
(* (edge/eventBuffer.js), the channel (edge/channel.js) and what the host  *)
(* does with both (edge/host.js).  An event is sent at once when the       *)
(* channel is open, kept until it is acknowledged, and all that is kept is *)
(* sent again at the first `state` of a connection.                        *)
(*                                                                         *)
(* The server is external: it answers `hello` with `state`, takes events   *)
(* and acknowledges each, in the order of the frames.                      *)
(***************************************************************************)
EXTENDS Naturals, Sequences, FiniteSets

CONSTANTS
    MaxEvents,   \* bound: events emitted
    MaxClock,    \* bound: the clock
    MaxDrops,    \* bound: lost connections
    MaxEarly,    \* bound: events emitted between `open` and the first `state`
    BufferMax,   \* eventBufferMax
    BufferAge    \* eventBufferMaxAgeMs

VARIABLES
    clock, lastSeq,
    items,      \* this.items: [seq, id, ts]
    lost,       \* this.lost
    made,       \* events emitted so far; the id of an event is its number
    conn,       \* the channel: down, open
    stateSeen,  \* this.stateSeen
    up, down,   \* frames on their way to and from the server
    got,        \* events the server has
    used

vars == <<clock, lastSeq, items, lost, made, conn, stateSeen, up, down, got, used>>

Hello == [t |-> "hello", seq |-> 0, id |-> 0]
State == [t |-> "state", seq |-> 0, id |-> 0]
EventOf(i) == [t |-> "event", seq |-> i.seq, id |-> i.id]

Init ==
    /\ clock = 1 /\ lastSeq = 0 /\ items = <<>> /\ lost = 0 /\ made = 0
    /\ conn = "down" /\ stateSeen = "no" /\ up = <<>> /\ down = <<>> /\ got = {}
    /\ used = [drops |-> 0, early |-> 0]

nextSeq == IF lastSeq + 1 > clock THEN lastSeq + 1 ELSE clock

\* prune: from the front what is too old goes, then what is too much
prune(s) ==
    LET old == {k \in 1..Len(s) : \A j \in 1..k : s[j].ts + BufferAge < clock}
        over == IF Len(s) - Cardinality(old) > BufferMax THEN Len(s) - BufferMax
                ELSE Cardinality(old)
    IN  SubSeq(s, over + 1, Len(s))

\* mutant: sent or buffered, not both
pushSent ==
    LET i == [seq |-> nextSeq, id |-> made + 1, ts |-> clock]
        kept == prune(Append(items, i))
    IN  /\ items' = IF conn = "open" THEN items ELSE kept
        /\ lost' = lost + (IF conn = "open" THEN 0 ELSE Len(items) + 1 - Len(kept))
        /\ up' = IF conn = "open" THEN Append(up, EventOf(i)) ELSE up

\* push and send
push ==
    LET i == [seq |-> nextSeq, id |-> made + 1, ts |-> clock]
        kept == prune(Append(items, i))
    IN  /\ items' = kept /\ lost' = lost + (Len(items) + 1 - Len(kept))
        /\ up' = IF conn = "open" THEN Append(up, EventOf(i)) ELSE up

emit ==
    /\ made < MaxEvents /\ made' = made + 1 /\ lastSeq' = nextSeq /\ push
    /\ IF conn = "open" /\ stateSeen = "no"
       THEN used.early < MaxEarly /\ used' = [used EXCEPT !.early = @ + 1]
       ELSE UNCHANGED used
    /\ UNCHANGED <<clock, conn, stateSeen, down, got>>

\* connect, and `hello`
onOpen ==
    /\ conn = "down" /\ conn' = "open" /\ up' = <<Hello>> /\ down' = <<>>
    /\ UNCHANGED <<clock, lastSeq, items, lost, made, stateSeen, got, used>>

\* the connection breaks, the frames under way are lost
onClose ==
    /\ conn = "open" /\ used.drops < MaxDrops /\ used' = [used EXCEPT !.drops = @ + 1]
    /\ conn' = "down" /\ stateSeen' = "no" /\ up' = <<>> /\ down' = <<>>
    /\ UNCHANGED <<clock, lastSeq, items, lost, made, got>>

\* the first `state` of a connection: resendEvents
onState ==
    /\ down # <<>> /\ Head(down).t = "state" /\ down' = Tail(down)
    /\ stateSeen' = "yes"
    /\ IF stateSeen = "yes" THEN UNCHANGED <<items, lost, up>>
       ELSE LET kept == prune(items) IN
            /\ items' = kept /\ lost' = lost + (Len(items) - Len(kept))
            /\ up' = up \o [k \in 1..Len(kept) |-> EventOf(kept[k])]
    /\ UNCHANGED <<clock, lastSeq, made, conn, got, used>>

\* ack up to and including seq, from the front
onAck ==
    /\ down # <<>> /\ Head(down).t = "ack" /\ down' = Tail(down)
    /\ LET acked == {k \in 1..Len(items) : \A j \in 1..k : items[j].seq <= Head(down).seq}
       IN  items' = SubSeq(items, Cardinality(acked) + 1, Len(items))
    /\ UNCHANGED <<clock, lastSeq, lost, made, conn, stateSeen, up, got, used>>

ServerTakes ==
    /\ up # <<>> /\ up' = Tail(up)
    /\ LET m == Head(up) IN
       \/ m.t = "hello" /\ down' = Append(down, State) /\ UNCHANGED got
       \/ /\ m.t = "event" /\ got' = got \cup {m.id}
          /\ down' = Append(down, [t |-> "ack", seq |-> m.seq, id |-> 0])
    /\ UNCHANGED <<clock, lastSeq, items, lost, made, conn, stateSeen, used>>

ClockTicks ==
    /\ clock < MaxClock /\ clock' = clock + 1
    /\ UNCHANGED <<lastSeq, items, lost, made, conn, stateSeen, up, down, got, used>>

Deliver == onOpen \/ onState \/ onAck \/ ServerTakes
Next == emit \/ onClose \/ ClockTicks \/ Deliver

Spec == Init /\ [][Next]_vars
(* The channel reconnects (retry timer) and frames arrive.                 *)
Fairness == WF_vars(Deliver)
FairSpec == Spec /\ Fairness

-----------------------------------------------------------------------------
Buffered == {items[k].id : k \in 1..Len(items)}

(* Type invariant of the event path. *)
TypeOK ==
    /\ clock \in 1..MaxClock /\ lastSeq \in Nat /\ lost \in Nat /\ made \in 0..MaxEvents
    /\ \A k \in 1..Len(items) : items[k] \in [seq : Nat, id : 1..made, ts : 1..clock]
    /\ conn \in {"down", "open"} /\ stateSeen \in {"yes", "no"} /\ got \subseteq 1..made
    /\ Len(items) <= BufferMax
    /\ \A j, k \in 1..Len(items) : j < k => items[j].seq < items[k].seq

(* eventBuffer.js: an event stays in the buffer until the server has       *)
(* confirmed it.  No event disappears unless the server has it or it was   *)
(* dropped by the buffer's limits and counted; one that is on its way may  *)
(* still arrive.                                                           *)
NothingVanishes ==
    LET underway == {up[k].id : k \in 1..Len(up)}
    IN  Cardinality((1..made) \ (got \cup Buffered \cup underway)) <= lost

(* Events that the buffer keeps reach the server once connections last.    *)
BufferDrains == <>[](items = <<>>)
=============================================================================
