------------------------------ MODULE Cameras ------------------------------
(***************************************************************************)
(* CameraService (cameras/cameras.js) with one camera in its settings:     *)
(* access data (CredStore), the tick that resolves the camera, writes its  *)
(* control file and keeps its subscription, events and their clips, and    *)
(* the queue of messages to the server.                                    *)
(*                                                                         *)
(* A runtime object of this.cams outlives its removal while a tick or a    *)
(* subscription holds it: rts are the objects made so far, cur the one in  *)
(* this.cams, 0 for none.  A tick is the time between two awaits of tick:  *)
(* `creds` awaits credsBusy, `cam` is about to look at the next camera,    *)
(* `resolve` and `audio` await the camera, `report` the posts.             *)
(* Left out: thumbnails, snapshots and live demand, the storage report,    *)
(* and the watcher script; the kameras service is there.                   *)
(***************************************************************************)
EXTENDS Naturals, Sequences, FiniteSets

CONSTANTS
    Hosts, Revs,     \* addresses of the camera, revisions of the access data
    Kinds,           \* ranks of what a camera sees (RANK)
    Ticks,           \* ticks that may run at once
    MaxRts, MaxEvents, MaxMsgs, MaxChanges,    \* bounds
    MaxFaults,       \* bound: failing requests to the camera and the server
    MaxPending,      \* MAX_PENDING
    BatchMax         \* messages in one post

VARIABLES
    cfg,      \* the settings: on, cam (in the list), host, rev (credRev), home (may not record)
    creds,    \* rev of CredStore (0: none); the fetch: idle, asked, or got a revision; whether
              \* a new revision was missed
    rts,      \* the runtime objects: host of rt.cam, host rt.info came from, state, whether
              \* resolve is due, host in runWritten, subscription, active kinds, event
    cur,
    file,     \* the control file: the host it names, 0 without a file
    timer,    \* of tickLoop
    tick,     \* per tick: pc, object, and what resolve read before its await
    events,   \* the events: kind, and the clip: part (.part is open) or done
    pending,  \* messages to the server
    post,     \* the batch under way
    told,     \* messages the server accepted
    lost,     \* events with a message that went unaccepted, or orphaned
    used

vars == <<cfg, creds, rts, cur, file, timer, tick, events, pending, post, told, lost, used>>

NewRt(h) == [host |-> h, info |-> 0, st |-> "starting", due |-> "now", run |-> 0,
             sub |-> "none", active |-> {}, event |-> 0]
Idle == [pc |-> "idle", rt |-> 0, host |-> 0, rev |-> 0]

Init ==
    /\ cfg = [on |-> "off", cam |-> "yes", host |-> 1, rev |-> 1, home |-> "no"]
    /\ creds = [rev |-> 0, fetch |-> "idle", got |-> 0, missed |-> "no"]
    /\ rts = <<>> /\ cur = 0 /\ file = 0 /\ timer = "none"
    /\ tick = [t \in Ticks |-> Idle] /\ events = <<>>
    /\ pending = <<>> /\ post = <<>> /\ told = {} /\ lost = {}
    /\ used = [msgs |-> 0, changes |-> 0, faults |-> 0]

Use(b, max) == used[b] < max /\ used' = [used EXCEPT ![b] = @ + 1]

-----------------------------------------------------------------------------
(* Messages to the server.                                                 *)

\* _queue: the oldest go when there are too many, and _flush starts
_queue(q, m) ==
    LET all == q \o m
        n   == Len(all)
    IN  IF n > MaxPending THEN SubSeq(all, n - MaxPending + 1, n) ELSE all

Dropped(q, m) ==
    LET all == q \o m
    IN  {all[i].id : i \in {k \in 1..Len(all) : k + MaxPending <= Len(all)}}

Batch(q) == SubSeq(q, 1, IF Len(q) < BatchMax THEN Len(q) ELSE BatchMax)

Send(m) ==
    /\ pending' = _queue(pending, m) /\ lost' = lost \cup Dropped(pending, m)
    /\ post' = IF post = <<>> THEN Batch(pending') ELSE post

Range(s) == {s[i] : i \in 1..Len(s)}
Rest(q, n) == SubSeq(q, (IF n < Len(q) THEN n ELSE Len(q)) + 1, Len(q))

\* _flush: the post was accepted, its number of messages leaves the front
Posted ==
    /\ post # <<>> /\ told' = told \cup Range(post)
    /\ LET gone == Range(SubSeq(pending, 1, Len(pending) - Len(Rest(pending, Len(post)))))
       IN  lost' = lost \cup {m.id : m \in gone \ told'}
    /\ pending' = Rest(pending, Len(post)) /\ post' = Batch(pending')
    /\ UNCHANGED <<cfg, creds, rts, cur, file, timer, tick, events, used>>

\* ... failed, or its answer was lost
PostFails ==
    /\ post # <<>> /\ Use("faults", MaxFaults) /\ post' = <<>>
    /\ \/ UNCHANGED told
       \/ told' = told \cup Range(post)
    /\ UNCHANGED <<cfg, creds, rts, cur, file, timer, tick, events, pending, lost>>

-----------------------------------------------------------------------------
(* Settings and access data.                                               *)

MayRecord == cfg.home = "no"
Stopped(R) == [R EXCEPT !.sub = "none", !.active = {}]
Due(R) == [R EXCEPT !.due = "now", !.run = 0]

\* an answer that was given before the revision changed
Outdated(c) == creds.fetch = "got" /\ c.rev # creds.got

\* _syncCreds after apply took the settings c: one fetch at a time, if the revision is new
_syncCreds(c) ==
    [creds EXCEPT !.fetch = IF @ = "idle" /\ c.rev # creds.rev THEN "asked" ELSE @,
                  !.missed = IF Outdated(c) THEN "yes" ELSE "no"]

\* this.cams after c: what happens to the runtime of the camera
Runtimes(c) ==
    IF c.cam = "no"
    THEN /\ cur' = 0 /\ file' = IF cur = 0 THEN file ELSE 0
         /\ rts' = IF cur = 0 THEN rts ELSE [rts EXCEPT ![cur] = Stopped(@)]
         /\ lost' = IF cur = 0 THEN lost ELSE lost \cup ({rts[cur].event} \ {0})
    ELSE /\ UNCHANGED <<file, lost>>
         /\ IF cur = 0
            THEN Len(rts) < MaxRts /\ rts' = Append(rts, NewRt(c.host)) /\ cur' = Len(rts')
            ELSE /\ UNCHANGED cur
                 /\ rts' = IF rts[cur].host = c.host THEN rts
                           ELSE [rts EXCEPT ![cur] =
                                   [Stopped(@) EXCEPT !.host = c.host, !.info = 0, !.due = "now"]]

\* apply(raw) with enabled settings c
ApplyOn(c) ==
    /\ Use("changes", MaxChanges)
    /\ Runtimes(c) /\ cfg' = c /\ creds' = _syncCreds(c) /\ timer' = "set"
    /\ UNCHANGED <<tick, events, pending, post, told>>

Settings == [on : {"on"}, cam : {"no", "yes"}, host : Hosts, rev : Revs, home : {"no", "yes"}]

\* the settings change in one entry at a time, or are switched on
Apply ==
    \E c \in Settings : Cardinality({k \in DOMAIN c : c[k] # cfg[k]}) = 1 /\ ApplyOn(c)

\* apply(raw) that switches off: _stopAll, creds.clear, both loops stop
ApplyOff ==
    /\ cfg.on = "on" /\ Use("changes", MaxChanges)
    /\ cfg' = [cfg EXCEPT !.on = "off"] /\ creds' = [creds EXCEPT !.rev = 0] /\ timer' = "none"
    /\ cur' = 0 /\ file' = IF cur = 0 THEN file ELSE 0
    /\ rts' = IF cur = 0 THEN rts ELSE [rts EXCEPT ![cur] = Stopped(@)]
    /\ lost' = IF cur = 0 THEN lost ELSE lost \cup ({rts[cur].event} \ {0})
    /\ UNCHANGED <<tick, events, pending, post, told>>

\* the server answers the fetch with what holds there now
Answer ==
    /\ creds.fetch = "asked" /\ creds' = [creds EXCEPT !.fetch = "got", !.got = cfg.rev]
    /\ UNCHANGED <<cfg, rts, cur, file, timer, tick, events, pending, post, told, lost, used>>

Awake == [t \in Ticks |-> IF tick[t].pc = "creds" THEN [tick[t] EXCEPT !.pc = "cam"] ELSE tick[t]]

\* ... and the answer arrives: every camera is to be resolved afresh
CredsArrive ==
    /\ creds.fetch = "got" /\ creds' = [creds EXCEPT !.rev = creds.got, !.fetch = "idle", !.got = 0]
    /\ rts' = IF cur = 0 THEN rts ELSE [rts EXCEPT ![cur] = Due(@)]
    /\ tick' = Awake
    /\ UNCHANGED <<cfg, cur, file, timer, events, pending, post, told, lost, used>>

\* ... or the fetch fails
CredsFail ==
    /\ creds.fetch \in {"asked", "got"} /\ Use("faults", MaxFaults)
    /\ creds' = [creds EXCEPT !.fetch = "idle", !.got = 0, !.missed = "yes"] /\ tick' = Awake
    /\ UNCHANGED <<cfg, rts, cur, file, timer, events, pending, post, told, lost>>

-----------------------------------------------------------------------------
(* Events and clips.                                                       *)

\* .part becomes the .mp4, or is removed when it is empty or cannot be finished
_closeClip(e) == [events EXCEPT ![e].clip = "done"]

\* _endEvent for event e: the clip is closed, the end is queued
_endEvent(e) ==
    /\ events' = _closeClip(e)
    /\ Send(<<[id |-> e, phase |-> "end"]>>)

NoEventChange == UNCHANGED <<events, pending, post, lost>>

\* recordStep: the end is reached, the movement is stale, the stream restarted or the
\* clip is as long as it may be
RecordEnds ==
    /\ cfg.on = "on" /\ cur # 0 /\ rts[cur].event # 0
    /\ _endEvent(rts[cur].event) /\ rts' = [rts EXCEPT ![cur].event = 0]
    /\ UNCHANGED <<cfg, creds, cur, file, timer, tick, told, used>>

Highest(ks) == CHOOSE k \in ks : \A j \in ks : j <= k

_openClip(kind) == [kind |-> kind, clip |-> "part"]

\* _startEvent with a clip (without one there is only less to end)
_startEvent(r, now) ==
    LET e == Len(events) + 1
    IN  /\ e <= MaxEvents
        /\ events' = Append(events, _openClip(Highest(now)))
        /\ rts' = [rts EXCEPT ![r].active = now, ![r].event = e]
        /\ pending' = _queue(pending, <<[id |-> e, phase |-> "start"]>>)
        /\ post' = IF post = <<>> THEN Batch(pending') ELSE post
        /\ lost' = lost \cup Dropped(pending, <<[id |-> e, phase |-> "start"]>>)
                        \cup (IF r = cur THEN {} ELSE {e})

\* onMessage: kind k is seen, or no more
onMessage(r, k, on) ==
    LET now == IF on = "on" THEN rts[r].active \cup {k} ELSE rts[r].active \ {k}
        e   == rts[r].event
    IN  IF now # {} /\ MayRecord
        THEN IF e = 0 THEN _startEvent(r, now)
             ELSE /\ rts' = [rts EXCEPT ![r].active = now]
                  /\ IF Highest(now) <= events[e].kind THEN NoEventChange
                     ELSE /\ events' = [events EXCEPT ![e].kind = Highest(now)]
                          /\ Send(<<[id |-> e, phase |-> "update"]>>)
        ELSE rts' = [rts EXCEPT ![r].active = now] /\ NoEventChange

Message(r) ==
    /\ rts[r].sub = "pull" /\ Use("msgs", MaxMsgs)
    /\ \E k \in Kinds, on \in {"on", "off"} : onMessage(r, k, on)
    /\ UNCHANGED <<cfg, creds, cur, file, timer, tick, told>>

\* _startEvents: createPullPoint, after a backoff if the subscription was lost
Subscribed(r) ==
    /\ rts[r].sub = "connect" /\ rts' = [rts EXCEPT ![r].sub = "pull"]
    /\ UNCHANGED <<cfg, creds, cur, file, timer, tick, events, pending, post, told, lost, used>>

SubFails(r) ==
    /\ rts[r].sub \in {"connect", "pull"} /\ Use("faults", MaxFaults)
    /\ rts' = [rts EXCEPT ![r].sub = "connect"]
    /\ UNCHANGED <<cfg, creds, cur, file, timer, tick, events, pending, post, told, lost>>

-----------------------------------------------------------------------------
(* The tick.                                                               *)

TickStarts(t) ==
    /\ timer = "set" /\ tick[t].pc = "idle" /\ timer' = "none"
    /\ tick' = [tick EXCEPT ![t].pc = IF creds.fetch = "idle" THEN "cam" ELSE "creds"]
    /\ UNCHANGED <<cfg, creds, rts, cur, file, events, pending, post, told, lost, used>>

Wanted(R) == R.st = "ok" /\ R.info # 0 /\ MayRecord

\* the control file after _writeRun: what this object wrote last is not written again
_writeRun(R) == IF R.run = R.host /\ file # 0 THEN file ELSE R.host

\* the rest of the loop body for runtime r, whose record became R: control file,
\* subscription, event; then the next camera of the map, which may have been added since
TickRest(t, r, R) ==
    LET want == Wanted(R)
        ends == ~want /\ R.event # 0
    IN  /\ file' = IF want THEN _writeRun(R) ELSE 0
        /\ rts' = [rts EXCEPT ![r] =
              [R EXCEPT !.run = IF want THEN R.host ELSE 0,
                        !.sub = IF ~want THEN "none" ELSE IF @ = "none" THEN "connect" ELSE @,
                        !.active = IF ~want /\ R.sub # "none" THEN {} ELSE @,
                        !.event = IF ends THEN 0 ELSE @]]
        /\ IF ends THEN _endEvent(R.event) ELSE NoEventChange
        /\ tick' = [tick EXCEPT ![t] = [Idle EXCEPT !.pc = IF cur \in {0, r} THEN "report" ELSE "cam"]]

NoCamera(t) ==
    /\ tick[t].pc = "cam" /\ cur = 0 /\ tick' = [tick EXCEPT ![t].pc = "report"]
    /\ UNCHANGED <<cfg, creds, rts, cur, file, timer, events, pending, post, told, lost, used>>

\* resolve is not due: it was not long ago, or failed and waits
NotDue(t) ==
    /\ tick[t].pc = "cam" /\ cur # 0 /\ rts[cur].due = "later"
    /\ TickRest(t, cur, rts[cur])
    /\ UNCHANGED <<cfg, creds, cur, timer, told, used>>

\* resolve reads the camera and its access data, and asks the camera
Resolve(t) ==
    /\ tick[t].pc = "cam" /\ cur # 0
    /\ tick' = [tick EXCEPT ![t] = [pc |-> "resolve", rt |-> cur, host |-> rts[cur].host,
                                    rev |-> creds.rev]]
    /\ UNCHANGED <<cfg, creds, rts, cur, file, timer, events, pending, post, told, lost, used>>

\* the camera answered: rt.info is set, and its stream is asked for audio
Resolved(t) ==
    /\ tick[t].pc = "resolve" /\ tick[t].rev = cfg.rev
    /\ rts' = [rts EXCEPT ![tick[t].rt].info = tick[t].host]
    /\ tick' = [tick EXCEPT ![t].pc = "audio"]
    /\ UNCHANGED <<cfg, creds, cur, file, timer, events, pending, post, told, lost, used>>

\* ... and then it counts as resolved
ResolveEnds(t) ==
    /\ tick[t].pc = "audio"
    /\ TickRest(t, tick[t].rt, [rts[tick[t].rt] EXCEPT !.st = "ok", !.due = "later"])
    /\ UNCHANGED <<cfg, creds, cur, timer, told, used>>

\* the camera did not answer, or refused the access data
ResolveFails(t) ==
    /\ tick[t].pc = "resolve"
    /\ IF tick[t].rev # cfg.rev THEN UNCHANGED used ELSE Use("faults", MaxFaults)
    /\ TickRest(t, tick[t].rt, [rts[tick[t].rt] EXCEPT !.st = "down", !.due = "later"])
    /\ UNCHANGED <<cfg, creds, cur, timer, told>>

\* _flush, if no post is under way, and report; then the loop sets its timer (that the
\* tick awaits these posts only delays the next one)
TickEnds(t) ==
    /\ tick[t].pc = "report" /\ tick' = [tick EXCEPT ![t].pc = "idle"]
    /\ timer' = (IF cfg.on = "on" THEN "set" ELSE timer)
    /\ post' = (IF post = <<>> THEN Batch(pending) ELSE post)
    /\ UNCHANGED <<cfg, creds, rts, cur, file, events, pending, told, lost, used>>

-----------------------------------------------------------------------------
Objects == 1..Len(rts)

TickStep(t) ==
    TickStarts(t) \/ NoCamera(t) \/ NotDue(t) \/ Resolve(t) \/ Resolved(t) \/ ResolveEnds(t)
    \/ ResolveFails(t) \/ TickEnds(t)

Next ==
    \/ Apply \/ ApplyOff \/ Answer \/ CredsArrive \/ CredsFail \/ Posted \/ PostFails \/ RecordEnds
    \/ \E r \in Objects : Message(r) \/ Subscribed(r) \/ SubFails(r)
    \/ \E t \in Ticks : TickStep(t)

Spec == Init /\ [][Next]_vars

-----------------------------------------------------------------------------
TypeOK ==
    /\ cfg \in [on : {"on", "off"}, cam : {"no", "yes"}, host : Hosts, rev : Revs, home : {"no", "yes"}]
    /\ creds \in [rev : Revs \cup {0}, fetch : {"idle", "asked", "got"}, got : Revs \cup {0},
                  missed : {"no", "yes"}]
    /\ \A r \in Objects : rts[r] \in
          [host : Hosts, info : Hosts \cup {0}, st : {"starting", "ok", "down"}, due : {"now", "later"},
           run : Hosts \cup {0}, sub : {"none", "connect", "pull"}, active : SUBSET Kinds,
           event : 0..MaxEvents]
    /\ cur \in 0..Len(rts) /\ file \in Hosts \cup {0} /\ timer \in {"none", "set"}
    /\ Len(pending) <= MaxPending /\ Len(post) <= BatchMax
    /\ lost \subseteq 1..Len(events)

\* A camera in the settings is served in the end: resolved at the address it has now with
\* the access data of the server, and, if it may record, with a control file that names that
\* address and a subscription.  Excepted is a revision of the access data that was missed,
\* because its fetch failed or another one had been answered already: _syncCreds has no
\* retry (cameras.js:161-193, 215-222, 322-357, 420-441).
CameraServed ==
    <>[](cfg.on = "on" /\ creds.missed = "no" =>
            /\ creds.rev = cfg.rev
            /\ cur # 0 =>
                  /\ rts[cur].st = "ok" /\ rts[cur].info = cfg.host
                  /\ MayRecord => file = cfg.host /\ rts[cur].sub # "none"
                  /\ ~MayRecord => file = 0 /\ rts[cur].sub = "none" /\ rts[cur].event = 0)

\* Every event the server was told of is told to be over, and its clip is closed, unless its
\* camera left the settings, the queue overflowed or the cameras are switched off, when
\* nothing is sent until they are on again (cameras.js:559-599, 653-671).
EventsEnd ==
    <>[](cfg.on = "on" => \A m \in told : m.id \in lost
            \/ ([id |-> m.id, phase |-> "end"] \in told /\ events[m.id].clip = "done"))

\* docs/cameras.md:61: switched off, the control files are gone and no events are fetched.
OffIsOff ==
    (cfg.on = "off" /\ \A t \in Ticks : tick[t].pc = "idle") =>
        file = 0 /\ \A r \in Objects : rts[r].sub = "none"
=============================================================================
