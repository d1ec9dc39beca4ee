---------------------------- MODULE CameraClips ----------------------------
(***************************************************************************)
(* The pictures of one camera (cameras/cameras.js, ring.js, fmp4.js and    *)
(* api/routes/cameras.js): the ring ffmpeg writes, clips and thumbnails of *)
(* events, the live stream, still pictures, and the files on the disk with *)
(* their deletion.  Cameras models the rest of the service.                *)
(*                                                                         *)
(* A segment is its run of ffmpeg and its number, which is also its time;  *)
(* what a clip or a stream holds is the run and the time after rebase.     *)
(* The ring directory is emptied when ffmpeg starts (kameras.sh).          *)
(***************************************************************************)
EXTENDS Naturals, Sequences

CONSTANTS
    Events, Streams,
    RingSize,   \* segments in the playlist
    PreSegs,    \* segments a clip reaches back (PRE_MS)
    MaxClip,    \* segments of the longest clip (MAX_CLIP_MS)
    Retention,  \* retentionDays
    MaxDays,    \* bound: days that pass
    MaxRuns,    \* bound: starts of ffmpeg
    MaxSegs,    \* bound: segments of one run
    MaxChanges, \* bound: changes of the settings
    MaxAsks     \* bound: streams and still pictures asked for

VARIABLES
    cfg,     \* [on: cfg.enabled; rec: mayRecord]
    ring,    \* [file: the control file; run: of ffmpeg, 0 without; seg: the newest, 0: no init.mp4]
    runs,    \* starts of ffmpeg so far
    demand,  \* liveUntil or snapUntil lies ahead
    today,
    ev,      \* per event [st: new, runs, over, orphan; day; rec: NoRec or [run, base, last]; clip: its
             \*  content; thumb: none, due, asked; gone: deleted]
    stream,  \* per live.mp4 [pc: idle, init, runs; run, last, base, out]
    snap,    \* a snapshot call: idle, http, wait
    files,   \* pairs of an event and part, mp4, jpg or json
    used

cam == <<cfg, ring, runs, demand, today>>
vars == <<cam, ev, stream, snap, files, used>>

NoRec == [run |-> 0, base |-> 0, last |-> 0]
NewEv == [st |-> "new", day |-> 0, rec |-> NoRec, clip |-> <<>>, thumb |-> "none", gone |-> "no"]
IdleStream == [pc |-> "idle", run |-> 0, last |-> 0, base |-> 0, out |-> <<>>]
Use(f, max) == used[f] < max /\ used' = [used EXCEPT ![f] = @ + 1]
Least(a, b) == IF a < b THEN a ELSE b

Init ==
    /\ cfg = [on |-> "yes", rec |-> "yes"] /\ ring = [file |-> "no", run |-> 0, seg |-> 0] /\ runs = 0
    /\ demand = "no" /\ today = 0 /\ ev = [e \in Events |-> NewEv]
    /\ stream = [s \in Streams |-> IdleStream] /\ snap = "idle" /\ files = {} /\ used = [changes |-> 0, asks |-> 0]

-----------------------------------------------------------------------------
(* The ring.                                                               *)

\* the segments parsePlaylist finds: oldest and newest
First == IF ring.seg > RingSize THEN ring.seg - RingSize + 1 ELSE 1

\* rebase of the segments a..b of the ring
rebase(base, a, b) == [i \in 1..(b + 1 - a) |-> [run |-> ring.run, at |-> a + i - 1 - base]]

\* wantRing; the tick (every 5 s) writes or removes the control file
wantRing == demand = "yes" \/ cfg.rec = "yes"
Tick ==
    /\ cfg.on = "yes" /\ ring' = [ring EXCEPT !.file = IF wantRing THEN "yes" ELSE "no"]
    /\ UNCHANGED <<cfg, runs, demand, today, ev, stream, snap, files, used>>

\* kameras.sh: starts ffmpeg, or starts it again, with an empty ring; ends it without a file
Start ==
    /\ ring.file = "yes" /\ runs < MaxRuns /\ runs' = runs + 1
    /\ ring' = [ring EXCEPT !.run = runs', !.seg = 0]
    /\ UNCHANGED <<cfg, demand, today, ev, stream, snap, files, used>>
Halt ==
    /\ ring.file = "no" /\ ring.run # 0 /\ ring' = [ring EXCEPT !.run = 0, !.seg = 0]
    /\ UNCHANGED <<cfg, runs, demand, today, ev, stream, snap, files, used>>
Segment ==
    /\ ring.run # 0 /\ ring.seg < MaxSegs /\ ring' = [ring EXCEPT !.seg = @ + 1]
    /\ UNCHANGED <<cfg, runs, demand, today, ev, stream, snap, files, used>>

-----------------------------------------------------------------------------
(* Events.                                                                 *)

\* _startEvent and _openClip: with a running ring the clip begins with what led up to
\* the event; the thumbnail is taken a little later
_openClip(e) ==
    LET a == IF ring.seg >= First + PreSegs THEN ring.seg - PreSegs ELSE First IN
    [ev[e] EXCEPT !.rec = [run |-> ring.run, base |-> a, last |-> ring.seg],
                  !.clip = rebase(a, a, ring.seg)]
_startEvent(e) ==
    LET d == IF ring.seg = 0 THEN ev[e] ELSE _openClip(e) IN
    /\ cfg.on = "yes" /\ cfg.rec = "yes" /\ ev[e].st = "new" /\ \A f \in Events : ev[f].st # "runs"
    /\ ev' = [ev EXCEPT ![e] = [d EXCEPT !.st = "runs", !.day = today, !.thumb = "due"]]
    /\ files' = IF d.rec = NoRec THEN files ELSE files \cup {<<e, "part">>}
    /\ UNCHANGED <<cam, stream, snap, used>>

\* recordStep while the event goes on: what the ring has that the clip has not
\* mutant: a restart of ffmpeg goes unnoticed
NeverRestarted(r) == FALSE
Restarted(r) == ring.seg = 0 \/ ring.run # r.run \/ ring.seg < r.last
recordStep(e) ==
    LET r == ev[e].rec
        a == IF r.last + 1 < First THEN First ELSE r.last + 1
        b == Least(ring.seg, a + MaxClip - Len(ev[e].clip) - 1)
    IN  /\ ev[e].st = "runs" /\ r # NoRec /\ ~Restarted(r) /\ Len(ev[e].clip) < MaxClip /\ a <= ring.seg
        /\ ev' = [ev EXCEPT ![e].rec.last = b, ![e].clip = @ \o rebase(r.base, a, b)]
        /\ UNCHANGED <<cam, stream, snap, files, used>>

\* _endEvent and _closeClip: over, restarted, too long, or not to be recorded any more
Closed(e) == IF <<e, "part">> \in files THEN (files \ {<<e, "part">>}) \cup {<<e, "mp4">>} ELSE files
_endEvent(e) ==
    /\ ev[e].st = "runs" /\ ev' = [ev EXCEPT ![e].st = "over", ![e].rec = NoRec]
    /\ files' = Closed(e) \cup {<<e, "json">>}
    /\ UNCHANGED <<cam, stream, snap, used>>

\* _thumb: the picture of the ring, else the camera is asked; a late one is written, too
Pictured(e) == files \cup {<<e, "jpg">>} \cup (IF ev[e].st = "over" THEN {<<e, "json">>} ELSE {})
_thumb(e) ==
    /\ \/ /\ ev[e].thumb = "due" /\ cfg.on = "yes" /\ ring.seg > 0
          /\ ev' = [ev EXCEPT ![e].thumb = "none"] /\ files' = Pictured(e)
       \/ /\ ev[e].thumb = "due" /\ cfg.on = "yes" /\ ring.seg = 0
          /\ ev' = [ev EXCEPT ![e].thumb = "asked"] /\ UNCHANGED files
       \/ /\ ev[e].thumb = "due" /\ cfg.on = "no"
          /\ ev' = [ev EXCEPT ![e].thumb = "none"] /\ UNCHANGED files
       \/ /\ ev[e].thumb = "asked"
          /\ ev' = [ev EXCEPT ![e].thumb = "none"] /\ files' \in {files, Pictured(e)}
    /\ UNCHANGED <<cam, stream, snap, used>>

\* deleteEvents: the files eventFile finds, each with the description
deleteEvents(e) ==
    LET found == files \cap {<<e, "mp4">>, <<e, "jpg">>} IN
    /\ found # {} /\ files' = files \ (found \cup {<<e, "json">>})
    /\ ev' = [ev EXCEPT ![e].gone = "yes"]
    /\ UNCHANGED <<cam, stream, snap, used>>

\* cleanup, within the tick: days before the retention, and .part files nobody writes
\* any more (a clip is shorter than their 10 minutes)
OldParts == {e \in Events : <<e, "part">> \in files /\ ev[e].st # "runs"}
Expired(e) == ev[e].day + Retention < today
cleanup ==
    /\ cfg.on = "yes"
    /\ files' = {f \in files : ~Expired(f[1]) /\ ~(f[2] = "part" /\ f[1] \in OldParts)}
    /\ UNCHANGED <<cam, ev, stream, snap, used>>

-----------------------------------------------------------------------------
(* The live stream and still pictures; each call renews the demand, and    *)
(* _writeRun follows at once.                                              *)

Demanded == demand' = "yes" /\ ring' = [ring EXCEPT !.file = "yes"]

\* live.mp4: live, then liveFile('init.mp4') up to 20 times
live(s) ==
    /\ cfg.on = "yes" /\ stream[s].pc = "idle" /\ Demanded /\ Use("asks", MaxAsks)
    /\ stream' = [stream EXCEPT ![s] = [IdleStream EXCEPT !.pc = "init"]]
    /\ UNCHANGED <<cfg, runs, today, ev, snap, files>>
\* liveFile has it: the stream begins with the last segment but one
liveFile(s) ==
    LET a == IF ring.seg > First THEN ring.seg - 1 ELSE First IN
    /\ cfg.on = "yes" /\ stream[s].pc = "init" /\ ring.seg > 0 /\ Demanded
    /\ stream' = [stream EXCEPT ![s].pc = "runs", ![s].run = ring.run, ![s].last = a - 1]
    /\ UNCHANGED <<cfg, runs, today, ev, snap, files, used>>
\* a turn of the stream: it ends with its run of ffmpeg, else it sends the new segments
StreamStep(s) ==
    LET q == stream[s]
        a == IF q.last + 1 < First THEN First ELSE q.last + 1
        b == IF q.base = 0 THEN a ELSE q.base
    IN  /\ cfg.on = "yes" /\ q.pc = "runs" /\ ring.seg > 0 /\ ring.run = q.run /\ a <= ring.seg
        /\ stream' = [stream EXCEPT ![s].base = b, ![s].last = ring.seg,
                                    ![s].out = @ \o rebase(b, a, ring.seg)]
        /\ Demanded /\ UNCHANGED <<cfg, runs, today, ev, snap, files, used>>
\* not ready in time, the run is over, the time is up, the client leaves, cameras are off
StreamEnds(s) ==
    /\ stream[s].pc # "idle" /\ stream' = [stream EXCEPT ![s] = IdleStream]
    /\ UNCHANGED <<cam, ev, snap, files, used>>

\* snapshot: a fresh picture at once; else the camera is asked, then the ring is waited for
snapshot ==
    /\ cfg.on = "yes" /\ snap = "idle" /\ ring.seg = 0 /\ snap' = "http" /\ Use("asks", MaxAsks)
    /\ UNCHANGED <<cam, ev, stream, files>>
SnapHttp ==
    /\ snap = "http"
    /\ \/ snap' = "idle" /\ UNCHANGED <<ring, demand>>
       \/ snap' = "wait" /\ Demanded
    /\ UNCHANGED <<cfg, runs, today, ev, stream, files, used>>
SnapEnds == snap = "wait" /\ snap' = "idle" /\ UNCHANGED <<cam, ev, stream, files, used>>

\* nobody has asked for 60 s; the callers above renew it more often
DemandEnds ==
    /\ demand = "yes" /\ snap # "wait" /\ \A s \in Streams : stream[s].pc = "idle"
    /\ demand' = "no" /\ UNCHANGED <<cfg, ring, runs, today, ev, stream, snap, files, used>>

-----------------------------------------------------------------------------
\* apply: switched off, the runtime objects go and with them an event under way
apply ==
    /\ Use("changes", MaxChanges)
    /\ \E n \in [on : {"yes", "no"}, rec : {"yes", "no"}] : n # cfg /\ cfg' = n
    /\ IF cfg'.on = "yes" THEN UNCHANGED <<ring, demand, ev>>
       ELSE /\ ring' = [ring EXCEPT !.file = "no"] /\ demand' = "no"
            /\ ev' = [e \in Events |->
                        IF ev[e].st = "runs" THEN [ev[e] EXCEPT !.st = "orphan"] ELSE ev[e]]
    /\ UNCHANGED <<runs, today, stream, snap, files>>
Midnight ==
    /\ today < MaxDays /\ today' = today + 1
    /\ UNCHANGED <<cfg, ring, runs, demand, ev, stream, snap, files, used>>

ServiceStep == Tick \/ cleanup \/ Start \/ Halt \/ Segment \/ DemandEnds
SnapStep == SnapHttp \/ SnapEnds
Next ==
    \/ ServiceStep \/ SnapStep \/ snapshot \/ apply \/ Midnight
    \/ \E e \in Events : _startEvent(e) \/ recordStep(e) \/ _endEvent(e) \/ _thumb(e) \/ deleteEvents(e)
    \/ \E s \in Streams : live(s) \/ liveFile(s) \/ StreamStep(s) \/ StreamEnds(s)

\* the tick goes on, cleanup with it; the watcher obeys the file; a stream has an end (600 s),
\* a demand too; a clip ends after 120 s
Fairness ==
    /\ WF_vars(Tick) /\ WF_vars(cleanup) /\ WF_vars(Halt) /\ WF_vars(DemandEnds) /\ WF_vars(SnapStep)
    /\ \A s \in Streams : WF_vars(StreamEnds(s))
    /\ \A e \in Events : WF_vars(_endEvent(e)) /\ WF_vars(_thumb(e))
Spec == Init /\ [][Next]_vars /\ Fairness

-----------------------------------------------------------------------------
TypeOK ==
    /\ ring.run \in 0..runs /\ ring.seg \in 0..MaxSegs /\ (ring.run = 0 => ring.seg = 0)
    /\ \A e \in Events : /\ ev[e].st \in {"new", "runs", "over", "orphan"} /\ Len(ev[e].clip) <= MaxClip
                         /\ ev[e].rec # NoRec => ev[e].clip # <<>>
    /\ files \subseteq Events \X {"part", "mp4", "jpg", "json"}

\* Clips and live streams play through: they begin at time 0, time only goes forward, and all of
\* it belongs to one run of ffmpeg, whose init.mp4 they begin with, although ffmpeg starts again
\* with the same names at any time (recordStep, _append, the loop of live.mp4, fmp4.js rebase).
Plays(c) ==
    /\ c # <<>> => c[1].at = 0
    /\ \A i \in 1..(Len(c) - 1) : c[i].run = c[i + 1].run /\ c[i].at < c[i + 1].at
PlaysThrough == (\A e \in Events : Plays(ev[e].clip)) /\ (\A s \in Streams : Plays(stream[s].out))

\* The clip of an event that is over is there until its day is over the retention or it is
\* deleted, and cleanup takes nothing from a clip that is still being written.
ClipsKept ==
    \A e \in Events : ev[e].clip # <<>> /\ ev[e].gone = "no" /\ ~Expired(e) =>
        /\ ev[e].st = "over" => <<e, "mp4">> \in files
        /\ ev[e].st = "runs" => <<e, "part">> \in files

\* In the end, while the cameras are on: the ring runs exactly when a picture or a recording is
\* wanted, old days are gone, and no .part is left of an event that the switching off orphaned.
RingFollows == (ring.file = "yes") = wantRing
OldGone == \A f \in files : ~Expired(f[1]) /\ ~(f[2] = "part" /\ ev[f[1]].st # "runs")
ClipsSettle == <>[](cfg.on = "yes" => RingFollows /\ OldGone)
=============================================================================
