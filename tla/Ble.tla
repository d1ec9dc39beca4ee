-------------------------------- MODULE Ble --------------------------------
(***************************************************************************)
(* The Bluetooth scanner (radio/ble.js BleScanner) under the detection of  *)
(* RadioService (radio/radio.js refresh): the helper process, its restart  *)
(* timer, its lines and the report to the server.                          *)
(*                                                                         *)
(* What a helper has written stays readable after the scanner told it to   *)
(* end, and a line is not checked against the helper it came from.  The    *)
(* values of the sensors are one version number.                           *)
(***************************************************************************)
EXTENDS Naturals

CONSTANTS
    Adapters,    \* names of Bluetooth adapters
    MaxHelpers,  \* bound: helpers ever spawned
    MaxChanges,  \* bound: changes of the settings and of the hardware
    MaxFaults,   \* bound: helpers that fail and posts that fail
    MaxAdverts   \* bound: changed sensor values

VARIABLES
    cfg,     \* what refresh sees: [ble: yes or no, adapter: a name or none]
    scanner, \* this: [enabled, adapter, child: a helper or 0, state, timer: restartTimer, reports]
    helper,  \* per helper [life: new, runs, ending (told to end), gone; line: what its pipe holds]
    sensors, \* this.sensors: [ver, dirty]
    post,    \* the report on its way: its version, or None
    server,  \* the version the server has
    used

vars == <<cfg, scanner, helper, sensors, post, server, used>>

Helpers == 1..MaxHelpers
None == MaxAdverts + 1
Use(f, max) == used[f] < max /\ used' = [used EXCEPT ![f] = @ + 1]

Init ==
    /\ cfg = [ble |-> "no", adapter |-> "none"]
    /\ scanner = [enabled |-> "no", adapter |-> "none", child |-> 0, state |-> "off",
                  timer |-> "no", reports |-> "no"]
    /\ helper = [h \in Helpers |-> [life |-> "new", line |-> "none"]]
    /\ sensors = [ver |-> 0, dirty |-> "no"] /\ post = None /\ server = 0
    /\ used = [helpers |-> 0, changes |-> 0, faults |-> 0]

-----------------------------------------------------------------------------
(* The helper process.                                                     *)

\* kill('SIGTERM') of the child, if there is one
Killed(hs, s) == [h \in Helpers |->
                    IF h = s.child /\ hs[h].life = "runs" THEN [hs[h] EXCEPT !.life = "ending"] ELSE hs[h]]

\* _stop: the timer is cleared, the child is told to end and forgotten
_stop(s) == [s EXCEPT !.timer = "no", !.child = 0]

\* _failed
_failed(s) ==
    [s EXCEPT !.state = "error", !.child = 0, !.timer = IF s.enabled = "yes" THEN "yes" ELSE @]

\* _start, from apply and from the timer: s and hs are the state it begins with
_start(s, hs) ==
    LET t == [s EXCEPT !.timer = "no"] IN
    IF s.enabled = "no" \/ s.adapter = "none"
    THEN scanner' = t /\ helper' = hs /\ UNCHANGED used
    ELSE /\ Use("helpers", MaxHelpers)
         /\ scanner' = [t EXCEPT !.state = "starting", !.child = used'.helpers]
         /\ helper' = [hs EXCEPT ![used'.helpers].life = "runs"]

\* apply, called by refresh with what the settings and the detection say
apply ==
    LET was  == [scanner EXCEPT !.enabled = cfg.ble, !.adapter = cfg.adapter]
        off  == [_stop(was) EXCEPT !.state = "off", !.reports = "no"]
        bare == [_stop(was) EXCEPT !.state = "no_adapter"]
        s    == IF cfg.adapter # scanner.adapter THEN _stop(was) ELSE was
        hs   == IF cfg.adapter # scanner.adapter THEN Killed(helper, scanner) ELSE helper
    IN  /\ \/ cfg.ble = "no" /\ scanner' = off /\ helper' = Killed(helper, scanner) /\ UNCHANGED used
           \/ /\ cfg.ble = "yes" /\ cfg.adapter = "none"
              /\ scanner' = bare /\ helper' = Killed(helper, scanner) /\ UNCHANGED used
           \/ /\ cfg.ble = "yes" /\ cfg.adapter # "none"
              /\ IF s.child = 0 /\ s.timer = "no"
                 THEN _start([s EXCEPT !.reports = "yes"], hs)
                 ELSE scanner' = [s EXCEPT !.reports = "yes"] /\ helper' = hs /\ UNCHANGED used
        /\ UNCHANGED <<cfg, sensors, post, server>>

\* the restart timer fires
RestartTimer == scanner.timer = "yes" /\ _start(scanner, helper) /\ UNCHANGED <<cfg, sensors, post, server>>

\* the exit handler: a helper that is not the child any more is ignored
OnExit(h) ==
    IF scanner.child # h THEN scanner
    ELSE IF scanner.enabled = "no" THEN [scanner EXCEPT !.child = 0]
    ELSE IF scanner.state = "error" THEN [scanner EXCEPT !.child = 0]
    ELSE _failed(scanner)

\* a helper ends: the one told to, or a running one by a fault
Exit(h) ==
    /\ \/ helper[h].life = "ending" /\ UNCHANGED used
       \/ helper[h].life = "runs" /\ Use("faults", MaxFaults)
    /\ helper' = [helper EXCEPT ![h].life = "gone"]
    /\ scanner' = OnExit(h)
    /\ UNCHANGED <<cfg, sensors, post, server>>

\* a running helper writes: it is ready, it cannot scan (a fault), it heard a sensor
Write(h) ==
    /\ helper[h].life = "runs" /\ helper[h].line = "none"
    /\ \/ scanner.state # "running" /\ helper' = [helper EXCEPT ![h].line = "ready"] /\ UNCHANGED used
       \/ Use("faults", MaxFaults) /\ helper' = [helper EXCEPT ![h].line = "error"]
       \/ /\ sensors.ver < MaxAdverts /\ helper' = [helper EXCEPT ![h].line = "advert"]
          /\ UNCHANGED used
    /\ UNCHANGED <<cfg, scanner, sensors, post, server>>

\* advert: a new or changed sensor
advert == sensors' = [ver |-> sensors.ver + 1, dirty |-> "yes"]

\* _line, whichever helper wrote it
_line(h) ==
    LET l == helper[h].line
        read == [helper EXCEPT ![h].line = "none"]
    IN  /\ \/ l = "ready" /\ scanner' = [scanner EXCEPT !.state = "running"] /\ helper' = read
              /\ UNCHANGED sensors
           \/ l = "error" /\ scanner' = _failed(scanner) /\ helper' = Killed(read, scanner)
              /\ UNCHANGED sensors
           \/ /\ l = "advert" /\ sensors.ver < MaxAdverts /\ advert
              /\ helper' = read /\ UNCHANGED scanner
           \/ /\ l = "advert" /\ sensors.ver = MaxAdverts /\ helper' = read
              /\ UNCHANGED <<scanner, sensors>>
        /\ UNCHANGED <<cfg, post, server, used>>

-----------------------------------------------------------------------------
(* The report.                                                             *)

\* report: due 30 s after the last one when something changed, after 5 minutes anyway
Due == scanner.reports = "yes" /\ scanner.enabled = "yes"
report ==
    /\ Due /\ post = None
    /\ sensors' = [sensors EXCEPT !.dirty = "no"] /\ post' = sensors.ver
    /\ UNCHANGED <<cfg, scanner, helper, server, used>>

\* the post comes back; a failed one is not repeated
Posted ==
    /\ post # None /\ post' = None
    /\ \/ server' = post /\ UNCHANGED used
       \/ Use("faults", MaxFaults) /\ UNCHANGED server
    /\ UNCHANGED <<cfg, scanner, helper, sensors>>

-----------------------------------------------------------------------------
\* the settings or the hardware change; refresh sees it at its next run
Change ==
    /\ Use("changes", MaxChanges)
    /\ \E b \in {"yes", "no"}, a \in Adapters \cup {"none"} :
        cfg # [ble |-> b, adapter |-> a] /\ cfg' = [ble |-> b, adapter |-> a]
    /\ UNCHANGED <<scanner, helper, sensors, post, server>>

Next ==
    \/ Change \/ apply \/ RestartTimer \/ report \/ Posted
    \/ \E h \in Helpers : Exit(h) \/ Write(h) \/ _line(h)

\* timers fire, helpers told to end do, a running helper says it is ready, lines
\* are read and posts return: none of these waits for anything else
Ready(h) == helper[h].life = "runs" /\ scanner.state # "running" /\ Write(h) /\ UNCHANGED used
HelperStep(h) == _line(h) \/ Ready(h) \/ (helper[h].life = "ending" /\ Exit(h))
Fairness ==
    /\ WF_vars(apply) /\ WF_vars(RestartTimer) /\ WF_vars(report) /\ WF_vars(Posted)
    /\ \A h \in Helpers : WF_vars(HelperStep(h))

Spec == Init /\ [][Next]_vars /\ Fairness

-----------------------------------------------------------------------------
TypeOK ==
    /\ scanner.child \in 0..used.helpers
    /\ scanner.state \in {"off", "no_adapter", "starting", "running", "error"}
    /\ \A h \in Helpers : /\ helper[h].life \in {"new", "runs", "ending", "gone"}
                          /\ helper[h].line \in {"none", "ready", "error", "advert"}
                          /\ (helper[h].life = "new") = (h > used.helpers)
    /\ sensors.ver \in 0..MaxAdverts /\ post \in 0..None /\ server \in 0..MaxAdverts

\* A helper runs only as the scanner's child, and while a restart is due there is
\* no child: whatever exits, late lines and changes of adapter come in between, two
\* helpers never hold the adapter (ble.js _start, the exit handler, _failed).
OneHelper ==
    /\ \A h \in Helpers : helper[h].life = "runs" => h = scanner.child
    /\ scanner.timer = "yes" => scanner.child = 0

\* In the end the scanner does what its settings say: it scans when it is on and
\* there is an adapter, and is off or without one otherwise, although the lines of
\* an earlier helper were believed on the way (ble.js apply, _line).
Scanning ==
    \/ cfg.ble = "no" /\ scanner.state = "off" /\ scanner.child = 0
    \/ cfg.ble = "yes" /\ cfg.adapter = "none" /\ scanner.state = "no_adapter"
    \/ cfg.ble = "yes" /\ cfg.adapter # "none" /\ scanner.state = "running" /\ scanner.child # 0

\* The server learns the last values also when the post of a change fails (ble.js report).
Reported == scanner.enabled = "yes" /\ scanner.adapter # "none" => server = sensors.ver

BleSettles == <>[](Scanning /\ Reported)
=============================================================================
