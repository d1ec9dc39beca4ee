----------------------------- MODULE Heartbeat -----------------------------
(***************************************************************************)
(* The heartbeat (heartbeat.js), the end of the process with its notice to *)
(* the server (index.js shutdown, shutdownNotice.js), the update that the  *)
(* server asks for (api/routes/selfUpdate.js) and the host's updater that  *)
(* takes its flag (deploy/update.sh).                                      *)
(*                                                                         *)
(* A tick collects the health, which may hang, and posts it; the posts of  *)
(* two ticks and the notice are not ordered.  Of the health only its being *)
(* there matters.                                                          *)
(***************************************************************************)
EXTENDS Naturals

CONSTANTS
    Ticks,       \* ticks at a time
    Ids,         \* request_ids of updates, positive numbers
    MaxUpdates,  \* bound: updates asked for
    MaxFaults    \* bound: self checks that hang, lost posts, bad images, ends by someone else

VARIABLES
    life,    \* up, notice (the notice is awaited), closing, down
    tick,    \* per tick idle, health or post
    wedged,  \* the self check hangs: yes or no
    notice,  \* the notice on its way: none or its reason
    asked,   \* _lastRequestAt lies within UPDATE_WINDOW_MS: yes or no
    flag,    \* pending-update: its request_id, or 0
    updater, \* update.sh: [at: idle, pull, stop, health, rollback, write; id, ok]
    last,    \* last-pull: [id, ok, fresh: younger than COOLDOWN_MS]
    view,    \* what the server shows: stale, online, update or restart
    used

hostVars == <<flag, updater, last>>
vars == <<life, tick, wedged, notice, asked, hostVars, view, used>>

Use(f, max) == used[f] < max /\ used' = [used EXCEPT ![f] = @ + 1]

Init ==
    /\ life = "up" /\ tick = [t \in Ticks |-> "idle"] /\ wedged = "no" /\ notice = "none"
    /\ asked = "no" /\ flag = 0 /\ updater = [at |-> "idle", id |-> 0, ok |-> "no"]
    /\ last = [id |-> 0, ok |-> "no", fresh |-> "no"]
    /\ view = "stale" /\ used = [updates |-> 0, faults |-> 0]

-----------------------------------------------------------------------------
(* heartbeat.js                                                            *)

\* startHeartbeatTicker: the interval, whether or not an earlier tick is still at it
startHeartbeatTicker(t) ==
    /\ life = "up" /\ tick[t] = "idle" /\ tick' = [tick EXCEPT ![t] = "health"]
    /\ UNCHANGED <<life, wedged, notice, asked, hostVars, view, used>>

\* _collectHealth: the health, or the minimum when it threw or did not come within 8 s
\* mutant: it is waited for
Awaited == wedged = "no"
InTime == wedged \in {"yes", "no"}
_collectHealth(t) ==
    /\ tick[t] = "health" /\ InTime /\ tick' = [tick EXCEPT ![t] = "post"]
    /\ UNCHANGED <<life, wedged, notice, asked, hostVars, view, used>>

\* sendHeartbeat: the server has it, or it is lost
sendHeartbeat(t) ==
    /\ tick[t] = "post" /\ tick' = [tick EXCEPT ![t] = "idle"]
    /\ \/ view' = "online" /\ UNCHANGED used
       \/ Use("faults", MaxFaults) /\ UNCHANGED view
    /\ UNCHANGED <<life, wedged, notice, asked, hostVars>>

\* the self check begins to hang
Wedge ==
    /\ wedged = "no" /\ Use("faults", MaxFaults) /\ wedged' = "yes"
    /\ UNCHANGED <<life, tick, notice, asked, hostVars, view>>

-----------------------------------------------------------------------------
(* selfUpdate.js                                                           *)

\* what was pulled already, or any update right after a good one, is skipped
Skipped(i) == last.id = i \/ (last.ok = "yes" /\ last.fresh = "yes")
selfUpdate(i) ==
    /\ life = "up" /\ Use("updates", MaxUpdates) /\ ~Skipped(i)
    /\ flag' = i /\ asked' = "yes"
    /\ UNCHANGED <<life, tick, wedged, notice, updater, last, view>>

\* 30 minutes after the request; an update is done by then
WindowEnds ==
    /\ asked = "yes" /\ flag = 0 /\ updater.at = "idle" /\ asked' = "no"
    /\ UNCHANGED <<life, tick, wedged, notice, hostVars, view, used>>
\* COOLDOWN_MS after the last pull
CooldownEnds ==
    /\ last.fresh = "yes" /\ last' = [last EXCEPT !.fresh = "no"]
    /\ UNCHANGED <<life, tick, wedged, notice, asked, flag, updater, view, used>>

-----------------------------------------------------------------------------
(* index.js shutdown and shutdownNotice.js                                 *)

shutdownReason == IF asked = "yes" \/ flag # 0 THEN "update" ELSE "restart"

\* SIGTERM: no further tick, then the notice
shutdown == life = "up" /\ life' = "notice" /\ notice' = shutdownReason
Ended ==
    /\ Use("faults", MaxFaults) /\ shutdown
    /\ UNCHANGED <<tick, wedged, asked, hostVars, view>>

\* sendGoingDown: the server has it, or it is given up after 2 s; then the rest is stopped
sendGoingDown ==
    /\ life = "notice" /\ life' = "closing" /\ notice' = "none"
    /\ \/ view' = notice /\ UNCHANGED used
       \/ Use("faults", MaxFaults) /\ UNCHANGED view
    /\ UNCHANGED <<tick, wedged, asked, hostVars>>
\* process.exit; a post may still be on its way
Exit ==
    /\ life = "closing" /\ life' = "down"
    /\ tick' = [t \in Ticks |-> IF tick[t] = "post" THEN "post" ELSE "idle"]
    /\ UNCHANGED <<wedged, notice, asked, hostVars, view, used>>
\* docker starts the container: the updater's `up` returns, the memory is empty
Boot ==
    /\ life = "down" /\ life' = "up" /\ asked' = "no"
    /\ updater' = IF updater.at = "stop" THEN [updater EXCEPT !.at = "health"]
                  ELSE IF updater.at = "rollback" THEN [updater EXCEPT !.at = "write"] ELSE updater
    /\ UNCHANGED <<tick, wedged, notice, flag, last, view, used>>
\* the server waits too long for a heartbeat
Stale ==
    /\ life = "down" /\ view = "online" /\ view' = "stale"
    /\ UNCHANGED <<life, tick, wedged, notice, asked, hostVars, used>>

-----------------------------------------------------------------------------
(* deploy/update.sh, alone under its lock                                  *)

\* the flag is consumed
Take ==
    /\ updater.at = "idle" /\ flag # 0
    /\ updater' = [at |-> "pull", id |-> flag, ok |-> "no"] /\ flag' = 0
    /\ UNCHANGED <<life, tick, wedged, notice, asked, last, view, used>>
\* compose up --force-recreate, also for a container that is stopping
Recreate(from, to) ==
    /\ updater.at = from /\ updater' = [updater EXCEPT !.at = to]
    /\ shutdown \/ (life # "up" /\ UNCHANGED <<life, notice>>)
    /\ UNCHANGED <<tick, wedged, asked, flag, last, view, used>>
\* the health gate: a bad image is rolled back
HealthGate ==
    /\ updater.at = "health"
    /\ \/ updater' = [updater EXCEPT !.at = "write", !.ok = "yes"] /\ UNCHANGED used
       \/ Use("faults", MaxFaults) /\ updater' = [updater EXCEPT !.at = "back"]
    /\ UNCHANGED <<life, tick, wedged, notice, asked, flag, last, view>>
\* the result
WriteLast ==
    /\ updater.at = "write" /\ last' = [id |-> updater.id, ok |-> updater.ok, fresh |-> "yes"]
    /\ updater' = [at |-> "idle", id |-> 0, ok |-> "no"]
    /\ UNCHANGED <<life, tick, wedged, notice, asked, flag, view, used>>
UpdateStep ==
    Take \/ Recreate("pull", "stop") \/ HealthGate \/ Recreate("back", "rollback") \/ WriteLast

-----------------------------------------------------------------------------
Beat(t) == startHeartbeatTicker(t) \/ _collectHealth(t) \/ sendHeartbeat(t)
Goes == sendGoingDown \/ Exit \/ Boot
Next ==
    \/ Wedge \/ WindowEnds \/ CooldownEnds \/ Ended \/ Goes \/ Stale \/ UpdateStep
    \/ \E i \in Ids : selfUpdate(i)
    \/ \E t \in Ticks : Beat(t)

\* timers fire and requests end; docker starts the container again; the updater works on
Fairness == WF_vars(UpdateStep) /\ WF_vars(Goes) /\ \A t \in Ticks : WF_vars(Beat(t))
Spec == Init /\ [][Next]_vars /\ Fairness

-----------------------------------------------------------------------------
TypeOK ==
    /\ life \in {"up", "notice", "closing", "down"} /\ view \in {"stale", "online", "update", "restart"}
    /\ tick \in [Ticks -> {"idle", "health", "post"}] /\ flag \in Ids \cup {0}
    /\ updater.at \in {"idle", "pull", "stop", "health", "back", "rollback", "write"}
    /\ (notice # "none") = (life = "notice")

\* In the end no update is open, the gateway is up and the server shows it online: with a self
\* check that hangs for good, lost posts and notices, restarts, requests sent twice and images
\* that had to be rolled back (heartbeat.js _collectHealth, shutdownNotice.js, update.sh).
Online == flag = 0 /\ updater.at = "idle" /\ life = "up" /\ view = "online"
HeartbeatSettles == <>[]Online

\* Not so: an update under way is announced as one.  shutdownNotice.js asks the memory of the
\* process and the flag; after a rollback, or another restart in between, both are gone.
ReasonIsTrue == life = "notice" /\ updater.at \in {"stop", "rollback"} => notice = "update"
=============================================================================
