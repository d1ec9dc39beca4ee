-------------------------------- MODULE Ups --------------------------------
(***************************************************************************)
(* The UPS monitor (ups/nut.js): the loop that asks a NUT server, the      *)
(* session with its limits, and the settings that change meanwhile.        *)
(*                                                                         *)
(* The server answers two requests, LIST UPS and LIST VAR, with lines that *)
(* may never end; every line counts against the limits of the session      *)
(* (MAX_LINES, MAX_BYTES are one limit here) and puts off the time limit.  *)
(* stop and start of the loop during a query leave a second query running. *)
(***************************************************************************)
EXTENDS Naturals

CONSTANTS
    Hosts,       \* NUT servers
    Public,      \* those whose address is not private
    Runs,        \* queries at a time
    MaxLines,    \* MAX_LINES
    MaxChanges,  \* bound: changes of the settings
    MaxFaults    \* bound: servers that go or misbehave

VARIABLES
    cfg,     \* [on, host]
    server,  \* per host good, silent, endless, err or away
    timer,   \* of the loop: set or none
    run,     \* per query [pc: idle, lookup, connect, ups, var; host; lines]
    result,  \* this.result: null, [host, what]
    status,  \* FeatureStatus: running, and the last outcome ok, fail or none
    used

vars == <<cfg, server, timer, run, result, status, used>>

Idle == [pc |-> "idle", host |-> "none", lines |-> 0]
Null == [host |-> "none", what |-> "null"]
Use(f, max) == used[f] < max /\ used' = [used EXCEPT ![f] = @ + 1]

Init ==
    /\ cfg = [on |-> "no", host |-> "none"] /\ server = [h \in Hosts |-> "good"] /\ timer = "none"
    /\ run = [r \in Runs |-> Idle] /\ result = Null /\ status = [running |-> "no", last |-> "none"]
    /\ used = [changes |-> 0, faults |-> 0]

-----------------------------------------------------------------------------
\* FeatureStatus: setEnabled, and ok or fail
setEnabled(on) == IF on = "no" THEN [status EXCEPT !.running = "no"] ELSE status
Done(what) == [running |-> "no", last |-> IF what = "data" THEN "ok" ELSE "fail"]

\* apply: another host or another switch; the loop starts anew with a new host
apply ==
    /\ Use("changes", MaxChanges)
    /\ \E n \in [on : {"yes"}, host : Hosts] \cup {[cfg EXCEPT !.on = "no"]} :
        /\ n # cfg /\ cfg' = n
        /\ timer' = IF n.on = "no" THEN "none" ELSE "set"
        /\ result' = Null /\ status' = setEnabled(n.on)
    /\ UNCHANGED <<server, run>>

\* the timer of the loop: tick begins the query of the host of now
tick(r) ==
    /\ timer = "set" /\ run[r] = Idle /\ timer' = "none"
    /\ run' = [run EXCEPT ![r] = [Idle EXCEPT !.pc = "lookup", !.host = cfg.host]]
    /\ status' = [status EXCEPT !.running = "yes"]
    /\ UNCHANGED <<cfg, server, result, used>>

\* the query ends: its result is kept, whichever host was asked; the loop goes on
Ends(r, what) ==
    /\ run' = [run EXCEPT ![r] = Idle]
    /\ result' = [host |-> run[r].host, what |-> what]
    /\ status' = Done(what)
    /\ timer' = IF cfg.on = "yes" THEN "set" ELSE timer

Go(r, pc) == run' = [run EXCEPT ![r].pc = pc, ![r].lines = 0] /\ UNCHANGED <<timer, result, status>>

\* resolvePrivate
resolvePrivate(r) ==
    /\ run[r].pc = "lookup"
    /\ IF run[r].host \in Public THEN Ends(r, "error") ELSE Go(r, "connect")
    /\ UNCHANGED <<cfg, server, used>>

\* openSession: connected, refused or too late
openSession(r) ==
    /\ run[r].pc = "connect"
    /\ IF server[run[r].host] = "away" THEN Ends(r, "error") ELSE Go(r, "ups")
    /\ UNCHANGED <<cfg, server, used>>

\* a line for the request under way: it completes the list (parseList, then the next request
\* or the values), is an error, or is one more; too many end the session
\* mutant: without a limit
NoLimit(n) == FALSE
TooMany(n) == n > MaxLines
Line(r) ==
    LET q == run[r] IN
    /\ q.pc \in {"ups", "var"}
    /\ \/ server[q.host] = "good" /\ q.pc = "ups" /\ Go(r, "var")
       \/ server[q.host] = "good" /\ q.pc = "var" /\ Ends(r, "data")
       \/ server[q.host] = "err" /\ Ends(r, "error")
       \/ server[q.host] = "endless" /\ TooMany(q.lines + 1) /\ Ends(r, "error")
       \/ /\ server[q.host] = "endless" /\ ~TooMany(q.lines + 1)
          /\ run' = [run EXCEPT ![r].lines = IF q.lines <= MaxLines THEN @ + 1 ELSE @]
          /\ UNCHANGED <<timer, result, status>>
    /\ UNCHANGED <<cfg, server, used>>

\* fail: nothing came for 5 s, or the connection broke
Fails(r) ==
    /\ run[r].pc \in {"ups", "var"} /\ server[run[r].host] \in {"silent", "away"}
    /\ Ends(r, "error") /\ UNCHANGED <<cfg, server, used>>

\* telemetry
telemetry == IF cfg.on = "yes" THEN result ELSE Null

Change ==
    /\ Use("faults", MaxFaults)
    /\ \E h \in Hosts, s \in {"good", "silent", "endless", "err", "away"} :
        server[h] # s /\ server' = [server EXCEPT ![h] = s]
    /\ UNCHANGED <<cfg, timer, run, result, status>>

Step(r) == tick(r) \/ resolvePrivate(r) \/ openSession(r) \/ Line(r) \/ Fails(r)
Next == apply \/ Change \/ \E r \in Runs : Step(r)

\* timers fire, and each wait of a query ends by an answer or its time limit
Fairness == \A r \in Runs : WF_vars(Step(r))
Spec == Init /\ [][Next]_vars /\ Fairness

-----------------------------------------------------------------------------
TypeOK ==
    /\ timer \in {"set", "none"}
    /\ \A r \in Runs : /\ run[r].pc \in {"idle", "lookup", "connect", "ups", "var"}
                       /\ run[r].lines \in 0..MaxLines

\* Again and again the telemetry is what the server of the settings says: a query that never
\* ends, the late answer of an earlier host, or a second query left running by a change of the
\* settings keeps it wrong at most until the next query (tick, openSession, status.js loop).
Truth == telemetry = IF cfg.on = "no" THEN Null
                     ELSE [host |-> cfg.host, what |-> IF server[cfg.host] = "good" /\ cfg.host \notin Public
                                                       THEN "data" ELSE "error"]
UpsTrue == <>[]Truth
=============================================================================
