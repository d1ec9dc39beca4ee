---------------------------- MODULE ScanManager ----------------------------
(***************************************************************************)
(* LAN discovery (discovery/scanManager.js, scanEngine.js,                 *)
(* discoveryClient.js, api/routes/lanScan.js): POST /api/lan-scan starts   *)
(* runScan, a timer races it, and the terminal batch goes to the server.   *)
(* runScan is not cancelled by the timer: it runs on as an orphan and      *)
(* still calls onBatch when it ends.  Every request has its own id.        *)
(***************************************************************************)
EXTENDS Naturals, FiniteSets

CONSTANTS Requests, None

ASSUME RequestAssumption == None \notin Requests

VARIABLES
    active,   \* ScanManager.active: the request, or None
    scan,     \* of start(): idle, racing (Promise.race), failing (awaits send), ended
    engine,   \* of runScan: idle, running, done
    posts,    \* sendBatch calls in flight: [req, by] records
    reports,  \* terminal batches handed to sendBatch, per request
    dones     \* terminal batches the server has received, per request

vars == <<active, scan, engine, posts, reports, dones>>

Init ==
    /\ active = None
    /\ scan = [r \in Requests |-> "idle"]
    /\ engine = [r \in Requests |-> "idle"]
    /\ posts = {}
    /\ reports = [r \in Requests |-> 0] /\ dones = [r \in Requests |-> 0]

\* mutant: the route handler does not ask whether a scan is running
canStartAlways == TRUE

canStart == active = None

\* start(), after the handler's checks; the subnets are abstracted away
start(r) ==
    /\ canStart /\ scan[r] = "idle"
    /\ active' = r
    /\ scan' = [scan EXCEPT ![r] = "racing"]
    /\ engine' = [engine EXCEPT ![r] = "running"]
    /\ UNCHANGED <<posts, reports, dones>>

\* mutant: the per-scan guard is missing
sendUnguarded(r, by) ==
    /\ reports' = [reports EXCEPT ![r] = @ + 1]
    /\ posts' = posts \cup {[req |-> r, by |-> by]}

\* send([...], true), from onBatch or from the catch block (which awaits it):
\* ignored unless the scan is still the active one
send(r, by) ==
    IF active = r
    THEN /\ reports' = [reports EXCEPT ![r] = @ + 1]
         /\ posts' = posts \cup {[req |-> r, by |-> by]}
    ELSE UNCHANGED <<reports, posts>>

\* mutant: the slot is left undefined instead of null
finishRaceUndefined(r) ==
    IF scan[r] = "racing"
    THEN active' = "undefined" /\ scan' = [scan EXCEPT ![r] = "ended"]
    ELSE UNCHANGED <<active, scan>>

\* the finally block, run when the race was still open
finishRace(r) ==
    IF scan[r] = "racing"
    THEN /\ active' = None
         /\ scan' = [scan EXCEPT ![r] = "ended"]
    ELSE UNCHANGED <<active, scan>>

\* runScan reaches its end: onBatch(devices, true), not awaited, then the race
\* is won unless the timer has already ended it
runScanEnds(r) ==
    /\ engine[r] = "running"
    /\ engine' = [engine EXCEPT ![r] = "done"]
    /\ send(r, "engine")
    /\ finishRace(r)
    /\ UNCHANGED dones

\* mutant: a failed scan ends without a terminal batch
raceFailsSilently(r) ==
    /\ scan' = [scan EXCEPT ![r] = "ended"]
    /\ active' = None
    /\ UNCHANGED <<posts, reports>>

\* the catch block: await send([], true)
raceFails(r) ==
    /\ scan' = [scan EXCEPT ![r] = "failing"]
    /\ send(r, "catch")
    /\ UNCHANGED active

\* runScan rejects; a rejection after the race is lost is swallowed by the race
runScanThrows(r) ==
    /\ engine[r] = "running"
    /\ engine' = [engine EXCEPT ![r] = "done"]
    /\ \/ scan[r] = "racing" /\ raceFails(r)
       \/ scan[r] # "racing" /\ UNCHANGED <<active, scan, posts, reports>>
    /\ UNCHANGED dones

\* the timer of discoveryTimeoutMs + 15 s rejects the race
scanTimeout(r) ==
    /\ scan[r] = "racing"
    /\ raceFails(r)
    /\ UNCHANGED <<engine, dones>>

\* sendBatch settles: the batch reached the server, or it did not (the error
\* is logged and swallowed); the catch block of start() goes on either way
postSettles(p) ==
    /\ p \in posts /\ posts' = posts \ {p}
    /\ \/ dones' = [dones EXCEPT ![p.req] = @ + 1]
       \/ UNCHANGED dones
    /\ IF p.by = "catch"
       THEN /\ scan' = [scan EXCEPT ![p.req] = "ended"]
            /\ active' = None
       ELSE UNCHANGED <<scan, active>>
    /\ UNCHANGED <<engine, reports>>

Next ==
    \/ \E r \in Requests :
          start(r) \/ runScanEnds(r) \/ runScanThrows(r) \/ scanTimeout(r)
    \/ \E p \in posts : postSettles(p)

Spec == Init /\ [][Next]_vars

(* The timer fires and every post ends (10 s timeout).  The engine need    *)
(* never end: a source may hang.                                           *)
Fairness ==
    /\ \A r \in Requests : WF_vars(scanTimeout(r))
    /\ WF_vars(\E p \in posts : postSettles(p))

FairSpec == Spec /\ Fairness

-----------------------------------------------------------------------------
(* Type invariant of the scan manager, the engines and the posts. *)
TypeOK ==
    /\ active \in Requests \cup {None}
    /\ scan \in [Requests -> {"idle", "racing", "failing", "ended"}]
    /\ engine \in [Requests -> {"idle", "running", "done"}]
    /\ posts \subseteq [req : Requests, by : {"engine", "catch"}]
    /\ reports \in [Requests -> Nat] /\ dones \in [Requests -> Nat]

(* A scan is in progress exactly while it is the active one, so a second   *)
(* one is refused until the first has ended on every path, and a late      *)
(* engine cannot free the slot of a newer scan (scanManager.js start).     *)
SlotIsHeld ==
    \A r \in Requests : scan[r] \in {"racing", "failing"} <=> active = r

(* No scan ends without its terminal batch having been handed to the       *)
(* client, whichever of engine, timer and error came first.                *)
EndedIsReported ==
    \A r \in Requests : scan[r] = "ended" => reports[r] > 0

(* Every accepted scan ends and frees the slot, even if its engine hangs.  *)
ScanEnds == \A r \in Requests : (active = r) ~> (active # r)

(* The scan manager implements ScanService: in particular no terminal      *)
(* batch is handed over for a scan that is no longer the active one.       *)
Service == INSTANCE ScanService WITH
    holder <- IF active = None THEN {} ELSE {active}, reports <- reports
ImplementsService == Service!SSpec

=============================================================================
