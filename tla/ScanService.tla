---------------------------- MODULE ScanService ----------------------------
(***************************************************************************)
(* What the LAN scan promises the server: one scan at a time; the terminal *)
(* batch of a scan is handed over while that scan holds the slot, never    *)
(* after it (an orphaned engine stays silent), and the slot is not freed   *)
(* before a terminal batch was handed over.  ScanManager implements it.    *)
(***************************************************************************)
EXTENDS Naturals

CONSTANT Requests

VARIABLES
    holder,   \* the requests that hold the scan slot (at most one)
    reports   \* terminal batches handed to the network, per request

svars == <<holder, reports>>

SInit == holder = {} /\ reports = [r \in Requests |-> 0]

Accept(r) ==
    /\ holder = {} /\ reports[r] = 0
    /\ holder' = {r} /\ UNCHANGED reports

Report(r) ==
    /\ r \in holder
    /\ reports' = [reports EXCEPT ![r] = @ + 1]
    /\ UNCHANGED holder

Release(r) ==
    /\ r \in holder /\ reports[r] > 0
    /\ holder' = {} /\ UNCHANGED reports

\* the last terminal batch and the release in one step
ReportAndRelease(r) ==
    /\ r \in holder
    /\ reports' = [reports EXCEPT ![r] = @ + 1]
    /\ holder' = {}

SNext == \E r \in Requests :
            Accept(r) \/ Report(r) \/ Release(r) \/ ReportAndRelease(r)

SSpec == SInit /\ [][SNext]_svars
=============================================================================
