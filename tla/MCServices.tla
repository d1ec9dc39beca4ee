----------------------------- MODULE MCServices -----------------------------
(***************************************************************************)
(* Services that work side by side in the gateway: discovery scans,        *)
(* presence, the network watch and the events of edge plugins.  They share *)
(* no state, so a behaviour lets one of them run (focus) while the others  *)
(* rest in their initial state.                                            *)
(***************************************************************************)
EXTENDS Services

VARIABLE focus

pvars == <<home, tracked, online, queue, ptick, view, dropped, presUsed>>
wvars == <<lan, watch, devices, register, sent, forceFull, run, seenBy, watchUsed>>
evvars == <<clock, lastSeq, items, lost, made, conn, stateSeen, up, down, got, evUsed>>
svcvars == <<focus, vars, pvars, wvars, evvars>>

SvcInit ==
    /\ focus \in {"scan", "presence", "netwatch", "events"}
    /\ Init /\ Pres!Init /\ Watch!Init /\ Events!Init

\* a step of the service in focus
InScan(A) == focus = "scan" /\ A /\ UNCHANGED <<focus, pvars, wvars, evvars>>
InPres(A) == focus = "presence" /\ A /\ UNCHANGED <<focus, vars, wvars, evvars>>
InWatch(A) == focus = "netwatch" /\ A /\ UNCHANGED <<focus, vars, pvars, evvars>>
InEvents(A) == focus = "events" /\ A /\ UNCHANGED <<focus, vars, pvars, wvars>>

SvcNext ==
    \/ InScan(Next) \/ InPres(Pres!Next) \/ InWatch(Watch!Next) \/ InEvents(Events!Next)

(* Timers, loops and deliveries go on.  The strong conditions say that a   *)
(* loop that runs again and again also sees its rare case: a device has    *)
(* been missing long enough, a day has passed since the last full report.  *)
SvcFairness ==
    /\ \A r \in Requests : WF_svcvars(InScan(scanTimeout(r)))
    /\ WF_svcvars(InScan(\E p \in posts : postSettles(p)))
    /\ WF_svcvars(InPres(Pres!Step)) /\ SF_svcvars(InPres(Pres!detected(Macs)))
    /\ WF_svcvars(InWatch(Watch!Step)) /\ SF_svcvars(InWatch(Watch!Swept("yes")))
    /\ WF_svcvars(InEvents(Events!Deliver))

SvcSpec == SvcInit /\ [][SvcNext]_svcvars /\ SvcFairness

-----------------------------------------------------------------------------
(* Type invariants of the services. *)
TypesOK == TypeOK /\ Pres!TypeOK /\ Watch!TypeOK /\ Events!TypeOK

(* Every scan ends (scanManager.js); in the end the server knows who is at *)
(* home and which devices there are (presence.js, netwatch.js) and the     *)
(* event buffer is empty once connections last (edge/channel.js).          *)
ServicesSettle ==
    ScanEnds /\ Pres!PresenceConverges /\ Watch!ListConverges /\ Events!BufferDrains
=============================================================================
