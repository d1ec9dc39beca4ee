---------------------------- MODULE PrintDevices ----------------------------
(***************************************************************************)
(* The list of printers (print/print.js PrintService: search, _merge, the  *)
(* refresh of the entries, the pinned certificates, the report).  A search *)
(* and the refresh of the cycle may run at the same time, and both work on *)
(* the same entries, which _merge and the end of a search replace or       *)
(* remove under them.                                                      *)
(*                                                                         *)
(* A printer is its address.  It has one TLS endpoint, a certificate (a    *)
(* version number, never one it had before) and a UUID that a search may   *)
(* miss; its entry is then filed under its address.                        *)
(***************************************************************************)
EXTENDS Naturals

CONSTANTS
    Printers,
    MaxChanges, \* bound: changes of the LAN and of the settings
    MaxFaults,  \* bound: lost answers, failed requests, entries skipped while printing
    MaxRetrusts \* bound: confirmations by an administrator

VARIABLES
    lan,     \* per printer [up, near (in an own subnet), port, cert]
    manual,  \* cfg.manual
    devices, \* per <<printer, ip or uuid>> NoEntry or [port, pin, problem, online]
    run,     \* search and cycle: [pc, todo: entries to look at; at: the one it works on, ep: whether
             \*  that has still the endpoint it began with; pin: it asks with; probing;
             \*  view: the report on its way]
    server,  \* the view the server has
    confirmed, \* history: per printer the certificate an administrator has confirmed last
    used

vars == <<lan, manual, devices, run, server, confirmed, used>>

Keys == Printers \X {"ip", "uuid"}
NoEntry == [port |-> 0, pin |-> 0, problem |-> "no", online |-> "no"]
Gone == <<"none", "ip">>   \* the entry of a run was removed
Idle == [pc |-> "idle", todo |-> {}, at |-> Gone, ep |-> "same", pin |-> 0, probing |-> {},
         view |-> [k \in Keys |-> "none"]]
Runs == {"search", "cycle"}
Use(f, max) == used[f] < max /\ used' = [used EXCEPT ![f] = @ + 1]

Init ==
    /\ lan = [p \in Printers |-> [up |-> "yes", near |-> "yes", port |-> 1, cert |-> 1]]
    /\ manual = {} /\ devices = [k \in Keys |-> NoEntry]
    /\ run = [r \in Runs |-> Idle] /\ server = [k \in Keys |-> "none"]
    /\ confirmed = [p \in Printers |-> 0] /\ used = [changes |-> 0, faults |-> 0, retrusts |-> 0]

-----------------------------------------------------------------------------
isAllowed(p) == p \in manual \/ lan[p].near = "yes"
There(ds) == {k \in Keys : ds[k] # NoEntry}

\* what report sends of an entry
_view(e) ==
    IF e = NoEntry THEN "none" ELSE IF e.problem = "yes" THEN "cert_changed"
    ELSE IF e.online = "yes" THEN "online" ELSE "offline"
View(ds) == [k \in Keys |-> _view(ds[k])]

\* _merge of printer p, found with or without its UUID: into the entry of that id, or
\* the one of the address that has no UUID yet, which is then filed under the id
Old(ds, p, id) == IF ds[<<p, id>>] # NoEntry THEN <<p, id>> ELSE <<p, "ip">>

\* the pin stays while the endpoint is the same
keepPin(e, port) == IF e.port = port THEN e.pin ELSE 0
_merge(ds, p, id) ==
    LET e == ds[Old(ds, p, id)] IN
    [ds EXCEPT ![Old(ds, p, id)] = NoEntry,
               ![<<p, id>>] = [e EXCEPT !.port = lan[p].port, !.pin = keepPin(e, lan[p].port)]]

\* where the merge of the printers ps files an entry; the runs keep hold of a merged
\* entry, not of its endpoint
Merged(k, ps, id) == k[1] \in ps /\ k = Old(devices, k[1], id[k[1]])
Moved(k, ps, id) == IF Merged(k, ps, id) THEN <<k[1], id[k[1]]>> ELSE k
Held(s, ps, id) ==
    [s EXCEPT !.at = Moved(@, ps, id), !.ep = IF Merged(s.at, ps, id) THEN "lost" ELSE @,
              !.todo = {Moved(k, ps, id) : k \in @}]
\* and lose the ones that are removed
Lost(s, ds) ==
    [s EXCEPT !.at = IF @ = Gone \/ ds[@] = NoEntry THEN Gone ELSE @,
              !.todo = {k \in @ : ds[k] # NoEntry}]

Go(r, s) == run' = [run EXCEPT ![r] = s]

-----------------------------------------------------------------------------
(* search and _search.                                                     *)

\* requestSearch({ retrust }), or the cycle's search: one search at a time
Retrusted(k) == [devices EXCEPT ![k].pin = 0, ![k].problem = "no"]
requestSearch ==
    /\ run["search"].pc = "idle"
    /\ \/ UNCHANGED <<devices, confirmed, used>>
       \/ /\ Use("retrusts", MaxRetrusts)
          /\ \E k \in There(devices) :
              /\ devices[k].problem = "yes" /\ devices' = Retrusted(k)
              /\ confirmed' = [confirmed EXCEPT ![k[1]] = lan[k[1]].cert]
    /\ Go("search", [Idle EXCEPT !.pc = "browse"])
    /\ UNCHANGED <<lan, manual, server>>

\* browse is over: the printers heard, of those one may be missed, are merged; the
\* manual ones among the others are asked
browsed ==
    /\ run["search"].pc = "browse"
    /\ \E missed \in SUBSET Printers, id \in [Printers -> {"ip", "uuid"}] :
        LET heard == {p \in Printers : lan[p].up = "yes" /\ isAllowed(p)} \ missed IN
        /\ IF missed = {} /\ \A p \in Printers : id[p] = "uuid" THEN UNCHANGED used
           ELSE Use("faults", MaxFaults)
        /\ devices' = [k \in Keys |->
                         IF k[1] \in heard THEN _merge(devices, k[1], id[k[1]])[k] ELSE devices[k]]
        /\ run' = [search |-> [Idle EXCEPT !.pc = "manual", !.probing = manual \ heard],
                   cycle  |-> Held(run["cycle"], heard, id)]
    /\ UNCHANGED <<lan, manual, confirmed, server>>

\* _probeManual of one address has ended
_probeManual(p) ==
    LET s == run["search"] IN
    /\ p \in s.probing
    /\ \/ /\ lan[p].up = "yes" /\ devices' = _merge(devices, p, "uuid") /\ UNCHANGED used
          /\ run' = [search |-> [s EXCEPT !.probing = @ \ {p}],
                     cycle  |-> Held(run["cycle"], {p}, [q \in {p} |-> "uuid"])]
       \/ /\ IF lan[p].up = "no" THEN UNCHANGED used ELSE Use("faults", MaxFaults)
          /\ Go("search", [s EXCEPT !.probing = @ \ {p}]) /\ UNCHANGED devices
    /\ UNCHANGED <<lan, manual, confirmed, server>>

\* the entries of addresses that are not allowed any more go, and the ones not seen for
\* FORGET_MS (some of those whose printer is off); refreshAll begins
Pruned(ds, old) == [k \in Keys |-> IF isAllowed(k[1]) /\ k \notin old THEN ds[k] ELSE NoEntry]
searched ==
    /\ run["search"].pc = "manual" /\ run["search"].probing = {}
    /\ \E old \in SUBSET {k \in Keys : lan[k[1]].up = "no"} : devices' = Pruned(devices, old)
    /\ run' = [search |-> [Idle EXCEPT !.pc = "next", !.todo = There(devices')],
               cycle  |-> Lost(run["cycle"], devices')]
    /\ UNCHANGED <<lan, manual, confirmed, server, used>>

\* cycle, in the runs that do not search
cycle ==
    /\ run["cycle"].pc = "idle" /\ There(devices) # {}
    /\ Go("cycle", [Idle EXCEPT !.pc = "next", !.todo = There(devices)])
    /\ UNCHANGED <<lan, manual, confirmed, devices, server, used>>

-----------------------------------------------------------------------------
(* refreshAll and refresh.                                                 *)

\* the next entry with its endpoint, at the end the report; a device that is printing is
\* passed over
refreshAll(r) ==
    LET s == run[r] IN
    /\ s.pc = "next"
    /\ \/ \E k \in s.todo :
            \/ /\ Go(r, [s EXCEPT !.pc = IF devices[k].pin = 0 THEN "learn" ELSE "ask",
                                  !.todo = @ \ {k}, !.at = k, !.ep = "same", !.pin = devices[k].pin])
               /\ UNCHANGED used
            \/ Use("faults", MaxFaults) /\ Go(r, [s EXCEPT !.todo = @ \ {k}])
       \/ s.todo = {} /\ Go(r, [Idle EXCEPT !.pc = "report"]) /\ UNCHANGED used
    /\ UNCHANGED <<lan, manual, confirmed, devices, server>>

\* _learnPins: the certificate of the first contact; the endpoint object that was
\* looked at gets it, the request goes to the one the entry has now
Learned(s, c) == IF c = 0 \/ s.ep = "lost" THEN devices ELSE [devices EXCEPT ![s.at].pin = c]
_learnPins(r) ==
    LET s == run[r]
        p == lan[s.at[1]]
    IN  /\ s.pc = "learn"
        /\ \/ s.at = Gone /\ Go(r, [s EXCEPT !.pc = "next"]) /\ UNCHANGED <<devices, used>>
           \/ /\ s.at # Gone
              /\ \E c \in {0, IF p.up = "yes" THEN p.cert ELSE 0} :
                  /\ IF c = 0 /\ p.up = "yes" THEN Use("faults", MaxFaults) ELSE UNCHANGED used
                  /\ devices' = Learned(s, c)
              /\ Go(r, [s EXCEPT !.pc = "ask", !.pin = devices'[s.at].pin])
        /\ UNCHANGED <<lan, manual, confirmed, server>>

\* refresh: the attributes, with the pin of when they were asked for
Answered(e, p, pin) ==
    [e EXCEPT !.online = IF p.up = "yes" /\ pin = p.cert THEN "yes" ELSE "no",
              !.problem = IF p.up = "yes" /\ pin \notin {0, p.cert} THEN "yes" ELSE @]
refresh(r) ==
    LET s == run[r]
        p == lan[s.at[1]]
    IN  /\ s.pc = "ask"
        /\ \/ s.at = Gone /\ UNCHANGED <<devices, used>>
           \/ /\ s.at # Gone /\ UNCHANGED used
              /\ devices' = [devices EXCEPT ![s.at] = Answered(@, p, s.pin)]
           \/ /\ s.at # Gone /\ Use("faults", MaxFaults)
              /\ devices' = [devices EXCEPT ![s.at] = Answered(@, [p EXCEPT !.up = "no"], s.pin)]
        /\ Go(r, [s EXCEPT !.pc = "next", !.at = Gone])
        /\ UNCHANGED <<lan, manual, confirmed, server>>

\* report: the view of now; the search forces it, the cycle sends a changed one or after REPORT_MS
report(r) ==
    /\ run[r].pc = "report" /\ Go(r, [Idle EXCEPT !.pc = "post", !.view = View(devices)])
    /\ UNCHANGED <<lan, manual, confirmed, devices, server, used>>
Posted(r) ==
    /\ run[r].pc = "post" /\ Go(r, Idle)
    /\ \/ server' = run[r].view /\ UNCHANGED used
       \/ Use("faults", MaxFaults) /\ UNCHANGED server
    /\ UNCHANGED <<lan, manual, confirmed, devices>>

-----------------------------------------------------------------------------
\* the LAN and the settings change: a printer goes, comes, moves, renews its certificate,
\* its subnet ends, its address is entered or removed (which starts a search)
Change ==
    /\ Use("changes", MaxChanges)
    /\ \E p \in Printers :
        \/ /\ \/ lan' = [lan EXCEPT ![p].up = IF @ = "yes" THEN "no" ELSE "yes"]
              \/ lan' = [lan EXCEPT ![p].near = IF @ = "yes" THEN "no" ELSE "yes"]
              \/ lan' = [lan EXCEPT ![p].port = @ + 1]
              \/ lan' = [lan EXCEPT ![p].cert = @ + 1]
           /\ UNCHANGED manual
        \/ manual' = (manual \cup {p}) \ (manual \cap {p}) /\ UNCHANGED lan
    /\ UNCHANGED <<devices, run, server, confirmed>>

SearchStep == browsed \/ searched \/ \E p \in Printers : _probeManual(p)
Refreshes(r) == refreshAll(r) \/ _learnPins(r) \/ refresh(r) \/ report(r) \/ Posted(r)
Next ==
    \/ Change \/ requestSearch \/ cycle \/ SearchStep
    \/ \E r \in Runs : Refreshes(r)

\* the loops run on: searches and refreshes begin again and every request ends
Fairness ==
    /\ WF_vars(requestSearch) /\ WF_vars(cycle) /\ WF_vars(SearchStep)
    /\ \A r \in Runs : WF_vars(Refreshes(r))

Spec == Init /\ [][Next]_vars /\ Fairness

-----------------------------------------------------------------------------
TypeOK ==
    /\ \A k \in Keys : /\ devices[k].port \in 0..lan[k[1]].port
                       /\ devices[k].pin \in 0..lan[k[1]].cert
                       /\ devices[k].problem \in {"yes", "no"}
    /\ \A r \in Runs : run[r].pc \in {"idle", "browse", "manual", "next", "learn", "ask", "report", "post"}

\* A certificate that was pinned is not exchanged for another one of the same endpoint
\* without a confirmation, whatever is merged, moved to its UUID or refreshed meanwhile;
\* only a run that had begun to learn before it was pinned may still write what it saw
\* (print.js _learnPins, keepPin, requestSearch).
PinKept ==
    \A k \in Keys : LET e == devices[k] IN
        e.pin # 0 /\ devices'[k].port = e.port
            => \/ devices'[k].pin = e.pin \/ used'.retrusts # used.retrusts
               \/ \E r \in Runs : run[r].pc = "learn" /\ run[r].at = k
PinStays == [][PinKept]_vars

\* A certificate an administrator has confirmed is not reported as changed: the printer is
\* used again (print.js requestSearch, refresh).  Not so: a refresh that asked with the
\* old pin marks it as changed again, until it is confirmed once more.
ConfirmedIsUsed ==
    \A k \in Keys : devices[k].problem = "yes" => confirmed[k[1]] # lan[k[1]].cert

\* In the end every printer that is there and allowed is listed, as online or with its
\* problem, the others of the list are not online, the addresses that are not allowed are
\* gone, and the server has the list (print.js _search, refreshAll, report).
Listed(p) ==
    IF ~isAllowed(p) THEN \A k \in Keys : k[1] = p => devices[k] = NoEntry
    ELSE IF lan[p].up = "no" THEN \A k \in Keys : k[1] = p => devices[k].online = "no"
    ELSE \E k \in Keys : k[1] = p /\ devices[k] # NoEntry /\ _view(devices[k]) # "offline"
PrintersListed == (\A p \in Printers : Listed(p)) /\ server = View(devices)
=============================================================================
