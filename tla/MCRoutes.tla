------------------------------ MODULE MCRoutes ------------------------------
(***************************************************************************)
(* How the gateway gets its configuration and what it listens on for it,   *)
(* checked in one run: the poller and its store, the three appliers of a   *)
(* configuration (L4 proxy, egress proxy, near manager) and the sockets of *)
(* the DNS filter.  They share no state, so each behaviour lets one of     *)
(* them run (focus) while the others rest.                                 *)
(***************************************************************************)
EXTENDS Routes

CONSTANT Focuses   \* the parts this run looks at
VARIABLE focus

L(i, p, t) == [id |-> i, port |-> p, target |-> t]

\* none; each route alone; both; a port change; a change of port and target
MCL4Configs ==
    { <<>>, <<L(1, 81, "a")>>, <<L(1, 81, "a"), L(2, 82, "a")>>,
      <<L(1, 83, "b")>>, <<L(2, 81, "a")>> }

\* changes of the target alone
MCTargetConfigs == { <<>>, <<L(1, 81, "a")>>, <<L(1, 81, "b")>> }

E(i, b, s) == [id |-> i, bind |-> b, soft |-> s]

\* none; one route; its allowlist changes; two routes; both move, the first to
\* the address the second leaves; the second alone
MCEgressConfigs ==
    { <<>>, <<E(1, 81, "x")>>, <<E(1, 81, "y")>>,
      <<E(1, 81, "x"), E(2, 82, "x")>>, <<E(1, 82, "y"), E(2, 83, "x")>>,
      <<E(2, 83, "x")>> }

l4vars == <<l4srv, l4listeners, l4call, l4overlap, l4store, l4check, l4foreign, l4used>>
evars == <<esrv, elisteners, estatus, ecall, eoverlap, estore, eforeign, eused>>
nvars == <<nstore, nactive, nlastSig, ncall, nrules, ndaemon, nconfFile, nused>>
dvars == <<dnsOn, dnsTimer, wanted, bound, socket, rec, dnsUsed>>
all == <<focus, vars, l4vars, evars, nvars, dvars>>

MCInit == /\ focus \in Focuses
          /\ focus = "config" \/ serverHash = CHOOSE h \in Hashes : TRUE
          /\ Init /\ L4!Init /\ Egress!Init /\ Near!Init /\ Dns!Init

\* a step of the component in focus
InConfig(A) == focus = "config" /\ A /\ UNCHANGED <<focus, l4vars, evars, nvars, dvars>>
InL4(A) == focus = "l4" /\ A /\ UNCHANGED <<focus, vars, evars, nvars, dvars>>
InEgress(A) == focus = "egress" /\ A /\ UNCHANGED <<focus, vars, l4vars, nvars, dvars>>
InNear(A) == focus = "near" /\ A /\ UNCHANGED <<focus, vars, l4vars, evars, dvars>>
InDns(A) == focus = "dns" /\ A /\ UNCHANGED <<focus, vars, l4vars, evars, nvars>>

MCNext ==
    InConfig(Next) \/ InL4(L4!Next) \/ InEgress(Egress!Next) \/ InNear(Near!Next) \/ InDns(Dns!Next)

(* The fairness of each component, while it is in focus. *)
MCFairness ==
    /\ WF_all(InConfig(InitialPoll)) /\ WF_all(InConfig(TimerFires))
    /\ WF_all(InConfig(DebounceFires)) /\ WF_all(InConfig(ServerAnswers))
    /\ WF_all(InConfig(CheckReturns)) /\ WF_all(InConfig(FetchReturns))
    /\ WF_all(InConfig(Restart))
    /\ WF_all(InL4(L4!Step(c1))) /\ SF_all(InL4(L4!HeartbeatActs(c1)))
    /\ WF_all(InL4(L4!HeartbeatCheck))
    /\ WF_all(InEgress(Egress!Step(c1))) /\ SF_all(InEgress(Egress!Heartbeat(c1)))
    /\ WF_all(InNear(Near!Step(c1))) /\ SF_all(InNear(Near!Heartbeat(c1)))
    /\ WF_all(InDns(Dns!applied)) /\ \A r \in DnsRuns : WF_all(InDns(Dns!Step(r)))
    /\ \A a \in DnsAddrs : WF_all(InDns(Dns!Host(a)))
    /\ \A s \in L4!Slots :
          WF_all(InL4(L4!OverlapExpires(s))) /\ WF_all(InL4(L4!Disconnect(s)))
    /\ \A s \in Egress!Slots : WF_all(InEgress(Egress!OverlapExpires(s)))
    /\ \A p \in L4Ports : WF_all(InL4(L4!ForeignRelease(p)))
    /\ \A p \in EgressPorts : WF_all(InEgress(Egress!ForeignRelease(p)))

MCSpec == MCInit /\ [][MCNext]_all /\ MCFairness

-----------------------------------------------------------------------------
(* Type invariants of the components. *)
TypesOK == TypeOK /\ L4!TypeOK /\ Egress!TypeOK /\ Near!TypeOK /\ Dns!TypeOK

(* Once the server stops changing and requests stop failing, the store     *)
(* gets the server's configuration and keeps it, however pushes, polls,    *)
(* failures and restarts interleave (poller.js, bootstrap.js); heartbeats  *)
(* give every configured L4 route a listener and serve every egress route  *)
(* (selfCheck.js, egress.js); keepalived and the redirects end up serving  *)
(* the configured VIPs, also after keepalived died (manager.js); and an    *)
(* enabled DNS filter listens on all LAN addresses (dns/server.js).        *)
RoutesSettle ==
    /\ <>[](focus = "config" => storeHash = serverHash)
    /\ L4!DeficitHeals /\ Egress!Converges /\ Near!VipServed /\ Dns!Listens

(* tcp.js says a port or target change is carried out by a dual-bind       *)
(* overlap: a served route has its target once setRoutes has returned.     *)
ChangeApplied == L4!ChangeApplied
=============================================================================
