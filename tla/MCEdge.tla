------------------------------- MODULE MCEdge -------------------------------
(***************************************************************************)
(* The links of the edge host, checked in one run: the relayed connection  *)
(* to the server, the calls to the gateway and their sockets, MQTT and its *)
(* topics, a plugin process and its host, the network fence, and the files *)
(* of a plugin.  They share no state here, so each behaviour lets one of   *)
(* them run (focus) while the others rest.                                 *)
(***************************************************************************)
EXTENDS EdgeLocal, EdgeLinks

CONSTANT
    Focuses         \* the parts this run looks at

VARIABLE focus

\* the first call opens a socket, the second is of any kind
MCKinds == <<{"open"}, {"open", "request", "close"}>>

Granting(S) == [p \in MqttPlugins |-> S]

\* off; one topic granted; two
MCMqttConfigs ==
    { [on |-> "no", topics |-> Granting({})], [on |-> "yes", topics |-> Granting({"a"})],
      [on |-> "yes", topics |-> Granting({"a", "b"})] }

relay == <<xchan, xlocal, xupstream, xsilent, xtimer, xrelay, xserver, xfromServer, xtoHost,
           xgateway, xhost, xused>>
rpc == <<rws, rcall, rproc, rlink, rup, rdown, rbound, rrpc, rdesired, rentry, rnets, rruns,
         rsock, rinflight, rused>>
mqtt == <<mcfg, mfiles, mbroker, mclient, mretry, mloop, mwire, matBroker, mrefused, msubs,
          mfilterRefs, maddrs, mlastAddrs, mmdns, mused>>
child == <<cstate, cchild, cstarted, crestart, cask, chostCalls, ccall, cconfig, ctoChild,
           ctoHost>>
fence == <<net, sync, kernel, backend, lastApplied, marker, flushed, fused>>
files == <<want, entry, status, proc, pc, job, tmp, left, dest, file, fileTmp, data, acked, pused>>
all == <<focus, vars, relay, rpc, mqtt, child, fence, files>>

MCInit ==
    /\ focus \in Focuses
    /\ Init /\ Relay!Init /\ Rpc!Init /\ Mq!Init /\ Child!Init /\ Fence!Init /\ Files!Init
    /\ maddrs = CHOOSE as \in MqttAddrs : TRUE
    /\ focus = "topics" \/ {own, granted} = {<<CHOOSE l \in Levels \ Dollar : TRUE>>}
    /\ focus = "files" \/ (/\ want.version = CHOOSE v \in FileVersions : TRUE
                           /\ want.sha = CHOOSE h \in FileShas : TRUE)

\* a step of the part in focus
InTopics(A) ==
    focus = "topics" /\ A /\ UNCHANGED <<focus, relay, rpc, mqtt, child, fence, files>>
InRelay(A) ==
    focus = "relay" /\ A /\ UNCHANGED <<focus, vars, rpc, mqtt, child, fence, files>>
InRpc(A) == focus = "rpc" /\ A /\ UNCHANGED <<focus, vars, relay, mqtt, child, fence, files>>
InMqtt(A) == focus = "mqtt" /\ A /\ UNCHANGED <<focus, vars, relay, rpc, child, fence, files>>
InChild(A) == focus = "child" /\ A /\ UNCHANGED <<focus, vars, relay, rpc, mqtt, fence, files>>
InFence(A) == focus = "fence" /\ A /\ UNCHANGED <<focus, vars, relay, rpc, mqtt, child, files>>
InStore(A) == focus = "store" /\ A /\ UNCHANGED <<focus, vars, relay, rpc, mqtt, child, fence>>
InFiles(A) == focus = "files" /\ A /\ UNCHANGED <<focus, vars, relay, rpc, mqtt, child, fence>>

MCNext ==
    \/ InTopics(Next) \/ InRelay(Relay!Next) \/ InRpc(Rpc!Next) \/ InMqtt(Mq!Next)
    \/ InChild(Child!Next) \/ InFence(Fence!Next) \/ InFiles(Files!Packages)
    \/ InStore(Files!Store)

(* The fairness of each part, while it is in focus. *)
MCFairness ==
    /\ WF_all(\/ InRelay(Relay!Channel) \/ InRpc(Rpc!Client) \/ InMqtt(Mq!Connected)
              \/ InChild(Child!spawn) \/ InFence(Fence!start(1)) \/ InFiles(Files!ensurePlugin))
    /\ WF_all(\/ InRelay(Relay!Relay(1)) \/ InRpc(Rpc!Bridge)
              \/ InMqtt(mbroker.run = "no" /\ Mq!ConnectFails)
              \/ InChild(Child!Watchdog) \/ InFence(Fence!start(2)) \/ InFiles(Files!Downloaded))
    /\ WF_all(\/ InRelay(Relay!Relay(2))
              \/ InRpc(\E p \in rproc.dying : Rpc!ProcessExits(p)) \/ InMqtt(Mq!Resubscribe)
              \/ InChild(Child!ChildHandles) \/ InFence(Fence!Steps(1)) \/ InFiles(Files!Extract))
    /\ WF_all(\/ InRelay(Relay!Relay(3)) \/ InRpc(Rpc!TimedOut(1)) \/ InMqtt(Mq!RetryTimer)
              \/ InChild(Child!HostHandles) \/ InFence(Fence!Steps(2)) \/ InStore(Files!Renamed))
    /\ WF_all(InRpc(Rpc!TimedOut(2)) \/ InMqtt(Mq!BrokerHandles) \/ InChild(Child!HostAnswers(1)))
    /\ WF_all(InRpc(Rpc!Work(1)) \/ InMqtt(Mq!BrokerWatches) \/ InChild(Child!HostAnswers(2)))
    /\ WF_all(InRpc(Rpc!Work(2)) \/ InMqtt(Mq!tick))

MCSpec == MCInit /\ [][MCNext]_all /\ MCFairness

-----------------------------------------------------------------------------
(* Type invariants of the parts. *)
TypesOK ==
    CASE focus = "relay" -> Relay!TypeOK [] focus = "rpc" -> Rpc!TypeOK
      [] focus = "mqtt" -> Mq!TypeOK [] focus = "child" -> Child!TypeOK
      [] focus = "fence" -> Fence!TypeOK [] focus \in {"files", "store"} -> Files!TypeOK
      [] focus = "topics" -> TRUE

=============================================================================
