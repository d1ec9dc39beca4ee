-------------------------------- MODULE Mqtt --------------------------------
(***************************************************************************)
(* MQTT on the gateway: MqttManager and its client (edge/mqtt/manager.js,  *)
(* edge/mqtt/client.js), the files of the broker (edge/mqtt/broker.js) and *)
(* the shared mDNS instance (edge/mdnsService.js) that announces it.       *)
(*                                                                         *)
(* The broker and its watcher are external: the broker runs while the file *)
(* `enabled` is there, is restarted when mosquitto.conf changes, loads the *)
(* ACL anew when it is told to, and handles the packets of a connection in *)
(* their order.  A topic filter is a value; what one filter covers of      *)
(* another is module Topics.                                               *)
(***************************************************************************)
EXTENDS Naturals, Sequences, FiniteSets

CONSTANTS
    Plugins, Filters,
    Configs,      \* the settings the server sends: [on, topics: [Plugins -> SUBSET Filters]]
    Addrs,        \* the sets of LAN addresses the gateway may have
    Ids,          \* bound: subscriptions made, numbered as by nextId
    MaxSubs,      \* LIMITS.mqttSubscriptionsPerPlugin
    MaxApplies,   \* bound: settings applied
    MaxLosses,    \* bound: lost and failed connections
    MaxMoves,     \* bound: changes of the LAN addresses
    MaxBrowses    \* bound: mDNS searches of the plugins

VARIABLES
    cfg,        \* this.cfg: [on, topics]
    files,      \* the files: [enabled, acl, conf]
    broker,     \* the broker: [run, acl, conf]
    client,     \* this.client: none, connecting, connected
    retry,      \* this.retryTimer: on, off
    loop,       \* the resubscribe loop after a connect is still to come: yes, no
    wire,       \* packets on the way to the broker: [op, f]
    atBroker,   \* the subscriptions of the connection at the broker
    refused,    \* filters whose last SUBSCRIBE the broker refused
    subs,       \* this.subs: [st: new, live, gone; p, f]
    filterRefs, \* this.filterRefs
    addrs,      \* the addresses of the host
    lastAddrs,  \* this.lastAddrs
    mdns,       \* [open, announced, browses]: the shared instance
    used

settings == <<cfg, files, mdns, lastAddrs>>
connection == <<client, retry, loop>>
plugin == <<subs, filterRefs>>
session == <<wire, atBroker, refused>>
service == <<settings, connection, plugin>>
vars == <<service, session, broker, addrs, used>>

Off == [on |-> "no", topics |-> [p \in Plugins |-> {}]]

Init ==
    /\ cfg = Off
    /\ files = [enabled |-> "no", acl |-> {}, conf |-> {}]
    /\ broker = [run |-> "no", acl |-> {}, conf |-> {}]
    /\ client = "none" /\ retry = "off" /\ loop = "no"
    /\ wire = <<>> /\ atBroker = {} /\ refused = {}
    /\ subs = [i \in Ids |-> [st |-> "new", p |-> "-", f |-> "-"]]
    /\ filterRefs = [f \in Filters |-> 0]
    /\ addrs \in Addrs /\ lastAddrs = {}
    /\ mdns = [open |-> "no", announced |-> {}, browses |-> 0]
    /\ used = [applies |-> 0, losses |-> 0, moves |-> 0]

Use(f, max) == used[f] < max /\ used' = [used EXCEPT ![f] = @ + 1]

\* one packet for each filter, in some order
Ordered(fs) == CHOOSE s \in [1..Cardinality(fs) -> fs] : \A f \in fs : \E k \in DOMAIN s : s[k] = f
Packets(op, fs) == [k \in 1..Cardinality(fs) |-> [op |-> op, f |-> Ordered(fs)[k]]]

Live == {i \in Ids : subs[i].st = "live"}

\* internalTopics(): the ACL of the internal account
internalTopics(c) == UNION {c.topics[p] : p \in Plugins}

-----------------------------------------------------------------------------
(* Subscriptions.                                                          *)

\* removeSub, for each of the given ids: the broker is told when the last
\* subscription of a filter ends
removeSubs(gone) ==
    /\ subs' = [i \in Ids |-> IF i \in gone THEN [subs[i] EXCEPT !.st = "gone"] ELSE subs[i]]
    /\ filterRefs' = [f \in Filters |-> filterRefs[f] - Cardinality({i \in gone : subs[i].f = f})]
    /\ LET ended == {f \in Filters : filterRefs[f] > 0 /\ filterRefs'[f] = 0} IN
       wire' = IF client = "connected" THEN wire \o Packets("unsub", ended) ELSE wire

\* pluginCall mqtt.subscribe: allowed topics, the limit, then the entry; only
\* the first subscription of a filter goes to the broker
subscribe(i) ==
    /\ subs[i].st = "new" /\ \A j \in Ids : j < i => subs[j].st # "new"
    /\ cfg.on = "yes"
    /\ \E p \in Plugins : \E f \in cfg.topics[p] :
          /\ Cardinality({j \in Live : subs[j].p = p}) < MaxSubs
          /\ subs' = [subs EXCEPT ![i] = [st |-> "live", p |-> p, f |-> f]]
          /\ filterRefs' = [filterRefs EXCEPT ![f] = @ + 1]
          /\ wire' = IF filterRefs'[f] = 1 /\ client = "connected"
                     THEN Append(wire, [op |-> "sub", f |-> f]) ELSE wire
    /\ UNCHANGED <<connection, settings, broker, atBroker, refused, addrs, used>>

\* mqtt.unsubscribe
unsubscribe(i) ==
    /\ i \in Live /\ removeSubs({i})
    /\ UNCHANGED <<connection, settings, broker, atBroker, refused, addrs, used>>

\* mutant: subscriptions that ended before are ended again
DropsGone(p) ==
    /\ \E i \in Live : subs[i].p = p
    /\ removeSubs({i \in Ids : subs[i].st # "new" /\ subs[i].p = p})
    /\ UNCHANGED <<connection, settings, broker, atBroker, refused, addrs, used>>

\* dropPlugin: its process has ended
dropPlugin(p) ==
    /\ \E i \in Live : subs[i].p = p
    /\ removeSubs({i \in Live : subs[i].p = p})
    /\ UNCHANGED <<connection, settings, broker, atBroker, refused, addrs, used>>

-----------------------------------------------------------------------------
(* The mDNS instance.                                                      *)

\* maybeClose
maybeClose(m) == IF m.browses = 0 /\ m.announced = {} THEN [m EXCEPT !.open = "no"] ELSE m

\* announce(); without addresses it is withdrawn
announce(as) ==
    IF as = {} THEN maybeClose([mdns EXCEPT !.announced = {}])
    ELSE [mdns EXCEPT !.announced = as, !.open = "yes"]

\* browse and stopBrowse
browse ==
    /\ mdns.browses < MaxBrowses
    /\ mdns' = [mdns EXCEPT !.open = "yes", !.browses = @ + 1]
    /\ UNCHANGED <<session, plugin, connection, lastAddrs, cfg, files, broker, addrs, used>>

stopBrowse ==
    /\ mdns.browses > 0 /\ mdns' = maybeClose([mdns EXCEPT !.browses = @ - 1])
    /\ UNCHANGED <<session, plugin, connection, lastAddrs, cfg, files, broker, addrs, used>>

-----------------------------------------------------------------------------
(* Settings.                                                               *)

\* BrokerFiles.write: a listener per address, the topics of the internal account
write(c) == [enabled |-> "yes", acl |-> internalTopics(c), conf |-> addrs]

\* mutant: subscriptions to withdrawn topics stay
RefreshKeeps(c) ==
    /\ files' = write(c)
    /\ mdns' = IF files.conf # addrs \/ lastAddrs # addrs THEN announce(addrs) ELSE mdns
    /\ lastAddrs' = addrs
    /\ UNCHANGED <<plugin, wire>>

\* refresh(): the files, the announcement, and the end of the subscriptions
\* whose topics are not granted any more
refresh(c) ==
    /\ files' = write(c)
    /\ mdns' = IF files.conf # addrs \/ lastAddrs # addrs THEN announce(addrs) ELSE mdns
    /\ lastAddrs' = addrs
    /\ removeSubs({i \in Live : subs[i].f \notin c.topics[subs[i].p]})

\* apply with MQTT on: refresh, ensureClient
applyOn(c) ==
    /\ Use("applies", MaxApplies) /\ c.on = "yes"
    /\ cfg' = c /\ refresh(c)
    /\ client' = IF client = "none" /\ retry = "off" THEN "connecting" ELSE client
    /\ UNCHANGED <<retry, loop, broker, atBroker, refused, addrs>>

\* apply with MQTT off: the client ends and with it what is on the wire
applyOff(c) ==
    /\ Use("applies", MaxApplies) /\ c.on = "no"
    /\ cfg' = c /\ files' = [files EXCEPT !.enabled = "no"]
    /\ client' = "none" /\ retry' = "off" /\ loop' = "no"
    /\ wire' = <<>> /\ atBroker' = {} /\ refused' = {}
    /\ mdns' = announce({})
    /\ UNCHANGED <<plugin, lastAddrs, broker, addrs>>

\* the tick of every 30 s
tick ==
    /\ cfg.on = "yes" /\ refresh(cfg)
    /\ UNCHANGED <<connection, cfg, broker, atBroker, refused, addrs, used>>

\* DHCP
AddressesChange(as) ==
    /\ Use("moves", MaxMoves) /\ as # addrs /\ addrs' = as
    /\ UNCHANGED <<session, service, broker>>

-----------------------------------------------------------------------------
(* The connection.                                                         *)

\* CONNACK
Connected ==
    /\ client = "connecting" /\ broker.run = "yes"
    /\ client' = "connected" /\ loop' = "yes"
    /\ UNCHANGED <<session, plugin, settings, retry, broker, addrs, used>>

\* refused, timed out, or there is no broker
ConnectFails ==
    /\ client = "connecting"
    /\ IF broker.run = "no" THEN UNCHANGED used ELSE Use("losses", MaxLosses)
    /\ client' = "none" /\ retry' = "on"
    /\ UNCHANGED <<session, plugin, settings, loop, broker, addrs>>

\* after the $SYS subscriptions: every filter in use is subscribed
Resubscribe ==
    /\ client = "connected" /\ loop = "yes" /\ loop' = "no"
    /\ wire' = wire \o Packets("sub", {f \in Filters : filterRefs[f] > 0})
    /\ UNCHANGED <<plugin, settings, client, retry, broker, atBroker, refused, addrs, used>>

\* what is lost with a connection; the client's 'close' sets the retry timer
Lost ==
    /\ client' = "none" /\ retry' = "on" /\ loop' = "no"
    /\ wire' = <<>> /\ atBroker' = {} /\ refused' = {}

\* 'close', also of a connection that was silent for too long
onClose ==
    /\ client = "connected" /\ Use("losses", MaxLosses) /\ Lost
    /\ UNCHANGED <<plugin, settings, broker, addrs>>

\* the retry timer: ensureClient
RetryTimer ==
    /\ retry = "on" /\ retry' = "off" /\ cfg.on = "yes"
    /\ client' = IF client = "none" THEN "connecting" ELSE client
    /\ UNCHANGED <<session, plugin, settings, loop, broker, addrs, used>>

-----------------------------------------------------------------------------
(* The broker (external).                                                  *)

\* a packet is handled; a filter that is not in the ACL is refused
BrokerHandles ==
    /\ client = "connected" /\ wire # <<>> /\ wire' = Tail(wire)
    /\ LET m == Head(wire) IN
       \/ m.op = "unsub" /\ atBroker' = atBroker \ {m.f} /\ refused' = refused \ {m.f}
       \/ m.op = "sub" /\ m.f \in broker.acl
          /\ atBroker' = atBroker \cup {m.f} /\ refused' = refused \ {m.f}
       \/ m.op = "sub" /\ m.f \notin broker.acl
          /\ refused' = refused \cup {m.f} /\ UNCHANGED atBroker
    /\ UNCHANGED <<service, broker, addrs, used>>

\* the watcher: new files, a restart or a SIGHUP
BrokerWatches ==
    /\ broker # [run |-> files.enabled, acl |-> files.acl, conf |-> files.conf]
    /\ broker' = [run |-> files.enabled, acl |-> files.acl, conf |-> files.conf]
    /\ IF client = "connected" /\ (files.enabled = "no" \/ files.conf # broker.conf)
       THEN Lost /\ UNCHANGED <<plugin, settings>>
       ELSE UNCHANGED <<session, service>>
    /\ UNCHANGED <<addrs, used>>

Steps ==
    \/ Connected \/ (broker.run = "no" /\ ConnectFails) \/ Resubscribe \/ RetryTimer
    \/ BrokerHandles \/ BrokerWatches

Next ==
    \/ Connected \/ ConnectFails \/ Resubscribe \/ RetryTimer \/ BrokerHandles \/ BrokerWatches
    \/ onClose \/ tick \/ browse \/ stopBrowse
    \/ \E i \in Ids : subscribe(i) \/ unsubscribe(i)
    \/ \E p \in Plugins : dropPlugin(p)
    \/ \E c \in Configs : applyOn(c) \/ applyOff(c)
    \/ \E as \in Addrs : AddressesChange(as)

Spec == Init /\ [][Next]_vars

(* The broker and its watcher work, timers fire. *)
Fairness ==
    /\ WF_vars(Connected) /\ WF_vars(broker.run = "no" /\ ConnectFails) /\ WF_vars(Resubscribe)
    /\ WF_vars(RetryTimer) /\ WF_vars(BrokerHandles) /\ WF_vars(BrokerWatches) /\ WF_vars(tick)

-----------------------------------------------------------------------------
(* Type invariant of MQTT. *)
TypeOK ==
    /\ cfg \in [on : {"yes", "no"}, topics : [Plugins -> SUBSET Filters]]
    /\ files.enabled \in {"yes", "no"} /\ broker.run \in {"yes", "no"}
    /\ client \in {"none", "connecting", "connected"}
    /\ retry \in {"on", "off"} /\ loop \in {"yes", "no"}
    /\ wire \in Seq([op : {"sub", "unsub"}, f : Filters])
    /\ atBroker \subseteq Filters /\ refused \subseteq Filters
    /\ filterRefs \in [Filters -> Nat]
    /\ mdns.browses \in 0..MaxBrowses

(* The reference counts are the subscriptions: a filter is forgotten, and  *)
(* unsubscribed, with the last one and never before (manager.js removeSub),*)
(* also when settings, processes and plugins end subscriptions in any      *)
(* order.                                                                  *)
RefsAreSubs == \A f \in Filters : filterRefs[f] = Cardinality({i \in Live : subs[i].f = f})

(* The mDNS instance is shared: it is open exactly while a search or the   *)
(* announcement needs it (mdnsService.js maybeClose).                      *)
MdnsInUse == (mdns.open = "yes") <=> (mdns.browses > 0 \/ mdns.announced # {})

(* Topics that were withdrawn end: with MQTT on, after a settings change,  *)
(* no plugin is subscribed to a topic it was not granted.                  *)
OnlyGranted == cfg.on = "yes" => \A i \in Live : subs[i].f \in cfg.topics[subs[i].p]

(* manager.js 9 "kündigt den Broker per mDNS als _mqtt._tcp an": while the *)
(* broker is on, it is announced under the addresses it listens on.  Not   *)
(* so when it was off in between: the announcement ended, lastAddrs and    *)
(* the configuration file are as before, and refresh sees no change.       *)
BrokerAnnounced == cfg.on = "yes" => mdns.announced = files.conf

(* What the plugins are subscribed to is what the broker delivers, once    *)
(* everything has settled: nothing is missing after lost connections and   *)
(* restarts of the broker, and nothing is left over.  A filter the broker  *)
(* refused stays missing while the connection lasts.                       *)
Settled ==
    cfg.on = "yes" =>
        /\ client = "connected" /\ broker.conf = addrs
        /\ atBroker \cup refused = {f \in Filters : filterRefs[f] > 0}
=============================================================================
