----------------------------- MODULE EdgeFence -----------------------------
(***************************************************************************)
(* The network fence around the edge container, as the gateway keeps it:   *)
(* EdgeLink.sync (edge/gatewayLink.js) every 30 s, FenceManager            *)
(* (edge/fenceRules.js) with its two backends, and the marker file the     *)
(* edge host reads.  A sync does not wait for the one before: each of its  *)
(* external commands is a step of its own.                                 *)
(*                                                                         *)
(* The kernel is external; its rules may be flushed by others.  A set of   *)
(* rules is the number of the LAN addresses and server addresses it was    *)
(* built from.                                                             *)
(***************************************************************************)
EXTENDS Naturals, FiniteSets

CONSTANTS
    Syncs,       \* bound: syncs that run at the same time
    HasIpv6,     \* hasIpv6(): yes, no
    MaxOverlaps, \* bound: syncs that start before the last one has ended
    MaxMoves,    \* bound: changes of the addresses
    MaxFaults    \* bound: commands that fail, flushed rules

VARIABLES
    net,          \* the addresses of the moment, numbered
    sync,         \* per sync: [pc, in: the addresses it uses, left: backends to try]
    kernel,       \* [nft, ipt4, ipt6]: the rules in the kernel, 0 for none
    backend,      \* this.backend: none, nft, iptables
    lastApplied,  \* this.lastApplied
    marker,       \* fence.json: [active, backend]; sure: its rules were not flushed since
    flushed,      \* the syncs in flight when rules were flushed
    used

fence == <<backend, lastApplied, marker>>
vars == <<net, sync, kernel, fence, flushed, used>>

Idle == [pc |-> "idle", in |-> 0, left |-> {}]

Init ==
    /\ net = 1 /\ sync = [s \in Syncs |-> Idle]
    /\ kernel = [nft |-> 0, ipt4 |-> 0, ipt6 |-> 0]
    /\ backend = "none" /\ lastApplied = 0
    /\ marker = [active |-> "no", backend |-> "none", sure |-> "yes"] /\ flushed = {}
    /\ used = [overlaps |-> 0, moves |-> 0, faults |-> 0]

Use(f, max) == used[f] < max /\ used' = [used EXCEPT ![f] = @ + 1]

\* sync(): the server name is resolved (or the last addresses kept)
start(s) ==
    /\ sync[s].pc = "idle" /\ sync' = [sync EXCEPT ![s].pc = "resolve"]
    /\ IF \A t \in Syncs : sync[t].pc = "idle" THEN UNCHANGED used
       ELSE Use("overlaps", MaxOverlaps)
    /\ UNCHANGED <<net, kernel, fence, flushed>>

\* the step of a backend that is tried first; nft is looked at before it is
\* loaded when it already holds these rules
First(b, in) ==
    IF b = "iptables" THEN "ipt4"
    ELSE IF backend = "nft" /\ lastApplied = in THEN "nftList" ELSE "nftLoad"

\* bridge.tick, then fence.apply with the addresses of the moment
apply(s) ==
    /\ sync[s].pc = "resolve"
    /\ LET b == IF backend = "iptables" THEN "iptables" ELSE "nft" IN
       sync' = [sync EXCEPT ![s] = [pc |-> First(b, net), in |-> net,
                                    left |-> {"nft", "iptables"} \ {b}]]
    /\ UNCHANGED <<net, kernel, fence, flushed, used>>

\* a backend threw: the other one, or none is left
Failed(s) ==
    \/ sync[s].left = {} /\ sync' = [sync EXCEPT ![s].pc = "none"]
    \/ \E b \in sync[s].left :
          sync' = [sync EXCEPT ![s].pc = First(b, sync[s].in), ![s].left = {}]

Goes(s, pc) == sync' = [sync EXCEPT ![s].pc = pc]

\* nft list chain: the rules are there, or are loaded again
nftList(s) ==
    /\ sync[s].pc = "nftList"
    /\ Goes(s, IF kernel.nft # 0 THEN "nft" ELSE "nftLoad")
    /\ UNCHANGED <<net, kernel, fence, flushed, used>>

\* nft -f: one transaction
nftLoad(s) ==
    /\ sync[s].pc = "nftLoad" /\ kernel' = [kernel EXCEPT !.nft = sync[s].in]
    /\ Goes(s, "nftVerify") /\ UNCHANGED <<net, fence, flushed, used>>

\* ... and verified
nftVerify(s) ==
    /\ sync[s].pc = "nftVerify"
    /\ IF kernel.nft # 0 THEN lastApplied' = sync[s].in /\ Goes(s, "nft")
       ELSE UNCHANGED lastApplied /\ Failed(s)
    /\ UNCHANGED <<net, kernel, backend, marker, flushed, used>>

\* applyIptablesFamily: restore the chain, insert the jump, verify
ipt4(s) ==
    /\ sync[s].pc = "ipt4" /\ kernel' = [kernel EXCEPT !.ipt4 = sync[s].in]
    /\ Goes(s, "ipt6") /\ UNCHANGED <<net, fence, flushed, used>>

ipt6(s) ==
    /\ sync[s].pc = "ipt6" /\ kernel' = [kernel EXCEPT !.ipt6 = sync[s].in]
    /\ Goes(s, "iptables") /\ UNCHANGED <<net, fence, flushed, used>>

\* iptables-restore may have loaded the chain of a jump that is there already
Restored(s) ==
    LET f == sync[s].pc IN
    {kernel} \cup (IF f \in {"ipt4", "ipt6"} /\ kernel[f] # 0
                  THEN {[kernel EXCEPT ![f] = sync[s].in]} ELSE {})

\* mutant: a failing ip6tables is never an error
Ipv6Skipped(s) ==
    /\ sync[s].pc \in {"nftList", "nftLoad", "nftVerify", "ipt4", "ipt6"}
    /\ Use("faults", MaxFaults)
    /\ CASE sync[s].pc = "nftList" -> Goes(s, "nftLoad")
         [] sync[s].pc = "ipt6" -> Goes(s, "iptables")
         [] OTHER -> Failed(s)
    /\ kernel' \in Restored(s) /\ UNCHANGED <<net, fence, flushed>>

\* a command fails; without IPv6 on the host ip6tables may
CommandFails(s) ==
    /\ sync[s].pc \in {"nftList", "nftLoad", "nftVerify", "ipt4", "ipt6"}
    /\ Use("faults", MaxFaults)
    /\ CASE sync[s].pc = "nftList" -> Goes(s, "nftLoad")
         [] sync[s].pc = "ipt6" /\ HasIpv6 = "no" -> Goes(s, "iptables")
         [] OTHER -> Failed(s)
    /\ kernel' \in Restored(s) /\ UNCHANGED <<net, fence, flushed>>

\* the state and the marker
writeMarker(s) ==
    /\ sync[s].pc \in {"nft", "iptables", "none"}
    /\ LET sure == IF s \in flushed THEN "no" ELSE "yes" IN
       IF sync[s].pc # "none"
       THEN /\ backend' = sync[s].pc
            /\ marker' = [active |-> "yes", backend |-> sync[s].pc, sure |-> sure]
       ELSE UNCHANGED backend /\ marker' = [active |-> "no", backend |-> "none", sure |-> sure]
    /\ sync' = [sync EXCEPT ![s] = Idle] /\ flushed' = flushed \ {s}
    /\ UNCHANGED <<net, kernel, lastApplied, used>>

-----------------------------------------------------------------------------
(* Outside.                                                                *)

\* DHCP, a new server address
AddressesChange ==
    /\ Use("moves", MaxMoves) /\ net' = net + 1 /\ UNCHANGED <<sync, kernel, fence, flushed>>

\* a firewall of the host flushes the rules
Flush ==
    /\ Use("faults", MaxFaults) /\ kernel' = [nft |-> 0, ipt4 |-> 0, ipt6 |-> 0]
    /\ flushed' = {s \in Syncs : sync[s].pc # "idle"} /\ marker' = [marker EXCEPT !.sure = "no"]
    /\ UNCHANGED <<net, sync, backend, lastApplied>>

Steps(s) ==
    \/ apply(s) \/ nftList(s) \/ nftLoad(s) \/ nftVerify(s) \/ ipt4(s) \/ ipt6(s) \/ writeMarker(s)

Next ==
    \/ \E s \in Syncs : start(s) \/ Steps(s) \/ CommandFails(s)
    \/ AddressesChange \/ Flush

Spec == Init /\ [][Next]_vars

(* The 30 s timer fires and commands end. *)
Fairness == \A s \in Syncs : WF_vars(start(s)) /\ WF_vars(Steps(s))

-----------------------------------------------------------------------------
(* Type invariant of the fence. *)
TypeOK ==
    /\ net \in 1..MaxMoves + 1
    /\ sync \in [Syncs -> [pc : {"idle", "resolve", "nftList", "nftLoad", "nftVerify", "ipt4",
                                 "ipt6", "nft", "iptables", "none"},
                           in : 0..MaxMoves + 1, left : SUBSET {"nft", "iptables"}]]
    /\ kernel \in [nft : 0..MaxMoves + 1, ipt4 : 0..MaxMoves + 1, ipt6 : 0..MaxMoves + 1]
    /\ backend \in {"none", "nft", "iptables"} /\ lastApplied \in 0..MaxMoves + 1
    /\ marker.active \in {"yes", "no"} /\ flushed \subseteq Syncs

(* Fail closed: while the marker lets plugins start, the backend it names  *)
(* has its rules in the kernel, IPv6 included where the host has it,       *)
(* whichever of two overlapping syncs wrote it - unless others flushed     *)
(* them (fenceRules.js apply, verified before it is believed).             *)
MarkerIsTrue ==
    marker.active = "yes" /\ marker.sure = "yes" =>
        CASE marker.backend = "nft" -> kernel.nft # 0
          [] marker.backend = "iptables" -> kernel.ipt4 # 0 /\ (HasIpv6 = "yes" => kernel.ipt6 # 0)
          [] OTHER -> FALSE

(* The marker is active and the rules of its backend are those of the      *)
(* current addresses.  With syncs that never overlap this holds in the     *)
(* end, after flushes, failing commands and address changes in the middle  *)
(* of a sync.  With two syncs in flight it need not: the older one loads   *)
(* its rules after the newer one but notes them first, and from then on    *)
(* lastApplied names rules the kernel does not have (fenceRules.js         *)
(* applyNft looks whether there are rules, not which).                     *)
FenceSettled ==
    /\ marker.active = "yes"
    /\ \/ marker.backend = "nft" /\ kernel.nft = net
       \/ marker.backend = "iptables" /\ kernel.ipt4 = net /\ (HasIpv6 = "yes" => kernel.ipt6 = net)
=============================================================================
