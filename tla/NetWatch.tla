------------------------------ MODULE NetWatch ------------------------------
(***************************************************************************)
(* The network watch (netwatch/netwatch.js): a run sweeps the LAN, keeps   *)
(* a register of devices and reports what changed since the last confirmed *)
(* report, or all of it.  A device is absent, online or offline; names,    *)
(* ports and addresses would be further changes of the same kind.          *)
(*                                                                         *)
(* The LAN and the server are external; a full report replaces what the    *)
(* server has.                                                             *)
(***************************************************************************)
EXTENDS Naturals

CONSTANTS
    Hosts,                 \* MAC addresses
    MaxChanges, MaxTurns   \* bounds: changes of the LAN; failures, switches, restarts

VARIABLES
    lan,        \* hosts that answer
    watch,      \* cfg.enabled
    devices,    \* the register: host -> absent, online, offline
    register,   \* the register on disk
    sent,       \* this.sent: host -> none or what was confirmed
    forceFull,
    run,        \* [pc, left, found, full, devs]; pc is idle, sweep, post or taken
    seenBy,     \* the server's list
    watchUsed

wvars == <<lan, watch, devices, register, sent, forceFull, run, seenBy, watchUsed>>

Idle == [pc |-> "idle", left |-> {}, found |-> {}, full |-> "no", devs |-> [h \in {} |-> ""]]
Turn == watchUsed.turns < MaxTurns /\ watchUsed' = [watchUsed EXCEPT !.turns = @ + 1]
Nothing == [h \in Hosts |-> "none"]

Init ==
    /\ lan = {} /\ watch = "off" /\ devices = [h \in Hosts |-> "absent"] /\ register = devices
    /\ sent = Nothing /\ forceFull = "yes" /\ run = Idle /\ seenBy = devices
    /\ watchUsed = [changes |-> 0, turns |-> 0]

LanChanges(h) ==
    /\ watchUsed.changes < MaxChanges /\ watchUsed' = [watchUsed EXCEPT !.changes = @ + 1]
    /\ lan' = IF h \in lan THEN lan \ {h} ELSE lan \cup {h}
    /\ UNCHANGED <<watch, devices, register, sent, forceFull, run, seenBy>>

\* apply
enable ==
    /\ watch = "off" /\ watch' = "on" /\ forceFull' = "yes"
    /\ UNCHANGED <<lan, devices, register, sent, run, seenBy, watchUsed>>

disable ==
    /\ watch = "on" /\ Turn /\ watch' = "off" /\ register' = devices
    /\ UNCHANGED <<lan, devices, sent, forceFull, run, seenBy>>

\* a new process: the register of the disk, all offline, lastFullAt unknown
Restart ==
    /\ Turn /\ run' = Idle /\ sent' = Nothing /\ forceFull' = "yes"
    /\ devices' = [h \in Hosts |-> IF register[h] = "absent" THEN "absent" ELSE "offline"]
    /\ UNCHANGED <<lan, watch, register, seenBy>>

\* run: by the loop or on request, one at a time
startRun ==
    /\ watch = "on" /\ run.pc = "idle" /\ run' = [Idle EXCEPT !.pc = "sweep", !.left = Hosts]
    /\ UNCHANGED <<lan, watch, devices, register, sent, forceFull, seenBy, watchUsed>>

\* the sweep comes by a host
sweep(h) ==
    /\ run.pc = "sweep" /\ h \in run.left
    /\ run' = [run EXCEPT !.left = @ \ {h}, !.found = IF h \in lan THEN @ \cup {h} ELSE @]
    /\ UNCHANGED <<lan, watch, devices, register, sent, forceFull, seenBy, watchUsed>>

All(regs) == {h \in Hosts : regs[h] # "absent"}

\* _report: what is not as it was confirmed
Delta(regs) == {h \in Hosts : regs[h] # "absent" /\ sent[h] # regs[h]}

\* the register after the sweep, less those unseen for long (gone); then the post
swept(gone, full, persist) ==
    LET regs == [h \in Hosts |-> IF h \in run.found THEN "online"
                                 ELSE IF devices[h] = "absent" \/ h \in gone THEN "absent"
                                 ELSE "offline"]
        structural == \E h \in run.found : devices[h] = "absent"
        devs == IF full = "yes" THEN All(regs) ELSE Delta(regs)
    IN  /\ run.pc = "sweep" /\ run.left = {} /\ gone \subseteq Hosts \ run.found
        /\ \A h \in gone : devices[h] = "offline"
        /\ forceFull = "yes" => full = "yes"
        /\ structural => persist
        /\ devices' = regs /\ register' = IF persist THEN regs ELSE register
        /\ run' = [Idle EXCEPT !.pc = "post", !.full = full, !.devs = [h \in devs |-> regs[h]]]
        /\ UNCHANGED <<lan, watch, sent, forceFull, seenBy, watchUsed>>

ServerTakes ==
    /\ run.pc = "post" /\ run' = [run EXCEPT !.pc = "taken"]
    /\ seenBy' = [h \in Hosts |-> IF h \in DOMAIN run.devs THEN run.devs[h]
                                  ELSE IF run.full = "yes" THEN "absent" ELSE seenBy[h]]
    /\ UNCHANGED <<lan, watch, devices, register, sent, forceFull, watchUsed>>

reported ==
    /\ run.pc = "taken" /\ run' = Idle
    /\ sent' = [h \in Hosts |-> IF h \in DOMAIN run.devs THEN devices[h]
                                ELSE IF run.full = "yes" THEN "none" ELSE sent[h]]
    /\ forceFull' = IF run.full = "yes" THEN "no" ELSE forceFull
    /\ UNCHANGED <<lan, watch, devices, register, seenBy, watchUsed>>

reportFails ==
    /\ run.pc \in {"post", "taken"} /\ Turn /\ run' = Idle /\ forceFull' = "yes"
    /\ UNCHANGED <<lan, watch, devices, register, sent, seenBy>>

\* the sweep throws
sweepFails ==
    /\ run.pc = "sweep" /\ Turn /\ run' = Idle
    /\ UNCHANGED <<lan, watch, devices, register, sent, forceFull, seenBy>>

Swept(full) == \E gone \in SUBSET Hosts, persist \in BOOLEAN : swept(gone, full, persist)
Step == startRun \/ ServerTakes \/ reported \/ Swept("yes") \/ Swept("no") \/ \E h \in Hosts : sweep(h)

Next ==
    \/ enable \/ disable \/ Restart \/ Step \/ reportFails \/ sweepFails
    \/ \E h \in Hosts : LanChanges(h)

-----------------------------------------------------------------------------
(* Type invariant of the network watch. *)
TypeOK ==
    /\ lan \subseteq Hosts /\ watch \in {"on", "off"} /\ forceFull \in {"yes", "no"}
    /\ devices \in [Hosts -> {"absent", "online", "offline"}]
    /\ sent \in [Hosts -> {"none", "online", "offline"}]
    /\ run.pc \in {"idle", "sweep", "post", "taken"}

(* What the gateway takes for confirmed is what the server has, unless the *)
(* next report is a full one: a delta is computed against the truth.       *)
SentIsSeen ==
    forceFull = "no" /\ run.pc # "taken"
        => \A h \in Hosts : sent[h] # "none" => seenBy[h] = sent[h]

(* In the end the server's list is the gateway's register, and tells who   *)
(* is in the LAN.                                                          *)
ListConverges ==
    <>[](watch = "on" => \A h \in Hosts : /\ seenBy[h] = devices[h]
                                          /\ (seenBy[h] = "online") <=> (h \in lan))
=============================================================================
