------------------------------ MODULE EdgeHost ------------------------------
(***************************************************************************)
(* The edge host (edge/host.js): it brings the plugin processes in line    *)
(* with the desired state of the server, the packages on disk and the      *)
(* network fence.  reconcile() runs one at a time and awaits downloads and *)
(* stopping processes; state messages, fence checks, crashes, the gateway  *)
(* socket coming back and the shutdown happen meanwhile.                   *)
(*                                                                         *)
(* reconcile is at rec.pc: mqtt (awaits the broker), drop (stops what is   *)
(* not wanted), ensure (goes through the wanted plugins), download, or     *)
(* stop (awaits stopProcess, with what follows it in rec.then).            *)
(***************************************************************************)
EXTENDS Naturals, FiniteSets, TLAPS

-----------------------------------------------------------------------------
(* One process object of the edge host (edge/pluginProcess.js) as a        *)
(* record; the operators are what its methods and child events do to it.   *)
(*   plugin, ver - this.spec                                               *)
(*   st          - this.state                                              *)
(*   wanted      - this.wanted                                             *)
(*   child       - none; up (forked, not ready); ready; hung (answers      *)
(*                 nothing); failed: the fork failed asynchronously, Node  *)
(*                 reports an error and no exit                            *)
(* EdgeHost makes an object, starts it once and stops it once.             *)

Alive(r) == r.child # "none"

\* a slot no object uses
NoProcess(p) == [plugin |-> p, ver |-> 0, st |-> "stopped", wanted |-> "no",
                 child |-> "none"]

\* spawn: the package is the working directory of the child
spawn(r, packaged) ==
    [r EXCEPT !.st = "starting", !.child = IF packaged THEN "up" ELSE "failed"]

\* start() of a new object
start(p, v, packaged) ==
    spawn([NoProcess(p) EXCEPT !.ver = v, !.wanted = "yes"], packaged)

\* onMessage 'ready', whatever the state
onReady(r) == [r EXCEPT !.st = "running", !.child = "ready"]

\* mutant: a process that was stopped is restarted like a crashed one
onExitRestarts(r) == [r EXCEPT !.child = "none", !.st = "crashed", !.wanted = "yes"]

\* onExit; a crashed process has its restart timer running
onExit(r) == [r EXCEPT !.child = "none",
                       !.st = IF r.wanted = "yes" THEN "crashed" ELSE "stopped"]

\* stop: the restart timer is cleared, the child is asked to end
stop(r) == [r EXCEPT !.wanted = "no",
                     !.st = IF r.child = "none" THEN "stopped" ELSE "stopping"]

ProcessRecord(Plugins, Versions) ==
    [plugin : Plugins, ver : Versions \cup {0}, wanted : {"yes", "no"},
     st : {"starting", "running", "crashed", "stopping", "stopped"},
     child : {"none", "up", "ready", "hung", "failed"}]

-----------------------------------------------------------------------------
CONSTANTS
    Plugins, Versions,
    Rejected,       \* versions whose package, caps or signature is refused
    Slots,          \* process objects
    MaxStates,      \* bound: state messages
    MaxFences,      \* bound: changes of the network fence
    MaxCrashes,     \* bound: crashes and hangs of children
    MaxFaults,      \* bound: failing downloads
    MaxReopens,     \* bound: times the gateway socket comes back
    MaxLate,        \* bound: children that get ready after they were told to stop
    MaxStops        \* bound: shutdowns

\* 0 stands for no version and no process
ASSUME PluginsNotEmpty == Plugins # {}
ASSUME ZeroIsNone == 0 \notin Versions /\ 0 \notin Slots

VARIABLES
    desired,   \* this.desired: [ver: version per plugin, 0 = off; listed]
    fence,     \* this.fence.active
    wall,      \* whether the fence really stands
    was,       \* the tick under way: this.fence.active at its start, or none
    entry,     \* this.plugins
    proc,      \* the process objects
    disk,      \* installed package versions, per plugin
    rec,       \* the reconcile under way
    again,     \* this.again
    rpc,       \* the onRpcOpen under way
    stopped,   \* this.stopped: no, yes, exit (the host process is gone)
    used

vars == <<desired, fence, wall, was, entry, proc, disk, rec, again, rpc, stopped, used>>

None == "none"
NoEntry == [proc |-> 0, wanted |-> "no", denied |-> "no", spec |-> 0, version |-> 0,
            retry |-> "no"]
Idle == [pc |-> "idle", ver |-> [p \in Plugins |-> 0], listed |-> {}, todo |-> {},
         at |-> {}, slot |-> 0, then |-> None]
RpcIdle == [pc |-> "idle", todo |-> {}, slot |-> 0]

Init ==
    /\ desired = [ver |-> [p \in Plugins |-> 0], listed |-> {}]
    /\ fence = "down" /\ wall = "down" /\ was = None
    /\ entry = [p \in Plugins |-> NoEntry]
    /\ proc = [s \in Slots |-> NoProcess(CHOOSE p \in Plugins : TRUE)]
    /\ disk = [p \in Plugins |-> {}]
    /\ rec = Idle /\ again = "no" /\ rpc = RpcIdle /\ stopped = "no"
    /\ used = [states |-> 0, fences |-> 0, crashes |-> 0, faults |-> 0,
               reopens |-> 0, late |-> 0, stops |-> 0]

Use(f, max) == used[f] < max /\ used' = [used EXCEPT ![f] = @ + 1]
Running == stopped # "exit"
Gone(s) == s \in Slots => ~Alive(proc[s])

-----------------------------------------------------------------------------
(* The processes.                                                          *)

\* stopProcess up to its await: e.proc is null before the child has ended
stopProcess(p, flags) ==
    /\ proc' = [s \in Slots |-> IF s = entry[p].proc THEN stop(proc[s]) ELSE proc[s]]
    /\ entry' = [entry EXCEPT ![p] = [flags EXCEPT !.proc = 0]]

\* startProcess; s is a new object
startProcess(p, v, flags, packages) ==
    \E s \in Slots :
        /\ ~Alive(proc[s]) /\ proc[s].wanted = "no" /\ s # rpc.slot
        /\ proc' = [proc EXCEPT ![s] = start(p, v, v \in packages[p])]
        /\ entry' = [entry EXCEPT ![p] = [flags EXCEPT !.proc = s, !.spec = v]]

Exit(s) == proc' = [proc EXCEPT ![s] = onExit(@)]

\* 'ready': the state changes, and the packages of other versions are deleted
ChildReady(s) ==
    /\ Running /\ proc[s].child = "up"
    /\ \/ proc[s].wanted = "yes" /\ UNCHANGED used
       \/ proc[s].wanted = "no" /\ Use("late", MaxLate)
    /\ proc' = [proc EXCEPT ![s] = onReady(@)]
    /\ disk' = [disk EXCEPT ![proc[s].plugin] = @ \cap {entry[proc[s].plugin].spec}]
    /\ UNCHANGED <<desired, fence, wall, was, entry, rec, again, rpc, stopped>>

ChildCrashes(s) ==
    /\ Running /\ proc[s].child \in {"up", "ready"}
    /\ Use("crashes", MaxCrashes)
    /\ \/ Exit(s)
       \/ proc' = [proc EXCEPT ![s].child = "hung"]
    /\ UNCHANGED <<desired, fence, wall, was, entry, disk, rec, again, rpc, stopped>>

\* mutant: stop() does not set its timer
KilledUnlessStopping(s) ==
    /\ Running /\ proc[s].child = "hung" /\ proc[s].st \in {"starting", "running"}
    /\ Exit(s)
    /\ UNCHANGED <<desired, fence, wall, was, entry, disk, rec, again, rpc, stopped, used>>

\* the ready timer, the missing pong or the timer of stop() kills the child
Killed(s) ==
    /\ Running /\ proc[s].child = "hung" /\ Exit(s)
    /\ UNCHANGED <<desired, fence, wall, was, entry, disk, rec, again, rpc, stopped, used>>

\* the child ends as it was told
ChildStops(s) ==
    /\ Running /\ proc[s].child \in {"up", "ready"} /\ proc[s].wanted = "no"
    /\ Exit(s)
    /\ UNCHANGED <<desired, fence, wall, was, entry, disk, rec, again, rpc, stopped, used>>

\* the restart timer
Restarted(s) ==
    /\ Running /\ proc[s].st = "crashed" /\ proc[s].wanted = "yes"
    /\ proc' = [proc EXCEPT ![s] = spawn(@, proc[s].ver \in disk[proc[s].plugin])]
    /\ UNCHANGED <<desired, fence, wall, was, entry, disk, rec, again, rpc, stopped, used>>

-----------------------------------------------------------------------------
(* reconcile                                                               *)

\* reconcile() up to its first await, for the desired state d
Begun(d) == [Idle EXCEPT !.pc = "mqtt", !.ver = d.ver, !.listed = d.listed]

requestReconcile(d) ==
    IF rec.pc = "idle" THEN rec' = Begun(d) /\ again' = "no"
    ELSE again' = "yes" /\ UNCHANGED rec

Wanted == {p \in Plugins : rec.ver[p] # 0}

\* the broker is configured; the plugins are gone through
MqttApplied ==
    /\ Running /\ rec.pc = "mqtt"
    /\ rec' = [rec EXCEPT !.pc = "drop", !.todo = Plugins \ Wanted]
    /\ UNCHANGED <<desired, fence, wall, was, entry, proc, disk, again, rpc, stopped, used>>

\* a plugin that is not wanted any more is stopped
Drop ==
    /\ Running /\ rec.pc = "drop" /\ rec.at = {}
    /\ \E p \in rec.todo :
          /\ stopProcess(p, [entry[p] EXCEPT !.wanted = "no"])
          /\ rec' = [rec EXCEPT !.todo = @ \ {p}, !.at = {p}, !.slot = entry[p].proc]
    /\ UNCHANGED <<desired, fence, wall, was, disk, again, rpc, stopped, used>>

\* ... and its process has ended
Dropped ==
    /\ Running /\ rec.pc = "drop" /\ rec.at # {} /\ Gone(rec.slot)
    /\ entry' = [p \in Plugins |-> IF p \in rec.at THEN [entry[p] EXCEPT !.denied = "no"]
                                    ELSE entry[p]]
    /\ rec' = [rec EXCEPT !.at = {}, !.slot = 0]
    /\ UNCHANGED <<desired, fence, wall, was, proc, disk, again, rpc, stopped, used>>

\* packages of plugins that are not listed are deleted
Pruned ==
    /\ Running /\ rec.pc = "drop" /\ rec.at = {} /\ rec.todo = {}
    /\ disk' = [p \in Plugins |-> IF p \in rec.listed THEN disk[p] ELSE {}]
    /\ rec' = [rec EXCEPT !.pc = "ensure", !.todo = Wanted]
    /\ UNCHANGED <<desired, fence, wall, was, entry, proc, again, rpc, stopped, used>>

\* mutant: the process is left to its own devices
StopThenLeaves(p, flags, then) ==
    /\ entry' = [entry EXCEPT ![p] = flags] /\ UNCHANGED proc
    /\ rec' = [rec EXCEPT !.pc = "stop", !.at = {p}, !.slot = 0, !.then = then]

\* ensurePlugin awaits stopProcess, then goes on with `then`
StopThen(p, flags, then) ==
    /\ stopProcess(p, flags)
    /\ rec' = [rec EXCEPT !.pc = "stop", !.at = {p}, !.slot = entry[p].proc, !.then = then]

NextPlugin(p) == [rec EXCEPT !.pc = "ensure", !.todo = @ \ {p}, !.at = {}, !.slot = 0,
                             !.then = None]

\* ensurePlugin once the package is there: refused, fenced off, restarted for
\* another version, left alone, or started
Installed(p, e, packages) ==
    LET v == rec.ver[p]
        has == e.proc # 0
        flags == [e EXCEPT !.version = v]
    IN  \/ v \in Rejected /\ StopThen(p, e, "deny")
        \/ v \notin Rejected /\ fence = "down" /\ StopThen(p, flags, "fence")
        \/ v \notin Rejected /\ fence = "up" /\
              \/ has /\ entry[p].spec # v /\ StopThen(p, flags, "start")
              \/ has /\ entry[p].spec = v /\ rec' = NextPlugin(p)
                     /\ entry' = [entry EXCEPT ![p] = flags] /\ UNCHANGED proc
              \/ ~has /\ startProcess(p, v, flags, packages) /\ rec' = NextPlugin(p)

\* ensurePlugin up to its first await; a failed download is not repeated before
\* its time
ensurePlugin ==
    /\ Running /\ rec.pc = "ensure" /\ stopped = "no"
    /\ \E p \in rec.todo :
          LET flags == [entry[p] EXCEPT !.wanted = "yes", !.denied = "no"] IN
          \/ rec.ver[p] \in disk[p] /\ Installed(p, flags, disk)
          \/ /\ rec.ver[p] \notin disk[p] 
             /\ entry[p].retry = "yes" /\ entry[p].version = rec.ver[p]
             /\ entry' = [entry EXCEPT ![p] = flags] /\ rec' = NextPlugin(p) /\ UNCHANGED proc
          \/ /\ rec.ver[p] \notin disk[p]
             /\ entry' = [entry EXCEPT ![p] = flags] /\ UNCHANGED proc
             /\ rec' = [rec EXCEPT !.pc = "download", !.at = {p}]
    /\ UNCHANGED <<desired, fence, wall, was, disk, again, rpc, stopped, used>>

\* the package arrived and was unpacked, or was refused
Downloaded ==
    /\ Running /\ rec.pc = "download"
    /\ \E p \in rec.at :
          LET v == rec.ver[p]
              e == [entry[p] EXCEPT !.version = v]
              got == [disk EXCEPT ![p] = @ \cup {v}]
          IN  \/ v \in Rejected /\ StopThen(p, e, "deny") /\ UNCHANGED disk
              \/ /\ v \notin Rejected /\ disk' = got
                 /\ Installed(p, [e EXCEPT !.retry = "no"], got)
    /\ UNCHANGED <<desired, fence, wall, was, again, rpc, stopped, used>>

\* the download failed: e.retryAt is set, a running process goes on
DownloadFails ==
    /\ Running /\ rec.pc = "download" /\ Use("faults", MaxFaults)
    /\ \E p \in rec.at : /\ entry' = [entry EXCEPT ![p] = [@ EXCEPT !.retry = "yes", !.version = rec.ver[p]]]
                         /\ rec' = NextPlugin(p)
    /\ UNCHANGED <<desired, fence, wall, was, proc, disk, again, rpc, stopped>>

\* stopProcess returned: the plugin is denied, or its new version starts
StopAwaited ==
    /\ Running /\ rec.pc = "stop" /\ Gone(rec.slot)
    /\ \E p \in rec.at :
          /\ rec' = NextPlugin(p)
          /\ \/ rec.then = "deny" /\ entry' = [entry EXCEPT ![p].denied = "yes"] /\ UNCHANGED proc
             \/ /\ rec.then = "fence" /\ UNCHANGED proc
                /\ entry' = [entry EXCEPT ![p].denied = "yes", ![p].spec = rec.ver[p]]
             \/ rec.then = "start" /\ startProcess(p, rec.ver[p], entry[p], disk)
    /\ UNCHANGED <<desired, fence, wall, was, disk, again, rpc, stopped, used>>

\* mutant: every entry without a process goes
ReconciledForgets ==
    /\ Running /\ rec.pc = "ensure" /\ (rec.todo = {} \/ stopped = "yes")
    /\ entry' = [p \in {q \in Plugins : entry[q].proc # 0} |-> entry[p]]
    /\ rec' = IF again = "yes" /\ stopped = "no" THEN Begun(desired) ELSE Idle
    /\ again' = IF stopped = "no" THEN "no" ELSE again
    /\ UNCHANGED <<desired, fence, wall, was, proc, disk, rpc, stopped, used>>

\* the end of reconcile: entries nobody needs go; on to the next one if it was
\* requested meanwhile (e.spec of a dropped entry is kept: nothing reads it)
Reconciled ==
    /\ Running /\ rec.pc = "ensure" /\ (rec.todo = {} \/ stopped = "yes")
    /\ entry' = [p \in Plugins |->
          IF rec.todo = {} /\ entry[p].wanted = "no" /\ entry[p].proc = 0 /\ p \notin rec.listed
          THEN [NoEntry EXCEPT !.spec = entry[p].spec] ELSE entry[p]]
    /\ rec' = IF again = "yes" /\ stopped = "no" THEN Begun(desired) ELSE Idle
    /\ again' = IF stopped = "no" THEN "no" ELSE again
    /\ UNCHANGED <<desired, fence, wall, was, proc, disk, rpc, stopped, used>>

-----------------------------------------------------------------------------
(* What asks for a reconcile.                                              *)

\* the server sends its desired state
onState ==
    /\ stopped = "no" /\ Use("states", MaxStates)
    /\ \E ver \in [Plugins -> Versions \cup {0}], off \in SUBSET Plugins :
          desired' = [ver |-> ver, listed |-> {p \in Plugins : ver[p] # 0} \cup off]
    /\ desired' # desired
    /\ requestReconcile(desired')
    /\ UNCHANGED <<fence, wall, was, entry, proc, disk, rpc, stopped>>

\* tick: a check begins ...
tick ==
    /\ stopped = "no" /\ was = None
    /\ fence # wall \/ \E p \in Plugins : entry[p].retry = "yes"
    /\ was' = fence
    /\ UNCHANGED <<desired, fence, wall, entry, proc, disk, rec, again, rpc, stopped, used>>

\* ... and ends: a change, or a retry that is due, asks for a reconcile
Ticked ==
    /\ Running /\ was # None /\ was' = None
    /\ fence' = wall
    /\ \/ was # fence' /\ requestReconcile(desired)
       \/ (\E p \in Plugins : entry[p].retry = "yes") /\ requestReconcile(desired)
       \/ was = fence' /\ UNCHANGED <<rec, again>>                  \* not due yet
    /\ UNCHANGED <<desired, wall, entry, proc, disk, rpc, stopped, used>>

FenceChanges ==
    /\ Running /\ Use("fences", MaxFences)
    /\ wall' = IF wall = "up" THEN "down" ELSE "up"
    /\ UNCHANGED <<desired, fence, was, entry, proc, disk, rec, again, rpc, stopped>>

\* onRpcOpen after an interruption: all that runs is stopped, one by one
onRpcOpen ==
    /\ Running /\ rpc.pc = "idle" /\ Use("reopens", MaxReopens)
    /\ LET running == {p \in Plugins : entry[p].proc # 0} IN
       /\ running # {} /\ rpc' = [pc |-> "next", todo |-> running, slot |-> 0]
    /\ UNCHANGED <<desired, fence, wall, was, entry, proc, disk, rec, again, stopped>>

RpcStops ==
    /\ Running /\ rpc.pc = "next" /\ Gone(rpc.slot)
    /\ \E p \in rpc.todo :
          /\ stopProcess(p, entry[p])
          /\ rpc' = [pc |-> "next", todo |-> rpc.todo \ {p}, slot |-> entry[p].proc]
    /\ UNCHANGED <<desired, fence, wall, was, disk, rec, again, stopped, used>>

\* ... and reconcile starts them again
RpcStopped ==
    /\ Running /\ rpc.pc = "next" /\ Gone(rpc.slot) /\ rpc.todo = {}
    /\ rpc' = RpcIdle /\ requestReconcile(desired)
    /\ UNCHANGED <<desired, fence, wall, was, entry, proc, disk, stopped, used>>

\* stop(): every process is told to stop
stopHost ==
    /\ stopped = "no" /\ Use("stops", MaxStops) /\ stopped' = "yes"
    /\ proc' = [s \in Slots |-> IF \E p \in Plugins : entry[p].proc = s
                                THEN stop(proc[s]) ELSE proc[s]]
    /\ entry' = [p \in Plugins |-> [entry[p] EXCEPT !.proc = 0]]
    /\ UNCHANGED <<desired, fence, wall, was, disk, rec, again, rpc>>

\* ... then the host process exits, and a child that is left with it
HostExits ==
    /\ stopped = "yes" /\ \A s \in Slots : Alive(proc[s]) => proc[s].wanted = "yes"
    /\ stopped' = "exit" /\ rec' = Idle /\ rpc' = RpcIdle /\ was' = None
    /\ proc' = [s \in Slots |-> [proc[s] EXCEPT !.child = "none", !.st = "stopped",
                                                !.wanted = "no"]]
    /\ entry' = [p \in Plugins |-> NoEntry]
    /\ UNCHANGED <<desired, fence, wall, disk, again, used>>

Reconcile == \/ MqttApplied \/ Drop \/ Dropped \/ Pruned \/ ensurePlugin \/ Downloaded
             \/ StopAwaited \/ Reconciled
Child(s) == ChildReady(s) \/ Killed(s) \/ ChildStops(s) \/ Restarted(s)
Rpc == RpcStops \/ RpcStopped

Next ==
    \/ Reconcile \/ DownloadFails \/ Rpc \/ onRpcOpen
    \/ \E s \in Slots : Child(s) \/ ChildCrashes(s)
    \/ onState \/ tick \/ Ticked \/ FenceChanges \/ stopHost \/ HostExits

Spec == Init /\ [][Next]_vars

(* Awaited calls return, timers fire, a child gets ready or ends, and a    *)
(* retry that is waited for becomes due.                                   *)
Fairness ==
    /\ WF_vars(Reconcile) /\ WF_vars(Rpc) /\ WF_vars(tick) /\ WF_vars(HostExits)
    /\ SF_vars(Ticked /\ rec' # rec) /\ WF_vars(Ticked)
    /\ SF_vars(Reconcile /\ rec'.pc = "download")
    /\ \A s \in Slots : WF_vars(Child(s))

FairSpec == Spec /\ Fairness

-----------------------------------------------------------------------------
(* Type invariant of the host. *)
TypeOK ==
    /\ desired \in [ver : [Plugins -> Versions \cup {0}], listed : SUBSET Plugins]
    /\ fence \in {"up", "down"} /\ wall \in {"up", "down"} /\ was \in {"up", "down", None}
    /\ entry \in [Plugins -> [proc : Slots \cup {0}, wanted : {"yes", "no"},
                              denied : {"yes", "no"}, spec : Versions \cup {0},
                              version : Versions \cup {0}, retry : {"yes", "no"}]]
    /\ proc \in [Slots -> ProcessRecord(Plugins, Versions)]
    /\ disk \in [Plugins -> SUBSET Versions]
    /\ rec.pc \in {"idle", "mqtt", "drop", "ensure", "download", "stop"}
    /\ again \in {"yes", "no"} /\ stopped \in {"no", "yes", "exit"}

(* No process is lost: one that would be restarted after a crash is the    *)
(* one its plugin's entry knows, so that stopProcess reaches it, whatever  *)
(* reconcile, the gateway socket and stop() do meanwhile.                  *)
NoStrayProcess ==
    \A s \in Slots : proc[s].wanted = "yes" => entry[proc[s].plugin].proc = s

(* A plugin that was denied (package, signature or fence) has no process   *)
(* left.                                                                   *)
DeniedIsStopped == \A p \in Plugins : entry[p].denied = "yes" => entry[p].proc = 0

Should(p) == fence = "up" /\ desired.ver[p] \in Versions \ Rejected

(* In the end the processes are what is desired: a wanted plugin behind a  *)
(* standing fence runs in its desired version, as one process, and nothing *)
(* else runs, whatever crashed, hung or failed to download before.         *)
Settles ==
    <>[](stopped # "no" \/ \A p \in Plugins :
            /\ Should(p) => \E s \in Slots :
                  entry[p].proc = s /\ proc[s].child = "ready" /\ proc[s].ver = desired.ver[p]
            /\ \A s \in Slots : Alive(proc[s]) /\ proc[s].plugin = p =>
                  Should(p) /\ entry[p].proc = s)

(* docs/edge.md: when the fence falls, all edge parts stop.  Once the      *)
(* host knows and its reconcile is through, no plugin is kept running.     *)
FenceDownStops ==
    fence = "down" /\ rec.pc = "idle" /\ stopped = "no"
        => \A p \in Plugins : entry[p].proc = 0

(* host.js deletes "alte Versionen erst nach erfolgreichem Start": the     *)
(* package a process is started from is still there.  Not so with MaxLate  *)
(* > 0: a late 'ready' of the old process prunes the new package.          *)
StartsFromPackage == \A s \in Slots : proc[s].child # "failed"

-----------------------------------------------------------------------------
(* The inductive invariant: reconcile works on plugins that it wants, the  *)
(* one it is at has no denial yet and, once stopProcess was called, no     *)
(* process, and an entry's process is one that is wanted, of its plugin.   *)

Entries == [proc : Slots \cup {0}, wanted : {"yes", "no"}, denied : {"yes", "no"},
            spec : Versions \cup {0}, version : Versions \cup {0}, retry : {"yes", "no"}]
Processes == ProcessRecord(Plugins, Versions)
Recs == [pc : {"idle", "mqtt", "drop", "ensure", "download", "stop"},
         ver : [Plugins -> Versions \cup {0}], listed : SUBSET Plugins,
         todo : SUBSET Plugins, at : SUBSET Plugins, slot : Slots \cup {0},
         then : {None, "deny", "fence", "start"}]
Rpcs == [pc : {"idle", "next"}, todo : SUBSET Plugins, slot : Slots \cup {0}]

RecOf(r, e) ==
    /\ r.pc \in {"ensure", "download", "stop"} => \A p \in r.todo \cup r.at : r.ver[p] # 0
    /\ r.pc \in {"download", "stop"} => \A p \in r.at : e[p].denied = "no"
    /\ r.pc = "stop" => \A p \in r.at : e[p].proc = 0

Known(e, q) == \A p \in Plugins : e[p].proc # 0 => q[e[p].proc].plugin = p /\ q[e[p].proc].wanted = "yes"

HostInv ==
    /\ TypeOK /\ rec \in Recs /\ rpc \in Rpcs
    /\ RecOf(rec, entry) /\ Known(entry, proc) /\ NoStrayProcess /\ DeniedIsStopped

\* what is said about entries and processes
EntriesAgree ==
    /\ entry \in [Plugins -> Entries] /\ proc \in [Slots -> Processes]
    /\ Known(entry, proc) /\ NoStrayProcess /\ DeniedIsStopped

\* the provers that a step names no other for
USE SMTT(30), Z3T(30), Zenon

LEMMA HostParts ==
  ASSUME HostInv
  PROVE  /\ desired \in [ver : [Plugins -> Versions \cup {0}], listed : SUBSET Plugins]
         /\ fence \in {"up", "down"} /\ wall \in {"up", "down"} /\ was \in {"up", "down", None}
         /\ disk \in [Plugins -> SUBSET Versions] /\ rec \in Recs /\ rpc \in Rpcs
         /\ again \in {"yes", "no"} /\ stopped \in {"no", "yes", "exit"}
         /\ RecOf(rec, entry) /\ EntriesAgree
  BY DEF HostInv, TypeOK, EntriesAgree, Entries, Processes

LEMMA HostWhole ==
  ASSUME desired' \in [ver : [Plugins -> Versions \cup {0}], listed : SUBSET Plugins],
         fence' \in {"up", "down"}, wall' \in {"up", "down"}, was' \in {"up", "down", None},
         disk' \in [Plugins -> SUBSET Versions], rec' \in Recs, rpc' \in Rpcs,
         again' \in {"yes", "no"}, stopped' \in {"no", "yes", "exit"},
         RecOf(rec', entry'), EntriesAgree'
  PROVE  HostInv'
  BY DEF HostInv, TypeOK, EntriesAgree, Entries, Processes, Recs

LEMMA HostInit == Init => HostInv
<1> SUFFICES ASSUME Init PROVE HostInv
  OBVIOUS
<1>1. PICK p \in Plugins : proc = [s \in Slots |-> NoProcess(p)]
  BY Zenon, PluginsNotEmpty DEF Init
<1>2. NoProcess(p) \in Processes /\ NoProcess(p).wanted = "no"
  BY DEF NoProcess, Processes, ProcessRecord
<1>3. NoEntry \in Entries /\ NoEntry.proc = 0 /\ NoEntry.denied = "no"
  BY DEF NoEntry, Entries
<1>4. entry = [q \in Plugins |-> NoEntry]
  BY DEF Init
<1>5. EntriesAgree
  BY <1>1, <1>2, <1>3, <1>4 DEF EntriesAgree, Known, NoStrayProcess, DeniedIsStopped
<1>6. rec \in Recs /\ rpc \in Rpcs /\ RecOf(rec, entry)
  BY DEF Init, Idle, RpcIdle, Recs, Rpcs, RecOf, None
<1> QED  BY <1>5, <1>6 DEF Init, HostInv, TypeOK, EntriesAgree, Entries, Processes, Recs

\* stopProcess
LEMMA StopKeeps ==
  ASSUME EntriesAgree, NEW p \in Plugins, NEW flags \in Entries, stopProcess(p, flags)
  PROVE  /\ EntriesAgree' /\ \A q \in Plugins : q # p => entry'[q] = entry[q]
         /\ entry'[p].proc = 0 /\ entry'[p].denied = flags.denied
<1>0. /\ entry \in [Plugins -> Entries] /\ proc \in [Slots -> Processes]
      /\ Known(entry, proc) /\ NoStrayProcess /\ DeniedIsStopped
  BY DEF EntriesAgree
<1>e. PICK e : e = [flags EXCEPT !.proc = 0]
  BY Zenon
<1>1. e \in Entries /\ e.proc = 0 /\ e.denied = flags.denied
  BY <1>e DEF Entries
<1>2. entry' = [entry EXCEPT ![p] = e]
  BY <1>e DEF stopProcess
<1>3. \A q \in Plugins : entry'[q] = IF q = p THEN e ELSE entry[q]
  BY <1>0, <1>2
<1>4. entry' \in [Plugins -> Entries]
  BY <1>0, <1>1, <1>2
<1>5. \A s \in Slots : proc'[s] = IF s = entry[p].proc THEN stop(proc[s]) ELSE proc[s]
  BY DEF stopProcess
<1>6. \A s \in Slots : stop(proc[s]) \in Processes /\ stop(proc[s]).plugin = proc[s].plugin
                       /\ stop(proc[s]).wanted = "no"
  BY Zenon, <1>0 DEF stop, Processes, ProcessRecord
<1>7. proc' \in [Slots -> Processes]
  BY <1>0, <1>6 DEF stopProcess
<1>8. Known(entry', proc')
  <2> SUFFICES ASSUME NEW q \in Plugins, entry'[q].proc # 0
               PROVE  proc'[entry'[q].proc].plugin = q /\ proc'[entry'[q].proc].wanted = "yes"
    BY DEF Known
  <2>1. q # p /\ entry'[q] = entry[q]
    BY <1>1, <1>3
  <2>2. entry[q].proc \in Slots /\ proc[entry[q].proc].plugin = q /\ proc[entry[q].proc].wanted = "yes"
    BY <1>0, <2>1 DEF Known, Entries
  <2>3. entry[q].proc # entry[p].proc
    BY <1>0, <2>1, <2>2 DEF Known
  <2> QED  BY <1>5, <2>1, <2>2, <2>3
<1>9. NoStrayProcess'
  <2> SUFFICES ASSUME NEW s \in Slots, proc'[s].wanted = "yes" PROVE entry'[proc'[s].plugin].proc = s
    BY DEF NoStrayProcess
  <2>1. s # entry[p].proc /\ proc'[s] = proc[s]
    BY <1>5, <1>6
  <2>2. entry[proc[s].plugin].proc = s /\ proc[s].plugin \in Plugins
    BY <1>0, <2>1 DEF NoStrayProcess, Processes, ProcessRecord
  <2> QED  BY <1>3, <2>1, <2>2
<1>10. DeniedIsStopped'
  BY <1>0, <1>1, <1>3 DEF DeniedIsStopped
<1> QED  BY <1>1, <1>3, <1>4, <1>7, <1>8, <1>9, <1>10 DEF EntriesAgree

\* startProcess, for a plugin that has no process
LEMMA StartKeeps ==
  ASSUME EntriesAgree, NEW p \in Plugins, NEW v \in Versions \cup {0}, NEW packages,
         NEW flags \in Entries, flags.denied = "no", entry[p].proc = 0,
         startProcess(p, v, flags, packages)
  PROVE  /\ EntriesAgree' /\ \A q \in Plugins : q # p => entry'[q] = entry[q]
         /\ entry'[p].denied = "no"
<1>0. /\ entry \in [Plugins -> Entries] /\ proc \in [Slots -> Processes]
      /\ Known(entry, proc) /\ NoStrayProcess /\ DeniedIsStopped
  BY DEF EntriesAgree
<1>1. PICK s \in Slots : /\ proc[s].wanted = "no"
                         /\ proc' = [proc EXCEPT ![s] = start(p, v, v \in packages[p])]
                         /\ entry' = [entry EXCEPT ![p] = [flags EXCEPT !.proc = s, !.spec = v]]
  BY DEF startProcess
<1>e. PICK e : e = [flags EXCEPT !.proc = s, !.spec = v]
  OBVIOUS
<1>2. e \in Entries /\ e.proc = s /\ e.denied = "no"
  BY Zenon, <1>e DEF Entries
<1>r. PICK r : r = start(p, v, v \in packages[p])
  OBVIOUS
<1>3. r \in Processes /\ r.plugin = p /\ r.wanted = "yes"
  BY Zenon, <1>r DEF start, spawn, NoProcess, Processes, ProcessRecord
<1>4. /\ entry' \in [Plugins -> Entries] /\ proc' \in [Slots -> Processes]
      /\ \A q \in Plugins : entry'[q] = IF q = p THEN e ELSE entry[q]
      /\ \A t \in Slots : proc'[t] = IF t = s THEN r ELSE proc[t]
  BY <1>0, <1>1, <1>2, <1>3, <1>e, <1>r
<1>5. Known(entry', proc')
  <2> SUFFICES ASSUME NEW q \in Plugins, entry'[q].proc # 0
               PROVE  proc'[entry'[q].proc].plugin = q /\ proc'[entry'[q].proc].wanted = "yes"
    BY DEF Known
  <2>1. CASE q = p
    BY <1>2, <1>3, <1>4, <2>1
  <2>2. CASE q # p
    <3>1. entry'[q] = entry[q] /\ entry[q].proc \in Slots
          /\ proc[entry[q].proc].plugin = q /\ proc[entry[q].proc].wanted = "yes"
      BY <1>0, <1>4, <2>2 DEF Known, Entries
    <3> QED  BY Zenon, <1>1, <1>4, <3>1
  <2> QED  BY <2>1, <2>2
<1>6. NoStrayProcess'
  <2> SUFFICES ASSUME NEW t \in Slots, proc'[t].wanted = "yes" PROVE entry'[proc'[t].plugin].proc = t
    BY DEF NoStrayProcess
  <2>1. CASE t = s
    BY <1>2, <1>3, <1>4, <2>1
  <2>2. CASE t # s
    <3>1. proc'[t] = proc[t] /\ entry[proc[t].plugin].proc = t /\ proc[t].plugin \in Plugins
      BY <1>0, <1>4, <2>2 DEF NoStrayProcess, Processes, ProcessRecord
    <3> QED  BY <1>4, <3>1, ZeroIsNone
  <2> QED  BY <2>1, <2>2
<1>7. DeniedIsStopped'
  BY <1>0, <1>2, <1>4 DEF DeniedIsStopped
<1> QED  BY <1>2, <1>4, <1>5, <1>6, <1>7 DEF EntriesAgree

\* only flags of an entry change
LEMMA FlagsKeep ==
  ASSUME EntriesAgree, UNCHANGED proc, entry' \in [Plugins -> Entries],
         \A q \in Plugins : entry'[q].proc = entry[q].proc,
         \A q \in Plugins : entry'[q].denied = "yes" => entry'[q].proc = 0
  PROVE  EntriesAgree'
  BY DEF EntriesAgree, Known, NoStrayProcess, DeniedIsStopped, Processes, ProcessRecord

\* a process changes, but not what is wanted of it
LEMMA ProcessKeeps ==
  ASSUME EntriesAgree, UNCHANGED entry, NEW s \in Slots, NEW r \in Processes,
         r.plugin = proc[s].plugin, r.wanted = proc[s].wanted, proc' = [proc EXCEPT ![s] = r]
  PROVE  EntriesAgree'
<1>0. /\ entry \in [Plugins -> Entries] /\ proc \in [Slots -> Processes]
      /\ Known(entry, proc) /\ NoStrayProcess /\ DeniedIsStopped
  BY DEF EntriesAgree
<1>1. /\ proc' \in [Slots -> Processes]
      /\ \A t \in Slots : proc'[t].plugin = proc[t].plugin /\ proc'[t].wanted = proc[t].wanted
  BY <1>0
<1>2. Known(entry', proc')
  BY <1>0, <1>1 DEF Known, Entries
<1>3. NoStrayProcess' /\ DeniedIsStopped'
  BY <1>0, <1>1 DEF NoStrayProcess, DeniedIsStopped
<1> QED  BY <1>0, <1>1, <1>2, <1>3 DEF EntriesAgree

\* a child's step: its process object changes, packages may go
LEMMA ChildKeeps ==
  ASSUME HostInv, NEW s \in Slots, Child(s) \/ ChildCrashes(s)
  PROVE  HostInv'
<1>1. UNCHANGED <<desired, fence, wall, was, entry, rec, again, rpc, stopped>>
  BY DEF Child, ChildReady, ChildCrashes, Killed, ChildStops, Restarted
<1>2. proc[s] \in Processes
  BY HostParts DEF EntriesAgree
<1>3. PICK r : /\ proc' = [proc EXCEPT ![s] = r]
               /\ \/ r = onReady(proc[s]) \/ r = onExit(proc[s]) \/ r = [proc[s] EXCEPT !.child = "hung"]
                  \/ r = spawn(proc[s], proc[s].ver \in disk[proc[s].plugin])
  BY DEF Child, ChildReady, ChildCrashes, Killed, ChildStops, Restarted, Exit
<1>4. r \in Processes /\ r.plugin = proc[s].plugin /\ r.wanted = proc[s].wanted
  BY Zenon, <1>2, <1>3 DEF onReady, onExit, spawn, Processes, ProcessRecord
<1>5. EntriesAgree'
  BY Zenon, <1>1, <1>3, <1>4, HostParts, ProcessKeeps
<1>6. disk' \in [Plugins -> SUBSET Versions]
  BY HostParts DEF Child, ChildReady, ChildCrashes, Killed, ChildStops, Restarted
<1> QED  BY <1>1, <1>5, <1>6, HostParts, HostWhole

\* a reconcile that begins has nothing to do yet
LEMMA BegunType ==
  ASSUME NEW d \in [ver : [Plugins -> Versions \cup {0}], listed : SUBSET Plugins], NEW e
  PROVE  Begun(d) \in Recs /\ RecOf(Begun(d), e) /\ Idle \in Recs /\ RecOf(Idle, e)
  BY Zenon DEF Begun, Idle, Recs, RecOf, None

LEMMA RequestKeeps ==
  ASSUME HostInv, NEW d \in [ver : [Plugins -> Versions \cup {0}], listed : SUBSET Plugins],
         requestReconcile(d)
  PROVE  rec' \in Recs /\ RecOf(rec', entry) /\ again' \in {"yes", "no"}
  BY HostParts, BegunType DEF requestReconcile

\* the steps that only ask for a reconcile
LEMMA AsksKeep ==
  ASSUME HostInv, onState \/ tick \/ Ticked \/ FenceChanges \/ RpcStopped \/ onRpcOpen
  PROVE  HostInv'
<1>1. UNCHANGED <<entry, proc, disk, stopped>>
  BY DEF onState, tick, Ticked, FenceChanges, RpcStopped, onRpcOpen
<1>2. desired' \in [ver : [Plugins -> Versions \cup {0}], listed : SUBSET Plugins]
  BY HostParts DEF onState, tick, Ticked, FenceChanges, RpcStopped, onRpcOpen
<1>3. fence' \in {"up", "down"} /\ wall' \in {"up", "down"} /\ was' \in {"up", "down", None}
  BY HostParts DEF onState, tick, Ticked, FenceChanges, RpcStopped, onRpcOpen
<1>4. rec' \in Recs /\ RecOf(rec', entry) /\ again' \in {"yes", "no"}
  <2>1. requestReconcile(desired') \/ UNCHANGED <<rec, again>>
    BY DEF onState, tick, Ticked, FenceChanges, RpcStopped, onRpcOpen
  <2> QED  BY <1>2, <2>1, HostParts, RequestKeeps
<1>5. rpc' \in Rpcs
  BY HostParts DEF onState, tick, Ticked, FenceChanges, RpcStopped, onRpcOpen, Rpcs, RpcIdle
<1>6. EntriesAgree'
  BY <1>1, HostParts DEF EntriesAgree, Known, NoStrayProcess, DeniedIsStopped
<1> QED  BY <1>1, <1>2, <1>3, <1>4, <1>5, <1>6, HostParts, HostWhole

LEMMA RpcStopsKeeps ==
  ASSUME HostInv, RpcStops
  PROVE  HostInv'
<1>1. PICK p \in rpc.todo : /\ stopProcess(p, entry[p])
                            /\ rpc' = [pc |-> "next", todo |-> rpc.todo \ {p}, slot |-> entry[p].proc]
  BY Zenon DEF RpcStops
<1>2. UNCHANGED <<desired, fence, wall, was, disk, rec, again, stopped>>
  BY DEF RpcStops
<1>3. p \in Plugins /\ entry[p] \in Entries /\ entry[p].proc \in Slots \cup {0}
  BY <1>1, HostParts DEF Rpcs, EntriesAgree, Entries
<1>4. /\ EntriesAgree' /\ \A q \in Plugins : q # p => entry'[q] = entry[q]
      /\ entry'[p].proc = 0 /\ entry'[p].denied = entry[p].denied
  BY <1>1, <1>3, HostParts, StopKeeps
<1>5. RecOf(rec', entry')
  BY <1>2, <1>4, HostParts DEF RecOf, Recs
<1>6. rpc' \in Rpcs
  BY <1>1, <1>3, HostParts DEF Rpcs
<1> QED  BY <1>2, <1>4, <1>5, <1>6, HostParts, HostWhole

LEMMA StopHostKeeps ==
  ASSUME HostInv, stopHost
  PROVE  HostInv'
<1>0. /\ entry \in [Plugins -> Entries] /\ proc \in [Slots -> Processes]
      /\ Known(entry, proc) /\ NoStrayProcess /\ DeniedIsStopped
  BY HostParts DEF EntriesAgree
<1>1. /\ UNCHANGED <<desired, fence, wall, was, disk, rec, again, rpc>> /\ stopped' = "yes"
      /\ entry' = [p \in Plugins |-> [entry[p] EXCEPT !.proc = 0]]
      /\ proc' = [s \in Slots |-> IF \E p \in Plugins : entry[p].proc = s THEN stop(proc[s]) ELSE proc[s]]
  BY DEF stopHost
<1>2. \A p \in Plugins : /\ entry'[p] \in Entries /\ entry'[p].proc = 0
                         /\ entry'[p].denied = entry[p].denied
  BY Zenon, <1>0, <1>1 DEF Entries
<1>3. \A s \in Slots : stop(proc[s]) \in Processes /\ stop(proc[s]).wanted = "no"
  BY Zenon, <1>0 DEF stop, Processes, ProcessRecord
<1>4. \A s \in Slots : proc'[s].wanted # "yes"
  BY <1>0, <1>1, <1>3 DEF NoStrayProcess, Processes, ProcessRecord
<1>5. entry' \in [Plugins -> Entries] /\ proc' \in [Slots -> Processes]
  BY <1>0, <1>1, <1>2, <1>3
<1>6. EntriesAgree'
  BY <1>2, <1>4, <1>5 DEF EntriesAgree, Known, NoStrayProcess, DeniedIsStopped
<1>7. RecOf(rec', entry')
  BY <1>1, <1>2, HostParts DEF RecOf, Recs
<1> QED  BY <1>1, <1>6, <1>7, HostParts, HostWhole

LEMMA HostExitsKeeps ==
  ASSUME HostInv, HostExits
  PROVE  HostInv'
<1>1. /\ UNCHANGED <<desired, fence, wall, disk, again>> /\ stopped' = "exit"
      /\ rec' = Idle /\ rpc' = RpcIdle /\ was' = None
      /\ proc' = [s \in Slots |-> [proc[s] EXCEPT !.child = "none", !.st = "stopped", !.wanted = "no"]]
      /\ entry' = [p \in Plugins |-> NoEntry]
  BY Zenon DEF HostExits
<1>2. NoEntry \in Entries /\ NoEntry.proc = 0 /\ NoEntry.denied = "no"
  BY DEF NoEntry, Entries
<1>3. proc \in [Slots -> Processes]
  BY HostParts DEF EntriesAgree
<1>4. \A s \in Slots : proc'[s] \in Processes /\ proc'[s].wanted = "no"
  BY Zenon, <1>1, <1>3 DEF Processes, ProcessRecord
<1>5. EntriesAgree'
  BY Zenon, <1>1, <1>2, <1>4 DEF EntriesAgree, Known, NoStrayProcess, DeniedIsStopped
<1>6. rec' \in Recs /\ RecOf(rec', entry')
  BY Zenon, <1>1, HostParts, BegunType
<1>7. rpc' \in Rpcs
  BY Zenon, <1>1 DEF Rpcs, RpcIdle
<1> QED  BY Zenon, <1>1, <1>5, <1>6, <1>7, HostParts, HostWhole

LEMMA NextPluginType ==
  ASSUME HostInv, NEW p, NEW e, \A q \in rec.todo : rec.ver[q] # 0
  PROVE  NextPlugin(p) \in Recs /\ RecOf(NextPlugin(p), e)
<1>1. NextPlugin(p) \in Recs
  BY Zenon, HostParts DEF NextPlugin, Recs, None
<1>2. RecOf(NextPlugin(p), e)
  BY HostParts DEF NextPlugin, Recs, RecOf
<1> QED  BY <1>1, <1>2

LEMMA StopThenKeeps ==
  ASSUME HostInv, NEW p \in Plugins, NEW flags \in Entries, flags.denied = "no",
         NEW then \in {"deny", "fence", "start"}, \A q \in rec.todo \cup {p} : rec.ver[q] # 0,
         StopThen(p, flags, then)
  PROVE  rec' \in Recs /\ RecOf(rec', entry') /\ EntriesAgree'
<1>1. /\ stopProcess(p, flags)
      /\ rec' = [rec EXCEPT !.pc = "stop", !.at = {p}, !.slot = entry[p].proc, !.then = then]
  BY DEF StopThen
<1>2. EntriesAgree' /\ entry'[p].proc = 0 /\ entry'[p].denied = "no"
  BY <1>1, HostParts, StopKeeps
<1>3. entry[p].proc \in Slots \cup {0}
  BY HostParts DEF EntriesAgree, Entries
<1>4. /\ rec' \in Recs /\ rec'.pc = "stop" /\ rec'.at = {p} /\ rec'.todo = rec.todo /\ rec'.ver = rec.ver
  BY Zenon, <1>1, <1>3, HostParts DEF Recs
<1>5. RecOf(rec', entry')
  BY <1>2, <1>4 DEF RecOf
<1> QED  BY <1>2, <1>4, <1>5

LEMMA InstalledKeeps ==
  ASSUME HostInv, NEW p \in Plugins, NEW e \in Entries, e.denied = "no", e.proc = entry[p].proc,
         NEW packages, \A q \in rec.todo \cup {p} : rec.ver[q] # 0, Installed(p, e, packages)
  PROVE  rec' \in Recs /\ RecOf(rec', entry') /\ EntriesAgree'
<1>1. rec.ver[p] \in Versions \cup {0} /\ entry \in [Plugins -> Entries]
  BY HostParts DEF Recs, EntriesAgree
<1>2. PICK flags : flags = [e EXCEPT !.version = rec.ver[p]]
  BY Zenon
<1>3. flags \in Entries /\ flags.denied = "no" /\ flags.proc = entry[p].proc
  BY <1>1, <1>2 DEF Entries
<1>4. CASE StopThen(p, e, "deny") \/ StopThen(p, flags, "fence") \/ StopThen(p, flags, "start")
  BY <1>3, <1>4, StopThenKeeps
<1>5. CASE rec' = NextPlugin(p) /\ entry' = [entry EXCEPT ![p] = flags] /\ UNCHANGED proc
  <2>1. /\ entry' \in [Plugins -> Entries] /\ \A q \in Plugins : entry'[q].proc = entry[q].proc
        /\ \A q \in Plugins : entry'[q].denied = "yes" => entry'[q].proc = 0
    BY <1>1, <1>3, <1>5, HostParts DEF EntriesAgree, DeniedIsStopped
  <2>2. EntriesAgree'
    BY <1>5, <2>1, HostParts, FlagsKeep
  <2> QED  BY <1>5, <2>2, NextPluginType
<1>6. CASE flags.proc = 0 /\ startProcess(p, rec.ver[p], flags, packages) /\ rec' = NextPlugin(p)
  <2>1. EntriesAgree'
    BY Zenon, <1>1, <1>3, <1>6, HostParts, StartKeeps
  <2> QED  BY <1>6, <2>1, NextPluginType
<1> QED  BY <1>2, <1>3, <1>4, <1>5, <1>6 DEF Installed

LEMMA EnsurePluginKeeps ==
  ASSUME HostInv, ensurePlugin
  PROVE  HostInv'
<1>1. UNCHANGED <<desired, fence, wall, was, disk, again, rpc, stopped>> /\ rec.pc = "ensure"
  BY DEF ensurePlugin
<1>2. PICK p \in rec.todo :
         LET flags == [entry[p] EXCEPT !.wanted = "yes", !.denied = "no"] IN
          \/ Installed(p, flags, disk)
          \/ entry' = [entry EXCEPT ![p] = flags] /\ UNCHANGED proc
             /\ rec' \in {NextPlugin(p), [rec EXCEPT !.pc = "download", !.at = {p}]}
  BY Zenon DEF ensurePlugin
<1>3. p \in Plugins /\ \A q \in rec.todo \cup {p} : rec.ver[q] # 0
  BY <1>1, HostParts DEF RecOf, Recs
<1>4. entry \in [Plugins -> Entries]
  BY HostParts DEF EntriesAgree
<1>5. PICK flags : flags = [entry[p] EXCEPT !.wanted = "yes", !.denied = "no"]
  OBVIOUS
<1>6. flags \in Entries /\ flags.denied = "no" /\ flags.proc = entry[p].proc
  BY Zenon, <1>3, <1>4, <1>5 DEF Entries
<1>7. rec' \in Recs /\ RecOf(rec', entry') /\ EntriesAgree'
  <2>1. CASE Installed(p, flags, disk)
    BY <1>3, <1>6, <2>1, InstalledKeeps
  <2>2. CASE /\ entry' = [entry EXCEPT ![p] = flags] /\ UNCHANGED proc
             /\ rec' \in {NextPlugin(p), [rec EXCEPT !.pc = "download", !.at = {p}]}
    <3>1. /\ entry' \in [Plugins -> Entries] /\ \A q \in Plugins : entry'[q].proc = entry[q].proc
          /\ \A q \in Plugins : entry'[q].denied = "yes" => entry'[q].proc = 0
          /\ entry'[p].denied = "no"
      BY <1>3, <1>4, <1>6, <2>2, HostParts DEF EntriesAgree, DeniedIsStopped
    <3>2. EntriesAgree'
      BY <2>2, <3>1, HostParts, FlagsKeep
    <3>3. CASE rec' = NextPlugin(p)
      BY <1>3, <3>2, <3>3, NextPluginType
    <3>4. CASE rec' = [rec EXCEPT !.pc = "download", !.at = {p}]
      <4>1. /\ rec' \in Recs /\ rec'.pc = "download" /\ rec'.at = {p} /\ rec'.todo = rec.todo
            /\ rec'.ver = rec.ver
        BY Zenon, <1>3, <3>4, HostParts DEF Recs
      <4>2. RecOf(rec', entry')
        BY <1>3, <3>1, <4>1 DEF RecOf
      <4> QED  BY <3>2, <4>1, <4>2
    <3> QED  BY <2>2, <3>3, <3>4
  <2> QED  BY <1>2, <1>5, <2>1, <2>2
<1> QED  BY <1>1, <1>7, HostParts, HostWhole

LEMMA DownloadedKeeps ==
  ASSUME HostInv, Downloaded
  PROVE  HostInv'
<1>1. UNCHANGED <<desired, fence, wall, was, again, rpc, stopped>> /\ rec.pc = "download"
  BY DEF Downloaded
<1> DEFINE e(p) == [entry[p] EXCEPT !.version = rec.ver[p]]
           f(p) == [e(p) EXCEPT !.retry = "no"]
           got(p) == [disk EXCEPT ![p] = @ \cup {rec.ver[p]}]
<1>2. PICK p \in rec.at : \/ StopThen(p, e(p), "deny") /\ UNCHANGED disk
                          \/ disk' = got(p) /\ Installed(p, f(p), got(p))
  BY Zenon DEF Downloaded
<1>3. /\ p \in Plugins /\ \A q \in rec.todo \cup {p} : rec.ver[q] # 0
      /\ entry[p].denied = "no" /\ rec.ver[p] \in Versions
  BY <1>1, HostParts DEF RecOf, Recs
<1>4. entry[p] \in Entries
  BY <1>3, HostParts DEF EntriesAgree
<1>5. e(p) \in Entries /\ e(p).denied = "no" /\ e(p).proc = entry[p].proc
  BY <1>3, <1>4 DEF Entries
<1>6. f(p) \in Entries /\ f(p).denied = "no" /\ f(p).proc = entry[p].proc
  <2> HIDE DEF e
  <2> QED  BY <1>5 DEF Entries
<1>7. got(p) \in [Plugins -> SUBSET Versions]
  BY <1>3, HostParts
<1>8. rec' \in Recs /\ RecOf(rec', entry') /\ EntriesAgree'
  <2> HIDE DEF e, f, got
  <2> QED  BY <1>2, <1>3, <1>5, <1>6, StopThenKeeps, InstalledKeeps
<1>9. disk' \in [Plugins -> SUBSET Versions]
  BY <1>2, <1>7, HostParts
<1> QED  BY <1>1, <1>8, <1>9, HostParts, HostWhole

LEMMA DownloadFailsKeeps ==
  ASSUME HostInv, DownloadFails
  PROVE  HostInv'
<1>1. UNCHANGED <<desired, fence, wall, was, proc, disk, again, rpc, stopped>> /\ rec.pc = "download"
  BY DEF DownloadFails
<1>2. PICK p \in rec.at : /\ entry' = [entry EXCEPT ![p] = [@ EXCEPT !.retry = "yes", !.version = rec.ver[p]]]
                          /\ rec' = NextPlugin(p)
  BY DEF DownloadFails
<1>3. /\ p \in Plugins /\ \A q \in rec.todo : rec.ver[q] # 0
      /\ rec.ver[p] \in Versions \cup {0} /\ entry \in [Plugins -> Entries]
  BY <1>1, HostParts DEF RecOf, Recs, EntriesAgree
<1>4. \A q \in Plugins : /\ entry'[q] \in Entries /\ entry'[q].proc = entry[q].proc
                         /\ entry'[q].denied = entry[q].denied
  <2>1. entry'[p] = [entry[p] EXCEPT !.retry = "yes", !.version = rec.ver[p]]
    BY <1>2, <1>3
  <2>2. \A q \in Plugins : q # p => entry'[q] = entry[q]
    BY <1>2, <1>3
  <2>3. entry'[p] \in Entries /\ entry'[p].proc = entry[p].proc /\ entry'[p].denied = entry[p].denied
    <3>1. PICK e \in Entries : e = entry[p]
      BY <1>3
    <3>2. PICK v \in Versions \cup {0} : v = rec.ver[p]
      BY <1>3
    <3>3. entry'[p] = [e EXCEPT !.retry = "yes", !.version = v]
      BY <2>1, <3>1, <3>2
    <3> QED  BY Zenon, <3>1, <3>3 DEF Entries
  <2> QED  BY <1>3, <2>2, <2>3
<1>5. entry' \in [Plugins -> Entries]
  BY <1>2, <1>3, <1>4
<1>6. EntriesAgree'
  BY <1>1, <1>4, <1>5, HostParts, FlagsKeep DEF EntriesAgree, DeniedIsStopped
<1> QED  BY <1>1, <1>2, <1>3, <1>6, NextPluginType, HostParts, HostWhole

LEMMA StopAwaitedKeeps ==
  ASSUME HostInv, StopAwaited
  PROVE  HostInv'
<1>1. UNCHANGED <<desired, fence, wall, was, disk, again, rpc, stopped>> /\ rec.pc = "stop"
  BY DEF StopAwaited
<1>2. PICK p \in rec.at :
         /\ rec' = NextPlugin(p)
         /\ \/ entry' = [entry EXCEPT ![p].denied = "yes"] /\ UNCHANGED proc
            \/ entry' = [entry EXCEPT ![p].denied = "yes", ![p].spec = rec.ver[p]] /\ UNCHANGED proc
            \/ startProcess(p, rec.ver[p], entry[p], disk)
  BY DEF StopAwaited
<1>3. /\ p \in Plugins /\ \A q \in rec.todo : rec.ver[q] # 0
      /\ rec.ver[p] \in Versions \cup {0} /\ entry \in [Plugins -> Entries]
      /\ entry[p].denied = "no" /\ entry[p].proc = 0
  BY <1>1, HostParts DEF RecOf, Recs, EntriesAgree
<1>4. EntriesAgree'
  <2>1. CASE startProcess(p, rec.ver[p], entry[p], disk)
    BY Zenon, <1>3, <2>1, HostParts, StartKeeps
  <2>2. CASE /\ \/ entry' = [entry EXCEPT ![p].denied = "yes"]
                \/ entry' = [entry EXCEPT ![p].denied = "yes", ![p].spec = rec.ver[p]]
             /\ UNCHANGED proc
    <3>1. \A q \in Plugins : /\ entry'[q] \in Entries /\ entry'[q].proc = entry[q].proc
                             /\ q # p => entry'[q] = entry[q]
      BY <1>3, <2>2 DEF Entries
    <3>2. entry' \in [Plugins -> Entries]
      BY <1>3, <2>2, <3>1
    <3>3. \A q \in Plugins : entry'[q].denied = "yes" => entry'[q].proc = 0
      BY <1>3, <3>1, HostParts DEF EntriesAgree, DeniedIsStopped
    <3> QED  BY <2>2, <3>1, <3>2, <3>3, HostParts, FlagsKeep
  <2> QED  BY <1>2, <2>1, <2>2
<1> QED  BY <1>1, <1>2, <1>3, <1>4, NextPluginType, HostParts, HostWhole

\* the steps of reconcile before it goes through the wanted plugins
LEMMA DropKeeps ==
  ASSUME HostInv, MqttApplied \/ Drop \/ Dropped \/ Pruned
  PROVE  HostInv'
<1>1. UNCHANGED <<desired, fence, wall, was, again, rpc, stopped>>
  BY Zenon DEF MqttApplied, Drop, Dropped, Pruned
<1>2. entry \in [Plugins -> Entries]
  BY HostParts DEF EntriesAgree
<1>3. CASE MqttApplied
  <2>1. UNCHANGED <<entry, proc, disk>> /\ rec' = [rec EXCEPT !.pc = "drop", !.todo = Plugins \ Wanted]
    BY <1>3 DEF MqttApplied
  <2>2. rec' \in Recs /\ RecOf(rec', entry')
    BY Zenon, <2>1, HostParts DEF Recs, RecOf
  <2>3. EntriesAgree'
    BY <2>1, HostParts DEF EntriesAgree, Known, NoStrayProcess, DeniedIsStopped
  <2> QED  BY <1>1, <2>1, <2>2, <2>3, HostParts, HostWhole
<1>4. CASE Drop
  <2>1. PICK p \in rec.todo :
           /\ stopProcess(p, [entry[p] EXCEPT !.wanted = "no"])
           /\ rec' = [rec EXCEPT !.todo = @ \ {p}, !.at = {p}, !.slot = entry[p].proc]
    BY Zenon, <1>4 DEF Drop
  <2>2. p \in Plugins /\ rec.pc = "drop" /\ UNCHANGED disk
    BY Zenon, <1>4, HostParts DEF Drop, Recs
  <2>3. [entry[p] EXCEPT !.wanted = "no"] \in Entries /\ entry[p].proc \in Slots \cup {0}
    BY <1>2, <2>2 DEF Entries
  <2>4. EntriesAgree'
    BY <2>1, <2>2, <2>3, HostParts, StopKeeps
  <2>5. rec' \in Recs /\ RecOf(rec', entry')
    BY Zenon, <2>1, <2>2, <2>3, HostParts DEF Recs, RecOf
  <2> QED  BY <1>1, <2>2, <2>4, <2>5, HostParts, HostWhole
<1>5. CASE Dropped
  <2>1. /\ entry' = [p \in Plugins |-> IF p \in rec.at THEN [entry[p] EXCEPT !.denied = "no"] ELSE entry[p]]
        /\ rec' = [rec EXCEPT !.at = {}, !.slot = 0] /\ rec.pc = "drop" /\ UNCHANGED <<proc, disk>>
    BY <1>5 DEF Dropped
  <2>2. \A q \in Plugins : /\ entry'[q] \in Entries /\ entry'[q].proc = entry[q].proc
                           /\ entry'[q].denied \in {entry[q].denied, "no"}
    BY <1>2, <2>1 DEF Entries
  <2>3. entry' \in [Plugins -> Entries]
    BY <2>1, <2>2
  <2>4. EntriesAgree'
    BY <2>1, <2>2, <2>3, HostParts, FlagsKeep DEF EntriesAgree, DeniedIsStopped
  <2>5. rec' \in Recs /\ RecOf(rec', entry')
    BY Zenon, <2>1, HostParts DEF Recs, RecOf
  <2> QED  BY <1>1, <2>1, <2>4, <2>5, HostParts, HostWhole
<1>6. CASE Pruned
  <2>1. /\ disk' = [p \in Plugins |-> IF p \in rec.listed THEN disk[p] ELSE {}]
        /\ rec' = [rec EXCEPT !.pc = "ensure", !.todo = Wanted] /\ rec.at = {}
        /\ UNCHANGED <<entry, proc>>
    BY <1>6 DEF Pruned
  <2>2. disk' \in [Plugins -> SUBSET Versions]
    BY <2>1, HostParts
  <2>3. /\ rec' \in Recs /\ rec'.pc = "ensure" /\ rec'.todo = Wanted /\ rec'.at = {} /\ rec'.ver = rec.ver
    BY Zenon, <2>1, HostParts DEF Recs, Wanted
  <2>4. RecOf(rec', entry')
    BY <2>3 DEF RecOf, Wanted
  <2>5. EntriesAgree'
    BY <2>1, HostParts DEF EntriesAgree, Known, NoStrayProcess, DeniedIsStopped
  <2> QED  BY <1>1, <2>2, <2>3, <2>4, <2>5, HostParts, HostWhole
<1> QED  BY <1>3, <1>4, <1>5, <1>6

LEMMA ReconciledKeeps ==
  ASSUME HostInv, Reconciled
  PROVE  HostInv'
<1>1. /\ UNCHANGED <<desired, fence, wall, was, proc, disk, rpc, stopped>>
      /\ rec' = Begun(desired) \/ rec' = Idle
      /\ entry' = [p \in Plugins |->
            IF rec.todo = {} /\ entry[p].wanted = "no" /\ entry[p].proc = 0 /\ p \notin rec.listed
            THEN [NoEntry EXCEPT !.spec = entry[p].spec] ELSE entry[p]]
  BY DEF Reconciled
<1>2. again' \in {"yes", "no"}
  BY HostParts DEF Reconciled
<1>3. entry \in [Plugins -> Entries]
  BY HostParts DEF EntriesAgree
<1>4. \A q \in Plugins : /\ entry'[q] \in Entries /\ entry'[q].proc = entry[q].proc
                         /\ entry'[q].denied \in {entry[q].denied, "no"}
  BY <1>1, <1>3 DEF Entries, NoEntry
<1>5. entry' \in [Plugins -> Entries]
  BY <1>1, <1>4
<1>6. EntriesAgree'
  BY <1>1, <1>4, <1>5, HostParts, FlagsKeep DEF EntriesAgree, DeniedIsStopped
<1>7. rec' \in Recs /\ RecOf(rec', entry')
  BY <1>1, HostParts, BegunType
<1> QED  BY <1>1, <1>2, <1>6, <1>7, HostParts, HostWhole

LEMMA HostAlways == Spec => []HostInv
<1>1. HostInv /\ [Next]_vars => HostInv'
  <2> SUFFICES ASSUME HostInv, [Next]_vars PROVE HostInv'
    OBVIOUS
  <2>1. CASE Reconcile \/ DownloadFails
    BY <2>1, DropKeeps, EnsurePluginKeeps, DownloadedKeeps, DownloadFailsKeeps, StopAwaitedKeeps,
       ReconciledKeeps DEF Reconcile
  <2>2. CASE Rpc \/ onRpcOpen \/ onState \/ tick \/ Ticked \/ FenceChanges
    BY <2>2, RpcStopsKeeps, AsksKeep DEF Rpc
  <2>3. CASE \E s \in Slots : Child(s) \/ ChildCrashes(s)
    BY <2>3, ChildKeeps
  <2>4. CASE stopHost \/ HostExits
    BY <2>4, StopHostKeeps, HostExitsKeeps
  <2>5. CASE UNCHANGED vars
    <3>1. UNCHANGED <<desired, fence, wall, was, entry, proc, disk, rec, again, rpc, stopped>>
      BY <2>5 DEF vars
    <3>2. EntriesAgree'
      BY <3>1, HostParts DEF EntriesAgree, Known, NoStrayProcess, DeniedIsStopped
    <3> QED  BY <3>1, <3>2, HostParts, HostWhole
  <2> QED  BY <2>1, <2>2, <2>3, <2>4, <2>5 DEF Next
<1> QED  BY <1>1, HostInit, PTL DEF Spec

(* The types of the host's state, for every number of plugins, versions    *)
(* and process objects (edge/host.js).                                     *)
THEOREM HostTypes == FairSpec => []TypeOK
<1>1. HostInv => TypeOK
  BY DEF HostInv
<1> QED  BY <1>1, HostAlways, PTL DEF FairSpec

(* No process is lost to the host: one that would be restarted after a     *)
(* crash is the one its plugin's entry knows, although stopProcess clears  *)
(* e.proc before the child has ended, and reconcile, onRpcOpen and stop()  *)
(* interleave at their awaits (edge/host.js).                              *)
THEOREM ProcessesAreKnown == FairSpec => []NoStrayProcess
<1>1. HostInv => NoStrayProcess
  BY DEF HostInv
<1> QED  BY <1>1, HostAlways, PTL DEF FairSpec

(* A plugin that ensurePlugin denied, for its package, its signature or    *)
(* the fence, has no process (edge/host.js ensurePlugin, stopProcess).     *)
THEOREM DeniedHasNoProcess == FairSpec => []DeniedIsStopped
<1>1. HostInv => DeniedIsStopped
  BY DEF HostInv
<1> QED  BY <1>1, HostAlways, PTL DEF FairSpec
=============================================================================
