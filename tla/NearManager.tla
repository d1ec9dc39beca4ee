---------------------------- MODULE NearManager ----------------------------
(***************************************************************************)
(* NearManager (near/nearManager.js): brings keepalived and the iptables   *)
(* REDIRECT rules in line with the egress routes that carry a VIP.  apply  *)
(* is called by the 'change' listener and by every heartbeat; it awaits a  *)
(* process after almost every line, and calls may overlap.  The rules live *)
(* in the kernel of the host (host network mode) and survive the process.  *)
(*                                                                         *)
(* A configuration is the set of its redirects; the keepalived conf and    *)
(* the signature are determined by it.  _activeRedirects is a Map object   *)
(* [obj, keys]: a loop keeps the object it started on, apply replaces it.  *)
(***************************************************************************)
EXTENDS Naturals, FiniteSets

CONSTANTS
    Redirects,    \* `vip:445->port` keys
    Calls,        \* bound: applies that overlap
    None,
    MaxChanges,   \* bound: configuration changes
    MaxDeaths,    \* bound: how often keepalived dies
    MaxRestarts   \* bound: gateway restarts

VARIABLES
    store,      \* the configured redirects
    active,     \* _activeRedirects
    lastSig,    \* _lastSig
    call,       \* per overlapping apply
    rules,      \* REDIRECT rules in the kernel: how often each is there
    daemon,     \* keepalived: None, or the configuration it runs with
    confFile,   \* keepalived.conf on disk
    used

vars == <<store, active, lastSig, call, rules, daemon, confFile, used>>
system == <<store, active, lastSig, rules, daemon, confFile, used>>

Idle == [pc |-> "idle", cfg |-> {}, todo |-> {}, obj |-> 0, run |-> FALSE,
         missing |-> None]

Init ==
    /\ store = {} /\ active = [obj |-> 0, keys |-> {}] /\ lastSig = None
    /\ call = [c \in Calls |-> Idle]
    /\ rules = [k \in Redirects |-> 0] /\ daemon = None /\ confFile = {}
    /\ used = [changes |-> 0, deaths |-> 0, restarts |-> 0]

Go(c, pc, todo) == [call EXCEPT ![c].pc = pc, ![c].todo = todo, ![c].obj = active.obj]

\* an object no loop runs on
FreshObj == CHOOSE o \in 0..Cardinality(Calls) + 1 :
                o # active.obj /\ \A c \in Calls : call[c].obj # o

\* apply up to its first await, `pgrep keepalived`
Apply(c, cfg) ==
    /\ call[c].pc = "idle"
    /\ call' = [call EXCEPT ![c] = [Idle EXCEPT !.pc = "probe", !.cfg = cfg]]

ConfigChange(c, cfg) ==
    /\ used.changes < MaxChanges /\ cfg # store
    /\ used' = [used EXCEPT !.changes = @ + 1] /\ store' = cfg
    /\ Apply(c, cfg)
    /\ UNCHANGED <<active, lastSig, rules, daemon, confFile>>

Heartbeat(c) == Apply(c, store) /\ UNCHANGED system

\* the churn guard
Unchanged(cfg, run) == cfg = lastSig /\ run

\* pgrep returned: stop everything, re-ensure only, or write and (re)load
Probed(c) ==
    LET run == daemon # None
        cfg == call[c].cfg
    IN  /\ call[c].pc = "probe"
        /\ call' = [Go(c, IF cfg = {} THEN IF run THEN "pkill" ELSE "clear"
                          ELSE IF Unchanged(cfg, run) THEN "reensure" ELSE "write",
                       active.keys) EXCEPT ![c].run = run]
        /\ UNCHANGED system

Killed(c) ==
    /\ call[c].pc = "pkill" /\ daemon' = None
    /\ call' = Go(c, "clear", active.keys)
    /\ UNCHANGED <<store, active, lastSig, rules, confFile, used>>

\* iptables -D of one rule
_delRedirect(c) ==
    /\ call[c].pc \in {"clear", "delete"}
    /\ \E k \in call[c].todo :
          /\ rules' = [rules EXCEPT ![k] = IF @ = 0 THEN 0 ELSE @ - 1]
          /\ call' = [call EXCEPT ![c].todo = @ \ {k}]
    /\ UNCHANGED <<store, active, lastSig, daemon, confFile, used>>

\* end of the "no routes" branch: clear() empties the current Map object, also
\* under the feet of loops that run on it
Cleared(c) ==
    /\ call[c].pc = "clear" /\ call[c].todo = {}
    /\ active' = [active EXCEPT !.keys = {}]
    /\ lastSig' = call[c].cfg
    /\ call' = [d \in Calls |->
          IF d = c THEN Idle
          ELSE IF call[d].obj = active.obj /\ call[d].pc \in {"clear", "reensure", "delete"}
          THEN [call[d] EXCEPT !.todo = {}] ELSE call[d]]
    /\ UNCHANGED <<store, rules, daemon, confFile, used>>

\* the four file operations
Written(c) ==
    /\ call[c].pc = "write" /\ confFile' = call[c].cfg
    /\ call' = [call EXCEPT ![c].pc = "load"]
    /\ UNCHANGED <<store, active, lastSig, rules, daemon, used>>

\* keepalived is started, or told to reload
Loaded(c) ==
    /\ call[c].pc = "load"
    /\ daemon' = IF call[c].run = (daemon # None) THEN confFile ELSE daemon
    /\ call' = Go(c, "ensure", call[c].cfg \ active.keys)
    /\ UNCHANGED <<store, active, lastSig, rules, confFile, used>>

\* iptables -C of one redirect
_ensureRedirect(c) ==
    /\ call[c].pc \in {"ensure", "ensureAll", "reensure"} /\ call[c].missing = None
    /\ \E k \in call[c].todo :
          call' = [call EXCEPT ![c].todo = @ \ {k},
                               ![c].missing = IF rules[k] = 0 THEN k ELSE None]
    /\ UNCHANGED system

\* ... and -A when it was missing
Appended(c) ==
    /\ call[c].missing # None
    /\ rules' = [rules EXCEPT ![call[c].missing] = @ + 1]
    /\ call' = [call EXCEPT ![c].missing = None]
    /\ UNCHANGED <<store, active, lastSig, daemon, confFile, used>>

\* the loops follow one another
NextLoop(c) ==
    /\ call[c].todo = {} /\ call[c].missing = None
    /\ \/ /\ call[c].pc = "ensure"
          /\ call' = Go(c, "delete", active.keys \ call[c].cfg)
       \/ call[c].pc = "delete" /\ call' = Go(c, "ensureAll", call[c].cfg)
       \/ call[c].pc = "reensure" /\ call' = [call EXCEPT ![c] = Idle]
    /\ UNCHANGED system

Applied(c) ==
    /\ call[c].pc = "ensureAll" /\ call[c].todo = {} /\ call[c].missing = None
    /\ active' = [obj |-> FreshObj, keys |-> call[c].cfg]
    /\ lastSig' = call[c].cfg /\ call' = [call EXCEPT ![c] = Idle]
    /\ UNCHANGED <<store, rules, daemon, confFile, used>>

-----------------------------------------------------------------------------
KeepalivedDies ==
    /\ daemon # None /\ used.deaths < MaxDeaths
    /\ used' = [used EXCEPT !.deaths = @ + 1] /\ daemon' = None
    /\ UNCHANGED <<store, active, lastSig, call, rules, confFile>>

\* the container is recreated: keepalived and the memory go, the rules stay
Restart ==
    /\ used.restarts < MaxRestarts
    /\ used' = [used EXCEPT !.restarts = @ + 1]
    /\ daemon' = None /\ confFile' = {} /\ store' = {}
    /\ active' = [obj |-> 0, keys |-> {}] /\ lastSig' = None
    /\ call' = [c \in Calls |-> Idle] /\ UNCHANGED rules

Step(c) ==
    \/ Probed(c) \/ Killed(c) \/ _delRedirect(c) \/ Cleared(c) \/ Written(c)
    \/ Loaded(c) \/ _ensureRedirect(c) \/ Appended(c) \/ NextLoop(c) \/ Applied(c)

Next ==
    \/ \E c \in Calls : \/ \E cfg \in SUBSET Redirects : ConfigChange(c, cfg)
                        \/ Heartbeat(c) \/ Step(c)
    \/ KeepalivedDies \/ Restart

Spec == Init /\ [][Next]_vars

(* Processes that are awaited end (they have a timeout), and heartbeats    *)
(* keep coming.                                                            *)
Fairness == \A c \in Calls : WF_vars(Step(c)) /\ SF_vars(Heartbeat(c))
FairSpec == Spec /\ Fairness

-----------------------------------------------------------------------------
Quiet == \A c \in Calls : call[c].pc = "idle"
Ruled == {k \in Redirects : rules[k] > 0}

(* Type invariant of the manager and the host. *)
TypeOK ==
    /\ store \subseteq Redirects /\ active.keys \subseteq Redirects
    /\ lastSig = None \/ lastSig \subseteq Redirects
    /\ daemon = None \/ daemon \subseteq Redirects
    /\ confFile \subseteq Redirects
    /\ rules \in [Redirects -> 0..Cardinality(Calls)]
    /\ \A c \in Calls : call[c].todo \subseteq Redirects

(* The manager knows its rules: in a gateway that has not restarted, when  *)
(* no apply runs every REDIRECT in the kernel is one of _activeRedirects,  *)
(* so a later apply can remove it.                                         *)
RulesAreKnown == Quiet /\ used.restarts = 0 => Ruled \subseteq active.keys

(* The heartbeat converges: keepalived runs the configuration (or is       *)
(* stopped) and its redirects are in the kernel, also after keepalived     *)
(* died or the gateway restarted; without a restart there are no others.   *)
VipServed ==
    <>[](/\ store \subseteq Ruled
         /\ daemon = IF store = {} THEN None ELSE store
         /\ used.restarts = 0 => Ruled \subseteq store)
=============================================================================
