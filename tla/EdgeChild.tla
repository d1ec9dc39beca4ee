----------------------------- MODULE EdgeChild -----------------------------
(***************************************************************************)
(* The two sides of a plugin process: EdgeProcess in the edge host         *)
(* (edge/pluginProcess.js) and the start file of the child                 *)
(* (edge/child/bootstrap.js).  The child asks the host (gc.lan, gc.mqtt,   *)
(* gc.store), the server asks the child (gc.handle), and the host hands    *)
(* over the configuration.  When the child ends, the same EdgeProcess      *)
(* starts the next one.                                                    *)
(*                                                                         *)
(* The code of the plugin is external: it may call and answer at any time, *)
(* crash, or stop answering.                                               *)
(***************************************************************************)
EXTENDS Naturals, Sequences, FiniteSets

CONSTANTS
    Asks,         \* the gc.* calls of the children, in their order
    Calls,        \* the calls of the server
    MaxHostCalls, \* LIMITS.hostCallsPerPlugin
    MaxOpen,      \* LIMITS.openCallsPerPlugin
    MaxChildren,  \* bound: children started
    MaxConfigs    \* bound: configurations of the server

VARIABLES
    state,      \* EdgeProcess.state: stopped, starting, running, crashed
    child,      \* [n: the child, 0 without one; config; seq; hung]
    started,    \* children started so far
    restart,    \* the restart timer: on, off
    ask,        \* per gc.* call: [st: new, sent, working, done; n, id, got]
    hostCalls,  \* EdgeProcess.hostCalls
    call,       \* per call of the server: new, waiting, ended
    config,     \* e.config in the host
    toChild, toHost   \* IPC messages

host == <<state, started, restart, hostCalls, call, config>>
vars == <<host, child, ask, toChild, toHost>>

NoChild == [n |-> 0, config |-> 0, seq |-> 0, hung |-> "no"]

Init ==
    /\ state = "stopped" /\ child = NoChild /\ started = 0 /\ restart = "off"
    /\ ask = [a \in Asks |-> [st |-> "new", n |-> 0, id |-> 0, got |-> 0]]
    /\ hostCalls = 0 /\ call = [c \in Calls |-> "new"] /\ config = 0
    /\ toChild = <<>> /\ toHost = <<>>

\* spawn(): the configuration of the moment goes with `init`
spawn ==
    /\ child.n = 0 /\ started < MaxChildren
    /\ state = "stopped" \/ restart = "on"
    /\ started' = started + 1 /\ restart' = "off" /\ state' = "starting"
    /\ child' = [NoChild EXCEPT !.n = started + 1]
    /\ toChild' = <<[t |-> "init", id |-> 0, v |-> config]>>
    /\ UNCHANGED <<hostCalls, call, config, ask, toHost>>

\* onExit of a child that crashed, was killed by the watchdog or by the start
\* timeout: open calls fail, the restart timer is set
onExit ==
    /\ child.n # 0 /\ child' = NoChild
    /\ toChild' = <<>> /\ toHost' = <<>>
    /\ call' = [c \in Calls |-> IF call[c] = "waiting" THEN "ended" ELSE call[c]]
    /\ state' = "crashed" /\ restart' = "on"
    /\ UNCHANGED <<started, hostCalls, config, ask>>

\* the plugin hangs: nothing is handled any more, the pings stay unanswered
Hangs ==
    /\ child.n # 0 /\ child.hung = "no" /\ started < MaxChildren
    /\ child' = [child EXCEPT !.hung = "yes"] /\ UNCHANGED <<host, ask, toChild, toHost>>

\* startPing and the start timeout: SIGKILL
Watchdog == child.hung = "yes" /\ onExit

-----------------------------------------------------------------------------
(* The child.                                                              *)

\* hostCall(): numbered per child
Asked(a) ==
    /\ child.n # 0 /\ child.hung = "no" /\ child.config # 0 /\ ask[a].st = "new"
    /\ \A b \in Asks : b < a => ask[b].st # "new"
    /\ child' = [child EXCEPT !.seq = @ + 1]
    /\ ask' = [ask EXCEPT ![a] = [st |-> "sent", n |-> child.n, id |-> child.seq + 1, got |-> 0]]
    /\ toHost' = Append(toHost, [t |-> "host", id |-> child.seq + 1, v |-> a])
    /\ UNCHANGED <<host, toChild>>

\* pending: what the child waits for; `got` is the call whose result it took
Pending == {a \in Asks : child.n # 0 /\ ask[a].n = child.n /\ ask[a].got = 0}

\* HOST_TIMEOUT_MS: the call fails in the child
AskTimesOut(a) ==
    /\ a \in Pending /\ child.hung = "no"
    /\ ask' = [ask EXCEPT ![a].got = a] /\ UNCHANGED <<host, child, toChild, toHost>>

\* applyConfig
ConfigureTaken(m) == child' = [child EXCEPT !.config = m.v] /\ UNCHANGED <<ask, toHost>>

\* process.on('message'): init (and then ready), configure, a call, or the
\* result of a gc.* call, found by its number
ChildHandles ==
    /\ child.n # 0 /\ child.hung = "no" /\ toChild # <<>> /\ toChild' = Tail(toChild)
    /\ LET m == Head(toChild) IN
       \/ /\ m.t = "init" /\ child' = [child EXCEPT !.config = m.v + 1]
          /\ toHost' = Append(toHost, [t |-> "ready", id |-> 0, v |-> 0]) /\ UNCHANGED ask
       \/ m.t = "configure" /\ ConfigureTaken(m)
       \/ /\ m.t = "call" /\ toHost' = Append(toHost, [t |-> "result", id |-> 0, v |-> m.v])
          /\ UNCHANGED <<child, ask>>
       \/ /\ m.t = "hostResult" /\ UNCHANGED <<child, toHost>>
          /\ ask' = [a \in Asks |-> IF a \in Pending /\ ask[a].id = m.id
                                    THEN [ask[a] EXCEPT !.got = m.v] ELSE ask[a]]
    /\ UNCHANGED host

-----------------------------------------------------------------------------
(* The host.                                                               *)

\* onMessage: ready, the result of a call, a gc.* call - refused with busy
\* or under way
HostHandles ==
    /\ toHost # <<>> /\ toHost' = Tail(toHost)
    /\ LET m == Head(toHost) IN
       \/ m.t = "ready" /\ state' = "running" /\ UNCHANGED <<hostCalls, call, ask, toChild>>
       \/ /\ m.t = "result" /\ call' = [call EXCEPT ![m.v] = "ended"]
          /\ UNCHANGED <<state, hostCalls, ask, toChild>>
       \/ /\ m.t = "host" /\ hostCalls < MaxHostCalls
          /\ hostCalls' = hostCalls + 1 /\ ask' = [ask EXCEPT ![m.v].st = "working"]
          /\ UNCHANGED <<state, call, toChild>>
       \/ /\ m.t = "host" /\ hostCalls >= MaxHostCalls
          /\ ask' = [ask EXCEPT ![m.v].st = "done"]
          /\ toChild' = Append(toChild, [t |-> "hostResult", id |-> m.id, v |-> m.v])
          /\ UNCHANGED <<state, hostCalls, call>>
    /\ UNCHANGED <<started, restart, config, child>>

\* the finally of onHostCall
PlaceBack == hostCalls - 1

\* onHostCall settles: the result goes to the child there is
HostAnswers(a) ==
    /\ ask[a].st = "working"
    /\ ask' = [ask EXCEPT ![a].st = "done"]
    /\ hostCalls' = PlaceBack
    /\ toChild' = IF child.n # 0
                  THEN Append(toChild, [t |-> "hostResult", id |-> ask[a].id, v |-> a]) ELSE toChild
    /\ UNCHANGED <<state, started, restart, call, config, child, toHost>>

\* call(): not_running, busy, or sent
Called(c) ==
    /\ call[c] = "new"
    /\ IF state = "running" /\ child.n # 0 /\ Cardinality({d \in Calls : call[d] = "waiting"}) < MaxOpen
       THEN /\ call' = [call EXCEPT ![c] = "waiting"]
            /\ toChild' = Append(toChild, [t |-> "call", id |-> 0, v |-> c])
       ELSE call' = [call EXCEPT ![c] = "ended"] /\ UNCHANGED toChild
    /\ UNCHANGED <<state, started, restart, hostCalls, config, child, ask, toHost>>

\* its timeout
CallTimesOut(c) ==
    /\ call[c] = "waiting" /\ call' = [call EXCEPT ![c] = "ended"]
    /\ UNCHANGED <<state, started, restart, hostCalls, config, child, ask, toChild, toHost>>

\* `configure` of the server (host.js onMessage): kept, and passed on
Configured ==
    /\ config < MaxConfigs /\ config' = config + 1
    /\ toChild' = IF child.n # 0 THEN Append(toChild, [t |-> "configure", id |-> 0, v |-> config + 2])
                  ELSE toChild
    /\ UNCHANGED <<state, started, restart, hostCalls, call, child, ask, toHost>>

Next ==
    \/ spawn \/ (started < MaxChildren /\ onExit) \/ Hangs \/ Watchdog
    \/ ChildHandles \/ HostHandles \/ Configured
    \/ \E a \in Asks : Asked(a) \/ AskTimesOut(a) \/ HostAnswers(a)
    \/ \E c \in Calls : Called(c) \/ CallTimesOut(c)

Spec == Init /\ [][Next]_vars

(* Timers and IPC: the child is started again, its messages are handled,   *)
(* what the host was asked for ends, a child that hangs is killed.         *)
Fairness ==
    /\ WF_vars(spawn) /\ WF_vars(Watchdog) /\ WF_vars(ChildHandles) /\ WF_vars(HostHandles)
    /\ \A a \in Asks : WF_vars(HostAnswers(a))

-----------------------------------------------------------------------------
(* Type invariant of a plugin process. *)
TypeOK ==
    /\ state \in {"stopped", "starting", "running", "crashed"} /\ restart \in {"on", "off"}
    /\ child.n \in 0..MaxChildren /\ child.hung \in {"yes", "no"} /\ started \in 0..MaxChildren
    /\ \A a \in Asks : ask[a].st \in {"new", "sent", "working", "done"}
    /\ \A c \in Calls : call[c] \in {"new", "waiting", "ended"}

(* The limit of gc.* calls counts the calls under way, those of earlier    *)
(* children included: nothing blocks a child for good, and no more than    *)
(* the limit run at once (pluginProcess.js onHostCall).                    *)
PlacesCounted ==
    /\ hostCalls = Cardinality({a \in Asks : ask[a].st = "working"})
    /\ hostCalls <= MaxHostCalls

(* A call of the server waits only for a child that can answer it: no call *)
(* outlives the child it was sent to.                                      *)
CallsHaveChild == \A c \in Calls : call[c] = "waiting" => child.n # 0 /\ state = "running"

(* In the end the child runs with the last configuration and no call is    *)
(* open (the configuration of a child counts from 1, 0: not initialised).  *)
ChildSettled ==
    /\ state = "running" /\ child.n # 0 /\ child.config = config + 1
    /\ \A c \in Calls : call[c] # "waiting"

(* docs/edge.md: a gc.* call returns its own result.  A result is matched  *)
(* by the number the child gave its call.  Not so after a restart: the     *)
(* next child counts from 1 again, and a late result fits its first call.  *)
AnswerIsOwn == \A a \in Asks : ask[a].got \in {0, a}
=============================================================================
