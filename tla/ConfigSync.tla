----------------------------- MODULE ConfigSync -----------------------------
(***************************************************************************)
(* How the gateway learns its configuration: the Poller (sync/poller.js),  *)
(* the fetcher and the boot sequence of bootstrap.js, the ConfigStore      *)
(* (sync/configStore.js), the two requests of sync/syncClient.js and the   *)
(* config-changed push of the server (api/routes/configChanged.js).        *)
(*                                                                         *)
(* A configuration is its hash.  Node runs one callback at a time, so each *)
(* action is one stretch of code between two awaits or timers.  A request  *)
(* is answered by the server in one step and delivered in a later one, so  *)
(* an answer may be out of date when it arrives.                           *)
(***************************************************************************)
EXTENDS Naturals

CONSTANTS
    Hashes,         \* the configurations the server may serve
    NoHash,         \* currentHash before the first configuration
    IntervalMs,     \* Poller.intervalMs
    BackoffBaseMs,  \* Poller.baseMs
    BackoffMaxMs,   \* Poller.maxMs
    MaxChanges,     \* bound: configuration changes on the server
    MaxErrors,      \* bound: requests that fail
    MaxPushes,      \* bound: config-changed pushes
    MaxRestarts     \* bound: restarts of the gateway container

ASSUME HashAssumption == NoHash \notin Hashes /\ Hashes # {}
ASSUME DelayAssumption == /\ IntervalMs \in Nat \ {0}
                          /\ BackoffBaseMs \in Nat \ {0}
                          /\ BackoffMaxMs \in Nat \ {0}

VARIABLES
    phase,       \* of the process: boot, initial (first poll), up, stopping, exited
    timer,       \* delay the pending poll timer was armed with, 0 when none is pending
    debounce,    \* is the debounce timer of triggerImmediate pending
    request,     \* what the running poll awaits; "none" is _running = false
    answer,      \* the server's answer on its way back: a hash, or NoHash for none yet
    fails,       \* consecutiveFails
    storeHash,   \* ConfigStore.currentHash
    serverHash,  \* the configuration on the server
    unseen,      \* a push came and the server has answered no request since
    used         \* how much of each bound has been used

vars == <<phase, timer, debounce, request, answer, fails, storeHash,
          serverHash, unseen, used>>
poll == <<request, answer, fails, storeHash>>

Init ==
    /\ phase = "boot" /\ timer = 0 /\ debounce = FALSE
    /\ request = "none" /\ answer = NoHash /\ fails = 0
    /\ storeHash = NoHash /\ serverHash \in Hashes /\ unseen = FALSE
    /\ used = [changes |-> 0, errors |-> 0, pushes |-> 0, restarts |-> 0]

running == request # "none"

\* min(baseMs * 2^fails, maxMs), for positive arguments
computeBackoff(f) ==
    LET delay == BackoffBaseMs * 2^f
    IN  IF delay \in 1..BackoffMaxMs THEN delay ELSE BackoffMaxMs


-----------------------------------------------------------------------------
(* _runOnce: a poll that is already running makes the call a no-op; the    *)
(* fetcher asks for the hash only when the store has a configuration.      *)
_runOnce ==
    /\ request' = IF running THEN request
                  ELSE IF storeHash # NoHash THEN "check" ELSE "fetch"
    /\ UNCHANGED <<answer, fails, storeHash>>

\* mutant: the end of a poll does not re-arm the timer
_scheduleNextLost(delay) ==
    /\ timer' = IF phase = "initial" THEN IntervalMs ELSE timer
    /\ phase' = IF phase = "initial" THEN "up" ELSE phase

\* The delay the timer ends up with when a poll ends: bootstrap calls start()
\* right after its initial poll, and start() re-arms the timer.
_scheduleNext(delay) ==
    /\ timer' = IF phase = "initial" THEN IntervalMs ELSE delay
    /\ phase' = IF phase = "initial" THEN "up" ELSE phase

PollSucceeds ==
    /\ request' = "none" /\ answer' = NoHash /\ fails' = 0
    /\ _scheduleNext(IntervalMs)

InitialPoll ==
    /\ phase = "boot" /\ phase' = "initial"
    /\ _runOnce
    /\ UNCHANGED <<timer, debounce, serverHash, unseen, used>>

TimerFires ==
    /\ timer # 0 /\ timer' = 0
    /\ _runOnce
    /\ UNCHANGED <<phase, debounce, serverHash, unseen, used>>

DebounceFires ==
    /\ debounce /\ debounce' = FALSE
    /\ _runOnce
    /\ UNCHANGED <<phase, timer, serverHash, unseen, used>>

\* POST /config-changed
triggerImmediate ==
    /\ phase \in {"initial", "up"} /\ used.pushes < MaxPushes
    /\ used' = [used EXCEPT !.pushes = @ + 1]
    /\ debounce' = TRUE /\ unseen' = TRUE
    /\ UNCHANGED <<phase, timer, poll, serverHash>>

-----------------------------------------------------------------------------
\* The server handles the outstanding request.
ServerAnswers ==
    /\ running /\ answer = NoHash
    /\ answer' = serverHash /\ unseen' = FALSE
    /\ UNCHANGED <<phase, timer, debounce, request, fails, storeHash,
                   serverHash, used>>

\* GET /config/check returned: 304 ends the poll, 200 goes on to the fetch.
CheckReturns ==
    /\ request = "check" /\ answer # NoHash
    /\ \/ answer = storeHash /\ PollSucceeds
       \/ /\ answer # storeHash
          /\ request' = "fetch" /\ answer' = NoHash
          /\ UNCHANGED <<phase, timer, fails>>
    /\ UNCHANGED <<debounce, storeHash, serverHash, unseen, used>>

\* mutant: the hash of the old configuration is kept
replaceConfigKeepsHash(newHash) ==
    storeHash' = IF storeHash = NoHash THEN newHash ELSE storeHash

\* replaceConfig: assigns the routes and the hash unless the hash is the same
replaceConfig(newHash) == storeHash' = newHash

\* GET /config returned: replaceConfig, then the poll ends.
FetchReturns ==
    /\ request = "fetch" /\ answer # NoHash
    /\ replaceConfig(answer)
    /\ PollSucceeds
    /\ UNCHANGED <<debounce, serverHash, unseen, used>>

\* Either request rejects (network error, timeout, other status).
PollFails ==
    /\ running /\ used.errors < MaxErrors
    /\ used' = [used EXCEPT !.errors = @ + 1]
    /\ request' = "none" /\ answer' = NoHash /\ fails' = fails + 1
    /\ _scheduleNext(computeBackoff(fails + 1))
    /\ UNCHANGED <<debounce, storeHash, serverHash, unseen>>

ServerChanges ==
    /\ used.changes < MaxChanges
    /\ used' = [used EXCEPT !.changes = @ + 1]
    /\ serverHash' \in Hashes \ {serverHash}
    /\ UNCHANGED <<phase, timer, debounce, poll, unseen>>

-----------------------------------------------------------------------------
\* poller.stop() in the SIGTERM handler: both timers are cleared, a poll that
\* runs is left alone (and will re-arm the timer).
stop ==
    /\ phase = "up" /\ used.restarts < MaxRestarts
    /\ phase' = "stopping" /\ timer' = 0 /\ debounce' = FALSE
    /\ UNCHANGED <<poll, serverHash, unseen, used>>

\* process.exit, and the container is started again with an empty store.
Restart ==
    /\ phase = "stopping"
    /\ used' = [used EXCEPT !.restarts = @ + 1]
    /\ phase' = "boot" /\ timer' = 0 /\ debounce' = FALSE
    /\ request' = "none" /\ answer' = NoHash /\ fails' = 0
    /\ storeHash' = NoHash /\ unseen' = FALSE
    /\ UNCHANGED serverHash

Next ==
    \/ InitialPoll \/ TimerFires \/ DebounceFires \/ triggerImmediate
    \/ ServerAnswers \/ CheckReturns \/ FetchReturns \/ PollFails
    \/ ServerChanges \/ stop \/ Restart

Spec == Init /\ [][Next]_vars

(* Timers fire and requests end (both have a timeout), so every step the   *)
(* gateway or the answering server can take is taken.  Nothing forces a    *)
(* push, a change, an error or a stop.                                     *)
Fairness ==
    /\ WF_vars(InitialPoll) /\ WF_vars(TimerFires) /\ WF_vars(DebounceFires)
    /\ WF_vars(ServerAnswers) /\ WF_vars(CheckReturns)
    /\ WF_vars(FetchReturns) /\ WF_vars(Restart)

FairSpec == Spec /\ Fairness

-----------------------------------------------------------------------------
(* Type invariant of the poller, the store and the server. *)
TypeOK ==
    /\ phase \in {"boot", "initial", "up", "stopping"}
    /\ timer \in Nat /\ debounce \in BOOLEAN
    /\ request \in {"none", "check", "fetch"}
    /\ answer \in Hashes \cup {NoHash}
    /\ fails \in Nat
    /\ storeHash \in Hashes \cup {NoHash} /\ serverHash \in Hashes
    /\ unseen \in BOOLEAN
    /\ used \in [changes : Nat, errors : Nat, pushes : Nat, restarts : Nat]

(* The poller never falls asleep for good: while the gateway is up, a poll *)
(* runs or a timer for the next one is pending, whatever the order of      *)
(* pushes, timers and failing requests (poller.js _runOnce reschedules on  *)
(* both paths, and the early return while _running leaves a poll running). *)
NeverAsleep ==
    /\ phase = "initial" => running
    /\ phase = "up" => running \/ timer # 0

(* poller.js says a push triggers an immediate (debounced) poll: when the  *)
(* debounce has run out and polls succeed, the gateway does not go back to *)
(* sleep without having asked the server since the push.  Not so: a push   *)
(* whose debounce ends during a poll is swallowed by _running, and the     *)
(* answer of that poll may be older; the next interval brings it.          *)
PushIsPolled ==
    phase = "up" /\ ~debounce /\ ~running /\ fails = 0 => ~unseen
=============================================================================
