------------------------------- MODULE Zigbee -------------------------------
(***************************************************************************)
(* Zigbee through deCONZ (radio/zigbee.js Zigbee, radio/radio.js): the     *)
(* control file the watcher of the deCONZ container obeys, the API key,    *)
(* the status query and the pairing window.  The query runs from the loop, *)
(* from status() and from retry(), so two of them and a pairing may be     *)
(* under way at the same time; each await of client.* is a step.           *)
(*                                                                         *)
(* Time is the pairing window alone: it is open (now <= pairUntil +        *)
(* PAIR_TAIL_MS) or over.  Lights and sensors are one list of devices.     *)
(***************************************************************************)
EXTENDS Naturals, FiniteSets

CONSTANTS
    Calls,      \* calls that may be under way at the same time
    Macs,       \* Zigbee devices
    MaxChanges, \* bound: changes of the settings, the host's file and the stick
    MaxKeys,    \* bound: keys deCONZ hands out
    MaxEvents   \* bound: deCONZ set up anew or crashing, calls of users, failed requests

VARIABLES
    cfg,      \* what refresh reads: [mode, host: auto, on or off; stick: yes or no]
    env,      \* zigbee.env is there: yes or no
    flag,     \* radio-start asks the host for the container: yes or no
    watcher,  \* the watcher in the container: alive or dead (no fresh deconz.state)
    z,        \* this: [reachable, key, keyState, devices, pairBase, window, recent]
    call,     \* per call [kind: idle, tick, pair, unlock; pc; key; got;
              \*  again: after a refused key; late: begun after the network closed]
    deconz,   \* [up, open, valid: keys, keys: how many were made, join, devs]
    history,  \* [joined: devices of the open window, met: a query ended inside permitJoin,
              \*  looked: a query of the closed window has ended, away: none could before
              \*  the tail of the window ended]
    used

switch == <<cfg, env, flag, watcher>>
vars == <<switch, z, call, deconz, history, used>>

Idle == [kind |-> "idle", pc |-> "none", key |-> 0, got |-> {}, again |-> "no", late |-> "no"]
NoBase == {"none"}
Use(f, max) == used[f] < max /\ used' = [used EXCEPT ![f] = @ + 1]

Init ==
    /\ cfg = [mode |-> "auto", host |-> "auto", stick |-> "no"]
    /\ env = "no" /\ flag = "no" /\ watcher = "dead"
    /\ z = [reachable |-> "no", key |-> 0, keyState |-> "unknown", devices |-> {},
            pairBase |-> NoBase, window |-> "over", recent |-> {}]
    /\ call = [c \in Calls |-> Idle]
    /\ deconz = [up |-> "no", open |-> "yes", valid |-> {}, keys |-> 0, join |-> "no", devs |-> {}]
    /\ history = [joined |-> {}, met |-> "no", looked |-> "no", away |-> "no"]
    /\ used = [changes |-> 0, events |-> 0]

-----------------------------------------------------------------------------
(* Switching deCONZ on and off.                                            *)

\* want: the setting of the server before the host's file before the hardware
want(c) ==
    IF c.mode # "auto" THEN c.mode = "on"
    ELSE IF c.host = "off" THEN FALSE ELSE c.host = "on" \/ c.stick = "yes"

\* _writeControl(want ? device : null)
_writeControl(c) == IF want(c) /\ c.stick = "yes" THEN "yes" ELSE "no"

\* refresh: zigbee.apply with the settings and the detected sticks
apply == env' = _writeControl(cfg) /\ UNCHANGED <<cfg, flag, watcher, z, call, deconz, history, used>>

Change ==
    /\ Use("changes", MaxChanges)
    /\ \E m \in {"auto", "on", "off"}, h \in {"auto", "off"}, s \in {"yes", "no"} :
        cfg' = [mode |-> m, host |-> h, stick |-> s] /\ cfg' # cfg
    /\ UNCHANGED <<env, flag, watcher, z, call, deconz, history>>

\* the host makes the container (external), the watcher in it obeys the control file (external)
HostStarts ==
    /\ flag = "yes" /\ flag' = "no" /\ watcher' = "alive"
    /\ UNCHANGED <<cfg, env, z, call, deconz, history, used>>
Watches ==
    /\ watcher = "alive" /\ deconz.up # env /\ deconz' = [deconz EXCEPT !.up = env]
    /\ UNCHANGED <<switch, z, call, history, used>>

-----------------------------------------------------------------------------
(* The calls.  Go leaves call c, which is k so far, at the await pc with   *)
(* the key of that moment; Done ends it.                                   *)

Go(c, k, zz, pc) == call' = [call EXCEPT ![c] = [k EXCEPT !.pc = pc, !.key = zz.key]] /\ z' = zz
Done(c, zz) == call' = [call EXCEPT ![c] = Idle] /\ z' = zz

\* what follows the key: the query asks for the lights; pair notes the devices it
\* knows and opens the network; unlock opens deCONZ for new keys
WithKey(c, k, zz) ==
    \/ k.kind = "tick" /\ Go(c, k, zz, "lights")
    \/ k.kind = "pair" /\ Go(c, k, [zz EXCEPT !.pairBase = zz.devices], "permit")
    \/ k.kind = "unlock" /\ Go(c, k, zz, "unlock")

\* _ensureKey; a query does not ask again after key_needed
_ensureKey(c, k, zz) ==
    LET waits == zz.keyState = "needed" /\ k.kind = "tick" IN
    \/ zz.key # 0 /\ WithKey(c, k, zz)
    \/ zz.key = 0 /\ waits /\ Done(c, zz)
    \/ zz.key = 0 /\ ~waits /\ Go(c, k, zz, "create")

Begun(kind) == [Idle EXCEPT !.kind = kind, !.late = IF deconz.join = "closed" THEN "yes" ELSE "no"]

\* tick begins with the probe: from the loop and status(), or from requestRetry,
\* which looks at the hardware first and forgets key_needed
tick(c) ==
    /\ call[c] = Idle /\ Go(c, Begun("tick"), z, "probe")
    /\ UNCHANGED <<switch, deconz, history, used>>
retry(c) ==
    /\ call[c] = Idle /\ Use("events", MaxEvents)
    /\ Go(c, Begun("tick"), [z EXCEPT !.keyState = "unknown"], "probe")
    /\ env' = _writeControl(cfg) /\ UNCHANGED <<cfg, flag, watcher, deconz, history>>

\* pair and unlock, when deCONZ has answered last time
request(c, kind) ==
    /\ call[c] = Idle /\ z.reachable = "yes" /\ Use("events", MaxEvents)
    /\ _ensureKey(c, Begun(kind), z)
    /\ UNCHANGED <<switch, deconz, history>>

\* the probe; without an answer the host is asked for the container
Probe(c) ==
    /\ call[c].pc = "probe"
    /\ \/ /\ deconz.up = "yes" /\ _ensureKey(c, call[c], [z EXCEPT !.reachable = "yes"])
          /\ UNCHANGED flag
       \/ /\ deconz.up = "no" /\ Done(c, [z EXCEPT !.reachable = "no"])
          /\ flag' = IF want(cfg) /\ cfg.stick = "yes" /\ watcher = "dead" THEN "yes" ELSE flag
    /\ UNCHANGED <<cfg, env, watcher, deconz, history, used>>

\* createKey: deCONZ hands out a key while it is open for that
Create(c) ==
    LET k == deconz.keys + 1 IN
    /\ call[c].pc = "create" /\ deconz.up = "yes"
    /\ \/ /\ deconz.open = "yes" /\ k <= MaxKeys
          /\ deconz' = [deconz EXCEPT !.keys = k, !.valid = @ \cup {k}]
          /\ WithKey(c, call[c], [z EXCEPT !.key = k, !.keyState = "ok"])
       \/ /\ deconz.open = "no" /\ Done(c, [z EXCEPT !.keyState = "needed"]) /\ UNCHANGED deconz
    /\ UNCHANGED <<switch, history, used>>

\* the lights, with the key of when they were asked for
GotLights(c) ==
    /\ call[c].key \in deconz.valid
    /\ Go(c, [call[c] EXCEPT !.got = deconz.devs], [z EXCEPT !.keyState = "ok"], "data")

\* a refused key is dropped and another one asked for; refused again, the query ends
Lights(c) ==
    /\ call[c].pc = "lights" /\ deconz.up = "yes"
    /\ \/ GotLights(c)
       \/ /\ call[c].key \notin deconz.valid /\ call[c].again = "no"
          /\ _ensureKey(c, [call[c] EXCEPT !.again = "yes"], [z EXCEPT !.key = 0, !.keyState = "unknown"])
       \/ call[c].key \notin deconz.valid /\ call[c].again = "yes" /\ Done(c, z)
    /\ UNCHANGED <<switch, deconz, history, used>>

\* new devices are the ones the base does not have, until the tail of the window ends
NewDevices(devs, w) == IF z.pairBase # NoBase /\ w = "open" THEN devs \ z.pairBase ELSE {}

\* the end of tick: the window is extended while deCONZ is open for devices, new
\* devices of an open window are noted, the base of a window that is over is dropped
Data(c) ==
    LET devs == call[c].got
        w    == IF deconz.join = "open" THEN "open" ELSE z.window
    IN  /\ call[c].pc = "data" /\ deconz.up = "yes" /\ call[c].key \in deconz.valid
        /\ Done(c, [z EXCEPT !.window = w, !.devices = devs, !.recent = @ \cup NewDevices(devs, w),
                             !.pairBase = IF w = "open" THEN @ ELSE NoBase])
        /\ history' = [history EXCEPT
                         !.met = IF w = "over" /\ \E d \in Calls : call[d].pc = "permit" THEN "yes" ELSE @,
                         !.looked = IF call[c].late = "yes" THEN "yes" ELSE @]
        /\ UNCHANGED <<switch, deconz, used>>

\* pair ends, the history of its window begins
NewWindow(c) ==
    /\ call' = [d \in Calls |-> IF d = c THEN Idle ELSE [call[d] EXCEPT !.late = "no"]]
    /\ history' = [joined |-> {}, met |-> history.met, looked |-> "no", away |-> "no"]

\* pair: the network is open, and only now the window of the gateway
Permit(c) ==
    /\ call[c].pc = "permit" /\ deconz.up = "yes" /\ call[c].key \in deconz.valid
    /\ deconz' = [deconz EXCEPT !.join = "open"] /\ NewWindow(c)
    /\ z' = [z EXCEPT !.window = "open"] /\ UNCHANGED <<switch, used>>

Unlock(c) ==
    /\ call[c].pc = "unlock" /\ deconz.up = "yes" /\ call[c].key \in deconz.valid
    /\ deconz' = [deconz EXCEPT !.open = "yes"] /\ Done(c, z)
    /\ UNCHANGED <<switch, history, used>>

Refused(c) == call[c].pc \in {"data", "permit", "unlock"} /\ call[c].key \notin deconz.valid

\* a request that fails ends its call: deCONZ is gone, refuses the key, or is slow
Fails(c) ==
    /\ call[c].pc \in {"create", "lights", "data", "permit", "unlock"}
    /\ \/ deconz.up = "no" /\ UNCHANGED used
       \/ Refused(c) /\ UNCHANGED used
       \/ Use("events", MaxEvents)
    /\ Done(c, z) /\ UNCHANGED <<switch, deconz, history>>

-----------------------------------------------------------------------------
(* deCONZ and its network (external).                                      *)

\* a device joins while the network is open
Joins(m) ==
    /\ deconz.up = "yes" /\ deconz.join = "open" /\ m \notin deconz.devs
    /\ deconz' = [deconz EXCEPT !.devs = @ \cup {m}]
    /\ history' = [history EXCEPT !.joined = @ \cup {m}]
    /\ UNCHANGED <<switch, z, call, used>>
JoinCloses ==
    /\ deconz.join = "open" /\ deconz' = [deconz EXCEPT !.join = "closed"]
    /\ UNCHANGED <<switch, z, call, history, used>>
\* the tail of the window (30 s) is longer than the pause between two queries (5 s):
\* one that began after the network closed has ended, unless deCONZ is away
TailEnds ==
    /\ z.window = "open" /\ deconz.join = "closed"
    /\ history.looked = "yes" \/ deconz.up = "no"
    /\ z' = [z EXCEPT !.window = "over"] /\ deconz' = [deconz EXCEPT !.join = "no"]
    /\ history' = [history EXCEPT !.away = IF history.looked = "yes" THEN "no" ELSE "yes"]
    /\ UNCHANGED <<switch, call, used>>
\* deCONZ set up anew knows no key; the time for new keys ends
Anew ==
    /\ Use("events", MaxEvents) /\ deconz.valid # {}
    /\ \E o \in {"yes", "no"} : deconz' = [deconz EXCEPT !.valid = {}, !.open = o]
    /\ UNCHANGED <<switch, z, call, history>>
OpenEnds ==
    /\ deconz.open = "yes" /\ Use("events", MaxEvents)
    /\ deconz' = [deconz EXCEPT !.open = "no"] /\ UNCHANGED <<switch, z, call, history>>

Steps(c) == Probe(c) \/ Create(c) \/ Lights(c) \/ Data(c) \/ Permit(c) \/ Unlock(c)
Next ==
    \/ apply \/ Change \/ HostStarts \/ Watches \/ JoinCloses \/ TailEnds \/ Anew \/ OpenEnds
    \/ \E m \in Macs : Joins(m)
    \/ \E c \in Calls : \/ tick(c) \/ retry(c) \/ request(c, "pair")
                        \/ request(c, "unlock") \/ Steps(c) \/ Fails(c)

\* the loops run on and requests return; the host and the watcher do their part
MustFail(c) == (deconz.up = "no" \/ Refused(c)) /\ Fails(c)
Fairness ==
    /\ WF_vars(apply) /\ WF_vars(HostStarts) /\ WF_vars(Watches) /\ WF_vars(JoinCloses)
    /\ WF_vars(TailEnds)
    /\ \A c \in Calls : WF_vars(Steps(c)) /\ WF_vars(MustFail(c)) /\ WF_vars(tick(c))

Spec == Init /\ [][Next]_vars /\ Fairness

-----------------------------------------------------------------------------
TypeOK ==
    /\ z.key \in 0..MaxKeys /\ z.keyState \in {"unknown", "ok", "needed"} /\ z.devices \subseteq Macs
    /\ z.pairBase = NoBase \/ z.pairBase \subseteq Macs
    /\ z.recent \subseteq Macs /\ deconz.valid \subseteq 1..deconz.keys
    /\ \A c \in Calls : call[c].pc \in
         {"none", "probe", "create", "lights", "data", "permit", "unlock"}

\* The devices that joined in a pairing window are the ones shown as newly paired when
\* it is over, unless a query ended while the network was being opened (that query drops
\* the base of the window that has not begun), or deCONZ was away until the tail of the
\* window ended (zigbee.js pair, tick).
PairedShown ==
    z.window = "over" /\ deconz.join = "no" /\ history.met = "no" /\ history.away = "no"
        => history.joined \subseteq z.recent

\* deCONZ runs exactly while it is wanted and there is a stick, also when its container
\* had to be made first (zigbee.js apply, _writeControl, _askHost).
Switched == deconz.up = (IF want(cfg) /\ cfg.stick = "yes" THEN "yes" ELSE "no")

\* While deCONZ runs and a key was not refused, the gateway ends up with a key that works
\* (zigbee.js _ensureKey, tick).
KeyWorks == deconz.up = "yes" /\ z.keyState # "needed" /\ deconz.keys < MaxKeys => z.key \in deconz.valid

Converged == Switched /\ z.reachable = deconz.up /\ KeyWorks
ZigbeeSettles == <>[]Converged
=============================================================================
