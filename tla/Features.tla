------------------------------ MODULE Features ------------------------------
(***************************************************************************)
(* FeatureManager (features/manager.js): new settings are given to the     *)
(* parts, some of them at once and the others one after another in a chain *)
(* of promises, and what the DNS filter needs is kept in a file for the    *)
(* next start (features/persist.js).                                       *)
(*                                                                         *)
(* The settings the server sends are numbered; each number stands for all  *)
(* of them, with a DNS part and a time zone that the constants give.  A    *)
(* crash takes everything but the file.                                    *)
(***************************************************************************)
EXTENDS Naturals, Sequences

CONSTANTS
    Parts,      \* the parts of the chain in their order, the DNS filter first
    DnsOn(_),   \* whether settings switch the DNS filter on
    Zone(_),    \* their time zone, or "bad"
    OwnZone,    \* ORIGINAL_TZ
    MaxRev,     \* bound: settings sent
    MaxFaults   \* bound: crashes, parts that throw, files not written

VARIABLES
    life,    \* up, down
    at,      \* the settings of the parts that take them at once, 0 before the first
    part,    \* per part of the chain the settings it has, 0 before any
    chain,   \* this.chain: jobs [rev, todo: the parts to come]
    boot,    \* features-boot.json: [dns: settings or 0, tz], NoFile
    tz,      \* the time zone in force
    skipped, \* the newest settings were not given to all parts because one threw
    used

vars == <<life, at, part, chain, boot, tz, skipped, used>>

NoFile == [dns |-> 0, tz |-> "none"]
Names == {Parts[i] : i \in 1..Len(Parts)}
Use(f, max) == used[f] < max /\ used' = [used EXCEPT ![f] = @ + 1]

\* applyTimezone: a zone that is not valid means the original one
applyTimezone(z) == IF z \in {"bad", "none"} THEN OwnZone ELSE z

\* a process without settings
Fresh == at = 0 /\ part = [p \in Names |-> 0] /\ chain = <<>> /\ tz = OwnZone /\ skipped = "no"
Init == life = "down" /\ Fresh /\ boot = NoFile /\ used = [rev |-> 0, faults |-> 0]

\* _serial: fn runs when what was there before has ended, well or not
\* mutant: at once
AtOnce(job) == <<job>> \o chain
_serial(job) == Append(chain, job)

\* the file is the whole of one write; a write that fails leaves it
readJson == boot
writeJson(v, r) ==
    \/ boot' = v /\ used' = [used EXCEPT !.rev = r]
    \/ used.faults < MaxFaults /\ UNCHANGED boot /\ used' = [rev |-> r, faults |-> used.faults + 1]

\* restoreBoot, before the first settings come: zone and DNS filter of the last ones
restoreBoot ==
    /\ life = "down" /\ life' = "up"
    /\ LET b == readJson IN
       /\ tz' = applyTimezone(b.tz)
       /\ chain' = IF b.dns = 0 THEN chain ELSE _serial([rev |-> b.dns, todo |-> <<Parts[1]>>])
    /\ UNCHANGED <<at, part, boot, skipped, used>>

\* apply, called with each new configuration
Kept(r) == [dns |-> IF DnsOn(r) THEN r ELSE 0, tz |-> IF Zone(r) = "bad" THEN "none" ELSE Zone(r)]
apply ==
    /\ life = "up" /\ used.rev < MaxRev
    /\ LET r == used.rev + 1 IN
       /\ at' = r /\ tz' = applyTimezone(Zone(r)) /\ skipped' = "no"
       /\ chain' = _serial([rev |-> r, todo |-> Parts])
       /\ writeJson(Kept(r), r)
    /\ UNCHANGED <<life, part>>

\* the job at the head of the chain: the next part has applied it, or threw
Rest(j) == IF Len(j.todo) = 1 THEN Tail(chain) ELSE <<[j EXCEPT !.todo = Tail(@)]>> \o Tail(chain)
Applied ==
    /\ life = "up" /\ chain # <<>>
    /\ LET j == Head(chain) IN
       /\ part' = [part EXCEPT ![Head(j.todo)] = j.rev] /\ chain' = Rest(j)
    /\ UNCHANGED <<life, at, boot, tz, skipped, used>>
Throws ==
    /\ life = "up" /\ chain # <<>> /\ Use("faults", MaxFaults)
    /\ chain' = Tail(chain) /\ skipped' = IF Len(chain) = 1 THEN "yes" ELSE skipped
    /\ UNCHANGED <<life, at, part, boot, tz>>

\* the process ends at any moment
Crash ==
    /\ life = "up" /\ Use("faults", MaxFaults) /\ life' = "down"
    /\ at' = 0 /\ part' = [p \in Names |-> 0] /\ chain' = <<>> /\ tz' = OwnZone /\ skipped' = "no"
    /\ UNCHANGED boot

Next == restoreBoot \/ apply \/ Applied \/ Throws \/ Crash

\* the container is started again; applying ends
Fairness == WF_vars(restoreBoot) /\ WF_vars(Applied)
Spec == Init /\ [][Next]_vars /\ Fairness

-----------------------------------------------------------------------------
TypeOK ==
    /\ at \in 0..used.rev /\ part \in [Names -> 0..used.rev] /\ boot.dns \in 0..used.rev
    /\ \A i \in 1..Len(chain) : chain[i].todo # <<>> /\ chain[i].rev \in 1..used.rev

\* No part goes back to older settings, whatever comes in while the chain is at work and
\* although the start applies those of the file first (manager.js _serial).
Forward == life' = "up" => \A p \in Names : part[p] <= part'[p]
NeverBack == [][Forward]_vars

\* In the end all parts have the newest settings; a process that has got none since its start
\* has the DNS filter and the zone of the file (manager.js apply, restoreBoot).  Parts behind
\* one that threw wait for the next settings.
Converged ==
    /\ at # 0 /\ skipped = "no" => \A p \in Names : part[p] = at
    /\ at = 0 /\ skipped = "no" => part[Parts[1]] = boot.dns /\ tz = applyTimezone(boot.tz)
FeaturesSettle == <>[](life = "up" => Converged)
=============================================================================
