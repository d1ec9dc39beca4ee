---------------------------- MODULE InetQuality ----------------------------
(***************************************************************************)
(* The quality of the internet connection (inetq/inetq.js,                 *)
(* inetq/aggregate.js): measurements become samples and outages, which     *)
(* wait in a buffer that survives a restart until the server has confirmed *)
(* them.  Intervals and retry times are not counted: an interval may close *)
(* at any measurement.  Samples, outages and speedtests are numbered in    *)
(* the order they are made, which is their order in the buffer.            *)
(*                                                                         *)
(* The line and the server are external; the server keeps the samples and  *)
(* the last record of every outage.                                        *)
(***************************************************************************)
EXTENDS Naturals, Sequences, FiniteSets

CONSTANTS
    SampleMax, OutageMax, SpeedtestMax,   \* MAX_SAMPLES, MAX_OUTAGES, MAX_SPEEDTESTS
    PerReport,              \* SAMPLES_PER_REPORT
    MaxMade, MaxOutages, MaxSpeedtests,   \* bounds: samples, outages, speedtests made
    MaxTurns                \* bound: failures, crashes and switches together

VARIABLES
    measuring,   \* the feature and its tick: off, idle, measure, late (off during it)
    detector,    \* [suspect, open]: the outage as [id, cause], or none
    buffer,      \* [samples, outages, speedtests]: what is not confirmed
    disk,        \* inetq-buffer.json: [buffer, open]
    speedtest,   \* speedtestRunning
    posting,     \* report: [pc, samples, outages, speedtests]
    made,        \* so far [samples, starts of outages, outages (their last records), speedtests]
    have,        \* what the server has
    overflow,    \* [samples, outages, speedtests] that fell out of a full buffer
    inetUsed

ivars == <<measuring, detector, buffer, disk, speedtest, posting, made, have, overflow, inetUsed>>

None == [id |-> 0, cause |-> "isp"]
Empty == [samples |-> {}, outages |-> {}, speedtests |-> {}]
NoPost == [pc |-> "idle", samples |-> {}, outages |-> {}, speedtests |-> {}]

Init ==
    /\ measuring = "off" /\ detector = [suspect |-> "no", open |-> None] /\ buffer = Empty
    /\ disk = [buffer |-> Empty, open |-> None] /\ speedtest = "no" /\ posting = NoPost
    /\ made = [samples |-> 0, starts |-> 0, outages |-> {}, speedtests |-> 0]
    /\ have = Empty /\ overflow = [samples |-> {}, outages |-> {}, speedtests |-> {}] /\ inetUsed = 0

Turn == inetUsed < MaxTurns /\ inetUsed' = inetUsed + 1
_persist == disk' = [buffer |-> buffer', open |-> detector'.open]

-----------------------------------------------------------------------------
(* A measurement *)

\* mutant: nothing is dropped
KeptAll(S, max) == S

\* one is added at a time: the oldest goes when there is one too many
Kept(S, max) ==
    IF Cardinality(S) > max THEN S \ {CHOOSE x \in S : \A y \in S : x <= y} ELSE S

Ids(outages) == {o.id : o \in outages}
KeptOutages(outages) == {o \in outages : o.id \in Kept(Ids(outages), OutageMax)}

_addSample(samples, closed) ==
    IF closed = "yes" THEN samples \cup {made.samples + 1} ELSE samples

\* a Map by the start of the outage: changed replaces the earlier record
_addOutage(outages, changed) ==
    {o \in outages : o.id \notin Ids(changed)} \cup changed

Outage(id, end, cause) == [id |-> id, end |-> end, cause |-> cause]

\* observe: [detector, changed]; `long` when the suspicion has lasted a minute
observe(inetOk, cause, long) ==
    LET d == detector
        worse == cause = "router" /\ d.open.cause # "router"
        fresh == [id |-> made.starts + 1, cause |-> cause]
    IN  CASE inetOk -> [d |-> [suspect |-> "no", open |-> None],
                        changed |-> IF d.open = None THEN {}
                                    ELSE {Outage(d.open.id, "closed", d.open.cause)}]
          [] ~inetOk /\ d.open # None ->
                       [d |-> IF worse THEN [d EXCEPT !.open.cause = "router"] ELSE d,
                        changed |-> IF worse THEN {Outage(d.open.id, "open", "router")} ELSE {}]
          [] ~inetOk /\ d.open = None /\ (d.suspect = "no" \/ ~long) ->
                       [d |-> [d EXCEPT !.suspect = "yes"], changed |-> {}]
          [] OTHER -> [d |-> [suspect |-> "no", open |-> fresh],
                       changed |-> {Outage(fresh.id, "open", cause)}]

Pending(b) == b # Empty
First(S) == {x \in S : Cardinality({y \in S : y < x}) < PerReport}

\* _reportAsync: unless a report is under way
BeginReport(b, wanted) ==
    posting' = IF posting.pc # "idle" \/ ~wanted \/ ~Pending(b) THEN posting
               ELSE [pc |-> "post", samples |-> First(b.samples),
                     outages |-> b.outages, speedtests |-> b.speedtests]

\* tick up to the measurement
tick ==
    /\ measuring = "idle" /\ speedtest = "no" /\ measuring' = "measure"
    /\ UNCHANGED <<detector, buffer, disk, speedtest, posting, made, have, overflow, inetUsed>>

\* tick after it
measured(inetOk, cause, long, closed, retry) ==
    LET ob == observe(inetOk, cause, long)
        samples == _addSample(buffer.samples, closed)
        outages == _addOutage(buffer.outages, ob.changed)
    IN  /\ measuring \in {"measure", "late"}
        /\ closed = "yes" => made.samples < MaxMade
        /\ \A o \in ob.changed : o.id <= MaxOutages
        /\ measuring' = IF measuring = "late" THEN "off" ELSE "idle"
        /\ detector' = ob.d
        /\ buffer' = [buffer EXCEPT !.samples = Kept(samples, SampleMax),
                                    !.outages = KeptOutages(outages)]
        /\ overflow' = [overflow EXCEPT
              !.samples = @ \cup (samples \ buffer'.samples),
              !.outages = (@ \cup Ids(outages)) \ Ids(buffer'.outages)]
        /\ made' = [made EXCEPT
              !.samples = IF closed = "yes" THEN @ + 1 ELSE @,
              !.starts = IF \E o \in ob.changed : o.id > @ THEN @ + 1 ELSE @,
              !.outages = _addOutage(@, ob.changed)]
        /\ IF closed = "yes" \/ ob.changed # {} THEN _persist ELSE UNCHANGED disk
        /\ BeginReport(buffer', closed = "yes" \/ retry
                                  \/ \E o \in ob.changed : o.end = "closed")
        /\ UNCHANGED <<speedtest, have, inetUsed>>

\* tick while a speedtest runs: no measurement
tickInSpeedtest(closed, retry) ==
    LET samples == _addSample(buffer.samples, closed)
    IN  /\ measuring = "idle" /\ speedtest = "yes"
        /\ closed = "yes" => made.samples < MaxMade
        /\ buffer' = [buffer EXCEPT !.samples = Kept(samples, SampleMax)]
        /\ overflow' = [overflow EXCEPT !.samples = @ \cup (samples \ buffer'.samples)]
        /\ made' = [made EXCEPT !.samples = IF closed = "yes" THEN @ + 1 ELSE @]
        /\ UNCHANGED detector /\ (IF closed = "yes" THEN _persist ELSE UNCHANGED disk)
        /\ BeginReport(buffer', closed = "yes" \/ retry)
        /\ UNCHANGED <<measuring, speedtest, have, inetUsed>>

\* requestSpeedtest, or its time has come
startSpeedtest ==
    /\ measuring \in {"idle", "measure"} /\ speedtest = "no" /\ made.speedtests < MaxSpeedtests
    /\ speedtest' = "yes"
    /\ UNCHANGED <<measuring, detector, buffer, disk, posting, made, have, overflow, inetUsed>>

speedtestDone ==
    /\ speedtest = "yes" /\ speedtest' = "no"
    /\ made' = [made EXCEPT !.speedtests = @ + 1]
    /\ LET tests == buffer.speedtests \cup {made'.speedtests}
       IN  /\ buffer' = [buffer EXCEPT !.speedtests = Kept(tests, SpeedtestMax)]
           /\ overflow' = [overflow EXCEPT !.speedtests = @ \cup (tests \ buffer'.speedtests)]
    /\ UNCHANGED <<measuring, detector, have, inetUsed>>
    /\ _persist /\ BeginReport(buffer', TRUE)

-----------------------------------------------------------------------------
(* report *)

ServerTakes ==
    /\ posting.pc = "post" /\ posting' = [posting EXCEPT !.pc = "taken"]
    /\ have' = [samples |-> have.samples \cup posting.samples,
                outages |-> _addOutage(have.outages, posting.outages),
                speedtests |-> have.speedtests \cup posting.speedtests]
    /\ UNCHANGED <<measuring, detector, buffer, disk, speedtest, made, overflow, inetUsed>>

\* mutant: an outage goes by its start alone
ConfirmedByStart(b) ==
    [samples |-> b.samples \ posting.samples,
     outages |-> {o \in b.outages : o.id \notin Ids(posting.outages)},
     speedtests |-> b.speedtests \ posting.speedtests]

\* what was sent leaves the buffer; an outage only if it is still the same
Confirmed(b) ==
    [samples |-> b.samples \ posting.samples, outages |-> b.outages \ posting.outages,
     speedtests |-> b.speedtests \ posting.speedtests]

\* the answer: the rest of the samples follow at once
reported ==
    /\ posting.pc = "taken" /\ buffer' = Confirmed(buffer)
    /\ UNCHANGED <<measuring, detector, speedtest, made, have, overflow, inetUsed>>
    /\ _persist
    /\ posting' = IF buffer'.samples = {} THEN NoPost
                  ELSE [pc |-> "post", samples |-> First(buffer'.samples),
                        outages |-> buffer'.outages, speedtests |-> buffer'.speedtests]

reportFails ==
    /\ posting.pc \in {"post", "taken"} /\ Turn /\ posting' = NoPost
    /\ UNCHANGED <<measuring, detector, buffer, disk, speedtest, made, have, overflow>>

-----------------------------------------------------------------------------
(* apply, crash *)

_load == buffer' = disk.buffer /\ detector' = [suspect |-> "no", open |-> disk.open]

enable ==
    /\ measuring \in {"off", "late"} /\ measuring' = IF measuring = "off" THEN "idle" ELSE "measure"
    /\ UNCHANGED <<detector, buffer, disk, speedtest, posting, made, have, overflow, inetUsed>>

disable ==
    /\ measuring \in {"idle", "measure"} /\ Turn
    /\ measuring' = IF measuring = "idle" THEN "off" ELSE "late"
    /\ UNCHANGED <<detector, buffer, speedtest, posting, made, have, overflow>> /\ _persist

\* the process ends; the next one reads the file when the feature is switched on
Crash ==
    /\ Turn /\ measuring' = (IF measuring \in {"off", "late"} THEN "off" ELSE "idle") /\ _load /\ speedtest' = "no" /\ posting' = NoPost
    /\ UNCHANGED <<disk, made, have, overflow>>

Report == ServerTakes \/ reported

\* a good measurement when the retry time has passed
GoodTick == measured(TRUE, "isp", FALSE, "no", TRUE)

Next ==
    \/ tick
    \/ \E closed \in {"yes", "no"}, retry \in BOOLEAN :
          \/ tickInSpeedtest(closed, retry)
          \/ \E ok, long \in BOOLEAN, cause \in {"isp", "router"} :
                measured(ok, cause, long, closed, retry)
    \/ Report \/ reportFails \/ startSpeedtest \/ speedtestDone \/ enable \/ disable \/ Crash

-----------------------------------------------------------------------------
(* Type invariant of the internet quality. *)
TypeOK ==
    /\ measuring \in {"off", "idle", "measure", "late"} /\ speedtest \in {"yes", "no"}
    /\ Cardinality(buffer.samples) <= SampleMax /\ Cardinality(Ids(buffer.outages)) <= OutageMax
    /\ Cardinality(buffer.speedtests) <= SpeedtestMax
    /\ posting.pc \in {"idle", "post", "taken"} /\ Cardinality(posting.samples) <= PerReport

(* Every sample and speedtest made, and the last state of every outage, is *)
(* at the server or in the buffer, unless a full buffer dropped it: over   *)
(* lost answers, an outage that ends during a report, and crashes.         *)
NothingLost ==
    /\ 1..made.samples \subseteq have.samples \cup buffer.samples \cup overflow.samples
    /\ 1..made.speedtests \subseteq have.speedtests \cup buffer.speedtests \cup overflow.speedtests
    /\ \A o \in made.outages :
          o \in have.outages \cup buffer.outages \/ o.id \in overflow.outages

(* What is in the buffer reaches the server while the feature is on.       *)
BufferReported == <>[](measuring \in {"idle", "measure"} => buffer = Empty)
=============================================================================
