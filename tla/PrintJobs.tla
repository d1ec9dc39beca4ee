----------------------------- MODULE PrintJobs -----------------------------
(***************************************************************************)
(* The job queue of PrintService (print/print.js): jobs are polled from    *)
(* the server, handed to printers over IPP and reported back.  A journal   *)
(* on disk says which jobs a printer has already got.  Scans share the     *)
(* devices through `busy`.                                                 *)
(*                                                                         *)
(* A job's record is the `t` of this.jobs and the place its run is at:     *)
(*   known  - it is in this.jobs (disabling the feature empties the Map    *)
(*            while runs go on)                                            *)
(*   pc     - what its run awaits: download, attrs, convert, print (the    *)
(*            request is on its way), printed (the printer took it, the    *)
(*            answer is under way), watch, final; idle without a run       *)
(*   held   - its run holds the device in `busy`                           *)
(*   final  - t.final is set                                               *)
(*   left   - parts still to send; conv - the file has been converted      *)
(* Whether t.nextTryAt has passed is left open.  Posts whose answer is     *)
(* ignored (sending, printing, waiting) are left out, as is the expiry of  *)
(* journal entries after two days.                                         *)
(***************************************************************************)
EXTENDS Naturals, FiniteSets

CONSTANTS
    Jobs, Devices,
    DeviceOf,     \* the printer of each job
    MaxFaults,    \* bound: requests that fail
    MaxToggles,   \* bound: how often the feature is switched off
    MaxScans,     \* bound: scans requested
    MaxRestarts   \* bound: process crashes or restarts

ASSUME DeviceAssumption == DeviceOf \in [Jobs -> Devices]

VARIABLES
    enabled,   \* cfg.enabled
    poll,      \* this.polling: idle, list (awaits the job list), runs
    job,       \* per job, see above
    journal,   \* this.journal
    disk,      \* print-journal.json
    busy,      \* this.busy
    scans,     \* devices with a scan under way
    etag,      \* the list this.etag stands for, with "none" when it is null
    server,    \* per job on the server: queued, final, gone
    prints,    \* how often a printer took the job
    lost,      \* what got lost: answers of printers, final states (sets of jobs)
    used

vars == <<enabled, poll, job, journal, disk, busy, scans, etag, server, prints,
          lost, used>>

Fresh == [known |-> "no", pc |-> "idle", held |-> "no", final |-> "none",
          left |-> 0, conv |-> "no"]

Init ==
    /\ enabled = "on" /\ poll = "idle" /\ job = [j \in Jobs |-> Fresh]
    /\ journal = {} /\ disk = {} /\ busy = {} /\ scans = {}
    /\ etag = [st |-> "none", list |-> {}]
    /\ server = [j \in Jobs |-> "queued"]
    /\ prints = [j \in Jobs |-> 0] /\ lost = [answer |-> {}, final |-> {}]
    /\ used = [faults |-> 0, toggles |-> 0, restarts |-> 0, scans |-> 0]

Listed == {j \in Jobs : server[j] = "queued"}
Fault == used.faults < MaxFaults /\ used' = [used EXCEPT !.faults = @ + 1]

-----------------------------------------------------------------------------
(* Polling.                                                                *)

pollJobs ==
    /\ enabled = "on" /\ poll = "idle" /\ poll' = "list"
    /\ UNCHANGED <<enabled, job, journal, disk, busy, scans, etag, server, prints,
                   lost, used>>

ListFails ==
    /\ poll = "list" /\ Fault /\ poll' = "idle"
    /\ etag' = [st |-> "none", list |-> {}]
    /\ UNCHANGED <<enabled, job, journal, disk, busy, scans, server, prints, lost>>

\* this.jobs after the list: jobs the server dropped go, new ones come
Merged ==
    IF etag.st = "some" /\ etag.list = Listed THEN job
    ELSE [j \in Jobs |-> IF j \notin Listed THEN Fresh
                         ELSE IF job[j].known = "yes" THEN job[j]
                         ELSE [Fresh EXCEPT !.known = "yes"]]

\* mutant: a device that is scanning or printing is not spared
BeginsAnywhere(t) ==
    {out \in [{j \in Jobs : t[j].known = "yes"} -> {"start", "sent", "fail", "resend", "skip"}] :
        \A j \in DOMAIN out :
            /\ out[j] = "resend" <=> t[j].final # "none" /\ out[j] # "skip"
            /\ out[j] = "sent" => j \in journal
            /\ out[j] \in {"start", "fail"} => j \notin journal}

\* What the loop of _pollJobs does with each job: skip it (nextTryAt lies
\* ahead, its device is busy or unknown), send its final state again, or enter
\* _run, which ends it at once or starts it; a device gets one job.
Begins(t) ==
    {out \in [{j \in Jobs : t[j].known = "yes"} -> {"start", "sent", "fail", "resend", "skip"}] :
        \A j \in DOMAIN out :
            /\ out[j] = "resend" <=> t[j].final # "none" /\ out[j] # "skip"
            /\ out[j] \in {"start", "sent", "fail"} => DeviceOf[j] \notin busy
            /\ out[j] = "sent" => j \in journal
            /\ out[j] \in {"start", "fail"} => j \notin journal
            /\ out[j] = "start" => \A k \in DOMAIN out :
                   out[k] = "start" /\ DeviceOf[k] = DeviceOf[j] => k = j}

Started(t, out) ==
    [j \in Jobs |->
        IF j \notin DOMAIN out THEN t[j]
        ELSE CASE out[j] = "start" -> [t[j] EXCEPT !.pc = "download", !.held = "yes"]
               [] out[j] \in {"sent", "fail", "resend"} ->
                     [t[j] EXCEPT !.pc = "final", !.final = "some"]
               [] out[j] = "skip" -> t[j]]

ListReturns ==
    /\ poll = "list" /\ poll' = "runs"
    /\ etag' = [st |-> "some", list |-> Listed]
    /\ \E out \in Begins(Merged) :
          LET ended == {j \in DOMAIN out : out[j] \in {"sent", "fail"}}
          IN  /\ job' = Started(Merged, out)
              /\ busy' = busy \cup {DeviceOf[j] : j \in {k \in DOMAIN out : out[k] = "start"}}
              /\ journal' = journal \ ended
              /\ disk' = IF ended = {} THEN disk ELSE journal \ ended
    /\ UNCHANGED <<enabled, scans, server, prints, lost, used>>

\* Promise.all(runs) settles
RunsEnd ==
    /\ poll = "runs" /\ \A j \in Jobs : job[j].pc = "idle"
    /\ poll' = "idle"
    /\ UNCHANGED <<enabled, job, journal, disk, busy, scans, etag, server, prints,
                   lost, used>>

-----------------------------------------------------------------------------
(* One run.                                                                *)

\* `finally`: the device is free
Freed(j) == IF job[j].held = "yes" THEN busy \ {DeviceOf[j]} ELSE busy

Goto(j, pc) == /\ job' = [job EXCEPT ![j].pc = pc]
               /\ UNCHANGED <<journal, disk, busy>>

\* mutant: the entry of the Map goes with the run
_waitForgets(j) ==
    /\ job' = [k \in Jobs \ {j} |-> job[k]]
    /\ busy' = Freed(j) /\ UNCHANGED <<journal, disk>>

\* _wait: try again later
_wait(j) ==
    /\ job' = [job EXCEPT ![j] = [Fresh EXCEPT !.known = job[j].known]]
    /\ busy' = Freed(j) /\ UNCHANGED <<journal, disk>>

Ended(j, held) == [known |-> job[j].known, pc |-> "final", held |-> held,
                   final |-> "some", left |-> 0, conv |-> "no"]

\* _finish: the journal entry goes, the final state is posted
_finish(j) ==
    /\ job' = [job EXCEPT ![j] = Ended(j, "no")]
    /\ journal' = journal \ {j} /\ disk' = journal \ {j}
    /\ busy' = Freed(j)

\* ... awaited by _sendParts: the device stays taken until the post is over
_finishHeld(j) ==
    /\ job' = [job EXCEPT ![j] = Ended(j, "yes")]
    /\ journal' = journal \ {j} /\ disk' = journal \ {j}
    /\ UNCHANGED busy

Downloaded(j) ==
    /\ job[j].pc = "download"
    /\ \/ Goto(j, "attrs") /\ UNCHANGED used
       \/ _wait(j) /\ Fault
       \/ /\ server[j] # "queued" /\ UNCHANGED <<used, journal, disk>>     \* not_found
          /\ job' = [job EXCEPT ![j] = Fresh] /\ busy' = Freed(j)
    /\ UNCHANGED <<enabled, poll, scans, etag, server, prints, lost>>

\* the printer answered (or not); as it is, converted, or not at all
Checked(j) ==
    /\ job[j].pc = "attrs"
    /\ \/ /\ job' = [job EXCEPT ![j] = [@ EXCEPT !.pc = "print", !.left = 1]]
          /\ UNCHANGED <<used, journal, disk, busy>>
       \/ Goto(j, "convert") /\ UNCHANGED used
       \/ _finish(j) /\ Fault
       \/ _wait(j) /\ Fault
    /\ UNCHANGED <<enabled, poll, scans, etag, server, prints, lost>>

Converted(j) ==
    /\ job[j].pc = "convert"
    /\ \/ /\ \E n \in 1..2 : job' = [job EXCEPT ![j] =
                 [@ EXCEPT !.pc = "print", !.left = n, !.conv = "yes"]]
          /\ UNCHANGED <<used, journal, disk, busy>>
       \/ _finish(j) /\ Fault
    /\ UNCHANGED <<enabled, poll, scans, etag, server, prints, lost>>

\* printJob reaches the printer; later parts of the same job do not count
PrinterTakes(j) ==
    /\ job[j].pc = "print"
    /\ prints' = IF j \in journal THEN prints ELSE [prints EXCEPT ![j] = @ + 1]
    /\ Goto(j, "printed")
    /\ UNCHANGED <<enabled, poll, scans, etag, server, lost, used>>

\* the printer says no, or cannot be reached
PrinterRefuses(j) ==
    /\ job[j].pc = "print" /\ Fault
    /\ \/ j \notin journal /\ _wait(j)                      \* busy, offline
       \/ j \notin journal /\ job[j].conv = "no" /\ Goto(j, "convert")   \* 0x040a
       \/ _finishHeld(j)
    /\ UNCHANGED <<enabled, poll, scans, etag, server, prints, lost>>

\* mutant: the journal is written after the job was watched
AnsweredUnjournaled(j) ==
    /\ job[j].pc = "printed" /\ job[j].left <= 1
    /\ job' = [job EXCEPT ![j] = [@ EXCEPT !.pc = "watch", !.left = 0]]
    /\ UNCHANGED <<enabled, poll, journal, disk, busy, scans, etag, server, prints,
                   lost, used>>

\* the answer arrived: the job is in the journal before anything else happens
Answered(j) ==
    /\ job[j].pc = "printed"
    /\ job' = [job EXCEPT ![j] = IF @.left = 2
                                 THEN [@ EXCEPT !.pc = "print", !.left = 1]
                                 ELSE [@ EXCEPT !.pc = "watch", !.left = 0]]
    /\ journal' = journal \cup {j} /\ disk' = journal \cup {j}
    /\ UNCHANGED <<enabled, poll, busy, scans, etag, server, prints, lost, used>>

\* the answer got lost: printJob throws although the printer took the job
AnswerLost(j) ==
    /\ job[j].pc = "printed" /\ Fault
    /\ \/ j \in journal /\ _finishHeld(j) /\ UNCHANGED lost
       \/ /\ j \notin journal /\ _wait(j)
          /\ lost' = [lost EXCEPT !.answer = @ \cup {j}]
    /\ UNCHANGED <<enabled, poll, scans, etag, server, prints>>

\* done, failed, or unconfirmed
_watch(j) ==
    /\ job[j].pc = "watch" /\ _finish(j)
    /\ UNCHANGED <<enabled, poll, scans, etag, server, prints, lost, used>>

\* the server has the final state
_sendFinal(j) ==
    /\ job[j].pc = "final"
    /\ server' = [server EXCEPT ![j] = IF @ = "queued" THEN "final" ELSE @]
    /\ job' = [job EXCEPT ![j] = Fresh]
    /\ etag' = [st |-> "none", list |-> {}] /\ busy' = Freed(j)
    /\ UNCHANGED <<enabled, poll, journal, disk, scans, prints, lost, used>>

\* the post failed (or its answer was lost): t.final stays, if t is still in
\* this.jobs
FinalFails(j) ==
    /\ job[j].pc = "final" /\ Fault
    /\ \/ UNCHANGED server
       \/ server[j] = "queued" /\ server' = [server EXCEPT ![j] = "final"]
    /\ job' = [job EXCEPT ![j] = IF @.known = "yes"
                                 THEN [@ EXCEPT !.pc = "idle", !.held = "no"]
                                 ELSE Fresh]
    /\ busy' = Freed(j)
    /\ lost' = [lost EXCEPT !.final = @ \cup {k \in {j} : job[k].known = "no" /\ prints[k] > 0}]
    /\ UNCHANGED <<enabled, poll, journal, disk, scans, etag, prints>>

-----------------------------------------------------------------------------
(* Scans, the switch, crashes, the server.                                 *)

requestScan(d) ==
    /\ enabled = "on" /\ d \notin busy
    /\ used.scans < MaxScans /\ used' = [used EXCEPT !.scans = @ + 1]
    /\ busy' = busy \cup {d} /\ scans' = scans \cup {d}
    /\ UNCHANGED <<enabled, poll, job, journal, disk, etag, server, prints, lost>>

\* done, failed, cancelled or aborted
ScanEnds(d) ==
    /\ d \in scans /\ scans' = scans \ {d} /\ busy' = busy \ {d}
    /\ UNCHANGED <<enabled, poll, job, journal, disk, etag, server, prints, lost, used>>

\* jobs whose end the server does not know and that are about to be forgotten
Forgotten == {j \in Jobs : /\ job[j].final # "none" /\ job[j].pc = "idle"
                           /\ prints[j] > 0}

\* mutant: the ETag survives
_shutdownKeepsEtag ==
    /\ enabled = "on" /\ used.toggles < MaxToggles /\ enabled' = "off"
    /\ used' = [used EXCEPT !.toggles = @ + 1]
    /\ job' = [j \in Jobs |-> IF job[j].pc = "idle" THEN Fresh
                              ELSE [job[j] EXCEPT !.known = "no"]]
    /\ disk' = journal /\ lost' = [lost EXCEPT !.final = @ \cup Forgotten]
    /\ UNCHANGED <<poll, journal, busy, scans, server, prints, etag>>

\* the feature is switched off: this.jobs is emptied under running jobs
_shutdown ==
    /\ enabled = "on" /\ used.toggles < MaxToggles /\ enabled' = "off"
    /\ used' = [used EXCEPT !.toggles = @ + 1]
    /\ job' = [j \in Jobs |-> IF job[j].pc = "idle" THEN Fresh
                              ELSE [job[j] EXCEPT !.known = "no"]]
    /\ etag' = [st |-> "none", list |-> {}]
    /\ disk' = journal /\ lost' = [lost EXCEPT !.final = @ \cup Forgotten]
    /\ UNCHANGED <<poll, journal, busy, scans, server, prints>>

\* ... and on again: _restore adds the entries of the file
apply ==
    /\ enabled = "off" /\ enabled' = "on" /\ journal' = journal \cup disk
    /\ UNCHANGED <<poll, job, disk, busy, scans, etag, server, prints, lost, used>>

Restart ==
    /\ used.restarts < MaxRestarts /\ used' = [used EXCEPT !.restarts = @ + 1]
    /\ poll' = "idle" /\ job' = [j \in Jobs |-> Fresh]
    /\ journal' = disk /\ busy' = {} /\ scans' = {}
    /\ etag' = [st |-> "none", list |-> {}]
    /\ lost' = [answer |-> lost.answer \cup {j \in Jobs : job[j].pc = "printed"},
                final |-> lost.final \cup {j \in Jobs : job[j].final # "none" /\ prints[j] > 0}]
    /\ UNCHANGED <<enabled, disk, server, prints>>

\* the user takes a job back, or the server gives it up after 24 hours
ServerDrops(j) ==
    /\ server[j] = "queued" /\ server' = [server EXCEPT ![j] = "gone"]
    /\ UNCHANGED <<enabled, poll, job, journal, disk, busy, scans, etag, prints,
                   lost, used>>

Run(j) ==
    \/ Downloaded(j) \/ Checked(j) \/ Converted(j) \/ PrinterTakes(j)
    \/ PrinterRefuses(j) \/ Answered(j) \/ AnswerLost(j) \/ _watch(j)
    \/ _sendFinal(j) \/ FinalFails(j)

Next ==
    \/ pollJobs \/ ListFails \/ ListReturns \/ RunsEnd
    \/ \E j \in Jobs : Run(j) \/ ServerDrops(j)
    \/ \E d \in Devices : requestScan(d) \/ ScanEnds(d)
    \/ _shutdown \/ apply \/ Restart

Spec == Init /\ [][Next]_vars

(* The jobs loop keeps polling, awaited calls return, scans end (they have *)
(* timeouts), the feature is switched on again, and a job is not skipped   *)
(* for ever: its retry time comes and its device is found.                 *)
Fairness ==
    /\ WF_vars(pollJobs) /\ WF_vars(ListReturns) /\ WF_vars(RunsEnd) /\ WF_vars(apply)
    /\ \A j \in Jobs :
          /\ WF_vars(Run(j))
          /\ SF_vars(ListReturns /\ (job[j].pc # "idle")')
    /\ \A d \in Devices : WF_vars(ScanEnds(d))

FairSpec == Spec /\ Fairness

-----------------------------------------------------------------------------
JobRecord ==
    [known : {"yes", "no"}, held : {"yes", "no"}, final : {"none", "some"},
     pc : {"idle", "download", "attrs", "convert", "print", "printed", "watch", "final"},
     left : 0..2, conv : {"yes", "no"}]

(* Type invariant of the queue. *)
TypeOK ==
    /\ enabled \in {"on", "off"} /\ poll \in {"idle", "list", "runs"}
    /\ job \in [Jobs -> JobRecord] /\ journal \subseteq Jobs /\ disk \subseteq Jobs
    /\ busy \subseteq Devices /\ scans \subseteq Devices
    /\ etag \in [st : {"none", "some"}, list : SUBSET Jobs]
    /\ server \in [Jobs -> {"queued", "final", "gone"}]
    /\ prints \in [Jobs -> Nat] /\ lost \in [answer : SUBSET Jobs, final : SUBSET Jobs]

(* A job is handed to a printer once, through retries, conversions,        *)
(* crashes and switching off, unless the printer's answer was lost or the  *)
(* gateway forgot a final state the server had not got.                    *)
PrintedOnce == \A j \in Jobs : prints[j] > 1 => j \in lost.answer \cup lost.final

(* A device does one thing at a time: it never prints two jobs, or prints  *)
(* and scans, at once (`busy`).                                            *)
DeviceExclusive ==
    \A j \in Jobs : job[j].held = "yes" =>
        /\ DeviceOf[j] \notin scans
        /\ \A k \in Jobs : job[k].held = "yes" /\ DeviceOf[k] = DeviceOf[j] => k = j

(* print.js says the journal is kept "gegen Doppeldruck nach Neustart": a  *)
(* job that is on record as handed to a printer is not printed again, as   *)
(* long as no answer of the printer gets lost.                             *)
JournalStopsReprint == \A j \in Jobs : prints[j] > 1 => j \in lost.answer
=============================================================================
