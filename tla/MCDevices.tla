----------------------------- MODULE MCDevices -----------------------------
(***************************************************************************)
(* Services with devices in the LAN: print jobs for devices that also scan *)
(* and the local AI, with what is proved of them for any jobs, devices,    *)
(* chats and limits, and, checked in one run with them, one camera.  They  *)
(* share no state, so each behaviour lets one of them run (focus).         *)
(***************************************************************************)
EXTENDS PrintJobs, Sequences, FiniteSetTheorems, TLAPS

CONSTANTS
    Chats, AiPlaces, AiQueue, AiSettings, AiPulls,   \* of AiChats
    j1, j2, d1                                       \* jobs and the device of the run

ASSUME ChatsAssumption == IsFiniteSet(Chats)
ASSUME PlacesAssumption == AiPlaces \in Nat /\ AiQueue \in Nat

VARIABLES
    source, aiActive, waiting, chat, pull, reachable, ticking, aiUsed,
    focus, cfg, creds, rts, cur, file, timer, tick, events, pending, post, told,
    camLost, camUsed

-----------------------------------------------------------------------------
(* Proofs about the print queue: types, a device does one thing at a time, *)
(* and a job is handed to a printer once unless an answer or a final state *)
(* was lost, for every set of jobs and devices and every bound.            *)

Lost(j) == j \in lost.answer \cup lost.final

\* runs exist only while pollJobs awaits them
Poll == poll # "runs" => \A j \in Jobs : job[j].pc = "idle"

\* a list the ETag stands for holds every job of this.jobs: an answer 304
\* starts no job that the server has dropped
Etag == \A j \in Jobs : etag.st = "some" /\ job[j].known = "yes" => j \in etag.list

\* a job that was printed is on record: in the journal, in t.final, in its run
\* or on the server
Once(j) ==
    \/ Lost(j) \/ prints[j] = 0
    \/ /\ prints[j] = 1
       /\ \/ j \in journal \/ job[j].final = "some" \/ job[j].pc = "printed"
          \/ server[j] # "queued" /\ job[j].pc = "idle"

\* a run that has not reached the printer belongs to a job that was not printed
Before(j) ==
    \/ job[j].pc \in {"download", "attrs", "convert"}
    \/ job[j].pc = "print" /\ j \notin journal
    => Lost(j) \/ prints[j] = 0

\* a final state outside a run is kept in this.jobs
Kept(j) == job[j].pc = "idle" /\ job[j].known = "no" => job[j].final = "none"

PrintInv ==
    journal = disk /\ Poll /\ Etag /\ \A j \in Jobs : Once(j) /\ Before(j) /\ Kept(j)

\* `busy` holds the devices of runs and of scans
Busy ==
    /\ scans \subseteq busy
    /\ \A j \in Jobs : job[j].held = "yes" => DeviceOf[j] \in busy
    /\ \A j \in Jobs : job[j].pc = "idle" => job[j].held = "no"
    /\ \A j \in Jobs : job[j].pc \notin {"idle", "final"} => job[j].held = "yes"

DeviceInv == Poll /\ Busy /\ DeviceExclusive

-----------------------------------------------------------------------------
\* the provers that a step names no other for
USE SMTT(30), Z3T(30), Zenon

LEMMA InitInv == Init => TypeOK /\ PrintInv /\ DeviceInv
  BY DEF Init, TypeOK, JobRecord, Fresh, PrintInv, Poll, Etag, Once, Before,
         Kept, Lost,
         DeviceInv, Busy, DeviceExclusive

PC == {"idle", "download", "attrs", "convert", "print", "printed", "watch", "final"}

\* the values the steps of a run give to a job's record
LEMMA Records ==
  ASSUME NEW r \in JobRecord
  PROVE  /\ Fresh \in JobRecord
         /\ [Fresh EXCEPT !.known = "yes"] \in JobRecord
         /\ [Fresh EXCEPT !.known = r.known] \in JobRecord
         /\ \A h \in {"yes", "no"} :
               [known |-> r.known, pc |-> "final", held |-> h, final |-> "some",
                left |-> 0, conv |-> "no"] \in JobRecord
         /\ \A p \in PC : [r EXCEPT !.pc = p] \in JobRecord
         /\ [r EXCEPT !.pc = "idle", !.held = "no"] \in JobRecord
         /\ [r EXCEPT !.pc = "download", !.held = "yes"] \in JobRecord
         /\ [r EXCEPT !.pc = "final", !.final = "some"] \in JobRecord
         /\ [r EXCEPT !.known = "no"] \in JobRecord
<1> USE DEF JobRecord, PC
<1>1. /\ Fresh \in JobRecord
      /\ [Fresh EXCEPT !.known = "yes"] \in JobRecord
      /\ [Fresh EXCEPT !.known = r.known] \in JobRecord
  BY DEF Fresh
<1>2. \A h \in {"yes", "no"} :
        [known |-> r.known, pc |-> "final", held |-> h, final |-> "some",
         left |-> 0, conv |-> "no"] \in JobRecord
  OBVIOUS
<1>3. \A p \in PC : [r EXCEPT !.pc = p] \in JobRecord
  OBVIOUS
<1>4. /\ [r EXCEPT !.pc = "idle", !.held = "no"] \in JobRecord
      /\ [r EXCEPT !.pc = "download", !.held = "yes"] \in JobRecord
      /\ [r EXCEPT !.pc = "final", !.final = "some"] \in JobRecord
      /\ [r EXCEPT !.known = "no"] \in JobRecord
  BY Zenon
<1> QED
  BY <1>1, <1>2, <1>3, <1>4

LEMMA Moved ==
  ASSUME NEW r \in JobRecord, NEW p \in PC, NEW n \in 0..2
  PROVE  /\ [r EXCEPT !.pc = p, !.left = n] \in JobRecord
         /\ [r EXCEPT !.pc = p, !.left = n, !.conv = "yes"] \in JobRecord
<1>1. [r EXCEPT !.pc = p, !.left = n] \in JobRecord
  BY Zenon DEF JobRecord, PC
<1>2. [r EXCEPT !.pc = p, !.left = n, !.conv = "yes"] \in JobRecord
  BY Zenon DEF JobRecord, PC
<1> QED
  BY <1>1, <1>2

LEMMA MovedTo ==
  ASSUME NEW r \in JobRecord
  PROVE  /\ [r EXCEPT !.pc = "print", !.left = 1] \in JobRecord
         /\ [r EXCEPT !.pc = "watch", !.left = 0] \in JobRecord
         /\ \A n \in 1..2 : [r EXCEPT !.pc = "print", !.left = n, !.conv = "yes"] \in JobRecord
<1>1. 0 \in 0..2 /\ 1 \in 0..2 /\ \A n \in 1..2 : n \in 0..2
  OBVIOUS
<1>2. "print" \in PC /\ "watch" \in PC
  BY DEF PC
<1> QED
  BY <1>1, <1>2, Moved, Zenon

LEMMA MergedType == TypeOK => Merged \in [Jobs -> JobRecord]
  BY Zenon, Records DEF TypeOK, Merged

LEMMA TypeStep == TypeOK /\ [Next]_vars => TypeOK'
<1> SUFFICES ASSUME TypeOK, [Next]_vars PROVE TypeOK'
  OBVIOUS
<1> USE DeviceAssumption DEF TypeOK
<1>0. \A j \in Jobs : job[j] \in JobRecord
  OBVIOUS
<1>1. CASE pollJobs
  BY <1>1 DEF pollJobs
<1>2. CASE ListFails
  BY <1>2 DEF ListFails
<1>3. CASE ListReturns
  <2>1. Merged \in [Jobs -> JobRecord]
    BY MergedType
  <2>2. PICK out \in Begins(Merged) :
           /\ job' = Started(Merged, out)
           /\ busy' = busy \cup {DeviceOf[j] : j \in {k \in DOMAIN out : out[k] = "start"}}
           /\ journal' = journal \ {j \in DOMAIN out : out[j] \in {"sent", "fail"}}
           /\ disk' \in {disk, journal'}
    BY <1>3 DEF ListReturns
  <2>3. DOMAIN out \subseteq Jobs
        /\ \A j \in DOMAIN out : out[j] \in {"start", "sent", "fail", "resend", "skip"}
    BY <2>2 DEF Begins
  <2>4. job' \in [Jobs -> JobRecord]
    <3>1. ASSUME NEW j \in Jobs PROVE Started(Merged, out)[j] \in JobRecord
      BY Zenon, <2>1, <2>3, Records DEF Started
    <3> QED
      BY Zenon, <2>2, <3>1 DEF Started
  <2>5. busy' \subseteq Devices /\ journal' \subseteq Jobs /\ disk' \subseteq Jobs
    BY <2>2, <2>3
  <2>6. etag' \in [st : {"none", "some"}, list : SUBSET Jobs]
    BY <1>3 DEF ListReturns, Listed
  <2> QED
    BY <1>3, <2>4, <2>5, <2>6 DEF ListReturns
<1>4. CASE RunsEnd
  BY <1>4 DEF RunsEnd
<1>5. ASSUME NEW j \in Jobs, Run(j) PROVE TypeOK'
  <2> DEFINE Shape == /\ \E r \in JobRecord : job' = [job EXCEPT ![j] = r]
                      /\ busy' \in {busy, busy \ {DeviceOf[j]}}
                      /\ journal' \in {journal, journal \cup {j}, journal \ {j}}
                      /\ disk' \in {disk, journal'}
                      /\ enabled' = enabled /\ poll' = poll /\ scans' = scans
  <2>1. CASE Downloaded(j)
    <3>1. Shape
      BY Zenon, <1>0, <2>1, Records DEF Downloaded, Goto, _wait, Freed, PC
    <3> QED
      BY <2>1, <3>1 DEF Downloaded
  <2>2. CASE Checked(j)
    <3>1. Shape
      <4>1. CASE job' = [job EXCEPT ![j] = [@ EXCEPT !.pc = "print", !.left = 1]]
                 /\ UNCHANGED <<journal, disk, busy>>
        <5> DEFINE r == [job[j] EXCEPT !.pc = "print", !.left = 1]
        <5>1. r \in JobRecord
          BY <1>0, MovedTo, Zenon
        <5>2. job' = [job EXCEPT ![j] = r]
          BY <2>2, <4>1
        <5> HIDE DEF r
        <5> QED
          BY Zenon, <5>1, <5>2, <2>2, <4>1 DEF Checked
      <4>2. CASE Goto(j, "convert")
        BY Zenon, <1>0, <2>2, <4>2, Records DEF Checked, Goto, PC
      <4>3. CASE _finish(j)
        BY Zenon, <1>0, <2>2, <4>3, Records DEF Checked, _finish, Ended, Freed
      <4>4. CASE _wait(j)
        BY Zenon, <1>0, <2>2, <4>4, Records DEF Checked, _wait, Freed
      <4> QED
        BY <2>2, <4>1, <4>2, <4>3, <4>4 DEF Checked
    <3> QED
      BY <2>2, <3>1 DEF Checked
  <2>3. CASE Converted(j)
    <3>1. Shape
      <4>1. ASSUME NEW n \in 1..2, UNCHANGED <<journal, disk, busy>>,
                   job' = [job EXCEPT ![j] =
                              [@ EXCEPT !.pc = "print", !.left = n, !.conv = "yes"]]
            PROVE  Shape
        <5> DEFINE r == [job[j] EXCEPT !.pc = "print", !.left = n, !.conv = "yes"]
        <5>1. r \in JobRecord
          BY <1>0, MovedTo, Zenon
        <5>2. job' = [job EXCEPT ![j] = r]
          BY <2>3, <4>1
        <5> HIDE DEF r
        <5> QED
          BY Zenon, <5>1, <5>2, <2>3, <4>1 DEF Converted
      <4>2. CASE _finish(j)
        BY Zenon, <1>0, <2>3, <4>2, Records DEF Converted, _finish, Ended, Freed
      <4> QED
        BY <2>3, <4>1, <4>2 DEF Converted
    <3> QED
      BY <2>3, <3>1 DEF Converted
  <2>4. CASE PrinterTakes(j)
    <3>1. Shape
      BY Zenon, <1>0, <2>4, Records DEF PrinterTakes, Goto, PC
    <3> QED
      BY <2>4, <3>1 DEF PrinterTakes
  <2>5. CASE PrinterRefuses(j)
    <3>1. Shape
      BY Zenon, <1>0, <2>5, Records DEF PrinterRefuses, Goto, _wait, _finishHeld, Ended, Freed, PC
    <3> QED
      BY <2>5, <3>1 DEF PrinterRefuses
  <2>6. CASE Answered(j)
    <3>1. Shape
      <4>1. CASE job[j].left = 2
        <5> DEFINE r == [job[j] EXCEPT !.pc = "print", !.left = 1]
        <5>1. r \in JobRecord
          BY <1>0, MovedTo, Zenon
        <5>2. job' = [job EXCEPT ![j] = r]
          BY <2>6, <4>1 DEF Answered
        <5> HIDE DEF r
        <5> QED
          BY Zenon, <5>1, <5>2, <2>6, <4>1 DEF Answered
      <4>2. CASE job[j].left # 2
        <5> DEFINE r == [job[j] EXCEPT !.pc = "watch", !.left = 0]
        <5>1. r \in JobRecord
          BY <1>0, MovedTo, Zenon
        <5>2. job' = [job EXCEPT ![j] = r]
          BY <2>6, <4>2 DEF Answered
        <5> HIDE DEF r
        <5> QED
          BY Zenon, <5>1, <5>2, <2>6, <4>2 DEF Answered
      <4> QED
        BY <4>1, <4>2
    <3> QED
      BY <2>6, <3>1 DEF Answered
  <2>7. CASE AnswerLost(j)
    <3>1. Shape
      BY Zenon, <1>0, <2>7, Records DEF AnswerLost, _wait, _finishHeld, Ended, Freed, PC
    <3> QED
      BY <2>7, <3>1 DEF AnswerLost
  <2>8. CASE _watch(j)
    <3>1. Shape
      BY Zenon, <1>0, <2>8, Records DEF _watch, _finish, Ended, Freed, PC
    <3> QED
      BY <2>8, <3>1 DEF _watch
  <2>9. CASE _sendFinal(j)
    <3>1. Shape
      BY Zenon, <1>0, <2>9, Records DEF _sendFinal, Freed, PC
    <3> QED
      BY <2>9, <3>1 DEF _sendFinal
  <2>10. CASE FinalFails(j)
    <3>1. Shape
      BY Zenon, <1>0, <2>10, Records DEF FinalFails, Freed, PC
    <3> QED
      BY <2>10, <3>1 DEF FinalFails
  <2> QED
    BY <1>5, <2>1, <2>2, <2>3, <2>4, <2>5, <2>6, <2>7, <2>8, <2>9, <2>10 DEF Run
<1>6. ASSUME NEW j \in Jobs, ServerDrops(j) PROVE TypeOK'
  BY <1>6 DEF ServerDrops
<1>7. ASSUME NEW d \in Devices, requestScan(d) \/ ScanEnds(d) PROVE TypeOK'
  BY <1>7 DEF requestScan, ScanEnds
<1>8. CASE _shutdown
  BY Zenon, <1>0, <1>8, Records DEF _shutdown, Forgotten
<1>9. CASE apply
  BY <1>9 DEF apply
<1>10. CASE Restart
  BY Zenon, <1>0, <1>10, Records DEF Restart
<1>11. CASE UNCHANGED vars
  BY <1>11 DEF vars
<1> QED
  BY <1>1, <1>2, <1>3, <1>4, <1>5, <1>6, <1>7, <1>8, <1>9, <1>10, <1>11 DEF Next

-----------------------------------------------------------------------------
\* A step of a run changes one record; what it does to that record, to the
\* journal and to `busy` is all that the invariants need to know of it.
LEMMA DeviceStep == TypeOK /\ DeviceInv /\ [Next]_vars => DeviceInv'
<1> SUFFICES ASSUME TypeOK, DeviceInv, [Next]_vars PROVE DeviceInv'
  OBVIOUS
<1> USE DeviceAssumption DEF TypeOK, DeviceInv, Poll, Busy, DeviceExclusive
<1>1. CASE pollJobs
  BY <1>1 DEF pollJobs
<1>2. CASE ListFails
  BY <1>2 DEF ListFails
<1>3. CASE ListReturns
  <2>1. \A j \in Jobs : Merged[j].pc = "idle" /\ Merged[j].held = "no"
    BY <1>3 DEF ListReturns, Merged, Fresh
  <2>2. PICK out \in Begins(Merged) :
           /\ job' = Started(Merged, out)
           /\ busy' = busy \cup {DeviceOf[j] : j \in {k \in DOMAIN out : out[k] = "start"}}
    BY <1>3 DEF ListReturns
  <2>3. /\ DOMAIN out \subseteq Jobs
        /\ \A j \in DOMAIN out : out[j] \in {"start", "sent", "fail", "resend", "skip"}
        /\ \A j \in DOMAIN out : out[j] = "start" =>
              /\ DeviceOf[j] \notin busy
              /\ \A k \in DOMAIN out :
                    out[k] = "start" /\ DeviceOf[k] = DeviceOf[j] => k = j
    BY <2>2 DEF Begins
  <2>4. ASSUME NEW j \in Jobs
        PROVE  /\ job'[j].held = "yes" => j \in DOMAIN out /\ out[j] = "start"
               /\ job'[j].pc = "idle" => job'[j].held = "no"
               /\ job'[j].pc \notin {"idle", "final"} => job'[j].held = "yes"
    <3>1. Merged[j] \in JobRecord
      BY MergedType
    <3>2. CASE j \notin DOMAIN out \/ out[j] = "skip"
      BY Zenon, <2>1, <2>2, <3>2 DEF Started
    <3>3. CASE j \in DOMAIN out /\ out[j] = "start"
      BY Zenon, <2>2, <3>1, <3>3 DEF Started, JobRecord
    <3>4. CASE j \in DOMAIN out /\ out[j] \in {"sent", "fail", "resend"}
      BY Zenon, <2>1, <2>2, <3>1, <3>4 DEF Started, JobRecord
    <3> QED
      BY <2>3, <3>2, <3>3, <3>4
  <2> QED
    BY <1>3, <2>2, <2>3, <2>4 DEF ListReturns
<1>4. CASE RunsEnd
  BY <1>4 DEF RunsEnd
<1>5. ASSUME NEW j \in Jobs, Run(j) PROVE DeviceInv'
  <2> DEFINE Keeps == /\ job[j].pc # "idle" /\ poll' = poll /\ scans' = scans
                      /\ \A k \in Jobs \ {j} : job'[k] = job[k]
                      /\ \/ /\ job'[j].held = "no" /\ busy' = Freed(j)
                            /\ job'[j].pc \in {"idle", "final"}
                         \/ /\ job'[j].held = job[j].held /\ busy' = busy
                            /\ job[j].held = "yes" /\ job'[j].pc # "idle"
  <2>1. ASSUME Keeps PROVE DeviceInv'
    BY <2>1 DEF Freed
  <2>2. job[j] \in JobRecord
    OBVIOUS
  <2> USE DEF JobRecord, Fresh
  <2>3. Downloaded(j) => Keeps
    BY <2>2 DEF Downloaded, Goto, _wait
  <2>4. Checked(j) => Keeps
    <3>1. ASSUME Checked(j), job' = [job EXCEPT ![j] = [@ EXCEPT !.pc = "print", !.left = 1]],
                 UNCHANGED busy
          PROVE  Keeps
      BY <2>2, <3>1 DEF Checked
    <3>2. ASSUME Checked(j), Goto(j, "convert") PROVE Keeps
      BY <2>2, <3>2 DEF Checked, Goto
    <3>3. ASSUME Checked(j), _finish(j) PROVE Keeps
      BY <2>2, <3>3 DEF Checked, _finish, Ended
    <3>4. ASSUME Checked(j), _wait(j) PROVE Keeps
      BY <2>2, <3>4 DEF Checked, _wait
    <3> HIDE DEF Keeps
    <3> QED
      BY <3>1, <3>2, <3>3, <3>4 DEF Checked
  <2>5. Converted(j) => Keeps
    <3>1. ASSUME Converted(j), UNCHANGED busy, NEW n \in 1..2,
                 job' = [job EXCEPT ![j] =
                            [@ EXCEPT !.pc = "print", !.left = n, !.conv = "yes"]]
          PROVE  Keeps
      BY <2>2, <3>1 DEF Converted
    <3>2. ASSUME Converted(j), _finish(j) PROVE Keeps
      BY <2>2, <3>2 DEF Converted, _finish, Ended
    <3> HIDE DEF Keeps
    <3> QED
      BY <3>1, <3>2 DEF Converted
  <2>6. PrinterTakes(j) => Keeps
    BY <2>2 DEF PrinterTakes, Goto
  <2>7. PrinterRefuses(j) => Keeps
    BY <2>2 DEF PrinterRefuses, Goto, _wait, _finishHeld, Ended
  <2>8. Answered(j) => Keeps
    BY <2>2 DEF Answered
  <2>9. AnswerLost(j) => Keeps
    BY <2>2 DEF AnswerLost, _wait, _finishHeld, Ended
  <2>10. _watch(j) => Keeps
    BY <2>2 DEF _watch, _finish, Ended
  <2>11. _sendFinal(j) => Keeps
    BY <2>2 DEF _sendFinal
  <2>12. FinalFails(j) => Keeps
    BY <2>2 DEF FinalFails
  <2> HIDE DEF Keeps
  <2> QED
    BY <1>5, <2>1, <2>3, <2>4, <2>5, <2>6, <2>7, <2>8, <2>9, <2>10, <2>11, <2>12 DEF Run
<1>6. ASSUME NEW j \in Jobs, ServerDrops(j) PROVE DeviceInv'
  BY <1>6 DEF ServerDrops
<1>7. ASSUME NEW d \in Devices, requestScan(d) \/ ScanEnds(d) PROVE DeviceInv'
  BY <1>7 DEF requestScan, ScanEnds
<1>8. CASE _shutdown
  BY <1>8 DEF _shutdown, Fresh
<1>9. CASE apply
  BY <1>9 DEF apply
<1>10. CASE Restart
  BY <1>10 DEF Restart, Fresh
<1>11. CASE UNCHANGED vars
  BY <1>11 DEF vars
<1> QED
  BY Zenon, <1>1, <1>2, <1>3, <1>4, <1>5, <1>6, <1>7, <1>8, <1>9, <1>10, <1>11 DEF Next

-----------------------------------------------------------------------------
LEMMA PrintStep == TypeOK /\ PrintInv /\ [Next]_vars => PrintInv'
<1> SUFFICES ASSUME TypeOK, PrintInv, [Next]_vars PROVE PrintInv'
  OBVIOUS
<1> USE DEF TypeOK, PrintInv, Poll, Etag, Once, Before, Kept, Lost
<1>1. CASE pollJobs
  BY <1>1 DEF pollJobs
<1>2. CASE ListFails
  BY <1>2 DEF ListFails
<1>3. CASE ListReturns
  <2>1. PICK out \in Begins(Merged) :
           /\ job' = Started(Merged, out)
           /\ journal' = journal \ {j \in DOMAIN out : out[j] \in {"sent", "fail"}}
           /\ disk' = journal'
    BY <1>3 DEF ListReturns
  <2>2. \A j \in DOMAIN out :
           /\ j \in Jobs /\ Merged[j].known = "yes"
           /\ out[j] \in {"start", "sent", "fail", "resend", "skip"}
           /\ out[j] = "start" => j \notin journal /\ Merged[j].final = "none"
    BY <2>1, MergedType DEF Begins, JobRecord
  <2>3. ASSUME NEW j \in Jobs
        PROVE  /\ Merged[j] \in JobRecord /\ Merged[j].pc = "idle"
               /\ Merged[j].known = "yes" => j \in Listed
               /\ Merged[j].known = "no" => Merged[j].final = "none"
               /\ job[j].final = "some" /\ j \in Listed => Merged[j].final = "some"
    BY <1>3, MergedType DEF ListReturns, Merged, Fresh, JobRecord
  <2>4. ASSUME NEW j \in Jobs
        PROVE  /\ job'[j].known = Merged[j].known
               /\ Merged[j].final = "some" => job'[j].final = "some"
               /\ j \in DOMAIN out /\ out[j] \in {"sent", "fail"} => job'[j].final = "some"
               /\ job'[j].pc \in {"idle", "download", "final"}
               /\ job'[j].pc = "download" => j \in DOMAIN out /\ out[j] = "start"
               /\ job'[j].pc = "idle" => job'[j] = Merged[j]
               /\ j \notin Listed => job'[j].pc = "idle"
    <3>1. CASE j \notin DOMAIN out \/ out[j] = "skip"
      BY Zenon, <2>1, <2>3, <3>1 DEF Started
    <3>2. CASE j \in DOMAIN out /\ out[j] = "start"
      <4>1. job'[j] = [Merged[j] EXCEPT !.pc = "download", !.held = "yes"]
        BY Zenon, <2>1, <3>2 DEF Started
      <4> QED
        BY <2>2, <2>3, <3>2, <4>1 DEF JobRecord
    <3>3. CASE j \in DOMAIN out /\ out[j] \in {"sent", "fail", "resend"}
      <4>1. job'[j] = [Merged[j] EXCEPT !.pc = "final", !.final = "some"]
        BY Zenon, <2>1, <3>3 DEF Started
      <4> QED
        BY <2>2, <2>3, <3>3, <4>1 DEF JobRecord
    <3> QED
      BY <2>2, <3>1, <3>2, <3>3
  <2>5. UNCHANGED <<server, prints, lost>> /\ poll = "list" /\ poll' = "runs"
        /\ etag' = [st |-> "some", list |-> Listed]
    BY <1>3 DEF ListReturns
  <2>6. Etag' /\ \A j \in Jobs : Kept(j)'
    BY <2>3, <2>4, <2>5
  <2>7. \A j \in Jobs : Once(j)'
    BY <2>1, <2>3, <2>4, <2>5 DEF Listed
  <2>8. \A j \in Jobs : Before(j)'
    BY <2>1, <2>2, <2>3, <2>4, <2>5 DEF Listed, JobRecord
  <2> QED
    BY <2>1, <2>5, <2>6, <2>7, <2>8
<1>4. CASE RunsEnd
  BY <1>4 DEF RunsEnd
<1>5. ASSUME NEW j \in Jobs, Run(j) PROVE PrintInv'
  <2> DEFINE Others ==
               /\ poll' = poll /\ disk' = journal' /\ (etag' = etag \/ etag'.st = "none")
               /\ \A k \in Jobs \ {j} :
                     /\ job'[k] = job[k] /\ prints'[k] = prints[k] /\ server'[k] = server[k]
                     /\ k \in journal' <=> k \in journal
                     /\ Lost(k)' <=> Lost(k)
             Mine == /\ job[j].pc # "idle" /\ job'[j].known \in {job[j].known, "no"}
                     /\ Once(j)' /\ Before(j)' /\ Kept(j)'
  <2>1. ASSUME Others, Mine PROVE PrintInv'
    <3>1. Poll' /\ Etag' /\ journal' = disk'
      BY <2>1
    <3>2. ASSUME NEW k \in Jobs \ {j} PROVE Once(k)' /\ Before(k)' /\ Kept(k)'
      BY <2>1, <3>2
    <3> QED
      BY <2>1, <3>1, <3>2
  <2>2. job[j] \in JobRecord
    OBVIOUS
  <2> USE DEF JobRecord, Fresh
  <2>3. CASE Downloaded(j)
    <3>1. Others
      BY <2>2, <2>3 DEF Downloaded, Goto, _wait
    <3>2. Mine
      BY <2>2, <2>3 DEF Downloaded, Goto, _wait
    <3> QED
      BY <2>1, <3>1, <3>2
  <2>4. CASE Checked(j)
    <3>1. CASE job' = [job EXCEPT ![j] = [@ EXCEPT !.pc = "print", !.left = 1]]
               /\ UNCHANGED <<journal, disk>>
      <4>1. Others
        BY <2>2, <2>4, <3>1 DEF Checked
      <4>2. Mine
        BY <2>2, <2>4, <3>1 DEF Checked
      <4> QED
        BY <2>1, <4>1, <4>2
    <3>2. CASE Goto(j, "convert")
      BY <2>1, <2>2, <2>4, <3>2 DEF Checked, Goto
    <3>3. CASE _finish(j)
      BY <2>1, <2>2, <2>4, <3>3 DEF Checked, _finish, Ended
    <3>4. CASE _wait(j)
      BY <2>1, <2>2, <2>4, <3>4 DEF Checked, _wait
    <3> QED
      BY <2>4, <3>1, <3>2, <3>3, <3>4 DEF Checked
  <2>5. CASE Converted(j)
    <3>1. Others
      <4>1. ASSUME NEW n \in 1..2, UNCHANGED <<journal, disk>>,
                   job' = [job EXCEPT ![j] =
                              [@ EXCEPT !.pc = "print", !.left = n, !.conv = "yes"]]
            PROVE  Others
        BY <2>5, <4>1 DEF Converted
      <4>2. CASE _finish(j)
        BY <2>5, <4>2 DEF Converted, _finish
      <4> HIDE DEF Others
      <4> QED
        BY <2>5, <4>1, <4>2 DEF Converted
    <3>2. Mine
      <4>1. ASSUME NEW n \in 1..2, UNCHANGED journal,
                   job' = [job EXCEPT ![j] =
                              [@ EXCEPT !.pc = "print", !.left = n, !.conv = "yes"]]
            PROVE  Mine
        BY <2>2, <2>5, <4>1 DEF Converted
      <4>2. CASE _finish(j)
        BY <2>2, <2>5, <4>2 DEF Converted, _finish, Ended
      <4> HIDE DEF Mine
      <4> QED
        BY <2>5, <4>1, <4>2 DEF Converted
    <3> QED
      BY <2>1, <3>1, <3>2
  <2>6. CASE PrinterTakes(j)
    <3>1. Others
      BY <2>2, <2>6 DEF PrinterTakes, Goto
    <3>2. Mine
      BY <2>2, <2>6 DEF PrinterTakes, Goto
    <3> QED
      BY <2>1, <3>1, <3>2
  <2>7. CASE PrinterRefuses(j)
    <3>1. Others
      <4>1. CASE _wait(j)
        BY <2>7, <4>1 DEF PrinterRefuses, _wait
      <4>2. CASE Goto(j, "convert")
        BY <2>7, <4>2 DEF PrinterRefuses, Goto
      <4>3. CASE _finishHeld(j)
        BY <2>7, <4>3 DEF PrinterRefuses, _finishHeld
      <4> HIDE DEF Others
      <4> QED
        BY <2>7, <4>1, <4>2, <4>3 DEF PrinterRefuses
    <3>2. Mine
      BY <2>2, <2>7 DEF PrinterRefuses, Goto, _wait, _finishHeld, Ended
    <3> QED
      BY <2>1, <3>1, <3>2
  <2>8. CASE Answered(j)
    <3>1. Others
      BY <2>2, <2>8 DEF Answered
    <3>2. Mine
      BY <2>2, <2>8 DEF Answered
    <3> QED
      BY <2>1, <3>1, <3>2
  <2>9. CASE AnswerLost(j)
    <3>1. Others
      <4>1. CASE _finishHeld(j) /\ UNCHANGED lost
        BY <2>9, <4>1 DEF AnswerLost, _finishHeld
      <4>2. CASE _wait(j) /\ lost' = [lost EXCEPT !.answer = @ \cup {j}]
        BY <2>9, <4>2 DEF AnswerLost, _wait
      <4> HIDE DEF Others
      <4> QED
        BY <2>9, <4>1, <4>2 DEF AnswerLost
    <3>2. Mine
      BY <2>2, <2>9 DEF AnswerLost, _wait, _finishHeld, Ended
    <3> QED
      BY <2>1, <3>1, <3>2
  <2>10. CASE _watch(j)
    <3>1. Others
      BY <2>2, <2>10 DEF _watch, _finish
    <3>2. Mine
      BY <2>2, <2>10 DEF _watch, _finish, Ended
    <3> QED
      BY <2>1, <3>1, <3>2
  <2>11. CASE _sendFinal(j)
    <3>1. Others
      BY <2>2, <2>11 DEF _sendFinal
    <3>2. Mine
      BY <2>2, <2>11 DEF _sendFinal
    <3> QED
      BY <2>1, <3>1, <3>2
  <2>12. CASE FinalFails(j)
    <3>1. Others
      BY <2>2, <2>12 DEF FinalFails
    <3>2. Mine
      BY <2>2, <2>12 DEF FinalFails
    <3> QED
      BY <2>1, <3>1, <3>2
  <2> QED
    BY Zenon, <1>5, <2>3, <2>4, <2>5, <2>6, <2>7, <2>8, <2>9, <2>10, <2>11, <2>12 DEF Run
<1>6. ASSUME NEW j \in Jobs, ServerDrops(j) PROVE PrintInv'
  BY <1>6 DEF ServerDrops
<1>7. ASSUME NEW d \in Devices, requestScan(d) \/ ScanEnds(d) PROVE PrintInv'
  BY <1>7 DEF requestScan, ScanEnds
<1>8. CASE _shutdown
  BY <1>8 DEF _shutdown, Forgotten, Fresh, JobRecord
<1>9. CASE apply
  BY <1>9 DEF apply
<1>10. CASE Restart
  BY <1>10 DEF Restart, Fresh, JobRecord
<1>11. CASE UNCHANGED vars
  BY <1>11 DEF vars
<1> QED
  BY Zenon, <1>1, <1>2, <1>3, <1>4, <1>5, <1>6, <1>7, <1>8, <1>9, <1>10, <1>11 DEF Next

-----------------------------------------------------------------------------
(* The types of the queue's state hold whatever jobs, devices and bounds   *)
(* (print/print.js).                                                       *)
THEOREM TypeCorrect == Spec => []TypeOK
<1>1. Init => TypeOK
  BY InitInv
<1> QED
  BY <1>1, TypeStep, PTL DEF Spec

(* `busy` keeps every device to one job or one scan at a time              *)
(* (print.js pollJobs, _run, requestScan).                                 *)
THEOREM OneThingAtATime == Spec => []DeviceExclusive
<1>1. Init => TypeOK /\ DeviceInv
  BY InitInv
<1>2. DeviceInv => DeviceExclusive
  BY DEF DeviceInv
<1> QED
  BY <1>1, <1>2, TypeStep, DeviceStep, PTL DEF Spec

(* A job is handed to a printer at most once, for any number of failures,  *)
(* retries, conversions, switches and crashes, unless the printer's answer *)
(* or the gateway's final state was lost (print.js _run, _sendParts,       *)
(* _finish and the journal).                                               *)
THEOREM NoDoublePrint == Spec => []PrintedOnce
<1>1. Init => TypeOK /\ PrintInv
  BY InitInv
<1>2. TypeOK /\ PrintInv => PrintedOnce
  BY DEF TypeOK, PrintInv, Once, Lost, PrintedOnce
<1> QED
  BY <1>1, <1>2, TypeStep, PrintStep, PTL DEF Spec

-----------------------------------------------------------------------------
(* The local AI. *)
Ai == INSTANCE AiChats WITH
    MaxActive <- AiPlaces, MaxWaiting <- AiQueue, MaxSettings <- AiSettings,
    MaxPulls <- AiPulls, active <- aiActive

AiSpec == Ai!Init /\ [][Ai!Next]_(Ai!aivars)

Distinct(w) == \A i, j \in 1..Len(w) : w[i] = w[j] => i = j
AiInv == Ai!TypeOK /\ Ai!SlotsAccounted /\ Distinct(waiting)

Waits(ch) == {c \in Chats : ch[c] = "waiting"}
Runs(ch) == {c \in Chats : ch[c] \in {"running", "aborted"}}
States == {"new", "waiting", "running", "aborted", "ended"}
\* the queue w holds just the chats of ch that wait, each once
Queued(w, ch) ==
    /\ w \in Seq(Chats) /\ Distinct(w) /\ Len(w) = Cardinality(Waits(ch))
    /\ \A c \in Chats : ch[c] = "waiting" <=> \E k \in 1..Len(w) : w[k] = c
\* what the counts say
Places(n, w, ch) ==
    /\ ch \in [Chats -> States] /\ n \in Nat /\ n = Cardinality(Runs(ch)) /\ n <= AiPlaces
    /\ Queued(w, ch) /\ Len(w) <= AiQueue /\ (w # <<>> => n = AiPlaces)

LEMMA AiCardinality == ASSUME NEW S PROVE Ai!Cardinality(S) = Cardinality(S)
  BY DEF Ai!Cardinality, Cardinality

LEMMA ChatsFinite ==
    ASSUME NEW ch
    PROVE  /\ IsFiniteSet(Waits(ch)) /\ Cardinality(Waits(ch)) \in Nat
           /\ IsFiniteSet(Runs(ch)) /\ Cardinality(Runs(ch)) \in Nat
  <1>1. Waits(ch) \in SUBSET Chats /\ Runs(ch) \in SUBSET Chats
    BY DEF Waits, Runs
  <1> QED
    BY <1>1, ChatsAssumption, FS_Subset, FS_CardinalityType

LEMMA AiParts == AiInv <=> Ai!TypeOK /\ Places(aiActive, waiting, chat)
  <1>1. Ai!Running = Runs(chat) /\ Waits(chat) = {c \in Chats : chat[c] = "waiting"}
    BY DEF Ai!Running, Runs, Waits
  <1> QED
    BY Zenon, <1>1, AiCardinality DEF AiInv, Places, Queued, Ai!TypeOK, Ai!SlotsAccounted, States

LEMMA AiWhole == ASSUME Ai!TypeOK', Places(aiActive', waiting', chat') PROVE AiInv'
  <1>1. Ai!Running' = Runs(chat') /\ Waits(chat') = {c \in Chats : chat'[c] = "waiting"}
    BY DEF Ai!Running, Runs, Waits
  <1> QED
    BY Zenon, <1>1, AiCardinality DEF AiInv, Places, Queued, Ai!TypeOK, Ai!SlotsAccounted, States

LEMMA Concat ==
    ASSUME NEW S, NEW q \in Seq(S), NEW e \in Seq(S)
    PROVE  /\ q \o e \in Seq(S) /\ Len(q \o e) = Len(q) + Len(e)
           /\ \A k \in 1..Len(q) + Len(e) : (q \o e)[k] = IF k <= Len(q) THEN q[k] ELSE e[k - Len(q)]
  OBVIOUS

\* a chat comes to wait at the end
LEMMA ChatWaits ==
    ASSUME NEW w, NEW ch \in [Chats -> States], Queued(w, ch), NEW c \in Chats, ch[c] # "waiting"
    PROVE  Queued(Append(w, c), [ch EXCEPT ![c] = "waiting"])
  <1> DEFINE v == Append(w, c)
             d == [ch EXCEPT ![c] = "waiting"]
  <1>1. /\ v \in Seq(Chats) /\ Len(v) = Len(w) + 1 /\ v[Len(w) + 1] = c /\ Len(w) \in Nat
        /\ \A k \in 1..Len(w) : v[k] = w[k] /\ w[k] # c
    BY DEF Queued
  <1>2. \A k \in 1..Len(v) : k \in 1..Len(w) \/ k = Len(w) + 1
    BY <1>1
  <1>3. \A k \in 1..Len(w) : k \in 1..Len(v)
    BY <1>1
  <1>4. Distinct(v)
    BY <1>1, <1>2 DEF Queued, Distinct
  <1>5. Len(v) = Cardinality(Waits(d))
    <2>1. Waits(d) = Waits(ch) \cup {c} /\ c \notin Waits(ch)
      BY DEF Waits
    <2> QED
      <3>1. IsFiniteSet(Waits(ch))
        BY ChatsFinite
      <3>2. Cardinality(Waits(ch) \cup {c}) = Cardinality(Waits(ch)) + 1
        BY <2>1, <3>1, FS_AddElement
      <3> QED
        BY Zenon, <1>1, <2>1, <3>2 DEF Queued
  <1>6. Len(w) + 1 \in 1..Len(v)
    BY <1>1
  <1>7. \A x \in Chats : d[x] = "waiting" <=> \E k \in 1..Len(v) : v[k] = x
    <2> HIDE DEF v
    <2>1. \A x \in Chats : d[x] = "waiting" <=> ch[x] = "waiting" \/ x = c
      OBVIOUS
    <2> HIDE DEF d
    <2>2. ASSUME NEW x \in Chats, ch[x] = "waiting" PROVE \E k \in 1..Len(v) : v[k] = x
      <3>1. PICK k \in 1..Len(w) : w[k] = x
        BY <2>2 DEF Queued
      <3>2. k \in 1..Len(v) /\ v[k] = x
        BY Zenon, <1>1, <1>3, <3>1
      <3> QED
        BY Zenon, <3>2
    <2>3. ASSUME NEW x \in Chats, NEW k \in 1..Len(v), v[k] = x PROVE ch[x] = "waiting" \/ x = c
      <3>1. CASE k \in 1..Len(w)
        BY Zenon, <1>1, <2>3, <3>1 DEF Queued
      <3>2. CASE k = Len(w) + 1
        BY Zenon, <1>1, <2>3, <3>2
      <3> QED
        BY Zenon, <1>2, <3>1, <3>2
    <2> QED
      BY Zenon, <1>1, <1>6, <2>1, <2>2, <2>3
  <1> QED
    BY <1>1, <1>4, <1>5, <1>7 DEF Queued

\* a chat leaves the queue from its place m, and goes on as s
LEMMA ChatLeaves ==
    ASSUME NEW w, NEW ch \in [Chats -> States], Queued(w, ch), NEW m \in 1..Len(w), NEW s \in States,
           s # "waiting", NEW v \in Seq(Chats), Len(v) = Len(w) - 1,
           \A k \in 1..Len(v) : v[k] = IF k < m THEN w[k] ELSE w[k + 1]
    PROVE  w[m] \in Chats /\ ch[w[m]] = "waiting" /\ Queued(v, [ch EXCEPT ![w[m]] = s])
  <1>1. PICK c \in Chats : c = w[m]
    BY DEF Queued
  <1> DEFINE d == [ch EXCEPT ![c] = s]
  <1>2. ch[c] = "waiting" /\ Len(w) \in Nat /\ Len(v) \in Nat
    BY <1>1 DEF Queued
  <1>3. \A k \in 1..Len(v) : /\ k < m => k \in 1..Len(w) /\ v[k] = w[k]
                             /\ ~(k < m) => k + 1 \in 1..Len(w) /\ v[k] = w[k + 1] /\ k + 1 > m
    BY <1>2
  <1>4. Distinct(v)
    <2> SUFFICES ASSUME NEW i \in 1..Len(v), NEW j \in 1..Len(v), v[i] = v[j] PROVE i = j
      BY DEF Distinct
    <2>1. CASE i < m /\ j < m
      BY <1>3, <2>1 DEF Queued, Distinct
    <2>2. CASE ~(i < m) /\ ~(j < m)
      BY <1>3, <2>2 DEF Queued, Distinct
    <2>3. CASE i < m /\ ~(j < m)
      BY <1>3, <2>3 DEF Queued, Distinct
    <2>4. CASE ~(i < m) /\ j < m
      BY <1>3, <2>4 DEF Queued, Distinct
    <2> QED
      BY <2>1, <2>2, <2>3, <2>4
  <1>5. Len(v) = Cardinality(Waits(d))
    <2>1. Waits(d) = Waits(ch) \ {c} /\ c \in Waits(ch)
      BY <1>2 DEF Waits
    <2> QED
      BY Zenon, <1>2, <2>1, ChatsFinite, FS_RemoveElement DEF Queued
  <1>6. \A x \in Chats : (\E k \in 1..Len(v) : v[k] = x) <=> x # c /\ \E k \in 1..Len(w) : w[k] = x
    <2>1. ASSUME NEW x \in Chats, NEW k \in 1..Len(v), v[k] = x
          PROVE  x # c /\ \E l \in 1..Len(w) : w[l] = x
      BY <1>1, <1>3, <2>1 DEF Queued, Distinct
    <2>2. ASSUME NEW x \in Chats, x # c, NEW k \in 1..Len(w), w[k] = x
          PROVE  \E l \in 1..Len(v) : v[l] = x
      <3>1. CASE k < m
        BY <1>2, <1>3, <2>2, <3>1
      <3>2. CASE k > m
        <4>1. k - 1 \in 1..Len(v) /\ ~(k - 1 < m) /\ (k - 1) + 1 = k
          BY <1>2, <3>2
        <4> QED
          BY Zenon, <1>3, <2>2, <4>1
      <3> QED
        BY <1>1, <1>2, <2>2, <3>1, <3>2
    <2> QED
      BY Zenon, <2>1, <2>2
  <1>7. \A x \in Chats : d[x] = "waiting" <=> ch[x] = "waiting" /\ x # c
    OBVIOUS
  <1>8. \A x \in Chats : d[x] = "waiting" <=> \E k \in 1..Len(v) : v[k] = x
    BY Zenon, <1>6, <1>7 DEF Queued
  <1> QED
    BY Zenon, <1>1, <1>2, <1>4, <1>5, <1>8 DEF Queued

\* a chat that does not wait moves on
LEMMA ChatMoves ==
    ASSUME NEW w, NEW ch \in [Chats -> States], Queued(w, ch), NEW d \in [Chats -> States],
           \A x \in Chats : d[x] = "waiting" <=> ch[x] = "waiting"
    PROVE  Queued(w, d)
  <1>1. Waits(d) = Waits(ch)
    BY DEF Waits
  <1> QED
    BY Zenon, <1>1 DEF Queued

LEMMA AiInit == Ai!Init => AiInv
  <1> SUFFICES ASSUME Ai!Init PROVE AiInv
    OBVIOUS
  <1>1. chat \in [Chats -> States] /\ Waits(chat) = {} /\ Runs(chat) = {}
    BY DEF Ai!Init, States, Waits, Runs
  <1>2. waiting = <<>> /\ aiActive = 0
    BY DEF Ai!Init
  <1>3. Ai!TypeOK
    BY DEF Ai!Init, Ai!TypeOK
  <1>4. Cardinality({}) = 0
    BY FS_EmptySet
  <1>5. Places(aiActive, waiting, chat)
    <2>1. \A c \in Chats : chat[c] # "waiting"
      BY Zenon, <1>1 DEF Waits
    <2>2. Queued(waiting, chat)
      BY <1>1, <1>2, <1>4, <2>1 DEF Queued, Distinct
    <2> QED
      BY <1>1, <1>2, <1>4, <2>2, PlacesAssumption DEF Places
  <1> QED
    BY <1>3, <1>5, AiParts

\* the rest of the state stays what it was
AiRest == <<source, pull, reachable, ticking, aiUsed>>

LEMMA StartKeeps == ASSUME AiInv, NEW c \in Chats, Ai!startChat(c) PROVE AiInv'
  <1>1. Ai!TypeOK /\ Places(aiActive, waiting, chat)
    BY AiParts
  <1>2. chat[c] = "new" /\ UNCHANGED AiRest
    BY DEF Ai!startChat, AiRest
  <1>3. PICK ch \in [Chats -> States] : ch = chat
    BY <1>1 DEF Places
  <1>4. Queued(waiting, ch) /\ aiActive \in Nat /\ aiActive = Cardinality(Runs(ch)) /\ Len(waiting) \in Nat
    BY <1>1, <1>3 DEF Places, Queued
  <1>5. Places(aiActive', waiting', chat')
    <2>1. CASE aiActive < AiPlaces /\ aiActive' = aiActive + 1 /\ waiting' = waiting
               /\ chat' = [ch EXCEPT ![c] = "running"]
      <3>1. PICK d \in [Chats -> States] : d = [ch EXCEPT ![c] = "running"]
        BY Zenon DEF States
      <3>2. Runs(d) = Runs(ch) \cup {c} /\ c \notin Runs(ch)
        BY <1>2, <1>3, <3>1 DEF Runs
      <3>3. IsFiniteSet(Runs(ch))
        BY ChatsFinite
      <3>4. Cardinality(Runs(d)) = Cardinality(Runs(ch)) + 1
        BY Zenon, <3>2, <3>3, FS_AddElement
      <3>5. Queued(waiting, d)
        BY Zenon, <1>2, <1>3, <1>4, <3>1, ChatMoves
      <3>6. waiting = <<>> /\ Len(waiting) <= AiQueue
        BY <1>1, <2>1 DEF Places
      <3> QED
        BY <1>4, <2>1, <3>1, <3>4, <3>5, <3>6, PlacesAssumption DEF Places
    <2>2. CASE aiActive' = aiActive /\ waiting' = waiting /\ chat' = [ch EXCEPT ![c] = "ended"]
      <3>1. PICK d \in [Chats -> States] : d = [ch EXCEPT ![c] = "ended"]
        BY Zenon DEF States
      <3>2. Runs(d) = Runs(ch)
        BY <1>2, <1>3, <3>1 DEF Runs
      <3>3. Queued(waiting, d)
        BY Zenon, <1>2, <1>3, <1>4, <3>1, ChatMoves
      <3> QED
        BY <1>1, <1>3, <2>2, <3>1, <3>2, <3>3 DEF Places
    <2>3. CASE /\ aiActive >= AiPlaces /\ Len(waiting) < AiQueue /\ aiActive' = aiActive
               /\ waiting' = Append(waiting, c) /\ chat' = [ch EXCEPT ![c] = "waiting"]
      <3>1. PICK d \in [Chats -> States] : d = [ch EXCEPT ![c] = "waiting"]
        BY Zenon DEF States
      <3>2. Runs(d) = Runs(ch)
        BY <1>2, <1>3, <3>1 DEF Runs
      <3>3. Queued(Append(waiting, c), d)
        BY Zenon, <1>2, <1>3, <1>4, <3>1, ChatWaits
      <3>4. aiActive = AiPlaces /\ Len(Append(waiting, c)) <= AiQueue
        BY <1>1, <1>4, <2>3, PlacesAssumption DEF Places, Queued
      <3> QED
        BY Zenon, <1>4, <2>3, <3>1, <3>2, <3>3, <3>4 DEF Places
    <2> QED
      BY <1>3, <2>1, <2>2, <2>3 DEF Ai!startChat
  <1>6. Ai!TypeOK'
    BY <1>1, <1>2, <1>5 DEF Ai!TypeOK, AiRest, Places, Queued, States
  <1> QED
    BY <1>5, <1>6, AiWhole

LEMMA EndKeeps == ASSUME AiInv, NEW c \in Chats, Ai!endChat(c) PROVE AiInv'
  <1>1. Ai!TypeOK /\ Places(aiActive, waiting, chat)
    BY AiParts
  <1>2. chat[c] \in {"running", "aborted"} /\ UNCHANGED AiRest
    BY DEF Ai!endChat, AiRest, Ai!Running
  <1>3. PICK ch \in [Chats -> States] : ch = chat
    BY <1>1 DEF Places
  <1>4. /\ Queued(waiting, ch) /\ aiActive \in Nat /\ aiActive = Cardinality(Runs(ch))
        /\ waiting \in Seq(Chats) /\ Len(waiting) \in Nat
    BY <1>1, <1>3 DEF Places, Queued
  <1>5. PICK e \in [Chats -> States] : e = [ch EXCEPT ![c] = "ended"]
    BY DEF States
  <1>6. Queued(waiting, e)
    BY Zenon, <1>2, <1>3, <1>4, <1>5, ChatMoves
  <1>7. IsFiniteSet(Runs(e)) /\ Cardinality(Runs(e)) \in Nat /\ Cardinality(Runs(e)) = aiActive - 1
    <2>1. Runs(e) = Runs(ch) \ {c} /\ c \in Runs(ch)
      BY <1>2, <1>3, <1>5 DEF Runs
    <2>2. IsFiniteSet(Runs(ch)) /\ IsFiniteSet(Runs(e)) /\ Cardinality(Runs(e)) \in Nat
      BY ChatsFinite
    <2> QED
      BY <1>4, <2>1, <2>2, FS_RemoveElement
  <1>8. Places(aiActive', waiting', chat')
    <2>1. CASE waiting = <<>> /\ aiActive' = aiActive - 1 /\ waiting' = waiting /\ chat' = e
      BY <1>1, <1>4, <1>5, <1>6, <1>7, <2>1, PlacesAssumption DEF Places
    <2>2. CASE /\ waiting # <<>> /\ waiting' = Tail(waiting) /\ aiActive' = aiActive
               /\ chat' = [e EXCEPT ![Head(waiting)] = "running"]
      <3>1. /\ Head(waiting) = waiting[1] /\ 1 \in 1..Len(waiting) /\ Tail(waiting) \in Seq(Chats)
            /\ Len(Tail(waiting)) = Len(waiting) - 1
            /\ \A k \in 1..Len(Tail(waiting)) : Tail(waiting)[k] = waiting[k + 1] /\ ~(k < 1)
        BY <1>4, <2>2
      <3>2. PICK h : h = waiting[1]
        BY ZenonT(30)
      <3>3. /\ h \in Chats /\ e[h] = "waiting"
            /\ Queued(Tail(waiting), [e EXCEPT ![h] = "running"])
        BY Zenon, <1>5, <1>6, <3>1, <3>2, ChatLeaves DEF States
      <3>4. PICK d \in [Chats -> States] : d = [e EXCEPT ![h] = "running"]
        BY Zenon, <3>3 DEF States
      <3>5. Runs(d) = Runs(e) \cup {h} /\ h \notin Runs(e)
        BY <3>3, <3>4 DEF Runs
      <3>6. Cardinality(Runs(d)) = Cardinality(Runs(e)) + 1
        BY Zenon, <1>7, <3>5, FS_AddElement
      <3>7. aiActive = AiPlaces /\ Len(Tail(waiting)) <= AiQueue
        BY <1>1, <1>4, <2>2, <3>1, PlacesAssumption DEF Places
      <3> QED
        BY <1>4, <1>7, <2>2, <3>1, <3>2, <3>3, <3>4, <3>6, <3>7, PlacesAssumption DEF Places
    <2>3. [chat EXCEPT ![c] = "ended", ![Head(waiting)] = "running"] = [e EXCEPT ![Head(waiting)] = "running"]
      BY Zenon, <1>3, <1>5
    <2> QED
      BY <1>3, <1>5, <2>1, <2>2, <2>3 DEF Ai!endChat, Ai!release
  <1>9. Ai!TypeOK'
    BY <1>1, <1>2, <1>8 DEF Ai!TypeOK, AiRest, Places, Queued, States
  <1> QED
    BY <1>8, <1>9, AiWhole

LEMMA CloseKeeps == ASSUME AiInv, NEW c \in Chats, Ai!clientCloses(c) PROVE AiInv'
  <1>1. Ai!TypeOK /\ Places(aiActive, waiting, chat)
    BY AiParts
  <1>2. aiActive' = aiActive /\ UNCHANGED AiRest
    BY Zenon DEF Ai!clientCloses, AiRest
  <1>3. PICK ch \in [Chats -> States] : ch = chat
    BY <1>1 DEF Places
  <1>4. /\ Queued(waiting, ch) /\ waiting \in Seq(Chats) /\ Len(waiting) \in Nat
    BY <1>1, <1>3 DEF Places, Queued
  <1>5. Places(aiActive', waiting', chat')
    <2>1. ASSUME chat[c] = "running", chat' = [chat EXCEPT ![c] = "aborted"], waiting' = waiting
          PROVE  Places(aiActive', waiting', chat')
      <3>1. PICK d \in [Chats -> States] : d = [ch EXCEPT ![c] = "aborted"]
        BY Zenon DEF States
      <3>2. Runs(d) = Runs(ch)
        BY <1>3, <2>1, <3>1 DEF Runs
      <3>3. Queued(waiting, d)
        BY Zenon, <1>3, <1>4, <2>1, <3>1, ChatMoves
      <3> QED
        BY <1>1, <1>2, <1>3, <2>1, <3>1, <3>2, <3>3 DEF Places
    <2>2. ASSUME chat[c] = "waiting", chat' = [chat EXCEPT ![c] = "ended"],
                 NEW m \in 1..Len(waiting), waiting[m] = c,
                 waiting' = SubSeq(waiting, 1, m - 1) \o SubSeq(waiting, m + 1, Len(waiting))
          PROVE  Places(aiActive', waiting', chat')
      <3>1. PICK a : a = SubSeq(waiting, 1, m - 1)
        BY Zenon
      <3>2. PICK b : b = SubSeq(waiting, m + 1, Len(waiting))
        BY Zenon
      <3>3. /\ a \in Seq(Chats) /\ Len(a) = m - 1 /\ \A k \in 1..Len(a) : a[k] = waiting[k]
        BY <1>4, <3>1
      <3>4. /\ b \in Seq(Chats) /\ Len(b) = Len(waiting) - m
            /\ \A k \in 1..Len(b) : b[k] = waiting[m + k]
        BY <1>4, <3>2
      <3>5. PICK v : v = a \o b
        BY Zenon
      <3>6. /\ v \in Seq(Chats) /\ Len(v) = Len(a) + Len(b)
            /\ \A k \in 1..Len(v) : v[k] = IF k <= Len(a) THEN a[k] ELSE b[k - Len(a)]
        <4>1. /\ a \o b \in Seq(Chats) /\ Len(a \o b) = Len(a) + Len(b)
              /\ \A k \in 1..Len(a) + Len(b) : (a \o b)[k] = IF k <= Len(a) THEN a[k] ELSE b[k - Len(a)]
          BY <3>3, <3>4, Concat
        <4> QED
          BY Zenon, <3>5, <4>1
      <3>7. Len(v) = Len(waiting) - 1
        BY <1>4, <3>3, <3>4, <3>6
      <3>8. ASSUME NEW k \in 1..Len(v) PROVE v[k] = IF k < m THEN waiting[k] ELSE waiting[k + 1]
        <4>1. CASE k < m
          <5>1. k \in 1..Len(a) /\ k <= Len(a)
            BY <3>3, <4>1
          <5> QED
            BY <3>3, <3>6, <4>1, <5>1
        <4>2. CASE ~(k < m)
          <5>1. k - Len(a) \in 1..Len(b) /\ ~(k <= Len(a)) /\ m + (k - Len(a)) = k + 1
            BY <1>4, <3>3, <3>4, <3>7, <4>2
          <5> QED
            BY Zenon, <3>4, <3>6, <4>2, <5>1
        <4> QED
          BY <4>1, <4>2
      <3>9. PICK d \in [Chats -> States] : d = [ch EXCEPT ![c] = "ended"]
        BY Zenon DEF States
      <3>10. Queued(v, d)
        BY Zenon, <1>4, <2>2, <3>6, <3>7, <3>8, <3>9, ChatLeaves DEF States
      <3>11. Runs(d) = Runs(ch)
        BY <1>3, <2>2, <3>9 DEF Runs
      <3>12. aiActive = AiPlaces /\ Len(v) <= AiQueue
        BY <1>1, <1>4, <2>2, <3>7, PlacesAssumption DEF Places
      <3>13. waiting' = v /\ chat' = d
        BY <1>3, <2>2, <3>1, <3>2, <3>5, <3>9
      <3> QED
        BY Zenon, <1>1, <1>2, <1>3, <3>9, <3>10, <3>11, <3>12, <3>13 DEF Places
    <2> QED
      BY ZenonT(30), <2>1, <2>2 DEF Ai!clientCloses
  <1>6. Ai!TypeOK'
    BY <1>1, <1>2, <1>5 DEF Ai!TypeOK, AiRest, Places, Queued, States
  <1> QED
    BY <1>5, <1>6, AiWhole

LEMMA AiStep == AiInv /\ [Ai!Next]_(Ai!aivars) => AiInv'
  <1> SUFFICES ASSUME AiInv, [Ai!Next]_(Ai!aivars) PROVE AiInv'
    OBVIOUS
  <1>1. Ai!TypeOK /\ Places(aiActive, waiting, chat)
    BY AiParts
  <1>2. ASSUME NEW s \in {"off", "service", "lan"}, Ai!apply(s) PROVE AiInv'
    <2>1. /\ Ai!Running = Runs(chat) /\ aiActive' = aiActive /\ waiting' = waiting
          /\ \/ chat' = chat
             \/ chat' = [c \in Chats |-> IF c \in Runs(chat) THEN "aborted" ELSE chat[c]]
      BY <1>2 DEF Ai!apply, Ai!abortRunning, Ai!Running, Runs
    <2>2. PICK ch \in [Chats -> States] : ch = chat
      BY <1>1 DEF Places
    <2>3. PICK d \in [Chats -> States] : d = [c \in Chats |-> IF c \in Runs(ch) THEN "aborted" ELSE ch[c]]
      BY Zenon DEF States
    <2>4. Runs(d) = Runs(ch) /\ \A c \in Chats : d[c] = "waiting" <=> ch[c] = "waiting"
      BY <2>3 DEF Runs
    <2>5. Queued(waiting, d)
      BY <1>1, <2>2, <2>4, ChatMoves DEF Places
    <2>6. Places(aiActive', waiting', chat')
      BY <1>1, <2>1, <2>2, <2>3, <2>4, <2>5 DEF Places
    <2>7. Ai!TypeOK'
      BY <1>1, <1>2, <2>1, <2>6 DEF Ai!TypeOK, Places, Queued, States, Ai!apply, Ai!cancelPull
    <2> QED
      BY <2>6, <2>7, AiWhole
  <1>3. ASSUME UNCHANGED <<aiActive, waiting, chat>>, Ai!TypeOK' PROVE AiInv'
    <2>1. Places(aiActive', waiting', chat')
      BY Zenon, <1>1, <1>3
    <2> QED
      BY <1>3, <2>1, AiWhole
  <1>4. CASE Ai!requestPull
    BY <1>1, <1>3, <1>4 DEF Ai!requestPull, Ai!TypeOK
  <1>5. CASE Ai!requestCancel
    BY <1>1, <1>3, <1>5 DEF Ai!requestCancel, Ai!cancelPull, Ai!TypeOK
  <1>6. CASE Ai!PullStep
    BY <1>1, <1>3, <1>6 DEF Ai!PullStep, Ai!pullEnds, Ai!tick, Ai!ticked, Ai!TypeOK, Ai!Ticks
  <1>7. CASE Ai!removeModel
    BY <1>1, <1>3, <1>7 DEF Ai!removeModel, Ai!TypeOK, Ai!Ticks
  <1>8. CASE Ai!RemoveStep
    BY <1>1, <1>3, <1>8 DEF Ai!RemoveStep, Ai!tick, Ai!ticked, Ai!TypeOK, Ai!Ticks
  <1>9. CASE Ai!loopTick
    BY <1>1, <1>3, <1>9 DEF Ai!loopTick, Ai!tick, Ai!TypeOK, Ai!Ticks
  <1>10. CASE Ai!loopTicked
    BY <1>1, <1>3, <1>10 DEF Ai!loopTicked, Ai!ticked, Ai!TypeOK, Ai!Ticks
  <1>11. CASE UNCHANGED Ai!aivars
    BY <1>1, <1>3, <1>11 DEF Ai!aivars, Ai!TypeOK
  <1> QED
    BY <1>2, <1>4, <1>5, <1>6, <1>7, <1>8, <1>9, <1>10, <1>11, StartKeeps, EndKeeps, CloseKeeps
       DEF Ai!Next

(* active counts exactly the chats that run, the queue holds exactly those *)
(* that wait, each once, and nobody waits while a place is free, for any   *)
(* number of chats, places and waiting ones, whenever clients close and    *)
(* the AI is switched (ai/ai.js _slot, _release).                          *)
THEOREM PlacesHold == AiSpec => []Ai!SlotsAccounted
  <1>1. AiInv => Ai!SlotsAccounted
    BY DEF AiInv
  <1> QED
    BY AiInit, AiStep, <1>1, PTL DEF AiSpec

(* Places and the queue for AI answers are accounted for and nobody waits  *)
(* while a place is free (ai/ai.js _slot, _release).                       *)
SlotsAccounted == Ai!SlotsAccounted

(* The places for answers are counted right and no chat waits while one is *)
(* free (ai/ai.js _slot, _release), for any chats, places and queue.       *)
THEOREM SlotsAccountedHolds == AiSpec => []SlotsAccounted
  <1>1. Ai!SlotsAccounted => SlotsAccounted
    BY DEF SlotsAccounted
  <1> QED
    BY <1>1, PlacesHold, PTL

-----------------------------------------------------------------------------
(* The run. *)
MCDeviceOf == [j \in {j1, j2} |-> d1]

Cam == INSTANCE Cameras WITH
    Hosts <- {1, 2}, Revs <- {1, 2}, Kinds <- {1, 2}, Ticks <- {1},
    MaxRts <- 2, MaxEvents <- 1, MaxMsgs <- 2, MaxChanges <- 3, MaxFaults <- 1,
    MaxPending <- 2, BatchMax <- 2,
    lost <- camLost, used <- camUsed

cvars == <<cfg, creds, rts, cur, file, timer, tick, events, pending, post, told, camLost, camUsed>>
aivars == <<source, aiActive, waiting, chat, pull, reachable, ticking, aiUsed>>
all == <<focus, vars, aivars, cvars>>

MCInit == focus \in {"print", "cameras", "ai"} /\ Init /\ Cam!Init /\ Ai!Init

InPrint(A) == focus = "print" /\ A /\ UNCHANGED <<focus, cvars, aivars>>
InCameras(A) == focus = "cameras" /\ A /\ UNCHANGED <<focus, vars, aivars>>
InAi(A) == focus = "ai" /\ A /\ UNCHANGED <<focus, vars, cvars>>

MCNext == InPrint(Next) \/ InCameras(Cam!Next) \/ InAi(Ai!Next)

(* Printing as in PrintJobs.  Cameras: requests are answered or time out,  *)
(* the two loops run, and the time for resolving a camera again comes      *)
(* (10 minutes after a success, a backoff after a failure).  AI: answers   *)
(* and downloads end, the loop goes on.  As focus never changes, one       *)
(* condition on a step of any service is one on each.                      *)
Either(A, B) == InPrint(A) \/ InCameras(B)
Each(A, B, C) == Either(A, B) \/ InAi(C)

MCFairness ==
    /\ WF_all(Each(pollJobs \/ ListReturns \/ RunsEnd, Cam!TickStep(1), Ai!PullStep))
    /\ WF_all(Each(apply, Cam!Answer \/ Cam!CredsArrive, Ai!RemoveStep))
    /\ WF_all(Each(ScanEnds(d1), Cam!Posted, Ai!loopTick))
    /\ WF_all(Each(Run(j1), Cam!RecordEnds, Ai!loopTicked))
    /\ WF_all(Each(Run(j2), Cam!RecordEnds, \E c \in Chats : Ai!endChat(c)))
    /\ \A j \in {j1, j2} :
          SF_all(Either(ListReturns /\ (job[j].pc # "idle")', Cam!Resolve(1)))

MCSpec == MCInit /\ [][MCNext]_all /\ MCFairness

-----------------------------------------------------------------------------
(* Type invariants of the services. *)
TypesOK == TypeOK /\ Cam!TypeOK /\ Ai!TypeOK

(* Every print job ends on the server: no order of polls, failures,        *)
(* switches and crashes makes the gateway forget a queued job for good     *)
(* (print.js: the ETag and this.jobs are reset together).  A camera in the *)
(* settings is served in the end, at its present address, with the access  *)
(* data of the server, a control file and a subscription as the settings   *)
(* want them, unless a revision of the access data was missed; an event    *)
(* the server was told of is told to be over and its clip is closed        *)
(* (cameras.js _syncCreds, tick, resolve, recordStep, _endEvent, _flush).  *)
(* Nobody waits for an AI place for ever, a download ends, and the answer  *)
(* of a tick under way when the AI was switched off does not leave it      *)
(* reachable (ai/ai.js chat, requestPull, tick).                           *)
DevicesSettle ==
    /\ <>[](focus = "print" => \A j \in Jobs : server[j] # "queued")
    /\ Cam!CameraServed /\ Cam!EventsEnd
    /\ Ai!ChatsEnd /\ Ai!PullEnds /\ Ai!OffIsUnreachable
=============================================================================
