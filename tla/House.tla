------------------------------- MODULE House --------------------------------
(***************************************************************************)
(* Parts that serve the house: the HTTP proxy, the settings of the parts,  *)
(* Bluetooth and Zigbee, and the list of printers.  They share no state.   *)
(* What they keep is proved here for every number of requests, parts,      *)
(* settings, helpers, overlapping calls, printers, changes and faults.     *)
(***************************************************************************)
EXTENDS Naturals, Sequences, TLAPS

CONSTANTS
    Requests, Domains, Hosts, Certs, CachedAgents, RouteChanges,  \* of HttpProxy
    Parts, DnsOn(_), Zone(_), OwnZone, MaxRev, PartFaults,        \* of Features
    Adapters, MaxHelpers, BleChanges, BleFaults, MaxAdverts,      \* of Ble
    Calls, Macs, ZigbeeChanges, MaxKeys, ZigbeeEvents,            \* of Zigbee
    Printers, PrinterChanges, PrinterFaults, MaxRetrusts          \* of PrintDevices

ASSUME PartsNamed == Parts \in Seq(STRING) /\ Parts # <<>>
\* "none" stands for no device and for no printer
ASSUME NoneAssumption == "none" \notin Macs /\ "none" \notin Printers

VARIABLES
    hroutes, hbackend, hagents, hreq, hwoken, hused,
    flife, fat, fpart, fchain, fboot, ftz, fskipped, fused,
    bcfg, bscanner, bhelper, bsensors, bpost, bserver, bused,
    zcfg, zenv, zflag, zwatcher, zz, zcall, zdeconz, zhistory, zused,
    dlan, dmanual, ddevices, drun, dserver, dconfirmed, dused

YesNo == {"yes", "no"}

-----------------------------------------------------------------------------
(* The settings: the chain of jobs is in the order of their settings, and  *)
(* no part is ahead of a job that is still to come; a process that is down *)
(* has neither jobs nor settings.                                          *)

Feat == INSTANCE Features WITH
    MaxFaults <- PartFaults,
    life <- flife, at <- fat, part <- fpart, chain <- fchain, boot <- fboot, tz <- ftz,
    skipped <- fskipped, used <- fused

fvars == <<flife, fat, fpart, fchain, fboot, ftz, fskipped, fused>>

Job == [rev : Nat, todo : Seq(STRING)]

\* jobs of a chain in order, none behind a part, none newer than top
InOrder(c, parts, top) ==
    /\ \A i \in 1..Len(c) :
        /\ c[i].rev <= top /\ c[i].todo # <<>>
        /\ \A p \in Feat!Names : parts[p] <= c[i].rev
    /\ \A i, j \in 1..Len(c) : i <= j => c[i].rev <= c[j].rev

FeatShape ==
    /\ flife \in {"up", "down"} /\ fpart \in [Feat!Names -> Nat] /\ fchain \in Seq(Job)
    /\ fused \in [rev : Nat, faults : Nat]
    /\ fboot.dns \in Nat /\ fboot.dns <= fused.rev

FeatInv ==
    /\ FeatShape /\ InOrder(fchain, fpart, fused.rev) /\ \A p \in Feat!Names : fpart[p] <= fused.rev
    /\ flife = "down" => fchain = <<>> /\ \A p \in Feat!Names : fpart[p] = 0

\* the provers that a step names no other for
USE SMTT(30), Z3T(30), Zenon

\* a newer job joins at the end
LEMMA JoinsInOrder ==
    ASSUME NEW c \in Seq(Job), NEW parts \in [Feat!Names -> Nat], NEW top \in Nat, NEW x \in Job,
           InOrder(c, parts, top), top <= x.rev, x.todo # <<>>, \A p \in Feat!Names : parts[p] <= x.rev
    PROVE  Append(c, x) \in Seq(Job) /\ InOrder(Append(c, x), parts, x.rev)
  <1>1. /\ Append(c, x) \in Seq(Job) /\ Len(Append(c, x)) = Len(c) + 1 /\ Len(c) \in Nat
        /\ \A i \in 1..Len(c) : Append(c, x)[i] = c[i]
        /\ Append(c, x)[Len(c) + 1] = x
    OBVIOUS
  <1>2. PICK d : d = Append(c, x)
    BY Zenon
  <1>3. \A i \in 1..Len(c) : c[i] \in Job
    OBVIOUS
  <1>4. ASSUME NEW i \in 1..Len(d)
        PROVE  /\ d[i].rev \in Nat /\ d[i].rev <= x.rev /\ d[i].todo # <<>>
               /\ \A p \in Feat!Names : parts[p] <= d[i].rev
    <2>1. CASE i \in 1..Len(c)
      <3>1. d[i] = c[i] /\ c[i].rev \in Nat
        BY <1>1, <1>2, <1>3, <2>1 DEF Job
      <3>2. /\ c[i].rev <= top /\ c[i].todo # <<>>
            /\ \A p \in Feat!Names : parts[p] <= c[i].rev
        BY <2>1 DEF InOrder
      <3>3. x.rev \in Nat
        BY DEF Job
      <3>4. c[i].rev <= x.rev
        BY <3>1, <3>2, <3>3
      <3> QED
        BY <3>1, <3>2, <3>4
    <2>2. CASE i = Len(c) + 1
      <3>1. d[i] = x /\ x.rev \in Nat
        BY <1>1, <1>2, <2>2 DEF Job
      <3> QED
        BY <3>1
    <2> QED
      BY <1>1, <1>2, <2>1, <2>2
  <1>5. ASSUME NEW i \in 1..Len(d), NEW j \in 1..Len(d), i <= j PROVE d[i].rev <= d[j].rev
    <2>1. CASE j \in 1..Len(c)
      <3>1. i \in 1..Len(c)
        BY <1>1, <1>2, <1>5, <2>1
      <3> QED
        BY <1>1, <1>2, <1>5, <2>1, <3>1 DEF InOrder
    <2>2. CASE j = Len(c) + 1
      BY <1>1, <1>2, <1>4, <2>2
    <2> QED
      BY <1>1, <1>2, <2>1, <2>2
  <1> QED
    BY <1>1, <1>2, <1>4, <1>5 DEF InOrder

\* the job at the head goes
LEMMA TailInOrder ==
    ASSUME NEW c \in Seq(Job), c # <<>>, NEW parts, NEW top, InOrder(c, parts, top)
    PROVE  Tail(c) \in Seq(Job) /\ InOrder(Tail(c), parts, top)
  <1>1. /\ Tail(c) \in Seq(Job) /\ Len(Tail(c)) = Len(c) - 1 /\ Len(c) \in Nat
        /\ \A i \in 1..Len(Tail(c)) : Tail(c)[i] = c[i + 1]
    OBVIOUS
  <1>2. \A i \in 1..Len(Tail(c)) : i + 1 \in 1..Len(c)
    BY <1>1
  <1> QED
    BY <1>1, <1>2 DEF InOrder

\* ... or stays with the parts that are still to come
LEMMA HeadInOrder ==
    ASSUME NEW c \in Seq(Job), c # <<>>, NEW parts, NEW top, InOrder(c, parts, top),
           NEW x \in Job, x.rev = c[1].rev, x.todo # <<>>
    PROVE  <<x>> \o Tail(c) \in Seq(Job) /\ InOrder(<<x>> \o Tail(c), parts, top)
  <1>1. /\ Tail(c) \in Seq(Job) /\ Len(Tail(c)) = Len(c) - 1 /\ Len(c) \in Nat \ {0}
        /\ \A i \in 1..Len(Tail(c)) : Tail(c)[i] = c[i + 1]
    OBVIOUS
  <1>2. PICK d : d = <<x>> \o Tail(c)
    BY Zenon
  <1>3. <<x>> \in Seq(Job) /\ Len(<<x>>) = 1 /\ <<x>>[1] = x
    OBVIOUS
  <1>4. /\ d \in Seq(Job) /\ Len(d) = 1 + Len(Tail(c))
        /\ \A i \in 1..1 + Len(Tail(c)) : d[i] = IF i <= 1 THEN <<x>>[i] ELSE Tail(c)[i - 1]
    BY <1>1, <1>2, <1>3
  <1>5. ASSUME NEW i \in 1..Len(d) PROVE d[i].rev = c[i].rev /\ d[i].todo # <<>> /\ i \in 1..Len(c)
    <2>1. CASE i = 1
      BY <1>1, <1>3, <1>4, <2>1
    <2>2. CASE i # 1
      <3>1. i - 1 \in 1..Len(Tail(c)) /\ i \in 1..Len(c)
        BY <1>1, <1>4, <2>2
      <3>2. d[i] = c[i]
        BY <1>1, <1>4, <2>2, <3>1
      <3> QED
        BY <3>1, <3>2 DEF InOrder
    <2> QED
      BY <2>1, <2>2
  <1> QED
    BY <1>2, <1>4, <1>5 DEF InOrder

\* a job with several parts to come still has one after the next
LEMMA LongTail ==
    ASSUME NEW t \in Seq(STRING), t # <<>>, Len(t) # 1
    PROVE  Tail(t) \in Seq(STRING) /\ Tail(t) # <<>>
  <1>1. Tail(t) \in Seq(STRING) /\ Len(Tail(t)) = Len(t) - 1
    OBVIOUS
  <1>2. Len(t) - 1 # 0
    OBVIOUS
  <1>3. Len(<<>>) = 0
    OBVIOUS
  <1> QED
    BY <1>1, <1>2, <1>3

\* jobs in order below a number are so below a larger one
LEMMA TopRises ==
    ASSUME NEW c \in Seq(Job), NEW parts, NEW low \in Nat, NEW top \in Nat, low <= top,
           InOrder(c, parts, low)
    PROVE  InOrder(c, parts, top)
  <1>0. \A i \in 1..Len(c) : c[i] \in Job
    OBVIOUS
  <1>1. \A i \in 1..Len(c) : c[i].rev \in Nat
    <2>1. \A x \in Job : x.rev \in Nat
      BY DEF Job
    <2> QED
      BY <1>0, <2>1
  <1>2. \A i \in 1..Len(c) : c[i].rev <= top
    BY <1>1 DEF InOrder
  <1> QED
    BY <1>2 DEF InOrder

\* the parts have names and there is one, the DNS filter

LEMMA FeatInit == Feat!Init => FeatInv
  BY DEF Feat!Init, Feat!Fresh, FeatInv, FeatShape, InOrder, Feat!NoFile

LEMMA RestoreHolds == ASSUME FeatInv, Feat!restoreBoot PROVE FeatInv' /\ Feat!Forward
  <1>1. /\ flife' = "up" /\ fpart' = fpart /\ fboot' = fboot /\ fused' = fused /\ fchain = <<>>
        /\ \A p \in Feat!Names : fpart[p] = 0
    BY DEF Feat!restoreBoot, FeatInv
  <1>2. CASE fchain' = fchain
    BY <1>1, <1>2 DEF FeatInv, FeatShape, Feat!Forward
  <1>3. CASE fchain' = Append(fchain, [rev |-> fboot.dns, todo |-> <<Parts[1]>>])
    <2>1. PICK x : x = [rev |-> fboot.dns, todo |-> <<Parts[1]>>]
      BY Zenon
    <2>2. Parts[1] \in STRING
      BY PartsNamed
    <2>3. x \in Job /\ x.rev = fboot.dns /\ x.todo # <<>>
      BY <2>1, <2>2 DEF FeatInv, FeatShape, Job
    <2>4. InOrder(fchain, fpart, 0)
      BY <1>1 DEF InOrder
    <2>5. Append(fchain, x) \in Seq(Job) /\ InOrder(Append(fchain, x), fpart, x.rev)
      <3>1. fchain \in Seq(Job) /\ fpart \in [Feat!Names -> Nat] /\ 0 \in Nat
        BY DEF FeatInv, FeatShape
      <3>2. 0 <= x.rev /\ \A p \in Feat!Names : fpart[p] <= x.rev
        BY <1>1, <2>3 DEF FeatInv, FeatShape
      <3> QED
        BY <2>3, <2>4, <3>1, <3>2, JoinsInOrder
    <2>6. InOrder(Append(fchain, x), fpart, fused.rev)
      <3>1. x.rev \in Nat /\ fused.rev \in Nat /\ x.rev <= fused.rev
        BY <2>3 DEF FeatInv, FeatShape
      <3> QED
        BY Zenon, <2>5, <3>1, TopRises
    <2> QED
      BY <1>1, <1>3, <2>1, <2>5, <2>6 DEF FeatInv, FeatShape, Feat!Forward
  <1> QED
    BY <1>2, <1>3 DEF Feat!restoreBoot, Feat!readJson, Feat!_serial

LEMMA SettingsApply == ASSUME FeatInv, Feat!apply PROVE FeatInv' /\ Feat!Forward
  <1>1. PICK r : r = fused.rev + 1
    OBVIOUS
  <1>2. /\ r \in Nat /\ fused.rev < r /\ flife = "up" /\ flife' = "up" /\ fpart' = fpart
        /\ fchain' = Append(fchain, [rev |-> r, todo |-> Parts]) /\ Feat!writeJson(Feat!Kept(r), r)
    BY <1>1 DEF Feat!apply, FeatInv, FeatShape, Feat!_serial
  <1>3. PICK x : x = [rev |-> r, todo |-> Parts]
    BY Zenon
  <1>4. x \in Job /\ x.rev = r /\ x.todo # <<>>
    BY <1>2, <1>3, PartsNamed DEF Job
  <1>5. \A p \in Feat!Names : fpart[p] <= r
    BY <1>2 DEF FeatInv, FeatShape
  <1>6. fchain' \in Seq(Job) /\ InOrder(fchain', fpart, r)
    <2>1. /\ fchain \in Seq(Job) /\ fpart \in [Feat!Names -> Nat] /\ fused.rev \in Nat
          /\ InOrder(fchain, fpart, fused.rev)
      BY DEF FeatInv, FeatShape
    <2>2. fused.rev <= x.rev /\ \A p \in Feat!Names : fpart[p] <= x.rev
      BY <1>2, <1>4, <1>5, <2>1
    <2>3. Append(fchain, x) \in Seq(Job) /\ InOrder(Append(fchain, x), fpart, x.rev)
      BY <1>4, <2>1, <2>2, JoinsInOrder
    <2> QED
      BY <1>2, <1>3, <1>4, <2>3
  <1>7. fused' \in [rev : Nat, faults : Nat] /\ fused'.rev = r
    BY <1>2 DEF Feat!writeJson, FeatInv, FeatShape
  <1>8. fboot'.dns \in Nat /\ fboot'.dns <= r
    <2>1. CASE fboot' = fboot
      BY <1>2, <2>1 DEF FeatInv, FeatShape
    <2>2. CASE fboot' = Feat!Kept(r)
      BY <1>2, <2>2 DEF Feat!Kept
    <2> QED
      BY <1>2, <2>1, <2>2 DEF Feat!writeJson
  <1> QED
    BY <1>2, <1>5, <1>6, <1>7, <1>8 DEF FeatInv, FeatShape, Feat!Forward

LEMMA AppliedHolds == ASSUME FeatInv, Feat!Applied PROVE FeatInv' /\ Feat!Forward
  <1>0. /\ flife = "up" /\ flife' = "up" /\ fused' = fused /\ fboot' = fboot
        /\ fchain \in Seq(Job) /\ fchain # <<>> /\ fpart \in [Feat!Names -> Nat]
    BY DEF Feat!Applied, FeatInv, FeatShape
  <1>1. PICK j : j = Head(fchain)
    OBVIOUS
  <1>2. j = fchain[1] /\ j \in Job /\ Len(fchain) \in Nat \ {0}
    BY <1>0, <1>1
  <1>3. /\ j.rev \in Nat /\ j.rev <= fused.rev /\ j.todo \in Seq(STRING) /\ j.todo # <<>>
        /\ \A p \in Feat!Names : fpart[p] <= j.rev
        /\ \A i \in 1..Len(fchain) : j.rev <= fchain[i].rev
    BY <1>2 DEF FeatInv, InOrder, Job
  <1>4. fpart' = [fpart EXCEPT ![Head(j.todo)] = j.rev] /\ fchain' = Feat!Rest(j)
    BY <1>1 DEF Feat!Applied
  <1>5. /\ fpart' \in [Feat!Names -> Nat]
        /\ \A p \in Feat!Names : fpart[p] <= fpart'[p] /\ fpart'[p] <= j.rev /\ fpart'[p] <= fused.rev
    <2>1. PICK h : h = Head(j.todo)
      OBVIOUS
    <2>2. fpart' = [fpart EXCEPT ![h] = j.rev]
      BY <1>4, <2>1
    <2>3. fused.rev \in Nat
      BY DEF FeatInv, FeatShape
    <2>4. fpart' \in [Feat!Names -> Nat]
      BY Zenon, <1>0, <1>3, <2>2
    <2>5. ASSUME NEW p \in Feat!Names
          PROVE  fpart[p] <= fpart'[p] /\ fpart'[p] <= j.rev /\ fpart'[p] <= fused.rev
      <3>1. fpart'[p] = j.rev \/ fpart'[p] = fpart[p]
        BY <1>0, <2>2
      <3>2. fpart[p] \in Nat /\ fpart[p] <= j.rev
        BY <1>0, <1>3
      <3> QED
        BY <1>3, <2>3, <3>1, <3>2
    <2> QED
      BY <2>4, <2>5
  <1>6. InOrder(fchain, fpart', fused.rev)
    <2>1. \A i \in 1..Len(fchain) : fchain[i].rev \in Nat
      <3>1. \A i \in 1..Len(fchain) : fchain[i] \in Job
        BY <1>0
      <3> QED
        BY <3>1 DEF Job
    <2> QED
      BY <1>3, <1>5, <2>1 DEF InOrder, FeatInv
  <1>7. fchain' \in Seq(Job) /\ InOrder(fchain', fpart', fused.rev)
    <2>1. CASE Len(j.todo) = 1
      BY <1>0, <1>4, <1>6, <2>1, TailInOrder DEF Feat!Rest
    <2>2. CASE Len(j.todo) # 1
      <3>1. PICK x : x = [j EXCEPT !.todo = Tail(@)]
        BY Zenon
      <3>2. Tail(j.todo) \in Seq(STRING) /\ Tail(j.todo) # <<>>
        BY Zenon, <1>3, <2>2, LongTail
      <3>3. x \in Job /\ x.rev = j.rev /\ x.todo # <<>>
        BY Zenon, <1>2, <3>1, <3>2 DEF Job
      <3>4. fchain' = <<x>> \o Tail(fchain)
        BY <1>4, <2>2, <3>1 DEF Feat!Rest
      <3> QED
        BY <1>0, <1>2, <1>6, <3>3, <3>4, HeadInOrder
    <2> QED
      BY <2>1, <2>2
  <1> QED
    BY <1>0, <1>5, <1>7 DEF FeatInv, FeatShape, Feat!Forward

LEMMA ThrowsHolds == ASSUME FeatInv, Feat!Throws PROVE FeatInv' /\ Feat!Forward
  <1>1. /\ flife = "up" /\ flife' = "up" /\ fpart' = fpart /\ fboot' = fboot /\ fchain' = Tail(fchain)
        /\ fchain # <<>>
    BY DEF Feat!Throws
  <1>2. fused' \in [rev : Nat, faults : Nat] /\ fused'.rev = fused.rev
    BY DEF Feat!Throws, Feat!Use, FeatInv, FeatShape
  <1>3. fchain' \in Seq(Job) /\ InOrder(fchain', fpart, fused.rev)
    BY <1>1, TailInOrder DEF FeatInv, FeatShape
  <1> QED
    BY <1>1, <1>2, <1>3 DEF FeatInv, FeatShape, Feat!Forward

LEMMA CrashHolds == ASSUME FeatInv, Feat!Crash PROVE FeatInv' /\ Feat!Forward
  <1>1. /\ flife' = "down" /\ fpart' = [p \in Feat!Names |-> 0] /\ fchain' = <<>> /\ fboot' = fboot
    BY DEF Feat!Crash
  <1>2. fused' \in [rev : Nat, faults : Nat] /\ fused'.rev = fused.rev
    BY DEF Feat!Crash, Feat!Use, FeatInv, FeatShape
  <1> QED
    BY <1>1, <1>2 DEF FeatInv, FeatShape, InOrder, Feat!Forward

(* No part of the chain goes back to older settings while the process is   *)
(* up, whatever comes in while the chain is at work, parts throw and the   *)
(* process crashes, although a start applies the settings of the file      *)
(* first (manager.js _serial, restoreBoot).                                *)
THEOREM SettingsForward == Feat!Spec => [][Feat!Forward]_fvars
  <1>1. FeatInv /\ [Feat!Next]_(Feat!vars) => FeatInv' /\ [Feat!Forward]_(Feat!vars)
    <2> SUFFICES ASSUME FeatInv, [Feat!Next]_(Feat!vars) PROVE FeatInv' /\ [Feat!Forward]_(Feat!vars)
      OBVIOUS
    <2>1. CASE Feat!Next
      BY <2>1, RestoreHolds, SettingsApply, AppliedHolds, ThrowsHolds, CrashHolds DEF Feat!Next
    <2>2. CASE UNCHANGED Feat!vars
      BY <2>2 DEF Feat!vars, FeatInv, FeatShape
    <2> QED
      BY <2>1, <2>2
  <1> QED
    BY <1>1, FeatInit, PTL DEF Feat!Spec, Feat!vars, fvars

-----------------------------------------------------------------------------
(* The printers: an entry that is there has a port, and the entries a run  *)
(* works on or is still to look at are there, wherever _merge files them.  *)

Prn == INSTANCE PrintDevices WITH
    MaxChanges <- PrinterChanges, MaxFaults <- PrinterFaults,
    lan <- dlan, manual <- dmanual, devices <- ddevices, run <- drun, server <- dserver,
    confirmed <- dconfirmed, used <- dused

dvars == <<dlan, dmanual, ddevices, drun, dserver, dconfirmed, dused>>

Entries == [port : Nat, pin : Nat, problem : YesNo, online : YesNo]
Listed == {e \in Entries : e.port # 0} \cup {Prn!NoEntry}
RunShape == [pc : {"idle", "browse", "manual", "next", "learn", "ask", "report", "post"},
             todo : SUBSET Prn!Keys, at : Prn!Keys \cup {Prn!Gone}, ep : {"same", "lost"},
             pin : Nat, probing : SUBSET Printers,
             view : [Prn!Keys -> {"none", "cert_changed", "online", "offline"}]]
LanShape == [up : YesNo, near : YesNo, port : Nat \ {0}, cert : Nat]
PrnTyped ==
    /\ dlan \in [Printers -> LanShape] /\ dmanual \in SUBSET Printers
    /\ dused \in [changes : Nat, faults : Nat, retrusts : Nat]

\* what a run s holds is there in the list ds
Holds(s, ds) ==
    /\ s \in RunShape
    /\ s.at # Prn!Gone => ds[s.at].port # 0
    /\ \A k \in s.todo : ds[k].port # 0
    /\ s.probing # {} => s.pc = "manual" /\ s.at = Prn!Gone /\ s.todo = {}
ListInv ==
    /\ ddevices \in [Prn!Keys -> Listed]
    /\ drun \in [Prn!Runs -> RunShape] /\ \A r \in Prn!Runs : Holds(drun[r], ddevices)
PrnInv == PrnTyped /\ ListInv

LEMMA KeyParts ==
    /\ \A k \in Prn!Keys : k[1] \in Printers /\ k[2] \in {"ip", "uuid"} /\ k = <<k[1], k[2]>>
    /\ \A p \in Printers, i \in {"ip", "uuid"} :
          <<p, i>> \in Prn!Keys /\ <<p, i>>[1] = p /\ <<p, i>>[2] = i
    /\ Prn!Gone \notin Prn!Keys /\ Prn!Gone[1] \notin Printers
  BY NoneAssumption DEF Prn!Keys, Prn!Gone

LEMMA NoEntryShape == Prn!NoEntry \in Entries /\ Prn!NoEntry.port = 0 /\ Prn!NoEntry.pin = 0
  BY DEF Prn!NoEntry, Entries, YesNo

LEMMA ListedShape == ASSUME NEW e \in Listed PROVE e \in Entries /\ (e.port = 0 => e = Prn!NoEntry)
  BY NoEntryShape DEF Listed

LEMMA IdleHolds ==
    ASSUME NEW ds
    PROVE  /\ Prn!Idle \in RunShape /\ Prn!Idle.at = Prn!Gone /\ Prn!Idle.todo = {}
           /\ Prn!Idle.probing = {} /\ Holds(Prn!Idle, ds)
  <1>1. /\ Prn!Idle \in RunShape /\ Prn!Idle.at = Prn!Gone /\ Prn!Idle.todo = {}
        /\ Prn!Idle.probing = {}
    BY DEF Prn!Idle, RunShape
  <1> QED
    BY <1>1 DEF Holds

\* a list that keeps the entries of a run
LEMMA HoldsOn ==
    ASSUME NEW s, NEW ds, Holds(s, ds), NEW es,
           \A k \in Prn!Keys : ds[k].port # 0 => es[k].port # 0
    PROVE  Holds(s, es)
  BY DEF Holds, RunShape

\* one run becomes s, the other one keeps what it holds
LEMMA RunMoves ==
    ASSUME ListInv, NEW r \in Prn!Runs, NEW s, Holds(s, ddevices'), drun' = [drun EXCEPT ![r] = s],
           ddevices' \in [Prn!Keys -> Listed],
           \A k \in Prn!Keys : ddevices[k].port # 0 => ddevices'[k].port # 0
    PROVE  ListInv'
  <1>1. drun' \in [Prn!Runs -> RunShape]
    BY DEF ListInv, Holds
  <1>2. ASSUME NEW q \in Prn!Runs PROVE Holds(drun'[q], ddevices')
    <2>1. CASE q = r
      BY <2>1 DEF ListInv
    <2>2. CASE q # r
      <3>1. drun'[q] = drun[q] /\ Holds(drun[q], ddevices)
        BY <2>2 DEF ListInv
      <3> QED
        BY <3>1, HoldsOn
    <2> QED
      BY <2>1, <2>2
  <1> QED
    BY <1>1, <1>2 DEF ListInv

\* both runs become others
LEMMA RunsMove ==
    ASSUME NEW s, NEW c, Holds(s, ddevices'), Holds(c, ddevices'),
           drun' = [search |-> s, cycle |-> c], ddevices' \in [Prn!Keys -> Listed]
    PROVE  ListInv'
  <1>1. s \in RunShape /\ c \in RunShape
    BY DEF Holds
  <1>2. drun'["search"] = s /\ drun'["cycle"] = c
    OBVIOUS
  <1>3. drun' \in [Prn!Runs -> RunShape]
    BY <1>1 DEF Prn!Runs
  <1> QED
    BY <1>2, <1>3 DEF ListInv, Prn!Runs

LEMMA PrnInit == Prn!Init => PrnInv
  <1> SUFFICES ASSUME Prn!Init PROVE PrnInv
    OBVIOUS
  <1>1. PrnTyped
    BY DEF Prn!Init, PrnTyped, LanShape, YesNo
  <1>2. ddevices \in [Prn!Keys -> Listed]
    BY DEF Prn!Init, Listed
  <1>3. drun = [r \in Prn!Runs |-> Prn!Idle]
    BY DEF Prn!Init
  <1>4. drun \in [Prn!Runs -> RunShape] /\ \A r \in Prn!Runs : Holds(drun[r], ddevices)
    BY <1>3, IdleHolds
  <1> QED
    BY <1>1, <1>2, <1>4 DEF PrnInv, ListInv

\* the merge of printers: what was there is there where it is filed now, and a pin goes
\* only with its port
LEMMA MergeOne ==
    ASSUME PrnTyped, ddevices \in [Prn!Keys -> Listed], NEW k \in Prn!Keys, NEW p, k[1] = p,
           NEW i, <<p, i>> \in Prn!Keys, NEW m, m = Prn!_merge(ddevices, p, i)
    PROVE  /\ m[k] \in Listed
           /\ ddevices[k].pin # 0 /\ m[k].port = ddevices[k].port => m[k].pin = ddevices[k].pin
           /\ m[<<p, i>>].port # 0
           /\ ddevices[k].port # 0 /\ k # Prn!Old(ddevices, p, i) => m[k].port # 0
  <1>1. PICK old : old = Prn!Old(ddevices, p, i)
    OBVIOUS
  <1>2. /\ old \in Prn!Keys /\ p \in Printers
        /\ ddevices[<<p, i>>] # Prn!NoEntry => old = <<p, i>>
    BY <1>1, KeyParts DEF Prn!Old
  <1>3. PICK e : e = ddevices[old]
    BY ZenonT(30)
  <1>4. PICK port, pin : port = dlan[p].port /\ pin = Prn!keepPin(e, port)
    OBVIOUS
  <1>5. e \in Entries /\ port \in Nat /\ port # 0
    BY <1>2, <1>3, <1>4, ListedShape DEF PrnTyped, LanShape
  <1>6. pin \in Nat /\ (e.port = port => pin = e.pin)
    BY <1>4, <1>5 DEF Prn!keepPin, Entries
  <1>7. PICK x : x = [e EXCEPT !.port = port, !.pin = pin]
    OBVIOUS
  <1>8. x \in Entries /\ x.port = port /\ x.pin = pin
    BY ZenonT(30), <1>5, <1>6, <1>7 DEF Entries
  <1>9. m = [ddevices EXCEPT ![old] = Prn!NoEntry, ![<<p, i>>] = x]
    BY <1>1, <1>3, <1>4, <1>7 DEF Prn!_merge
  <1>10. /\ m[<<p, i>>] = x
         /\ k # <<p, i>> /\ k = old => m[k] = Prn!NoEntry
         /\ k # <<p, i>> /\ k # old => m[k] = ddevices[k]
    BY <1>2, <1>9
  <1>11. x \in Listed /\ Prn!NoEntry \in Listed /\ ddevices[k] \in Listed
    BY <1>5, <1>8 DEF Listed
  <1>12. ddevices[k] \in Entries /\ (ddevices[k].port = 0 => ddevices[k] = Prn!NoEntry)
    BY <1>11, ListedShape
  <1>13. CASE k = <<p, i>>
    <2>1. ddevices[k].port # 0 => k = old
      BY <1>2, <1>13, NoEntryShape
    <2>2. ddevices[k].pin # 0 => k = old
      BY <1>2, <1>13, NoEntryShape
    <2> QED
      BY <1>1, <1>3, <1>5, <1>6, <1>8, <1>10, <1>11, <1>13, <2>1, <2>2
  <1>14. CASE k # <<p, i>>
    BY ZenonT(30), <1>1, <1>5, <1>8, <1>10, <1>11, <1>12, <1>14, NoEntryShape
  <1> QED
    BY <1>13, <1>14

LEMMA MergedHolds ==
    ASSUME PrnInv, NEW ps \in SUBSET Printers, NEW id, \A p \in ps : id[p] \in {"ip", "uuid"},
           ddevices' = [k \in Prn!Keys |-> IF k[1] \in ps THEN Prn!_merge(ddevices, k[1], id[k[1]])[k]
                                           ELSE ddevices[k]],
           NEW c, Holds(c, ddevices)
    PROVE  ddevices' \in [Prn!Keys -> Listed] /\ Prn!PinKept /\ Holds(Prn!Held(c, ps, id), ddevices')
  <1>t. PrnTyped /\ ddevices \in [Prn!Keys -> Listed]
    BY DEF PrnInv, ListInv
  <1>1. ASSUME NEW k \in Prn!Keys
        PROVE  /\ ddevices'[k] \in Listed
               /\ ddevices[k].pin # 0 /\ ddevices'[k].port = ddevices[k].port
                     => ddevices'[k].pin = ddevices[k].pin
               /\ ddevices[k].port # 0 => /\ Prn!Moved(k, ps, id) \in Prn!Keys
                                          /\ ddevices'[Prn!Moved(k, ps, id)].port # 0
    <2>1. CASE k[1] \notin ps
      <3>1. ddevices'[k] = ddevices[k] /\ Prn!Moved(k, ps, id) = k
        BY ZenonT(30), <2>1 DEF Prn!Moved, Prn!Merged
      <3> QED
        BY <1>t, <3>1
    <2>2. CASE k[1] \in ps
      <3>1. PICK p, i : p = k[1] /\ i = id[p]
        OBVIOUS
      <3>2. /\ p \in Printers /\ i \in {"ip", "uuid"} /\ <<p, i>> \in Prn!Keys /\ <<p, i>>[1] = p
        BY <2>2, <3>1, KeyParts
      <3>3. PICK m : m = Prn!_merge(ddevices, p, i)
        OBVIOUS
      <3>4. ddevices'[k] = m[k] /\ ddevices'[<<p, i>>] = m[<<p, i>>]
        BY <2>2, <3>1, <3>2, <3>3
      <3>5. /\ m[k] \in Listed
            /\ ddevices[k].pin # 0 /\ m[k].port = ddevices[k].port => m[k].pin = ddevices[k].pin
            /\ m[<<p, i>>].port # 0
            /\ ddevices[k].port # 0 /\ k # Prn!Old(ddevices, p, i) => m[k].port # 0
        BY <1>t, <3>1, <3>2, <3>3, MergeOne
      <3>6. Prn!Moved(k, ps, id) = IF k = Prn!Old(ddevices, p, i) THEN <<p, i>> ELSE k
        BY <2>2, <3>1 DEF Prn!Moved, Prn!Merged
      <3> QED
        BY ZenonT(30), <3>2, <3>4, <3>5, <3>6
    <2> QED
      BY Zenon, <2>1, <2>2
  <1>2. ddevices' \in [Prn!Keys -> Listed]
    BY ZenonT(30), <1>1
  <1>3. Prn!PinKept
    BY <1>1 DEF Prn!PinKept
  <1>4. Prn!Moved(Prn!Gone, ps, id) = Prn!Gone
    BY KeyParts DEF Prn!Moved, Prn!Merged
  <1>5. PICK at, ep, todo : /\ at = Prn!Moved(c.at, ps, id)
                            /\ ep = (IF Prn!Merged(c.at, ps, id) THEN "lost" ELSE c.ep)
                            /\ todo = {Prn!Moved(k, ps, id) : k \in c.todo}
    BY Zenon
  <1>6. c \in RunShape /\ c.todo \in SUBSET Prn!Keys /\ c.at \in Prn!Keys \cup {Prn!Gone}
    BY ZenonT(30) DEF Holds, RunShape
  <1>7. at \in Prn!Keys \cup {Prn!Gone} /\ (at # Prn!Gone => ddevices'[at].port # 0)
    BY <1>1, <1>4, <1>5, <1>6 DEF Holds
  <1>8. todo \in SUBSET Prn!Keys /\ \A k \in todo : ddevices'[k].port # 0
    <2>1. \A k \in c.todo : k \in Prn!Keys /\ ddevices[k].port # 0
      BY <1>6 DEF Holds
    <2>2. \A k \in c.todo : /\ Prn!Moved(k, ps, id) \in Prn!Keys
                            /\ ddevices'[Prn!Moved(k, ps, id)].port # 0
      BY Zenon, <1>1, <2>1
    <2> QED
      BY <1>5, <2>2
  <1>9. PICK h : h = [c EXCEPT !.at = at, !.ep = ep, !.todo = todo]
    OBVIOUS
  <1>10. h \in RunShape /\ h.at = at /\ h.todo = todo /\ h.probing = c.probing /\ h.pc = c.pc
    BY ZenonT(30), <1>5, <1>6, <1>7, <1>8, <1>9 DEF RunShape
  <1>11. Prn!Held(c, ps, id) = h
    BY <1>5, <1>9 DEF Prn!Held
  <1>12. c.probing # {} => c.pc = "manual" /\ at = Prn!Gone /\ todo = {}
    BY <1>4, <1>5 DEF Holds
  <1> QED
    BY ZenonT(30), <1>2, <1>3, <1>7, <1>8, <1>10, <1>11, <1>12 DEF Holds

\* browse and _probeManual merge what was heard
LEMMA BrowsedHolds == ASSUME PrnInv, Prn!browsed PROVE ListInv' /\ Prn!PinKept
  <1>t. /\ Holds(drun["cycle"], ddevices) /\ dmanual \in SUBSET Printers
    BY DEF PrnInv, PrnTyped, ListInv, Prn!Runs
  <1>1. PICK ps \in SUBSET Printers, id \in [Printers -> {"ip", "uuid"}] :
          /\ ddevices' = [k \in Prn!Keys |->
                            IF k[1] \in ps THEN Prn!_merge(ddevices, k[1], id[k[1]])[k] ELSE ddevices[k]]
          /\ drun' = [search |-> [Prn!Idle EXCEPT !.pc = "manual", !.probing = dmanual \ ps],
                      cycle  |-> Prn!Held(drun["cycle"], ps, id)]
    BY Zenon DEF Prn!browsed
  <1>2. \A p \in ps : id[p] \in {"ip", "uuid"}
    OBVIOUS
  <1>3. /\ ddevices' \in [Prn!Keys -> Listed] /\ Prn!PinKept
        /\ Holds(Prn!Held(drun["cycle"], ps, id), ddevices')
    BY <1>t, <1>1, <1>2, MergedHolds
  <1>4. PICK s : s = [Prn!Idle EXCEPT !.pc = "manual", !.probing = dmanual \ ps]
    OBVIOUS
  <1>5. /\ s \in RunShape /\ s.at = Prn!Gone /\ s.todo = {} /\ s.pc = "manual"
    BY Zenon, <1>t, <1>4, IdleHolds DEF RunShape
  <1>6. Holds(s, ddevices')
    BY <1>5 DEF Holds
  <1> QED
    BY <1>1, <1>3, <1>4, <1>6, RunsMove

LEMMA ProbedHolds ==
    ASSUME PrnInv, NEW p \in Printers, Prn!_probeManual(p) PROVE ListInv' /\ Prn!PinKept
  <1>t. /\ Holds(drun["search"], ddevices) /\ Holds(drun["cycle"], ddevices)
        /\ ListInv /\ ddevices \in [Prn!Keys -> Listed] /\ "search" \in Prn!Runs
    BY DEF PrnInv, ListInv, Prn!Runs
  <1>1. PICK s : s = [drun["search"] EXCEPT !.probing = @ \ {p}]
    BY Zenon
  <1>2. drun["search"].probing # {}
    BY DEF Prn!_probeManual
  <1>3. s \in RunShape /\ s.at = Prn!Gone /\ s.todo = {} /\ s.pc = "manual"
    BY <1>t, <1>1, <1>2 DEF Holds, RunShape
  <1>4. \A ds : Holds(s, ds)
    BY <1>3 DEF Holds
  <1>5. CASE /\ ddevices' = Prn!_merge(ddevices, p, "uuid")
             /\ drun' = [search |-> s,
                         cycle  |-> Prn!Held(drun["cycle"], {p}, [q \in {p} |-> "uuid"])]
    <2>1. PICK id : id = [q \in {p} |-> "uuid"]
      BY Zenon
    <2>2. /\ id[p] = "uuid" /\ <<p, "uuid">> \in Prn!Keys /\ <<p, "uuid">>[1] = p
          /\ <<p, "ip">> \in Prn!Keys /\ <<p, "ip">>[1] = p
      BY <2>1, KeyParts
    <2>3. PICK old, x : ddevices' = [ddevices EXCEPT ![old] = Prn!NoEntry, ![<<p, "uuid">>] = x]
                        /\ old = Prn!Old(ddevices, p, "uuid")
      BY Zenon, <1>5 DEF Prn!_merge
    <2>4. old \in Prn!Keys /\ old[1] = p
      BY <2>2, <2>3 DEF Prn!Old
    <2>5. /\ ddevices' = [k \in Prn!Keys |-> ddevices'[k]]
          /\ \A k \in Prn!Keys : k[1] # p => ddevices'[k] = ddevices[k]
      BY Zenon, <1>t, <2>2, <2>3, <2>4
    <2>6. \A k \in Prn!Keys : ddevices'[k] = IF k[1] \in {p} THEN Prn!_merge(ddevices, k[1], id[k[1]])[k]
                                            ELSE ddevices[k]
      BY <1>5, <2>2, <2>5
    <2>7. ddevices' = [k \in Prn!Keys |->
                         IF k[1] \in {p} THEN Prn!_merge(ddevices, k[1], id[k[1]])[k] ELSE ddevices[k]]
      BY <2>5, <2>6
    <2>8. /\ ddevices' \in [Prn!Keys -> Listed] /\ Prn!PinKept
          /\ Holds(Prn!Held(drun["cycle"], {p}, id), ddevices')
      BY ZenonT(30), <1>t, <2>2, <2>7, MergedHolds
    <2> QED
      BY <1>4, <1>5, <2>1, <2>8, RunsMove
  <1>6. CASE ddevices' = ddevices /\ drun' = [drun EXCEPT !["search"] = s]
    <2>1. ListInv'
      BY Zenon, <1>t, <1>4, <1>6, RunMoves
    <2> QED
      BY <1>6, <2>1 DEF Prn!PinKept
  <1> QED
    BY <1>1, <1>5, <1>6 DEF Prn!_probeManual, Prn!Go

\* a search ends: entries go, and the runs let go of them
LEMMA SearchedHolds == ASSUME PrnInv, Prn!searched PROVE ListInv' /\ Prn!PinKept
  <1>t. ddevices \in [Prn!Keys -> Listed] /\ Holds(drun["cycle"], ddevices)
    BY DEF PrnInv, ListInv, Prn!Runs
  <1>1. PICK old : ddevices' = Prn!Pruned(ddevices, old)
    BY DEF Prn!searched
  <1>2. /\ ddevices' = [k \in Prn!Keys |-> ddevices'[k]]
        /\ \A k \in Prn!Keys : ddevices'[k] \in {ddevices[k], Prn!NoEntry}
    BY <1>1 DEF Prn!Pruned
  <1>3. ddevices' \in [Prn!Keys -> Listed]
    BY <1>t, <1>2 DEF Listed
  <1>4. \A k \in Prn!Keys : ddevices'[k] # Prn!NoEntry => ddevices'[k].port # 0
    BY <1>3, ListedShape
  <1>5. Prn!PinKept
    <2>1. ASSUME NEW k \in Prn!Keys, ddevices[k].pin # 0, ddevices'[k].port = ddevices[k].port
          PROVE  ddevices'[k].pin = ddevices[k].pin
      <3>1. ddevices[k].port # 0
        BY <1>t, <2>1, ListedShape, NoEntryShape
      <3> QED
        BY <1>2, <2>1, <3>1, NoEntryShape
    <2> QED
      BY <2>1 DEF Prn!PinKept
  <1>6. PICK s : s = [Prn!Idle EXCEPT !.pc = "next", !.todo = Prn!There(ddevices')]
    OBVIOUS
  <1>7. /\ s \in RunShape /\ s.at = Prn!Gone /\ s.todo = Prn!There(ddevices') /\ s.probing = {}
    BY Zenon, <1>6, IdleHolds DEF RunShape, Prn!There
  <1>8. Holds(s, ddevices')
    BY <1>4, <1>7 DEF Holds, Prn!There
  <1>9. PICK c : c = drun["cycle"]
    OBVIOUS
  <1>10. /\ c \in RunShape /\ c.todo \in SUBSET Prn!Keys /\ c.at \in Prn!Keys \cup {Prn!Gone}
    BY <1>t, <1>9 DEF Holds, RunShape
  <1>11. PICK at, todo : /\ at = (IF c.at = Prn!Gone \/ ddevices'[c.at] = Prn!NoEntry THEN Prn!Gone
                                  ELSE c.at)
                         /\ todo = {k \in c.todo : ddevices'[k] # Prn!NoEntry}
    BY ZenonT(30)
  <1>12. /\ at \in Prn!Keys \cup {Prn!Gone} /\ (at # Prn!Gone => ddevices'[at].port # 0)
         /\ todo \in SUBSET Prn!Keys /\ \A k \in todo : ddevices'[k].port # 0
         /\ c.probing # {} => c.pc = "manual" /\ at = Prn!Gone /\ todo = {}
    BY <1>t, <1>4, <1>9, <1>10, <1>11 DEF Holds
  <1>13. PICK l : l = [c EXCEPT !.at = at, !.todo = todo]
    OBVIOUS
  <1>14. /\ l \in RunShape /\ l.at = at /\ l.todo = todo /\ l.probing = c.probing /\ l.pc = c.pc
    BY ZenonT(30), <1>10, <1>12, <1>13 DEF RunShape
  <1>15. Holds(l, ddevices')
    BY <1>12, <1>14 DEF Holds
  <1>16. Prn!Lost(c, ddevices') = l
    BY <1>11, <1>13 DEF Prn!Lost
  <1>17. drun' = [search |-> s, cycle |-> l]
    BY <1>6, <1>9, <1>16 DEF Prn!searched
  <1> QED
    BY <1>3, <1>5, <1>8, <1>15, <1>17, RunsMove

\* the steps of one run that keep port and pin of all entries, or all but pins
LEMMA RunHolds ==
    ASSUME PrnInv,
           \/ Prn!requestSearch \/ Prn!cycle \/ \E r \in Prn!Runs : Prn!Refreshes(r)
    PROVE  ListInv' /\ Prn!PinKept
  <1>t. /\ ListInv /\ ddevices \in [Prn!Keys -> Listed] /\ drun \in [Prn!Runs -> RunShape]
        /\ \A r \in Prn!Runs : Holds(drun[r], ddevices) /\ drun[r] \in RunShape
        /\ "search" \in Prn!Runs /\ "cycle" \in Prn!Runs
        /\ dused \in [changes : Nat, faults : Nat, retrusts : Nat]
        /\ dlan \in [Printers -> LanShape]
    BY DEF PrnInv, PrnTyped, ListInv, Prn!Runs
  <1>s. \A k \in Prn!Keys : /\ ddevices[k] \in Entries
                            /\ ddevices[k] # Prn!NoEntry => ddevices[k].port # 0
    BY <1>t, ListedShape
  <1>1. ASSUME NEW r \in Prn!Runs, NEW s, Holds(s, ddevices), drun' = [drun EXCEPT ![r] = s],
               ddevices' = ddevices
        PROVE  ListInv' /\ Prn!PinKept
    <2>1. ListInv'
      BY Zenon, <1>t, <1>1, RunMoves
    <2> QED
      BY <1>1, <2>1 DEF Prn!PinKept
  \* one entry changes, not its port
  <1>2. ASSUME NEW r \in Prn!Runs, NEW s, Holds(s, ddevices), drun' = [drun EXCEPT ![r] = s],
               NEW k \in Prn!Keys, ddevices[k].port # 0, NEW e \in Entries, e.port = ddevices[k].port,
               ddevices' = [ddevices EXCEPT ![k] = e],
               \/ e.pin = ddevices[k].pin \/ dused'.retrusts # dused.retrusts
               \/ \E q \in Prn!Runs : drun[q].pc = "learn" /\ drun[q].at = k
        PROVE  ListInv' /\ Prn!PinKept
    <2>1. \A j \in Prn!Keys : ddevices'[j] = IF j = k THEN e ELSE ddevices[j]
      BY <1>t, <1>2
    <2>2. e \in Listed
      BY <1>2 DEF Listed
    <2>3. ddevices' \in [Prn!Keys -> Listed]
      BY <1>t, <1>2, <2>2
    <2>4. \A j \in Prn!Keys : ddevices'[j].port = ddevices[j].port
      BY <1>2, <2>1
    <2>5. Holds(s, ddevices')
      <3>1. PICK es : es = ddevices'
        OBVIOUS
      <3>2. \A j \in Prn!Keys : ddevices[j].port # 0 => es[j].port # 0
        BY <2>4, <3>1
      <3>3. Holds(s, es)
        BY <1>2, <3>2, HoldsOn
      <3> QED
        BY <3>1, <3>3
    <2>6. ListInv'
      BY Zenon, <1>t, <1>2, <2>3, <2>4, <2>5, RunMoves
    <2> QED
      BY <1>2, <2>1, <2>6 DEF Prn!PinKept
  <1>i. ASSUME NEW s \in RunShape, s.at = Prn!Gone, s.todo = {}, s.probing = {}
        PROVE  Holds(s, ddevices)
    BY <1>i DEF Holds
  <1>3. CASE Prn!requestSearch
    <2>1. PICK s : s = [Prn!Idle EXCEPT !.pc = "browse"]
      BY Zenon
    <2>2. s \in RunShape /\ s.at = Prn!Gone /\ s.todo = {} /\ s.probing = {}
      BY <2>1, IdleHolds DEF RunShape
    <2>3. drun' = [drun EXCEPT !["search"] = s]
      BY <1>3, <2>1 DEF Prn!requestSearch, Prn!Go
    <2>4. CASE ddevices' = ddevices
      BY Zenon, <1>t, <1>1, <1>i, <2>2, <2>3, <2>4
    <2>5. CASE ddevices' # ddevices
      <3>1. PICK k \in Prn!There(ddevices) : ddevices' = Prn!Retrusted(k)
        BY <1>3, <2>5 DEF Prn!requestSearch
      <3>2. k \in Prn!Keys /\ ddevices[k] \in Entries /\ ddevices[k].port # 0
        BY <1>s DEF Prn!There
      <3>3. PICK e : e = [ddevices[k] EXCEPT !.pin = 0, !.problem = "no"]
        OBVIOUS
      <3>4. e \in Entries /\ e.port = ddevices[k].port
        BY Zenon, <3>2, <3>3 DEF Entries, YesNo
      <3>5. ddevices' = [ddevices EXCEPT ![k] = e]
        BY Zenon, <1>t, <3>1, <3>2, <3>3, <3>4 DEF Prn!Retrusted
      <3>6. dused' = [dused EXCEPT !.retrusts = @ + 1]
        BY <1>3, <2>5 DEF Prn!requestSearch, Prn!Use
      <3>7. dused'.retrusts # dused.retrusts
        BY <1>t, <3>6
      <3> QED
        BY Zenon, <1>t, <1>2, <1>i, <2>2, <2>3, <3>2, <3>4, <3>5, <3>7
    <2> QED
      BY <2>4, <2>5
  <1>4. CASE Prn!cycle
    <2>1. PICK s : s = [Prn!Idle EXCEPT !.pc = "next", !.todo = Prn!There(ddevices)]
      OBVIOUS
    <2>2. s \in RunShape /\ s.at = Prn!Gone /\ s.todo = Prn!There(ddevices) /\ s.probing = {}
      BY Zenon, <2>1, IdleHolds DEF RunShape, Prn!There
    <2>3. Holds(s, ddevices)
      BY <1>s, <2>2 DEF Holds, Prn!There
    <2>4. drun' = [drun EXCEPT !["cycle"] = s] /\ ddevices' = ddevices
      BY <1>4, <2>1 DEF Prn!cycle, Prn!Go
    <2> QED
      BY Zenon, <1>t, <1>1, <2>3, <2>4
  <1>5. ASSUME NEW r \in Prn!Runs, Prn!refreshAll(r) PROVE ListInv' /\ Prn!PinKept
    <2>1. PICK u : u = drun[r]
      OBVIOUS
    <2>2. u \in RunShape /\ Holds(u, ddevices) /\ u.pc = "next" /\ u.probing = {}
      BY Zenon, <1>t, <1>5, <2>1 DEF Prn!refreshAll, Holds
    <2>3. ASSUME NEW k \in u.todo, NEW pc \in {"learn", "ask"}, NEW s,
                 \/ s = [u EXCEPT !.todo = @ \ {k}]
                 \/ s = [u EXCEPT !.pc = pc, !.todo = @ \ {k}, !.at = k, !.ep = "same",
                                  !.pin = ddevices[k].pin]
          PROVE  Holds(s, ddevices)
      <3>1. k \in Prn!Keys /\ ddevices[k].port # 0 /\ ddevices[k].pin \in Nat
        BY <1>s, <2>2 DEF Holds, RunShape, Entries
      <3>2. PICK todo : todo = u.todo \ {k}
        BY Zenon
      <3>3. todo \in SUBSET Prn!Keys /\ todo \subseteq u.todo
        BY <2>2, <3>2 DEF RunShape
      <3>4. CASE s = [u EXCEPT !.todo = @ \ {k}]
        <4>1. s \in RunShape /\ s.at = u.at /\ s.todo = todo /\ s.probing = {}
          BY <2>2, <3>2, <3>3, <3>4 DEF RunShape
        <4> QED
          BY <2>2, <3>3, <4>1 DEF Holds
      <3>5. CASE s = [u EXCEPT !.pc = pc, !.todo = @ \ {k}, !.at = k, !.ep = "same",
                               !.pin = ddevices[k].pin]
        <4>1. s \in RunShape /\ s.at = k /\ s.todo = todo /\ s.probing = {}
          BY Zenon, <2>2, <3>1, <3>2, <3>3, <3>5 DEF RunShape
        <4> QED
          BY <2>2, <3>1, <3>3, <4>1 DEF Holds
      <3> QED
        BY <2>3, <3>4, <3>5
    <2>4. PICK d : d = [Prn!Idle EXCEPT !.pc = "report"]
      BY ZenonT(30)
    <2>5. Holds(d, ddevices)
      BY <1>i, <2>4, IdleHolds DEF RunShape
    <2>6. /\ ddevices' = ddevices
          /\ \/ drun' = [drun EXCEPT ![r] = d]
             \/ \E k \in u.todo :
                  \/ drun' = [drun EXCEPT ![r] =
                                [u EXCEPT !.pc = IF ddevices[k].pin = 0 THEN "learn" ELSE "ask",
                                          !.todo = @ \ {k}, !.at = k, !.ep = "same",
                                          !.pin = ddevices[k].pin]]
                  \/ drun' = [drun EXCEPT ![r] = [u EXCEPT !.todo = @ \ {k}]]
      BY Zenon, <1>5, <2>1, <2>4 DEF Prn!refreshAll, Prn!Go
    <2>7. \E s : Holds(s, ddevices) /\ drun' = [drun EXCEPT ![r] = s]
      <3>1. CASE drun' = [drun EXCEPT ![r] = d]
        BY Zenon, <2>5, <3>1
      <3>2. ASSUME NEW k \in u.todo, NEW pc \in {"learn", "ask"},
                   drun' = [drun EXCEPT ![r] =
                              [u EXCEPT !.pc = pc, !.todo = @ \ {k}, !.at = k, !.ep = "same",
                                        !.pin = ddevices[k].pin]]
            PROVE  \E s : Holds(s, ddevices) /\ drun' = [drun EXCEPT ![r] = s]
        BY <2>3, <3>2, Zenon
      <3>3. ASSUME NEW k \in u.todo, drun' = [drun EXCEPT ![r] = [u EXCEPT !.todo = @ \ {k}]]
            PROVE  \E s : Holds(s, ddevices) /\ drun' = [drun EXCEPT ![r] = s]
        BY <2>3, <3>3, Zenon
      <3>4. \A k : (IF ddevices[k].pin = 0 THEN "learn" ELSE "ask") \in {"learn", "ask"}
        OBVIOUS
      <3> QED
        BY <2>6, <3>1, <3>2, <3>3, <3>4, Zenon
    <2> QED
      BY Zenon, <1>1, <2>6, <2>7
  <1>6. ASSUME NEW r \in Prn!Runs, Prn!_learnPins(r) PROVE ListInv' /\ Prn!PinKept
    <2>1. PICK u : u = drun[r]
      OBVIOUS
    <2>2. u \in RunShape /\ Holds(u, ddevices) /\ u.pc = "learn" /\ u.probing = {}
      BY <1>t, <1>6, <2>1 DEF Prn!_learnPins, Holds
    <2>3. ASSUME NEW s, NEW pin \in Nat,
                 s = [u EXCEPT !.pc = "next"] \/ s = [u EXCEPT !.pc = "ask", !.pin = pin]
          PROVE  Holds(s, ddevices)
      <3>1. s \in RunShape /\ s.at = u.at /\ s.todo = u.todo /\ s.probing = {}
        BY ZenonT(30), <2>2, <2>3 DEF RunShape
      <3> QED
        BY <2>2, <3>1 DEF Holds
    <2>4. CASE u.at = Prn!Gone
      <3>1. PICK s : s = [u EXCEPT !.pc = "next"]
        BY Zenon
      <3>2. drun' = [drun EXCEPT ![r] = s] /\ ddevices' = ddevices
        BY <1>6, <2>1, <2>4, <3>1 DEF Prn!_learnPins, Prn!Go
      <3>3. Holds(s, ddevices)
        <4>1. 0 \in Nat
          OBVIOUS
        <4> QED
          BY Zenon, <2>3, <3>1, <4>1
      <3> QED
        BY Zenon, <1>1, <3>2, <3>3
    <2>5. CASE u.at # Prn!Gone
      <3>1. u.at \in Prn!Keys /\ ddevices[u.at].port # 0 /\ ddevices[u.at] \in Entries
        BY <1>s, <2>2, <2>5 DEF Holds, RunShape
      <3>2. PICK c \in Nat : ddevices' = Prn!Learned(u, c)
        <4>1. dlan[u.at[1]].cert \in Nat
          BY <1>t, <3>1, KeyParts DEF LanShape
        <4> QED
          BY <1>6, <2>1, <2>5, <4>1 DEF Prn!_learnPins
      <3>3. drun' = [drun EXCEPT ![r] = [u EXCEPT !.pc = "ask", !.pin = ddevices'[u.at].pin]]
        BY <1>6, <2>1, <2>5 DEF Prn!_learnPins, Prn!Go
      <3>4. PICK pin : pin = ddevices'[u.at].pin
        OBVIOUS
      <3>5. PICK s : s = [u EXCEPT !.pc = "ask", !.pin = pin]
        OBVIOUS
      <3>6. PICK e : e = [ddevices[u.at] EXCEPT !.pin = c]
        BY Zenon
      <3>7. e \in Entries /\ e.port = ddevices[u.at].port /\ e.pin = c
        BY <3>1, <3>6 DEF Entries
      <3>8. ddevices' = ddevices \/ ddevices' = [ddevices EXCEPT ![u.at] = e]
        BY <1>t, <3>1, <3>2, <3>6 DEF Prn!Learned
      <3>9. pin \in Nat
        BY <1>t, <3>1, <3>4, <3>7, <3>8 DEF Entries
      <3>10. Holds(s, ddevices) /\ drun' = [drun EXCEPT ![r] = s]
        BY Zenon, <2>3, <3>3, <3>4, <3>5, <3>9
      <3>11. CASE ddevices' = ddevices
        BY Zenon, <1>1, <3>10, <3>11
      <3>12. CASE ddevices' = [ddevices EXCEPT ![u.at] = e]
        BY Zenon, <1>2, <2>1, <2>2, <3>1, <3>7, <3>10, <3>12
      <3> QED
        BY <3>8, <3>11, <3>12
    <2> QED
      BY <2>4, <2>5
  <1>7. ASSUME NEW r \in Prn!Runs, Prn!refresh(r) PROVE ListInv' /\ Prn!PinKept
    <2>1. PICK u : u = drun[r]
      OBVIOUS
    <2>2. u \in RunShape /\ Holds(u, ddevices) /\ u.pc = "ask" /\ u.probing = {}
      BY <1>t, <1>7, <2>1 DEF Prn!refresh, Holds
    <2>3. PICK s : s = [u EXCEPT !.pc = "next", !.at = Prn!Gone]
      OBVIOUS
    <2>4. s \in RunShape /\ s.at = Prn!Gone /\ s.todo = u.todo /\ s.probing = {}
      BY Zenon, <2>2, <2>3 DEF RunShape
    <2>5. Holds(s, ddevices)
      BY <2>2, <2>4 DEF Holds
    <2>6. drun' = [drun EXCEPT ![r] = s]
      BY <1>7, <2>1, <2>3 DEF Prn!refresh, Prn!Go
    <2>7. CASE ddevices' = ddevices
      BY Zenon, <1>1, <2>5, <2>6, <2>7
    <2>8. CASE ddevices' # ddevices
      <3>1. u.at # Prn!Gone
        BY ZenonT(30), <1>7, <2>1, <2>8 DEF Prn!refresh
      <3>2. u.at \in Prn!Keys /\ ddevices[u.at].port # 0 /\ ddevices[u.at] \in Entries
        BY <1>s, <2>2, <3>1 DEF Holds, RunShape
      <3>3. PICK p : ddevices' = [ddevices EXCEPT ![u.at] = Prn!Answered(@, p, u.pin)]
        BY <1>7, <2>1, <2>8 DEF Prn!refresh
      <3>4. PICK e : e = Prn!Answered(ddevices[u.at], p, u.pin)
        OBVIOUS
      <3>5. e \in Entries /\ e.port = ddevices[u.at].port /\ e.pin = ddevices[u.at].pin
        BY Zenon, <3>2, <3>4 DEF Prn!Answered, Entries, YesNo
      <3>6. ddevices' = [ddevices EXCEPT ![u.at] = e]
        BY <1>t, <3>2, <3>3, <3>4
      <3> QED
        BY Zenon, <1>2, <2>5, <2>6, <3>2, <3>5, <3>6
    <2> QED
      BY <2>7, <2>8
  <1>8. ASSUME NEW r \in Prn!Runs, Prn!report(r) \/ Prn!Posted(r) PROVE ListInv' /\ Prn!PinKept
    <2>1. PICK v, s : v = Prn!View(ddevices) /\ s = [Prn!Idle EXCEPT !.pc = "post", !.view = v]
      BY Zenon
    <2>2. v \in [Prn!Keys -> {"none", "cert_changed", "online", "offline"}]
      BY <2>1 DEF Prn!View, Prn!_view
    <2>3. s \in RunShape /\ s.at = Prn!Gone /\ s.todo = {} /\ s.probing = {}
      BY Zenon, <2>1, <2>2, IdleHolds DEF RunShape
    <2>4. /\ ddevices' = ddevices
          /\ drun' = [drun EXCEPT ![r] = s] \/ drun' = [drun EXCEPT ![r] = Prn!Idle]
      BY <1>8, <2>1 DEF Prn!report, Prn!Posted, Prn!Go
    <2>5. Holds(s, ddevices) /\ Holds(Prn!Idle, ddevices)
      BY <1>i, <2>3, IdleHolds
    <2> QED
      BY <1>1, <2>4, <2>5
  <1> QED
    BY <1>3, <1>4, <1>5, <1>6, <1>7, <1>8 DEF Prn!Refreshes

LEMMA PrnNext == PrnInv /\ [Prn!Next]_dvars => PrnInv' /\ [Prn!PinKept]_dvars
  <1> SUFFICES ASSUME PrnInv, [Prn!Next]_dvars PROVE PrnInv' /\ [Prn!PinKept]_dvars
    OBVIOUS
  <1>t. /\ dlan \in [Printers -> LanShape] /\ dmanual \in SUBSET Printers /\ ListInv
        /\ dused \in [changes : Nat, faults : Nat, retrusts : Nat]
    BY ZenonT(30) DEF PrnInv, PrnTyped
  <1>1. CASE Prn!Change
    <2>1. UNCHANGED <<ddevices, drun>> /\ dused' = [dused EXCEPT !["changes"] = @ + 1]
      BY <1>1 DEF Prn!Change, Prn!Use
    <2>2. dmanual' \in SUBSET Printers
      BY <1>t, <1>1 DEF Prn!Change
    <2>3. dlan' \in [Printers -> LanShape]
      <3>1. CASE dlan' = dlan
        BY <1>t, <3>1
      <3>2. CASE dlan' # dlan
        <4>1. PICK p \in Printers :
                 \/ dlan' = [dlan EXCEPT ![p].up = IF @ = "yes" THEN "no" ELSE "yes"]
                 \/ dlan' = [dlan EXCEPT ![p].near = IF @ = "yes" THEN "no" ELSE "yes"]
                 \/ dlan' = [dlan EXCEPT ![p].port = @ + 1]
                 \/ dlan' = [dlan EXCEPT ![p].cert = @ + 1]
          BY <1>1, <3>2 DEF Prn!Change
        <4>2. /\ dlan[p] \in LanShape /\ dlan[p].port + 1 \in Nat \ {0} /\ dlan[p].cert + 1 \in Nat
          BY <1>t DEF LanShape
        <4> QED
          BY <1>t, <4>1, <4>2 DEF LanShape, YesNo
      <3> QED
        BY <3>1, <3>2
    <2>4. dused' \in [changes : Nat, faults : Nat, retrusts : Nat]
      BY <1>t, <2>1
    <2> QED
      BY <1>t, <2>1, <2>2, <2>3, <2>4 DEF PrnInv, PrnTyped, ListInv, Prn!PinKept
  <1>2. ASSUME \/ Prn!requestSearch \/ Prn!cycle \/ Prn!SearchStep
               \/ \E r \in Prn!Runs : Prn!Refreshes(r)
        PROVE  PrnInv' /\ Prn!PinKept
    <2>1. ListInv' /\ Prn!PinKept
      BY <1>2, RunHolds, BrowsedHolds, ProbedHolds, SearchedHolds DEF Prn!SearchStep
    <2>2. UNCHANGED <<dlan, dmanual>>
      BY ZenonT(30), <1>2 DEF Prn!requestSearch, Prn!cycle, Prn!SearchStep, Prn!browsed, Prn!searched,
                  Prn!_probeManual, Prn!Refreshes, Prn!refreshAll, Prn!_learnPins, Prn!refresh,
                  Prn!report, Prn!Posted
    <2>3. \/ dused' = dused \/ dused' = [dused EXCEPT !["faults"] = @ + 1]
          \/ dused' = [dused EXCEPT !["retrusts"] = @ + 1]
      BY Zenon, <1>2 DEF Prn!requestSearch, Prn!cycle, Prn!SearchStep, Prn!browsed, Prn!searched,
                  Prn!_probeManual, Prn!Refreshes, Prn!refreshAll, Prn!_learnPins, Prn!refresh,
                  Prn!report, Prn!Posted, Prn!Use
    <2>4. dused' \in [changes : Nat, faults : Nat, retrusts : Nat]
      BY <1>t, <2>3
    <2> QED
      BY <1>t, <2>1, <2>2, <2>4 DEF PrnInv, PrnTyped
  <1>3. CASE UNCHANGED dvars
    BY <1>t, <1>3 DEF dvars, PrnInv, PrnTyped, ListInv
  <1> QED
    BY <1>1, <1>2, <1>3 DEF Prn!Next

(* A pinned certificate is not exchanged for another one of the same       *)
(* endpoint without a confirmation, for any number of printers, whatever a *)
(* search and a refresh do to the same entries at the same time (print.js  *)
(* _merge, keepPin, _learnPins, requestSearch).                            *)
THEOREM PinsStay == Prn!Spec => [][Prn!PinKept]_dvars
  BY PrnInit, PrnNext, PTL DEF Prn!Spec, Prn!vars, dvars

-----------------------------------------------------------------------------
(* Zigbee.  A window is followed by what was known when it was opened (the *)
(* base), by what is shown, and by the calls on their way: a call begun    *)
(* after the network closed brings every device that joined.               *)

Zig == INSTANCE Zigbee WITH
    MaxChanges <- ZigbeeChanges, MaxEvents <- ZigbeeEvents,
    cfg <- zcfg, env <- zenv, flag <- zflag, watcher <- zwatcher, z <- zz, call <- zcall,
    deconz <- zdeconz, history <- zhistory, used <- zused

zvars == <<zcfg, zenv, zflag, zwatcher, zz, zcall, zdeconz, zhistory, zused>>

ZShape == [reachable : YesNo, key : Nat, keyState : {"unknown", "ok", "needed"},
           devices : SUBSET Macs, pairBase : SUBSET (Macs \cup {"none"}),
           window : {"open", "over"}, recent : SUBSET Macs]
CallShape == [kind : {"idle", "tick", "pair", "unlock"},
              pc : {"none", "probe", "create", "lights", "data", "permit", "unlock"},
              key : Nat, got : SUBSET Macs, again : YesNo, late : YesNo]
DeconzShape == [up : YesNo, open : YesNo, valid : SUBSET Nat, keys : Nat,
                join : {"no", "open", "closed"}, devs : SUBSET Macs]
HistoryShape == [joined : SUBSET Macs, met : YesNo, looked : YesNo, away : YesNo]
ZigTyped ==
    /\ zz \in ZShape /\ zdeconz \in DeconzShape /\ zhistory \in HistoryShape /\ zenv \in YesNo

Windows ==
    /\ zz.window = "open" => zdeconz.join \in {"open", "closed"} /\ zhistory.away = "no"
    /\ zdeconz.join # "no" => zz.window = "open"
    /\ zhistory.looked = "yes" => zdeconz.join # "open"
Opening == \E c \in Calls : zcall[c].pc = "permit"
Bases ==
    /\ zz.devices \subseteq zdeconz.devs /\ zhistory.joined \subseteq zdeconz.devs
    /\ zz.pairBase # Zig!NoBase => zz.pairBase \subseteq zdeconz.devs
    /\ zhistory.met = "no" /\ (zz.window = "open" \/ Opening) => zz.pairBase # Zig!NoBase
Shown ==
    zhistory.met = "no" /\ zhistory.away = "no" =>
        /\ zhistory.joined \cap zz.devices \subseteq zz.recent
        /\ zz.pairBase # Zig!NoBase => zhistory.joined \cap zz.pairBase \subseteq zz.recent
        /\ zz.window = "over" \/ zhistory.looked = "yes" => zhistory.joined \subseteq zz.recent
Fits(k) ==
    /\ k \in CallShape /\ k.got \subseteq zdeconz.devs
    /\ k.late = "yes" => /\ zdeconz.join # "open"
                         /\ k.pc = "data" => zhistory.joined \subseteq k.got
CallsFit == zcall \in [Calls -> CallShape] /\ \A c \in Calls : Fits(zcall[c])
ZigInv == ZigTyped /\ Windows /\ Bases /\ Shown /\ CallsFit

LEMMA ZigInit == Zig!Init => ZigInv
  <1> SUFFICES ASSUME Zig!Init PROVE ZigInv
    OBVIOUS
  <1>1. Zig!Idle \in CallShape /\ Zig!Idle.late = "no" /\ Zig!Idle.got = {} /\ Zig!Idle.pc = "none"
    BY ZenonT(30) DEF Zig!Idle, CallShape, YesNo
  <1>2. /\ zz.devices = {} /\ zz.pairBase = Zig!NoBase /\ zz.window = "over" /\ zz.recent = {}
        /\ zdeconz.join = "no" /\ zdeconz.devs = {} /\ zhistory.joined = {}
        /\ zhistory.looked = "no" /\ zhistory.away = "no"
    BY DEF Zig!Init
  <1>3. ZigTyped
    BY ZenonT(30) DEF Zig!Init, ZigTyped, ZShape, DeconzShape, HistoryShape, YesNo, Zig!NoBase
  <1>4. zcall = [c \in Calls |-> Zig!Idle]
    BY Zenon DEF Zig!Init
  <1>5. CallsFit
    BY <1>1, <1>2, <1>4 DEF CallsFit, Fits
  <1>6. ~Opening
    BY <1>1, <1>4 DEF Opening
  <1> QED
    BY Zenon, <1>2, <1>3, <1>5, <1>6 DEF ZigInv, Windows, Bases, Shown

\* z as a call may leave it that learns of no device
Near(y) ==
    /\ y \in ZShape /\ y.devices = zz.devices /\ y.window = zz.window /\ y.recent = zz.recent
    /\ y.pairBase \in {zz.pairBase, zz.devices}
CallStep(c) ==
    \E k, y : /\ Fits(k) /\ Near(y) /\ (k.pc = "permit" => y.pairBase = zz.devices)
              /\ zcall' = [zcall EXCEPT ![c] = k] /\ zz' = y

LEMMA NotBase == ASSUME NEW S \in SUBSET Macs PROVE S # Zig!NoBase
  BY Zenon, NoneAssumption DEF Zig!NoBase

LEMMA CallStepHolds ==
    ASSUME ZigInv, NEW c \in Calls, CallStep(c), zhistory' = zhistory, zenv' \in YesNo,
           zdeconz' \in DeconzShape, zdeconz'.join = zdeconz.join, zdeconz'.devs = zdeconz.devs
    PROVE  ZigInv'
  <1>1. PICK k, y : /\ Fits(k) /\ Near(y) /\ (k.pc = "permit" => y.pairBase = zz.devices)
                    /\ zcall' = [zcall EXCEPT ![c] = k] /\ zz' = y
    BY Zenon DEF CallStep
  <1>2. ZigTyped'
    BY ZenonT(30), <1>1 DEF ZigInv, ZigTyped, Near
  <1>3. CallsFit'
    BY Zenon, <1>1 DEF ZigInv, CallsFit, Fits
  <1>4. zz.devices \in SUBSET Macs /\ zz.devices # Zig!NoBase
    BY NotBase DEF ZigInv, ZigTyped, ZShape
  <1>5. Opening' => Opening \/ zz'.pairBase = zz.devices
    BY ZenonT(30), <1>1 DEF Opening, ZigInv, CallsFit
  <1>6. Windows'
    BY ZenonT(30), <1>1 DEF ZigInv, Windows, Near
  <1>7. Bases'
    BY Zenon, <1>1, <1>4, <1>5 DEF ZigInv, Bases, Near
  <1>8. Shown'
    BY Zenon, <1>1 DEF ZigInv, Shown, Near
  <1> QED
    BY <1>2, <1>3, <1>6, <1>7, <1>8 DEF ZigInv

\* the steps of a call: on to an await, the end, with a key, for a key
LEMMA Goes ==
    ASSUME NEW c, NEW k, Fits(k), NEW y, Near(y), NEW pc \in {"probe", "create", "lights", "unlock"},
           Zig!Go(c, k, y, pc)
    PROVE  CallStep(c)
  <1>1. PICK q : q = [k EXCEPT !.pc = pc, !.key = y.key]
    OBVIOUS
  <1>2. q \in CallShape /\ q.got = k.got /\ q.late = k.late /\ q.pc = pc
    BY Zenon, <1>1 DEF Fits, CallShape, Near, ZShape
  <1>3. Fits(q) /\ q.pc # "permit"
    BY Zenon, <1>2 DEF Fits
  <1>4. zcall' = [zcall EXCEPT ![c] = q] /\ zz' = y
    BY <1>1 DEF Zig!Go
  <1> QED
    BY <1>3, <1>4, Zenon DEF CallStep

LEMMA IdleFits == Fits(Zig!Idle) /\ Zig!Idle.pc = "none"
  BY Zenon DEF Fits, Zig!Idle, CallShape, YesNo

LEMMA Ends == ASSUME NEW c, NEW y, Near(y), Zig!Done(c, y) PROVE CallStep(c)
  <1>1. zcall' = [zcall EXCEPT ![c] = Zig!Idle] /\ zz' = y
    BY DEF Zig!Done
  <1> QED
    BY <1>1, IdleFits, Zenon DEF CallStep

LEMMA HasKey ==
    ASSUME NEW c, NEW k, Fits(k), NEW y, Near(y), Zig!WithKey(c, k, y) PROVE CallStep(c)
  <1>1. CASE Zig!Go(c, k, y, "lights") \/ Zig!Go(c, k, y, "unlock")
    BY <1>1, Goes, Zenon
  <1>2. CASE Zig!Go(c, k, [y EXCEPT !.pairBase = y.devices], "permit")
    <2>1. PICK x : x = [y EXCEPT !.pairBase = y.devices]
      BY Zenon
    <2>2. Near(x) /\ x.pairBase = zz.devices
      BY <2>1 DEF Near, ZShape
    <2>3. PICK q : q = [k EXCEPT !.pc = "permit", !.key = x.key]
      OBVIOUS
    <2>4. q \in CallShape /\ q.got = k.got /\ q.late = k.late /\ q.pc = "permit"
      BY Zenon, <2>2, <2>3 DEF Fits, CallShape, Near, ZShape
    <2>5. Fits(q)
      BY Zenon, <2>4 DEF Fits
    <2>6. zcall' = [zcall EXCEPT ![c] = q] /\ zz' = x
      BY <1>2, <2>1, <2>3 DEF Zig!Go
    <2> QED
      BY <2>2, <2>5, <2>6, Zenon DEF CallStep
  <1> QED
    BY <1>1, <1>2 DEF Zig!WithKey

LEMMA WantsKey ==
    ASSUME NEW c, NEW k, Fits(k), NEW y, Near(y), Zig!_ensureKey(c, k, y) PROVE CallStep(c)
  <1>1. Zig!WithKey(c, k, y) \/ Zig!Done(c, y) \/ Zig!Go(c, k, y, "create")
    BY DEF Zig!_ensureKey
  <1> QED
    BY <1>1, HasKey, Ends, Goes, Zenon

LEMMA BegunFits ==
    ASSUME ZigInv, NEW kind \in {"tick", "pair", "unlock"} PROVE Fits(Zig!Begun(kind))
  <1>1. PICK l : l = IF zdeconz.join = "closed" THEN "yes" ELSE "no"
    OBVIOUS
  <1>2. PICK b : b = [Zig!Idle EXCEPT !.kind = kind, !.late = l]
    OBVIOUS
  <1>3. Zig!Idle \in CallShape /\ Zig!Idle.got = {} /\ Zig!Idle.pc = "none"
    BY Zenon DEF Zig!Idle, CallShape, YesNo
  <1>4. b \in CallShape /\ b.got = {} /\ b.pc = "none" /\ b.late = l
    BY ZenonT(30), <1>1, <1>2, <1>3 DEF CallShape, YesNo
  <1>5. Zig!Begun(kind) = b
    BY <1>1, <1>2 DEF Zig!Begun
  <1> QED
    BY Zenon, <1>1, <1>4, <1>5 DEF Fits

\* a call takes a step that learns of no device
LEMMA CallSteps ==
    ASSUME ZigInv, NEW c \in Calls,
           \/ Zig!tick(c) \/ Zig!retry(c) \/ Zig!request(c, "pair") \/ Zig!request(c, "unlock")
           \/ Zig!Probe(c) \/ Zig!Create(c) \/ Zig!Lights(c) \/ Zig!Unlock(c) \/ Zig!Fails(c)
    PROVE  ZigInv'
  <1>t. /\ zz \in ZShape /\ zdeconz \in DeconzShape /\ zenv \in YesNo /\ zhistory \in HistoryShape
        /\ zcall[c] \in CallShape /\ Fits(zcall[c]) /\ zhistory.joined \subseteq zdeconz.devs
    BY ZenonT(30) DEF ZigInv, ZigTyped, CallsFit, Bases
  <1>n. Near(zz)
    BY Zenon, <1>t DEF Near
  <1>w. ASSUME NEW x PROVE Zig!_writeControl(x) \in YesNo
    BY DEF Zig!_writeControl, YesNo
  <1>1. CASE Zig!tick(c)
    <2>1. Zig!Go(c, Zig!Begun("tick"), zz, "probe") /\ UNCHANGED <<zenv, zdeconz, zhistory>>
      BY <1>1 DEF Zig!tick, Zig!switch
    <2>2. CallStep(c)
      BY ZenonT(30), <1>n, <2>1, BegunFits, Goes
    <2> QED
      BY Zenon, <1>t, <2>1, <2>2, CallStepHolds
  <1>2. CASE Zig!retry(c)
    <2>1. PICK y : y = [zz EXCEPT !.keyState = "unknown"]
      BY Zenon
    <2>2. /\ Zig!Go(c, Zig!Begun("tick"), y, "probe") /\ UNCHANGED <<zdeconz, zhistory>>
          /\ zenv' = Zig!_writeControl(zcfg)
      BY <1>2, <2>1 DEF Zig!retry
    <2>3. Near(y)
      BY <1>t, <2>1 DEF Near, ZShape
    <2>4. CallStep(c)
      BY <2>2, <2>3, BegunFits, Goes
    <2> QED
      BY Zenon, <1>t, <1>w, <2>2, <2>4, CallStepHolds
  <1>3. ASSUME NEW kind \in {"pair", "unlock"}, Zig!request(c, kind) PROVE ZigInv'
    <2>1. Zig!_ensureKey(c, Zig!Begun(kind), zz) /\ UNCHANGED <<zenv, zdeconz, zhistory>>
      BY <1>3 DEF Zig!request, Zig!switch
    <2>2. CallStep(c)
      BY <1>n, <2>1, BegunFits, WantsKey
    <2> QED
      BY ZenonT(30), <1>t, <2>1, <2>2, CallStepHolds
  <1>4. CASE Zig!Probe(c)
    <2>1. PICK y, x : y = [zz EXCEPT !.reachable = "yes"] /\ x = [zz EXCEPT !.reachable = "no"]
      BY ZenonT(30)
    <2>2. Near(y) /\ Near(x)
      BY <1>t, <2>1 DEF Near, ZShape, YesNo
    <2>3. /\ Zig!_ensureKey(c, zcall[c], y) \/ Zig!Done(c, x)
          /\ UNCHANGED <<zenv, zdeconz, zhistory>>
      BY <1>4, <2>1 DEF Zig!Probe
    <2>4. CallStep(c)
      BY Zenon, <1>t, <2>2, <2>3, WantsKey, Ends
    <2> QED
      BY Zenon, <1>t, <2>3, <2>4, CallStepHolds
  <1>5. CASE Zig!Create(c)
    <2>1. PICK k : k = zdeconz.keys + 1
      OBVIOUS
    <2>2. PICK y, x : /\ y = [zz EXCEPT !.key = k, !.keyState = "ok"]
                      /\ x = [zz EXCEPT !.keyState = "needed"]
      BY ZenonT(30)
    <2>3. k \in Nat
      BY <1>t, <2>1 DEF DeconzShape
    <2>4. Near(y) /\ Near(x)
      BY Zenon, <1>t, <2>2, <2>3 DEF Near, ZShape
    <2>5. PICK d : d = [zdeconz EXCEPT !.keys = k, !.valid = @ \cup {k}]
      OBVIOUS
    <2>6. d \in DeconzShape /\ d.join = zdeconz.join /\ d.devs = zdeconz.devs
      BY ZenonT(30), <1>t, <2>3, <2>5 DEF DeconzShape
    <2>7. /\ Zig!WithKey(c, zcall[c], y) \/ Zig!Done(c, x)
          /\ zdeconz' = d \/ zdeconz' = zdeconz
          /\ UNCHANGED <<zenv, zhistory>>
      BY <1>5, <2>1, <2>2, <2>5 DEF Zig!Create, Zig!switch
    <2>8. CallStep(c)
      BY Zenon, <1>t, <2>4, <2>7, HasKey, Ends
    <2> QED
      BY Zenon, <1>t, <2>6, <2>7, <2>8, CallStepHolds
  <1>6. CASE Zig!Lights(c)
    <2>1. PICK y, x : /\ y = [zz EXCEPT !.keyState = "ok"]
                      /\ x = [zz EXCEPT !.key = 0, !.keyState = "unknown"]
      BY Zenon
    <2>2. Near(y) /\ Near(x)
      BY Zenon, <1>t, <2>1 DEF Near, ZShape
    <2>3. PICK k, q : k = [zcall[c] EXCEPT !.got = zdeconz.devs] /\ q = [zcall[c] EXCEPT !.again = "yes"]
      BY Zenon
    <2>4. Fits(q)
      BY <1>t, <2>3 DEF Fits, CallShape, YesNo
    <2>5. PICK m : m = [k EXCEPT !.pc = "data", !.key = y.key]
      OBVIOUS
    <2>6. k \in CallShape /\ k.got = zdeconz.devs /\ k.late = zcall[c].late
      BY <1>t, <2>3 DEF CallShape, DeconzShape
    <2>7. m \in CallShape /\ m.got = zdeconz.devs /\ m.late = zcall[c].late /\ m.pc = "data"
      BY Zenon, <2>2, <2>5, <2>6 DEF CallShape, Near, ZShape
    <2>8. Fits(m)
      BY Zenon, <1>t, <2>7 DEF Fits
    <2>9. /\ \/ Zig!Go(c, k, y, "data") \/ Zig!_ensureKey(c, q, x) \/ Zig!Done(c, zz)
          /\ UNCHANGED <<zenv, zdeconz, zhistory>>
      BY <1>6, <2>1, <2>3 DEF Zig!Lights, Zig!GotLights, Zig!switch
    <2>10. CASE Zig!Go(c, k, y, "data")
      <3>1. zcall' = [zcall EXCEPT ![c] = m] /\ zz' = y
        BY <2>5, <2>10 DEF Zig!Go
      <3>2. CallStep(c)
        BY <2>2, <2>7, <2>8, <3>1, Zenon DEF CallStep
      <3> QED
        BY Zenon, <1>t, <2>9, <3>2, CallStepHolds
    <2>11. Zig!_ensureKey(c, q, x) \/ Zig!Done(c, zz) => CallStep(c)
      BY <1>n, <2>2, <2>4, WantsKey, Ends
    <2> QED
      BY Zenon, <1>t, <2>9, <2>10, <2>11, CallStepHolds
  <1>7. CASE Zig!Unlock(c)
    <2>1. PICK d : d = [zdeconz EXCEPT !.open = "yes"]
      BY ZenonT(30)
    <2>2. d \in DeconzShape /\ d.join = zdeconz.join /\ d.devs = zdeconz.devs
      BY <1>t, <2>1 DEF DeconzShape, YesNo
    <2>3. zdeconz' = d /\ Zig!Done(c, zz) /\ UNCHANGED <<zenv, zhistory>>
      BY <1>7, <2>1 DEF Zig!Unlock, Zig!switch
    <2> QED
      BY Zenon, <1>t, <1>n, <2>2, <2>3, Ends, CallStepHolds
  <1>8. CASE Zig!Fails(c)
    <2>1. Zig!Done(c, zz) /\ UNCHANGED <<zenv, zdeconz, zhistory>>
      BY Zenon, <1>8 DEF Zig!Fails, Zig!switch
    <2> QED
      BY Zenon, <1>t, <1>n, <2>1, Ends, CallStepHolds
  <1> QED
    BY ZenonT(30), <1>1, <1>2, <1>3, <1>4, <1>5, <1>6, <1>7, <1>8

\* a query ends: while the window is open what the base does not have is shown
LEMMA DataHolds == ASSUME ZigInv, NEW c \in Calls, Zig!Data(c) PROVE ZigInv'
  <1>t. /\ zz \in ZShape /\ zdeconz \in DeconzShape /\ zhistory \in HistoryShape /\ zenv \in YesNo
        /\ zcall[c] \in CallShape /\ Fits(zcall[c]) /\ zcall \in [Calls -> CallShape]
        /\ Windows /\ Bases /\ Shown /\ CallsFit
    BY DEF ZigInv, ZigTyped, CallsFit
  <1>1. PICK devs : devs = zcall[c].got
    OBVIOUS
  <1>2. devs \in SUBSET Macs /\ devs \subseteq zdeconz.devs /\ zcall[c].pc = "data"
    BY <1>t, <1>1 DEF Fits, CallShape, Zig!Data
  <1>w. (IF zdeconz.join = "open" THEN "open" ELSE zz.window) = zz.window
    BY <1>t DEF Windows
  <1>3. PICK new : new = Zig!NewDevices(devs, zz.window)
    OBVIOUS
  <1>4. /\ new \in SUBSET Macs
        /\ zz.window = "open" /\ zz.pairBase # Zig!NoBase => new = devs \ zz.pairBase
    BY Zenon, <1>2, <1>3 DEF Zig!NewDevices
  <1>5. PICK base : base = IF zz.window = "open" THEN zz.pairBase ELSE Zig!NoBase
    OBVIOUS
  <1>6. PICK y : y = [zz EXCEPT !.window = zz.window, !.devices = devs, !.recent = @ \cup new,
                               !.pairBase = base]
    OBVIOUS
  <1>7. PICK met, looked : /\ met = (IF zz.window = "over" /\ Opening THEN "yes" ELSE zhistory.met)
                           /\ looked = (IF zcall[c].late = "yes" THEN "yes" ELSE zhistory.looked)
    OBVIOUS
  <1>8. /\ Zig!Done(c, y) /\ zhistory' = [zhistory EXCEPT !.met = met, !.looked = looked]
        /\ UNCHANGED <<zenv, zdeconz>>
    BY Zenon, <1>w, <1>1, <1>3, <1>5, <1>6, <1>7 DEF Zig!Data, Zig!switch, Opening
  <1>9. /\ y \in ZShape /\ y.window = zz.window /\ y.devices = devs
        /\ y.recent = zz.recent \cup new /\ y.pairBase = base
    BY Zenon, <1>t, <1>2, <1>4, <1>5, <1>6 DEF ZShape, Zig!NoBase
  <1>10. /\ zhistory' \in HistoryShape /\ zhistory'.joined = zhistory.joined /\ zhistory'.met = met
         /\ zhistory'.looked = looked /\ zhistory'.away = zhistory.away
    BY Zenon, <1>t, <1>7, <1>8 DEF HistoryShape, YesNo
  <1>11. zcall' = [zcall EXCEPT ![c] = Zig!Idle] /\ zz' = y
    BY <1>8 DEF Zig!Done
  <1>12. CallsFit'
    BY <1>t, <1>8, <1>10, <1>11, IdleFits DEF CallsFit, Fits
  <1>13. Opening' => Opening
    BY <1>t, <1>11, IdleFits DEF Opening
  <1>14. Windows'
    BY <1>t, <1>7, <1>8, <1>9, <1>10, <1>11 DEF Windows, Fits
  <1>15. Bases'
    <2>1. zz'.devices \subseteq zdeconz'.devs /\ zhistory'.joined \subseteq zdeconz'.devs
      BY Zenon, <1>t, <1>2, <1>8, <1>9, <1>10, <1>11 DEF Bases
    <2>2. zz'.pairBase # Zig!NoBase => zz'.pairBase \subseteq zdeconz'.devs
      BY Zenon, <1>t, <1>5, <1>8, <1>9, <1>11 DEF Bases
    <2>3. zz.window \in {"open", "over"}
      BY Zenon, <1>t DEF ZShape
    <2>4. zhistory'.met = "no" /\ (zz'.window = "open" \/ Opening') =>
             zhistory.met = "no" /\ zz.window = "open"
      BY Zenon, <1>7, <1>9, <1>10, <1>11, <1>13, <2>3
    <2>5. zhistory'.met = "no" /\ (zz'.window = "open" \/ Opening') => zz'.pairBase # Zig!NoBase
      BY ZenonT(30), <1>t, <1>5, <1>9, <1>11, <2>4 DEF Bases
    <2> QED
      BY Zenon, <2>1, <2>2, <2>5 DEF Bases
  <1>16. Shown'
    <2> SUFFICES ASSUME met = "no", zhistory.away = "no"
                 PROVE  /\ zhistory.joined \cap devs \subseteq y.recent
                        /\ base # Zig!NoBase => zhistory.joined \cap base \subseteq y.recent
                        /\ zz.window = "over" \/ looked = "yes" => zhistory.joined \subseteq y.recent
      BY Zenon, <1>9, <1>10, <1>11 DEF Shown
    <2>1. zhistory.met = "no"
      BY ZenonT(30), <1>7
    <2>2. CASE zz.window = "over"
      BY ZenonT(30), <1>t, <1>5, <1>9, <2>1, <2>2 DEF Shown
    <2>3. CASE zz.window = "open"
      <3>1. zz.pairBase # Zig!NoBase /\ base = zz.pairBase /\ new = devs \ zz.pairBase
        <4>1. zz.pairBase # Zig!NoBase
          BY Zenon, <1>t, <2>1, <2>3 DEF Bases
        <4>2. base = zz.pairBase
          BY Zenon, <1>5, <2>3
        <4> QED
          BY Zenon, <1>4, <2>3, <4>1, <4>2
      <3>2. zhistory.joined \cap zz.pairBase \subseteq zz.recent
        BY Zenon, <1>t, <2>1, <3>1 DEF Shown
      <3>3. zhistory.joined \cap devs \subseteq y.recent
        BY ZenonT(30), <1>9, <3>1, <3>2
      <3>4. looked = "yes" => zhistory.joined \subseteq zz.recent \/ zhistory.joined \subseteq devs
        BY <1>t, <1>1, <1>2, <1>7, <2>1 DEF Shown, Fits
      <3>5. zhistory.joined \cap base \subseteq y.recent
        BY Zenon, <1>9, <3>1, <3>2
      <3>6. zz.recent \subseteq y.recent
        BY Zenon, <1>9
      <3>7. looked = "yes" => zhistory.joined \subseteq y.recent
        BY Zenon, <3>3, <3>4, <3>6
      <3>8. zz.window # "over"
        BY <2>3
      <3> QED
        BY Zenon, <3>3, <3>5, <3>7, <3>8
    <2> QED
      BY <1>t, <2>2, <2>3 DEF ZShape
  <1> QED
    BY <1>t, <1>8, <1>9, <1>10, <1>11, <1>12, <1>14, <1>15, <1>16 DEF ZigInv, ZigTyped

\* the window opens: nothing has joined in it, and no query of it is on its way
LEMMA PermitHolds == ASSUME ZigInv, NEW c \in Calls, Zig!Permit(c) PROVE ZigInv'
  <1>t. /\ zz \in ZShape /\ zdeconz \in DeconzShape /\ zhistory \in HistoryShape /\ zenv \in YesNo
        /\ zcall \in [Calls -> CallShape] /\ Bases /\ \A d \in Calls : Fits(zcall[d])
    BY DEF ZigInv, ZigTyped, CallsFit
  <1>1. /\ zcall[c].pc = "permit" /\ zdeconz' = [zdeconz EXCEPT !.join = "open"]
        /\ zz' = [zz EXCEPT !.window = "open"] /\ zenv' = zenv
        /\ zhistory' = [joined |-> {}, met |-> zhistory.met, looked |-> "no", away |-> "no"]
        /\ zcall' = [d \in Calls |-> IF d = c THEN Zig!Idle ELSE [zcall[d] EXCEPT !.late = "no"]]
    BY DEF Zig!Permit, Zig!NewWindow, Zig!switch
  <1>2. /\ zdeconz' \in DeconzShape /\ zdeconz'.join = "open" /\ zdeconz'.devs = zdeconz.devs
    BY <1>t, <1>1 DEF DeconzShape
  <1>3. /\ zz' \in ZShape /\ zz'.window = "open" /\ zz'.devices = zz.devices
        /\ zz'.pairBase = zz.pairBase
    BY <1>t, <1>1 DEF ZShape
  <1>4. /\ zhistory' \in HistoryShape /\ zhistory'.joined = {} /\ zhistory'.met = zhistory.met
        /\ zhistory'.looked = "no" /\ zhistory'.away = "no"
    BY <1>t, <1>1 DEF HistoryShape, YesNo
  <1>5. ASSUME NEW d \in Calls PROVE zcall'[d] \in CallShape /\ Fits(zcall[d])'
    <2>1. [zcall[d] EXCEPT !.late = "no"] \in CallShape
      BY <1>t DEF CallShape, YesNo
    <2>2. CASE d = c
      BY ZenonT(30), <1>1, <2>2 DEF Fits, Zig!Idle, CallShape, YesNo
    <2>3. CASE d # c
      <3>1. /\ zcall'[d] \in CallShape /\ zcall'[d].late = "no" /\ zcall'[d].got = zcall[d].got
        BY <1>t, <1>1, <2>1, <2>3 DEF CallShape
      <3> QED
        BY <1>t, <1>2, <3>1 DEF Fits
    <2> QED
      BY <2>2, <2>3
  <1>6. CallsFit'
    BY <1>1, <1>5 DEF CallsFit
  <1>7. zhistory.met = "no" => zz.pairBase # Zig!NoBase
    BY ZenonT(30), <1>t, <1>1 DEF Bases, Opening
  <1>8. Windows' /\ Bases' /\ Shown'
    BY <1>t, <1>2, <1>3, <1>4, <1>7 DEF Windows, Bases, Shown
  <1> QED
    BY <1>t, <1>1, <1>2, <1>3, <1>4, <1>6, <1>8 DEF ZigInv, ZigTyped

\* the other steps: deCONZ, its network and the host
LEMMA ZigNext == ZigInv /\ [Zig!Next]_(Zig!vars) => ZigInv'
  <1> SUFFICES ASSUME ZigInv, [Zig!Next]_(Zig!vars) PROVE ZigInv'
    OBVIOUS
  <1>t. /\ zz \in ZShape /\ zdeconz \in DeconzShape /\ zhistory \in HistoryShape /\ zenv \in YesNo
        /\ zcall \in [Calls -> CallShape] /\ Windows /\ Bases /\ Shown
        /\ \A d \in Calls : Fits(zcall[d])
    BY DEF ZigInv, ZigTyped, CallsFit
  <1>1. ASSUME UNCHANGED <<zz, zcall, zhistory>>, zenv' \in YesNo, zdeconz' \in DeconzShape,
               zdeconz'.join = zdeconz.join, zdeconz'.devs = zdeconz.devs
        PROVE  ZigInv'
    BY Zenon, <1>t, <1>1 DEF ZigInv, ZigTyped, Windows, Bases, Shown, CallsFit, Fits, Opening
  <1>2. CASE Zig!apply \/ Zig!Change \/ Zig!HostStarts \/ UNCHANGED Zig!vars
    <2>1. UNCHANGED <<zz, zcall, zhistory, zdeconz>> /\ zenv' \in YesNo
      BY <1>t, <1>2 DEF Zig!apply, Zig!Change, Zig!HostStarts, Zig!_writeControl, YesNo,
                        Zig!vars, Zig!switch
    <2> QED
      BY ZenonT(30), <1>t, <1>1, <2>1
  <1>3. CASE Zig!Watches
    <2>1. /\ UNCHANGED <<zz, zcall, zhistory, zenv>> /\ zdeconz' = [zdeconz EXCEPT !.up = zenv]
      BY <1>3 DEF Zig!Watches, Zig!switch
    <2>2. /\ zdeconz' \in DeconzShape /\ zdeconz'.join = zdeconz.join /\ zdeconz'.devs = zdeconz.devs
      BY <1>t, <2>1 DEF DeconzShape
    <2> QED
      BY <1>t, <1>1, <2>1, <2>2
  <1>4. CASE Zig!Anew \/ Zig!OpenEnds
    <2>1. /\ UNCHANGED <<zz, zcall, zhistory, zenv>>
          /\ \E o \in YesNo : \/ zdeconz' = [zdeconz EXCEPT !.valid = {}, !.open = o]
                              \/ zdeconz' = [zdeconz EXCEPT !.open = o]
      BY <1>4 DEF Zig!Anew, Zig!OpenEnds, Zig!switch, YesNo
    <2>2. /\ zdeconz' \in DeconzShape /\ zdeconz'.join = zdeconz.join /\ zdeconz'.devs = zdeconz.devs
      BY Zenon, <1>t, <2>1 DEF DeconzShape
    <2> QED
      BY <1>t, <1>1, <2>1, <2>2
  <1>5. ASSUME NEW m \in Macs, Zig!Joins(m) PROVE ZigInv'
    <2>1. /\ zdeconz.join = "open" /\ m \notin zdeconz.devs /\ UNCHANGED <<zz, zcall, zenv>>
          /\ zdeconz' = [zdeconz EXCEPT !.devs = @ \cup {m}]
          /\ zhistory' = [zhistory EXCEPT !.joined = @ \cup {m}]
      BY <1>5 DEF Zig!Joins, Zig!switch
    <2>2. /\ zdeconz' \in DeconzShape /\ zdeconz'.join = zdeconz.join
          /\ zdeconz'.devs = zdeconz.devs \cup {m}
      BY <1>t, <2>1 DEF DeconzShape
    <2>3. /\ zhistory' \in HistoryShape /\ zhistory'.joined = zhistory.joined \cup {m}
          /\ zhistory'.met = zhistory.met /\ zhistory'.looked = zhistory.looked
          /\ zhistory'.away = zhistory.away
      BY <1>t, <2>1 DEF HistoryShape
    <2>4. zz.window = "open" /\ zhistory.looked = "no" /\ \A d \in Calls : zcall[d].late # "yes"
      BY <1>t, <2>1 DEF Windows, Fits, HistoryShape, YesNo
    <2>5. CallsFit'
      BY <1>t, <2>1, <2>2, <2>4 DEF CallsFit, Fits
    <2>6. Windows' /\ Bases'
      BY <1>t, <2>1, <2>2, <2>3 DEF Windows, Bases, Opening
    <2>7. m \notin zz.devices /\ (zz.pairBase # Zig!NoBase => m \notin zz.pairBase)
      BY <1>t, <2>1 DEF Bases
    <2>8. Shown'
      BY <1>t, <2>1, <2>3, <2>4, <2>7 DEF Shown
    <2> QED
      BY <1>t, <2>1, <2>2, <2>3, <2>5, <2>6, <2>8 DEF ZigInv, ZigTyped
  <1>6. CASE Zig!JoinCloses
    <2>1. /\ zdeconz.join = "open" /\ UNCHANGED <<zz, zcall, zenv, zhistory>>
          /\ zdeconz' = [zdeconz EXCEPT !.join = "closed"]
      BY <1>6 DEF Zig!JoinCloses, Zig!switch
    <2>2. /\ zdeconz' \in DeconzShape /\ zdeconz'.join = "closed" /\ zdeconz'.devs = zdeconz.devs
      BY <1>t, <2>1 DEF DeconzShape
    <2>3. Windows' /\ Bases' /\ Shown' /\ CallsFit'
      BY <1>t, <2>1, <2>2 DEF Windows, Bases, Opening, Shown, CallsFit, Fits
    <2> QED
      BY <1>t, <2>1, <2>2, <2>3 DEF ZigInv, ZigTyped
  <1>7. CASE Zig!TailEnds
    <2>1. PICK a : a = IF zhistory.looked = "yes" THEN "no" ELSE "yes"
      OBVIOUS
    <2>2. /\ zz.window = "open" /\ UNCHANGED <<zcall, zenv>>
          /\ zz' = [zz EXCEPT !.window = "over"] /\ zdeconz' = [zdeconz EXCEPT !.join = "no"]
          /\ zhistory' = [zhistory EXCEPT !.away = a]
      BY <1>7, <2>1 DEF Zig!TailEnds, Zig!switch
    <2>3. /\ zdeconz' \in DeconzShape /\ zdeconz'.join = "no" /\ zdeconz'.devs = zdeconz.devs
      BY <1>t, <2>2 DEF DeconzShape
    <2>4. /\ zz' \in ZShape /\ zz'.window = "over" /\ zz'.devices = zz.devices
          /\ zz'.pairBase = zz.pairBase /\ zz'.recent = zz.recent
      BY <1>t, <2>2 DEF ZShape
    <2>5. /\ zhistory' \in HistoryShape /\ zhistory'.joined = zhistory.joined
          /\ zhistory'.met = zhistory.met /\ zhistory'.looked = zhistory.looked
          /\ zhistory'.away = a
      BY <1>t, <2>1, <2>2 DEF HistoryShape, YesNo
    <2>6. Windows' /\ Bases' /\ CallsFit'
      BY <1>t, <2>2, <2>3, <2>4, <2>5 DEF Windows, Bases, Opening, CallsFit, Fits
    <2>7. Shown'
      BY <1>t, <2>1, <2>2, <2>4, <2>5 DEF Shown, Windows
    <2> QED
      BY <1>t, <2>2, <2>3, <2>4, <2>5, <2>6, <2>7 DEF ZigInv, ZigTyped
  <1> QED
    BY <1>2, <1>3, <1>4, <1>5, <1>6, <1>7, CallSteps, DataHolds, PermitHolds
       DEF Zig!Next, Zig!Steps

(* What joined in a pairing window is shown as new when it is over,        *)
(* however queries, keys, requests that fail and changes of the settings   *)
(* fall into it (zigbee.js pair, tick).                                    *)
THEOREM WindowIsShown == Zig!Spec => []Zig!PairedShown
  <1>1. ZigInv => Zig!PairedShown
    BY DEF ZigInv, Shown, Zig!PairedShown
  <1> QED
    BY <1>1, ZigInit, ZigNext, PTL DEF Zig!Spec

-----------------------------------------------------------------------------
(* Bluetooth: a helper is only spawned when none runs, after the running   *)
(* one was told to end or by the timer, and while the timer is set there   *)
(* is no child.                                                            *)

Bt == INSTANCE Ble WITH
    MaxChanges <- BleChanges, MaxFaults <- BleFaults,
    cfg <- bcfg, scanner <- bscanner, helper <- bhelper, sensors <- bsensors, post <- bpost,
    server <- bserver, used <- bused

bvars == <<bcfg, bscanner, bhelper, bsensors, bpost, bserver, bused>>

AdapterNames == Adapters \cup {"none"}
ScannerShape == [enabled : YesNo, adapter : AdapterNames, child : Nat,
                 state : {"off", "no_adapter", "starting", "running", "error"},
                 timer : YesNo, reports : YesNo]
HelpersShape == [Bt!Helpers -> [life : {"new", "runs", "ending", "gone"},
                             line : {"none", "ready", "error", "advert"}]]

NoneRuns(hs) == \A h \in Bt!Helpers : hs[h].life # "runs"

BleInv ==
    /\ bscanner \in ScannerShape /\ bhelper \in HelpersShape
    /\ bused \in [helpers : Nat, changes : Nat, faults : Nat]
    /\ bcfg \in [ble : YesNo, adapter : AdapterNames]
    /\ Bt!OneHelper

\* the child that was killed does not run, and no other does
LEMMA KilledStops ==
    ASSUME BleInv
    PROVE  Bt!Killed(bhelper, bscanner) \in HelpersShape /\ NoneRuns(Bt!Killed(bhelper, bscanner))
  <1>1. ASSUME NEW h \in Bt!Helpers
        PROVE  /\ Bt!Killed(bhelper, bscanner)[h] \in [life : {"new", "runs", "ending", "gone"},
                                                  line : {"none", "ready", "error", "advert"}]
               /\ Bt!Killed(bhelper, bscanner)[h].life # "runs"
    <2>1. bhelper[h] \in [life : {"new", "runs", "ending", "gone"},
                         line : {"none", "ready", "error", "advert"}]
      BY DEF BleInv, HelpersShape
    <2>2. CASE h = bscanner.child /\ bhelper[h].life = "runs"
      <3>1. Bt!Killed(bhelper, bscanner)[h] = [bhelper[h] EXCEPT !.life = "ending"]
        BY <2>2 DEF Bt!Killed
      <3> QED
        BY <2>1, <3>1
    <2>3. CASE ~(h = bscanner.child /\ bhelper[h].life = "runs")
      <3>1. Bt!Killed(bhelper, bscanner)[h] = bhelper[h]
        BY <2>3 DEF Bt!Killed
      <3>2. bhelper[h].life # "runs"
        BY <2>3 DEF BleInv, Bt!OneHelper
      <3> QED
        BY <2>1, <3>1, <3>2
    <2> QED
      BY <2>2, <2>3
  <1> QED
    BY ZenonT(30), <1>1 DEF Bt!Killed, HelpersShape, NoneRuns

\* a helper is only spawned while none runs
LEMMA StartHolds ==
    ASSUME NEW s \in ScannerShape, NEW hs \in HelpersShape, NoneRuns(hs), s.child = 0,
           bused \in [helpers : Nat, changes : Nat, faults : Nat], Bt!_start(s, hs),
           bcfg' \in [ble : YesNo, adapter : AdapterNames]
    PROVE  BleInv'
  <1>1. PICK t : t = [s EXCEPT !.timer = "no"]
    BY Zenon
  <1>2. t \in ScannerShape /\ t.timer = "no" /\ t.child = 0
    BY ZenonT(30), <1>1 DEF ScannerShape, YesNo
  <1>3. CASE s.enabled = "no" \/ s.adapter = "none"
    <2>1. bscanner' = t /\ bhelper' = hs /\ bused' = bused
      BY <1>1, <1>3 DEF Bt!_start
    <2> QED
      BY <1>2, <2>1 DEF BleInv, Bt!OneHelper, NoneRuns
  <1>4. CASE ~(s.enabled = "no" \/ s.adapter = "none")
    <2>1. PICK n : n = bused'.helpers
      OBVIOUS
    <2>2. bused' \in [helpers : Nat, changes : Nat, faults : Nat] /\ n \in Nat
      BY <1>4, <2>1 DEF Bt!_start, Bt!Use
    <2>3. PICK u : u = [t EXCEPT !.state = "starting", !.child = n]
      OBVIOUS
    <2>4. u \in ScannerShape /\ u.timer = "no" /\ u.child = n
      BY Zenon, <1>2, <2>2, <2>3 DEF ScannerShape
    <2>5. bscanner' = u /\ bhelper' = [hs EXCEPT ![n].life = "runs"]
      BY <1>1, <1>4, <2>1, <2>3 DEF Bt!_start
    <2>6. bhelper' \in HelpersShape
      BY ZenonT(30), <2>5 DEF HelpersShape
    <2>7. \A h \in Bt!Helpers : bhelper'[h].life = "runs" => h = n
      BY <2>5 DEF HelpersShape, NoneRuns
    <2> QED
      BY <2>2, <2>4, <2>5, <2>6, <2>7 DEF BleInv, Bt!OneHelper
  <1> QED
    BY <1>3, <1>4

\* a state of the scanner without a child and a helper is one of the invariant
LEMMA RestHolds ==
    ASSUME bscanner' \in ScannerShape, bscanner'.child = 0, bhelper' \in HelpersShape, NoneRuns(bhelper'),
           bused' \in [helpers : Nat, changes : Nat, faults : Nat],
           bcfg' \in [ble : YesNo, adapter : AdapterNames]
    PROVE  BleInv'
  BY DEF BleInv, Bt!OneHelper, NoneRuns

LEMMA StopShape ==
    ASSUME NEW s \in ScannerShape
    PROVE  Bt!_stop(s) \in ScannerShape /\ Bt!_stop(s).child = 0 /\ Bt!_stop(s).timer = "no"
  BY Zenon DEF Bt!_stop, ScannerShape, YesNo

LEMMA FailedShape ==
    ASSUME NEW s \in ScannerShape PROVE Bt!_failed(s) \in ScannerShape /\ Bt!_failed(s).child = 0
  <1>1. PICK e : e = [s EXCEPT !.state = "error"]
    BY Zenon
  <1>2. e \in ScannerShape
    BY <1>1 DEF ScannerShape
  <1>3. PICK c : c = [e EXCEPT !.child = 0]
    BY Zenon
  <1>4. c \in ScannerShape /\ c.child = 0
    BY <1>2, <1>3 DEF ScannerShape
  <1>5. PICK v \in YesNo : Bt!_failed(s) = [c EXCEPT !.timer = v]
    BY Zenon, <1>1, <1>2, <1>3, <1>4 DEF Bt!_failed, ScannerShape, YesNo
  <1> QED
    BY <1>4, <1>5 DEF ScannerShape

LEMMA BleInit == Bt!Init => BleInv
  <1> SUFFICES ASSUME Bt!Init PROVE BleInv
    OBVIOUS
  <1>1. bscanner \in ScannerShape
    BY DEF Bt!Init, ScannerShape, YesNo, AdapterNames
  <1>2. /\ bused \in [helpers : Nat, changes : Nat, faults : Nat]
        /\ bcfg \in [ble : YesNo, adapter : AdapterNames]
    BY DEF Bt!Init, YesNo, AdapterNames
  <1>3. bhelper = [h \in Bt!Helpers |-> [life |-> "new", line |-> "none"]]
    BY Zenon DEF Bt!Init
  <1>4. bhelper \in HelpersShape
    BY <1>3 DEF HelpersShape
  <1>5. Bt!OneHelper
    <2>1. \A h \in Bt!Helpers : bhelper[h].life # "runs"
      BY <1>3
    <2>2. bscanner.timer = "no"
      BY Zenon DEF Bt!Init
    <2> QED
      BY Zenon, <2>1, <2>2 DEF Bt!OneHelper
  <1> QED
    BY ZenonT(30), <1>1, <1>2, <1>4, <1>5 DEF BleInv

\* apply: off, no adapter, another adapter, or as before
LEMMA BleApply == ASSUME BleInv, Bt!apply PROVE BleInv'
  <1>0. /\ bscanner \in ScannerShape /\ bhelper \in HelpersShape
        /\ bused \in [helpers : Nat, changes : Nat, faults : Nat]
        /\ bcfg \in [ble : YesNo, adapter : AdapterNames] /\ bcfg' = bcfg
    BY DEF BleInv, Bt!apply
  <1>1. PICK was : was = [bscanner EXCEPT !.enabled = bcfg.ble, !.adapter = bcfg.adapter]
    OBVIOUS
  <1>2. was \in ScannerShape /\ was.child = bscanner.child /\ was.timer = bscanner.timer
    BY Zenon, <1>0, <1>1 DEF ScannerShape
  <1>3. PICK bare : bare = Bt!_stop(was)
    OBVIOUS
  <1>4. bare \in ScannerShape /\ bare.child = 0 /\ bare.timer = "no"
    BY <1>2, <1>3, StopShape
  <1>5. PICK k : k = Bt!Killed(bhelper, bscanner)
    OBVIOUS
  <1>6. k \in HelpersShape /\ NoneRuns(k)
    BY <1>5, KilledStops
  <1>7. CASE bscanner' = [bare EXCEPT !.state = "off", !.reports = "no"] /\ bhelper' = k /\ bused' = bused
    <2>1. bscanner' \in ScannerShape /\ bscanner'.child = 0
      BY Zenon, <1>4, <1>7 DEF ScannerShape, YesNo
    <2> QED
      BY <1>0, <1>6, <1>7, <2>1, RestHolds
  <1>8. CASE bscanner' = [bare EXCEPT !.state = "no_adapter"] /\ bhelper' = k /\ bused' = bused
    <2>1. bscanner' \in ScannerShape /\ bscanner'.child = 0
      BY <1>4, <1>8 DEF ScannerShape
    <2> QED
      BY <1>0, <1>6, <1>8, <2>1, RestHolds
  <1>9. ASSUME NEW s, NEW hs,
               s = IF bcfg.adapter # bscanner.adapter THEN bare ELSE was,
               hs = IF bcfg.adapter # bscanner.adapter THEN k ELSE bhelper,
               IF s.child = 0 /\ s.timer = "no"
               THEN Bt!_start([s EXCEPT !.reports = "yes"], hs)
               ELSE bscanner' = [s EXCEPT !.reports = "yes"] /\ bhelper' = hs /\ UNCHANGED bused
        PROVE  BleInv'
    <2>1. s \in ScannerShape /\ hs \in HelpersShape
      BY <1>0, <1>2, <1>4, <1>6, <1>9
    <2>2. PICK u : u = [s EXCEPT !.reports = "yes"]
      BY Zenon
    <2>3. u \in ScannerShape /\ u.child = s.child /\ u.timer = s.timer
      BY <2>1, <2>2 DEF ScannerShape, YesNo
    <2>4. (\A h \in Bt!Helpers : hs[h].life = "runs" => h = s.child) /\ (s.timer = "yes" => s.child = 0)
      <3>1. CASE bcfg.adapter # bscanner.adapter
        BY <1>4, <1>6, <1>9, <3>1 DEF NoneRuns
      <3>2. CASE bcfg.adapter = bscanner.adapter
        BY <1>2, <1>9, <3>2 DEF BleInv, Bt!OneHelper
      <3> QED
        BY <3>1, <3>2
    <2>5. CASE s.child = 0 /\ s.timer = "no"
      <3>1. NoneRuns(hs)
        BY <2>4, <2>5 DEF NoneRuns, Bt!Helpers
      <3>2. Bt!_start(u, hs)
        BY ZenonT(30), <1>9, <2>2, <2>5
      <3> QED
        BY ZenonT(30), <1>0, <2>1, <2>3, <2>5, <3>1, <3>2, StartHolds
    <2>6. CASE ~(s.child = 0 /\ s.timer = "no")
      <3>1. bscanner' = u /\ bhelper' = hs /\ bused' = bused
        BY <1>9, <2>2, <2>6
      <3> QED
        BY <1>0, <2>1, <2>3, <2>4, <3>1 DEF BleInv, Bt!OneHelper
    <2> QED
      BY <2>5, <2>6
  <1> QED
    BY Zenon, <1>1, <1>3, <1>5, <1>7, <1>8, <1>9 DEF Bt!apply

\* the exit of the child leaves none; the exit of another one changes nothing
LEMMA ExitHolds == ASSUME BleInv, NEW h \in Bt!Helpers, Bt!Exit(h) PROVE BleInv'
  <1>0. bscanner \in ScannerShape /\ bhelper \in HelpersShape /\ bcfg' = bcfg
    BY DEF BleInv, Bt!Exit
  <1>1. bused' \in [helpers : Nat, changes : Nat, faults : Nat]
    BY DEF BleInv, Bt!Exit, Bt!Use
  <1>2. bhelper' = [bhelper EXCEPT ![h].life = "gone"] /\ bhelper' \in HelpersShape
    BY <1>0 DEF Bt!Exit, HelpersShape
  <1>3. \A g \in Bt!Helpers : bhelper'[g].life = "runs" => g # h /\ bhelper[g].life = "runs"
    BY <1>0, <1>2 DEF HelpersShape
  <1>4. CASE bscanner.child # h
    <2>1. bscanner' = bscanner
      BY <1>4 DEF Bt!Exit, Bt!OnExit
    <2> QED
      BY <1>0, <1>1, <1>2, <1>3, <2>1 DEF BleInv, Bt!OneHelper
  <1>5. CASE bscanner.child = h
    <2>1. bscanner' \in ScannerShape /\ bscanner'.child = 0
      <3>1. CASE bscanner' = [bscanner EXCEPT !.child = 0]
        BY <1>0, <3>1 DEF ScannerShape
      <3>2. CASE bscanner' = Bt!_failed(bscanner)
        BY ZenonT(30), <1>0, <3>2, FailedShape
      <3> QED
        BY <1>5, <3>1, <3>2 DEF Bt!Exit, Bt!OnExit
    <2>2. NoneRuns(bhelper')
      BY Zenon, <1>3, <1>5 DEF NoneRuns, BleInv, Bt!OneHelper
    <2> QED
      BY <1>0, <1>1, <1>2, <2>1, <2>2, RestHolds DEF BleInv
  <1> QED
    BY <1>4, <1>5

\* a line, also one of an earlier helper: "error" ends the child, the others leave it
LEMMA LineHolds == ASSUME BleInv, NEW h \in Bt!Helpers, Bt!_line(h) PROVE BleInv'
  <1>0. /\ bscanner \in ScannerShape /\ bhelper \in HelpersShape /\ bused' = bused /\ bcfg' = bcfg
        /\ bused \in [helpers : Nat, changes : Nat, faults : Nat]
        /\ bcfg \in [ble : YesNo, adapter : AdapterNames]
    BY DEF BleInv, Bt!_line
  <1>1. PICK read : read = [bhelper EXCEPT ![h].line = "none"]
    BY Zenon
  <1>2. read \in HelpersShape /\ \A g \in Bt!Helpers : read[g].life = bhelper[g].life
    BY <1>0, <1>1 DEF HelpersShape
  <1>3. CASE bscanner' = [bscanner EXCEPT !.state = "running"] /\ bhelper' = read
    <2>1. /\ bscanner' \in ScannerShape /\ bscanner'.child = bscanner.child
          /\ bscanner'.timer = bscanner.timer
      BY <1>0, <1>3 DEF ScannerShape
    <2> QED
      BY <1>0, <1>2, <1>3, <2>1 DEF BleInv, Bt!OneHelper
  <1>4. CASE bscanner' = Bt!_failed(bscanner) /\ bhelper' = Bt!Killed(read, bscanner)
    <2>1. bscanner' \in ScannerShape /\ bscanner'.child = 0
      BY ZenonT(30), <1>0, <1>4, FailedShape
    <2>2. ASSUME NEW g \in Bt!Helpers
          PROVE  /\ bhelper'[g] \in [life : {"new", "runs", "ending", "gone"},
                                    line : {"none", "ready", "error", "advert"}]
                 /\ bhelper'[g].life # "runs"
      <3>1. read[g] \in [life : {"new", "runs", "ending", "gone"},
                         line : {"none", "ready", "error", "advert"}]
        BY <1>2 DEF HelpersShape
      <3>2. CASE g = bscanner.child /\ read[g].life = "runs"
        <4>1. bhelper'[g] = [read[g] EXCEPT !.life = "ending"]
          BY ZenonT(30), <1>4, <3>2 DEF Bt!Killed
        <4> QED
          BY <3>1, <4>1
      <3>3. CASE ~(g = bscanner.child /\ read[g].life = "runs")
        <4>1. bhelper'[g] = read[g]
          BY <1>4, <3>3 DEF Bt!Killed
        <4> QED
          BY Zenon, <1>2, <3>1, <3>3, <4>1 DEF BleInv, Bt!OneHelper
      <3> QED
        BY ZenonT(30), <3>2, <3>3
    <2>3. bhelper' \in HelpersShape /\ NoneRuns(bhelper')
      BY Zenon, <1>4, <2>2 DEF Bt!Killed, HelpersShape, NoneRuns
    <2> QED
      BY <1>0, <2>1, <2>3, RestHolds
  <1>5. CASE bscanner' = bscanner /\ bhelper' = read
    BY Zenon, <1>0, <1>2, <1>5 DEF BleInv, Bt!OneHelper
  <1> QED
    BY <1>1, <1>3, <1>4, <1>5 DEF Bt!_line

LEMMA BleNext == BleInv /\ [Bt!Next]_(Bt!vars) => BleInv'
  <1> SUFFICES ASSUME BleInv, [Bt!Next]_(Bt!vars) PROVE BleInv'
    OBVIOUS
  <1>1. CASE Bt!Change
    <2>1. bscanner' = bscanner /\ bhelper' = bhelper
      BY <1>1 DEF Bt!Change
    <2>2. bused.changes \in Nat /\ bused' = [bused EXCEPT !.changes = @ + 1]
      BY Zenon, <1>1 DEF Bt!Change, Bt!Use, BleInv
    <2>3. bused' \in [helpers : Nat, changes : Nat, faults : Nat]
      BY <2>2 DEF BleInv
    <2>4. PICK v \in YesNo, a \in AdapterNames : bcfg' = [ble |-> v, adapter |-> a]
      BY <1>1 DEF Bt!Change, YesNo, AdapterNames
    <2>5. bcfg' \in [ble : YesNo, adapter : AdapterNames]
      BY <2>4
    <2> QED
      BY Zenon, <2>1, <2>3, <2>5 DEF BleInv, Bt!OneHelper
  <1>2. CASE Bt!apply
    BY <1>2, BleApply
  <1>3. CASE Bt!RestartTimer
    <2>1. bscanner.child = 0 /\ NoneRuns(bhelper)
      <3>1. bscanner.timer = "yes"
        BY ZenonT(30), <1>3 DEF Bt!RestartTimer
      <3>2. bscanner.child = 0
        BY <3>1 DEF BleInv, Bt!OneHelper
      <3>3. 0 \notin Bt!Helpers
        BY DEF Bt!Helpers
      <3> QED
        BY <3>2, <3>3 DEF BleInv, Bt!OneHelper, NoneRuns
    <2> QED
      BY ZenonT(30), <1>3, <2>1, StartHolds DEF Bt!RestartTimer, BleInv
  <1>4. CASE Bt!report \/ Bt!Posted
    <2>1. bscanner' = bscanner /\ bhelper' = bhelper /\ bcfg' = bcfg
      BY <1>4 DEF Bt!report, Bt!Posted
    <2>2. bused' \in [helpers : Nat, changes : Nat, faults : Nat]
      BY <1>4 DEF Bt!report, Bt!Posted, Bt!Use, BleInv
    <2> QED
      BY Zenon, <2>1, <2>2 DEF BleInv, Bt!OneHelper
  <1>5. ASSUME NEW h \in Bt!Helpers, Bt!Exit(h) PROVE BleInv'
    BY <1>5, ExitHolds
  <1>6. ASSUME NEW h \in Bt!Helpers, Bt!Write(h) PROVE BleInv'
    <2>1. PICK l \in {"ready", "error", "advert"} : bhelper' = [bhelper EXCEPT ![h].line = l]
      BY <1>6 DEF Bt!Write
    <2>2. bhelper' \in HelpersShape /\ \A g \in Bt!Helpers : bhelper'[g].life = bhelper[g].life
      BY <2>1 DEF BleInv, HelpersShape
    <2>3. bused' \in [helpers : Nat, changes : Nat, faults : Nat]
      <3>1. bused' = bused \/ bused' = [bused EXCEPT !["faults"] = @ + 1]
        BY Zenon, <1>6 DEF Bt!Write, Bt!Use
      <3>2. bused \in [helpers : Nat, changes : Nat, faults : Nat]
        BY ZenonT(30) DEF BleInv
      <3> QED
        BY <3>1, <3>2
    <2> QED
      BY <1>6, <2>2, <2>3 DEF Bt!Write, BleInv, Bt!OneHelper
  <1>7. ASSUME NEW h \in Bt!Helpers, Bt!_line(h) PROVE BleInv'
    BY <1>7, LineHolds
  <1>8. CASE UNCHANGED Bt!vars
    BY <1>8 DEF Bt!vars, BleInv, Bt!OneHelper
  <1> QED
    BY <1>1, <1>2, <1>3, <1>4, <1>5, <1>6, <1>7, <1>8 DEF Bt!Next

(* Two helpers never hold the adapter, and none runs while a restart is    *)
(* due, however exits, late lines, failing helpers and changes of the      *)
(* settings interleave (ble.js _start, _failed, the exit handler).         *)
THEOREM OneHelperAtATime == Bt!Spec => []Bt!OneHelper
  <1>1. BleInv => Bt!OneHelper
    BY DEF BleInv
  <1> QED
    BY <1>1, BleInit, BleNext, PTL DEF Bt!Spec

-----------------------------------------------------------------------------
(* The HTTP proxy: an agent of the cache checks the pin it is cached       *)
(* under, and a request connects with the pin of its own route.            *)

Http == INSTANCE HttpProxy WITH
    MaxCachedAgents <- CachedAgents, MaxChanges <- RouteChanges,
    routes <- hroutes, backend <- hbackend, agents <- hagents, req <- hreq, woken <- hwoken,
    used <- hused

hvars == <<hroutes, hbackend, hagents, hreq, hwoken, hused>>

(* A request of a pinned route reaches only a backend with its certificate *)
(* (router.js, tlsPin.js).                                                 *)
PinHolds == Http!PinHolds

RouteShape == [host : Hosts \cup {"none"}, tls : {"yes", "no"}, fp : Certs \cup {"none", "junk"},
               wol : {"yes", "no"}]
ReqShape == [st : {"new", "connects", "sent", "ended"}, kind : {"web", "ws", "inspect"},
             domain : Domains \cup {"none"}, route : RouteShape, pin : Certs \cup {"none", "null"},
             cert : Certs \cup {"none"},
             answer : Certs \cup {"none", "502", "504", "closed", "error", "backend"}]

\* the pin a request connects with: of an inspection null, of a pinned route its own
PinFits(q) ==
    IF q.kind = "inspect" THEN q.pin = "null"
    ELSE q.route.tls = "yes" /\ q.route.fp # "none" => q.pin = q.route.fp

\* what holds of a request
Good(q) ==
    /\ q \in ReqShape
    /\ q.st \in {"new", "connects"} => q.cert = "none"
    /\ q.st = "connects" => PinFits(q) /\ q.route.host \in Hosts
    /\ q.cert # "none" =>
        /\ q.kind # "inspect"
        /\ q.route.tls = "yes" /\ q.route.fp # "none" => q.route.fp = q.cert

\* an agent checks the pin it is cached under
AgentsFit == \A a \in hagents : a.key[2] = a.pin

BackendShape == hbackend \in [Hosts -> [up : {"yes", "refuses", "silent"}, cert : Certs]]

HttpInv ==
    /\ DOMAIN hreq = Requests /\ hreq = [r \in Requests |-> hreq[r]]
    /\ \A r \in Requests : Good(hreq[r])
    /\ AgentsFit /\ BackendShape /\ hroutes \in [Domains -> Http!Routes]

\* a request becomes q
LEMMA ReqMoves ==
    ASSUME HttpInv, NEW r \in Requests, NEW q, hreq' = [hreq EXCEPT ![r] = q], Good(q),
           AgentsFit', BackendShape', hroutes' \in [Domains -> Http!Routes]
    PROVE  HttpInv'
  <1>1. DOMAIN hreq' = Requests /\ hreq' = [s \in Requests |-> hreq'[s]]
    BY DEF HttpInv
  <1>2. ASSUME NEW s \in Requests PROVE Good(hreq'[s])
    <2>1. hreq'[s] = IF s = r THEN q ELSE hreq[s]
      BY ZenonT(30) DEF HttpInv
    <2> QED
      BY <2>1 DEF HttpInv
  <1> QED
    BY <1>1, <1>2 DEF HttpInv

\* the agent of a host and a pin checks that pin, in a cache where all do
LEMMA AgentHasPin ==
    ASSUME AgentsFit, NEW h, NEW pin
    PROVE  /\ Http!getPinnedAgent(h, pin).pin = pin
           /\ \A a \in Http!getPinnedAgent(h, pin).all : a.key[2] = a.pin
  <1>1. CASE Http!Cached(h, pin) # {}
    <2>1. PICK c : c = CHOOSE a \in Http!Cached(h, pin) : TRUE
      OBVIOUS
    <2>2. c \in Http!Cached(h, pin)
      BY <1>1, <2>1
    <2>3. c.pin = pin
      BY <2>2 DEF Http!Cached, Http!AgentKey, AgentsFit
    <2>4. Http!getPinnedAgent(h, pin) = [all |-> hagents, pin |-> c.pin]
      BY ZenonT(30), <1>1, <2>1 DEF Http!getPinnedAgent
    <2> QED
      BY <2>3, <2>4 DEF AgentsFit
  <1>2. CASE Http!Cached(h, pin) = {}
    <2>1. PICK new : new = [key |-> Http!AgentKey(h, pin), pin |-> pin]
      BY ZenonT(30)
    <2>2. new.key[2] = new.pin
      BY <2>1 DEF Http!AgentKey
    <2>3. PICK rest \in SUBSET hagents :
              Http!getPinnedAgent(h, pin) = [all |-> {new} \cup rest, pin |-> pin]
      BY ZenonT(30), <1>2, <2>1 DEF Http!getPinnedAgent
    <2> QED
      BY <2>2, <2>3 DEF AgentsFit
  <1> QED
    BY ZenonT(30), <1>1, <1>2

LEMMA HttpInit == Http!Init => HttpInv
  <1> SUFFICES ASSUME Http!Init PROVE HttpInv
    OBVIOUS
  <1>1. Good(Http!NewReq)
    BY ZenonT(30) DEF Good, Http!NewReq, Http!NoRoute, ReqShape, RouteShape
  <1>2. BackendShape
    <2>1. PICK x \in Certs : hbackend = [h \in Hosts |-> [up |-> "yes", cert |-> x]]
      BY Zenon DEF Http!Init
    <2>2. [up |-> "yes", cert |-> x] \in [up : {"yes", "refuses", "silent"}, cert : Certs]
      OBVIOUS
    <2> QED
      BY Zenon, <2>1, <2>2 DEF BackendShape
  <1>3. AgentsFit
    BY DEF Http!Init, AgentsFit
  <1> QED
    BY <1>1, <1>2, <1>3 DEF Http!Init, HttpInv

\* the record of a request that was taken
LEMMA TakenReq ==
    ASSUME NEW k, NEW d, NEW t
    PROVE  [Http!NewReq EXCEPT !.st = "connects", !.kind = k, !.domain = d, !.route = t]
             = [st |-> "connects", kind |-> k, domain |-> d, route |-> t, pin |-> "none",
                cert |-> "none", answer |-> "none"]
  <1>1. PICK n : n = Http!NoRoute
    OBVIOUS
  <1>2. PICK a : a = [Http!NewReq EXCEPT !.st = "connects"]
    BY Zenon
  <1>3. a = [st |-> "connects", kind |-> "web", domain |-> "none", route |-> n, pin |-> "none",
               cert |-> "none", answer |-> "none"]
    BY <1>1, <1>2 DEF Http!NewReq
  <1>4. PICK b : b = [a EXCEPT !.kind = k]
    BY Zenon
  <1>5. b = [st |-> "connects", kind |-> k, domain |-> "none", route |-> n, pin |-> "none",
               cert |-> "none", answer |-> "none"]
    BY <1>3, <1>4
  <1>6. PICK c : c = [b EXCEPT !.domain = d]
    BY Zenon
  <1>7. c = [st |-> "connects", kind |-> k, domain |-> d, route |-> n, pin |-> "none",
               cert |-> "none", answer |-> "none"]
    BY <1>5, <1>6
  <1>8. [c EXCEPT !.route = t]
          = [st |-> "connects", kind |-> k, domain |-> d, route |-> t, pin |-> "none",
               cert |-> "none", answer |-> "none"]
    BY <1>7
  <1> QED
    BY <1>2, <1>4, <1>6, <1>8

LEMMA TakeHolds ==
    ASSUME HttpInv, NEW r \in Requests, NEW kind \in {"web", "ws"}, NEW d \in Domains, Http!Take(r, kind, d)
    PROVE  HttpInv'
  <1> DEFINE t == hroutes[d]
             q == [Http!NewReq EXCEPT !.st = "connects", !.kind = kind, !.domain = d, !.route = t]
  <1>0. t \in RouteShape /\ (t # Http!NoRoute => t.host \in Hosts)
    <2>1. t \in Http!Routes
      BY ZenonT(30) DEF HttpInv
    <2>2. \A x \in Http!Routes : x \in RouteShape /\ (x # Http!NoRoute => x.host \in Hosts)
      BY DEF Http!Routes, RouteShape, Http!NoRoute
    <2> QED
      BY <2>1, <2>2
  <1>1. q = [st |-> "connects", kind |-> kind, domain |-> d, route |-> t, pin |-> "none",
             cert |-> "none", answer |-> "none"]
    BY Zenon, TakenReq
  <1>2. BackendShape' /\ hroutes' \in [Domains -> Http!Routes]
    BY DEF HttpInv, Http!Take, BackendShape
  <1> HIDE DEF t
  <1>3. CASE /\ hreq' = [hreq EXCEPT ![r] = [q EXCEPT !.st = "ended", !.answer = Http!Failed(kind, "502")]]
             /\ UNCHANGED hagents
    <2>1. PICK e : e = [q EXCEPT !.st = "ended", !.answer = Http!Failed(kind, "502")]
      OBVIOUS
    <2>2. e = [st |-> "ended", kind |-> kind, domain |-> d, route |-> t, pin |-> "none",
               cert |-> "none", answer |-> Http!Failed(kind, "502")]
      BY Zenon, <1>1, <2>1
    <2>3. Http!Failed(kind, "502") \in {"502", "closed"}
      BY ZenonT(30) DEF Http!Failed
    <2>4. Good(e)
      BY <1>0, <2>2, <2>3 DEF Good, ReqShape
    <2>5. hreq' = [hreq EXCEPT ![r] = e]
      BY <1>3, <2>1
    <2>6. AgentsFit'
      BY <1>3 DEF HttpInv, AgentsFit
    <2> QED
      BY ZenonT(30), <1>2, <2>4, <2>5, <2>6, ReqMoves
  <1>4. CASE /\ t # Http!NoRoute /\ ~Http!setRoutes(t).invalid
             /\ t.tls = "no" \/ Http!setRoutes(t).pin = "none"
             /\ hreq' = [hreq EXCEPT ![r] = q] /\ UNCHANGED hagents
    <2>1. t.tls = "yes" => t.fp = "none"
      BY Zenon, <1>0, <1>4 DEF Http!setRoutes, RouteShape
    <2>2. PICK e : e = q
      OBVIOUS
    <2>3. Good(e)
      BY ZenonT(30), <1>0, <1>1, <1>4, <2>1, <2>2 DEF Good, ReqShape, PinFits
    <2>4. AgentsFit'
      BY <1>4 DEF HttpInv, AgentsFit
    <2> QED
      BY ZenonT(30), <1>2, <1>4, <2>2, <2>3, <2>4, ReqMoves
  <1>5. CASE /\ t.tls = "yes" /\ Http!setRoutes(t).pin # "none"
             /\ LET g == Http!getPinnedAgent(t.host, Http!setRoutes(t).pin) IN
                hreq' = [hreq EXCEPT ![r] = [q EXCEPT !.pin = g.pin]] /\ hagents' = g.all
    <2>1. PICK p : p = Http!setRoutes(t).pin
      OBVIOUS
    <2>2. p = t.fp /\ p # "none" /\ p \in Certs /\ t.host \in Hosts
      BY <1>0, <1>5, <2>1 DEF Http!setRoutes, RouteShape, Http!NoRoute
    <2>3. PICK g : g = Http!getPinnedAgent(t.host, p)
      OBVIOUS
    <2>4. g.pin = p /\ \A a \in g.all : a.key[2] = a.pin
      BY <2>3, AgentHasPin DEF HttpInv
    <2>5. PICK e : e = [q EXCEPT !.pin = p]
      OBVIOUS
    <2>6. hreq' = [hreq EXCEPT ![r] = e] /\ hagents' = g.all
      BY <1>5, <2>1, <2>3, <2>4, <2>5
    <2>7. e = [st |-> "connects", kind |-> kind, domain |-> d, route |-> t, pin |-> p,
               cert |-> "none", answer |-> "none"]
      BY ZenonT(30), <1>1, <2>5
    <2>8. Good(e)
      BY Zenon, <1>0, <2>2, <2>7 DEF Good, ReqShape, PinFits
    <2>9. AgentsFit'
      BY Zenon, <2>4, <2>6 DEF AgentsFit
    <2> QED
      BY ZenonT(30), <1>2, <2>6, <2>8, <2>9, ReqMoves
  <1> QED
    BY <1>3, <1>4, <1>5 DEF Http!Take, t

LEMMA InspectHolds ==
    ASSUME HttpInv, NEW r \in Requests, NEW h \in Hosts, Http!inspectLeafCertificate(r, h)
    PROVE  HttpInv'
  <1>1. PICK e : e = [Http!NewReq EXCEPT !.st = "connects", !.kind = "inspect", !.pin = "null",
                                    !.route = [Http!NoRoute EXCEPT !.host = h, !.tls = "yes"]]
    OBVIOUS
  <1>2. e = [st |-> "connects", kind |-> "inspect", domain |-> "none",
             route |-> [host |-> h, tls |-> "yes", fp |-> "none", wol |-> "no"],
             pin |-> "null", cert |-> "none", answer |-> "none"]
    BY ZenonT(30), <1>1 DEF Http!NewReq, Http!NoRoute
  <1>3. Good(e)
    BY <1>2 DEF Good, ReqShape, RouteShape, PinFits
  <1>4. hreq' = [hreq EXCEPT ![r] = e]
    BY <1>1 DEF Http!inspectLeafCertificate
  <1>5. AgentsFit' /\ BackendShape' /\ hroutes' \in [Domains -> Http!Routes]
    BY DEF HttpInv, Http!inspectLeafCertificate, AgentsFit, BackendShape
  <1> QED
    BY Zenon, <1>3, <1>4, <1>5, ReqMoves

\* a request that ends keeps the certificate it was sent to
LEMMA EndHolds ==
    ASSUME HttpInv, NEW r \in Requests,
           NEW answer \in Certs \cup {"none", "502", "504", "closed", "error", "backend"},
           Http!End(r, answer), hroutes' = hroutes, hbackend' = hbackend, hagents' = hagents
    PROVE  HttpInv'
  <1>0. Good(hreq[r])
    BY DEF HttpInv
  <1>1. PICK e : e = [hreq[r] EXCEPT !.st = "ended", !.answer = answer]
    OBVIOUS
  <1>2. /\ e \in ReqShape /\ e.st = "ended" /\ e.kind = hreq[r].kind /\ e.route = hreq[r].route
        /\ e.cert = hreq[r].cert
    BY Zenon, <1>0, <1>1 DEF Good, ReqShape
  <1>3. Good(e)
    BY Zenon, <1>0, <1>2 DEF Good
  <1>4. hreq' = [hreq EXCEPT ![r] = e]
    BY Zenon, <1>1 DEF Http!End, HttpInv
  <1>5. AgentsFit' /\ BackendShape' /\ hroutes' \in [Domains -> Http!Routes]
    BY ZenonT(30) DEF HttpInv, AgentsFit, BackendShape
  <1> QED
    BY ZenonT(30), <1>3, <1>4, <1>5, ReqMoves

\* only a handshake with the certificate of the agent lets a request through
LEMMA ConnectedHolds == ASSUME HttpInv, NEW r \in Requests, Http!Connected(r) PROVE HttpInv'
  <1>0. Good(hreq[r]) /\ hreq[r].st = "connects"
    BY DEF HttpInv, Http!Connected
  <1>1. PICK b : b = hbackend[hreq[r].route.host]
    BY ZenonT(30)
  <1>2. b.cert \in Certs
    BY <1>0, <1>1 DEF Good, HttpInv, BackendShape
  <1>3. CASE /\ hreq[r].pin = "none" \/ Http!_verifyPeer(hreq[r].pin, b.cert)
             /\ hreq' = [hreq EXCEPT ![r].st = "sent", ![r].cert = b.cert]
    <2>1. PICK e : e = [hreq[r] EXCEPT !.st = "sent", !.cert = b.cert]
      OBVIOUS
    <2>2. /\ e \in ReqShape /\ e.st = "sent" /\ e.kind = hreq[r].kind /\ e.route = hreq[r].route
          /\ e.cert = b.cert
      BY ZenonT(30), <1>0, <1>2, <2>1 DEF Good, ReqShape
    <2>3. PinFits(hreq[r])
      BY <1>0 DEF Good
    <2>4. Good(e)
      BY <1>3, <2>2, <2>3 DEF Good, PinFits, Http!_verifyPeer
    <2>5. hreq' = [hreq EXCEPT ![r] = e]
      BY ZenonT(30), <1>3, <2>1 DEF HttpInv
    <2>6. AgentsFit' /\ BackendShape' /\ hroutes' \in [Domains -> Http!Routes]
      BY DEF HttpInv, Http!Connected, AgentsFit, BackendShape
    <2> QED
      BY Zenon, <2>4, <2>5, <2>6, ReqMoves
  <1>4. CASE Http!End(r, IF hreq[r].kind = "inspect" THEN b.cert ELSE Http!Failed(hreq[r].kind, "502"))
    <2>1. PICK a : a = IF hreq[r].kind = "inspect" THEN b.cert ELSE Http!Failed(hreq[r].kind, "502")
      BY Zenon
    <2>2. a \in Certs \cup {"none", "502", "504", "closed", "error", "backend"}
      BY <1>2, <2>1 DEF Http!Failed
    <2> QED
      BY <1>4, <2>1, <2>2, EndHolds DEF Http!Connected
  <1> QED
    BY <1>1, <1>3, <1>4 DEF Http!Connected

LEMMA HttpNext == HttpInv /\ [Http!Next]_(Http!vars) => HttpInv'
  <1> SUFFICES ASSUME HttpInv, [Http!Next]_(Http!vars) PROVE HttpInv'
    OBVIOUS
  <1>1. CASE Http!Change
    <2>1. BackendShape'
      BY <1>1 DEF Http!Change, HttpInv, BackendShape
    <2>2. hroutes' \in [Domains -> Http!Routes]
      BY <1>1 DEF Http!Change, HttpInv
    <2> QED
      BY ZenonT(30), <1>1, <2>1, <2>2 DEF Http!Change, HttpInv, AgentsFit
  <1>2. ASSUME NEW r \in Requests, Http!Connected(r) PROVE HttpInv'
    BY <1>2, ConnectedHolds
  <1>3. ASSUME NEW r \in Requests, Http!ConnectFails(r) PROVE HttpInv'
    <2>1. PICK a \in {"502", "504", "closed", "error"} : Http!End(r, a)
      BY ZenonT(30), <1>3 DEF Http!ConnectFails, Http!Failed
    <2> QED
      BY ZenonT(30), <1>3, <2>1, EndHolds DEF Http!ConnectFails
  <1>4. ASSUME NEW r \in Requests, Http!Answers(r) PROVE HttpInv'
    BY Zenon, <1>4, EndHolds DEF Http!Answers
  <1>5. ASSUME NEW r \in Requests, NEW k \in {"web", "ws"}, NEW d \in Domains, Http!Take(r, k, d)
        PROVE  HttpInv'
    BY <1>5, TakeHolds
  <1>6. ASSUME NEW r \in Requests, NEW h \in Hosts, Http!inspectLeafCertificate(r, h) PROVE HttpInv'
    BY <1>6, InspectHolds
  <1>7. CASE UNCHANGED Http!vars
    BY <1>7 DEF Http!vars, HttpInv, AgentsFit, BackendShape
  <1> QED
    BY ZenonT(30), <1>1, <1>2, <1>3, <1>4, <1>5, <1>6, <1>7 DEF Http!Next, Http!Step

(* A pinned route reaches only the certificate it pins, for any number of  *)
(* requests in flight while routes, certificates and the cache of agents   *)
(* change (tlsPin.js getPinnedAgent, createConnection; http.js).           *)
THEOREM PinnedBackendOnly == Http!Spec => []PinHolds
  <1>1. HttpInv => PinHolds
    BY DEF HttpInv, Good, Http!PinHolds, PinHolds
  <1> QED
    BY <1>1, HttpInit, HttpNext, PTL DEF Http!Spec

-----------------------------------------------------------------------------
(* One Bluetooth helper at a time, and what joined in a pairing window is  *)
(* shown as new (ble.js, zigbee.js).                                       *)
RadioIsTrue == Bt!OneHelper /\ Zig!PairedShown

(* Settings never go back to older ones, and a pinned certificate of a     *)
(* printer is not exchanged without a confirmation (manager.js _serial,    *)
(* print.js keepPin, _learnPins).                                          *)
NeverBack == [][Feat!Forward]_fvars /\ [][Prn!PinKept]_dvars

(* For every number of helpers, adapters, calls, devices, changes and      *)
(* faults there is one Bluetooth helper at a time, and a device that       *)
(* joined in a pairing window is shown as new when it is over (ble.js,     *)
(* zigbee.js).                                                             *)
THEOREM RadioHolds == Bt!Spec /\ Zig!Spec => []RadioIsTrue
  BY OneHelperAtATime, WindowIsShown, PTL DEF RadioIsTrue

(* For every list of parts, number of settings, printers and faults no     *)
(* part goes back to older settings and no pin is exchanged unasked        *)
(* (manager.js, print.js).                                                 *)
THEOREM NeverBackHolds == Feat!Spec /\ Prn!Spec => NeverBack
  BY SettingsForward, PinsStay DEF NeverBack
=============================================================================
