------------------------------ MODULE MCHouse ------------------------------
(***************************************************************************)
(* What the gateway does for the house, checked in one run: the DNS filter *)
(* (resolver, lists, policy), the HTTP proxy, the settings and the         *)
(* heartbeat, the UPS, Bluetooth and Zigbee, the printers and the clips of *)
(* the cameras.  They share no state here, so each behaviour lets one of   *)
(* them run (focus) while the others rest.                                 *)
(***************************************************************************)
EXTENDS House, FiniteSets

CONSTANT
    Focuses        \* the parts this run looks at

VARIABLES
    focus,
    ron, rup, rmade, rsess, rq, rex, rinflight, rcache, rstreak, rdown, rcur, rsending,
    rreported, rused,
    lcatalog, linUse, llists, lmeta, lmetaDisk, lfile, lwants, ljob, lpublished, lstale, lused,
    pinput,
    klife, ktick, kwedged, knotice, kasked, kflag, kupdater, klast, kview, kused,
    ucfg, userver, utimer, urun, uresult, ustatus, uused,
    ccfg, cring, cruns, cdemand, ctoday, cev, cstream, csnap, cfiles, cused

MCParts == <<"dns", "cache", "cameras">>
\* the second settings have neither a DNS filter nor a valid zone
Filters(r) == r # 2
ZoneOf(r) == IF r = 1 THEN "z1" ELSE IF r = 2 THEN "bad" ELSE "z2"

Resolver == INSTANCE DnsResolver WITH
    Queries <- 1..2, FromRouter <- {2}, DownAfter <- 1, MaxApplies <- 2, MaxFaults <- 1,
    MaxReports <- 2,
    on <- ron, up <- rup, made <- rmade, sess <- rsess, q <- rq, ex <- rex,
    inflight <- rinflight, cache <- rcache, streak <- rstreak, down <- rdown, cur <- rcur,
    sending <- rsending, reported <- rreported, used <- rused

Lists == INSTANCE DnsLists WITH
    Ids <- {1}, Urls <- {"a", "b"}, Pins <- {0, 2}, MaxTotal <- 2, MaxVersion <- 2,
    MaxWants <- 3, MaxFaults <- 1,
    catalog <- lcatalog, inUse <- linUse, lists <- llists, meta <- lmeta, metaDisk <- lmetaDisk,
    file <- lfile, wants <- lwants, job <- ljob, published <- lpublished, stale <- lstale,
    used <- lused

Policy == INSTANCE DnsPolicy WITH
    Labels <- {"a", "b"}, WeekDays <- 2, DayLen <- 3, MaxLine <- 1, MaxText <- 5, MaxHashes <- 3,
    input <- pinput

Heart == INSTANCE Heartbeat WITH
    Ticks <- {1}, Ids <- {1, 2}, MaxUpdates <- 2, MaxFaults <- 2,
    life <- klife, tick <- ktick, wedged <- kwedged, notice <- knotice, asked <- kasked,
    flag <- kflag, updater <- kupdater, last <- klast, view <- kview, used <- kused

Nut == INSTANCE Ups WITH
    Hosts <- {"h1", "h2"}, Public <- {"h2"}, Runs <- 1..2, MaxLines <- 1, MaxChanges <- 3,
    MaxFaults <- 1,
    cfg <- ucfg, server <- userver, timer <- utimer, run <- urun, result <- uresult,
    status <- ustatus, used <- uused

Clips == INSTANCE CameraClips WITH
    Events <- {1}, Streams <- {1}, RingSize <- 2, PreSegs <- 1, MaxClip <- 3, Retention <- 1,
    MaxDays <- 2, MaxRuns <- 2, MaxSegs <- 2, MaxChanges <- 1, MaxAsks <- 1,
    cfg <- ccfg, ring <- cring, runs <- cruns, demand <- cdemand, today <- ctoday, ev <- cev,
    stream <- cstream, snap <- csnap, files <- cfiles, used <- cused

rvars == <<ron, rup, rmade, rsess, rq, rex, rinflight, rcache, rstreak, rdown, rcur, rsending,
           rreported, rused>>
lvars == <<lcatalog, linUse, llists, lmeta, lmetaDisk, lfile, lwants, ljob, lpublished, lstale,
           lused>>
pvars == <<pinput>>
kvars == <<klife, ktick, kwedged, knotice, kasked, kflag, kupdater, klast, kview, kused>>
uvars == <<ucfg, userver, utimer, urun, uresult, ustatus, uused>>
cvars == <<ccfg, cring, cruns, cdemand, ctoday, cev, cstream, csnap, cfiles, cused>>
all == <<focus, rvars, lvars, pvars, hvars, fvars, kvars, uvars, bvars, zvars, dvars, cvars>>

MCInit ==
    /\ focus \in Focuses
    /\ Resolver!Init /\ Lists!Init /\ Http!Init /\ Feat!Init /\ Heart!Init /\ Nut!Init /\ Bt!Init
    /\ Zig!Init /\ Prn!Init /\ Clips!Init
    /\ IF focus = "policy" THEN Policy!Init ELSE pinput = [k |-> "none"]
    /\ focus = "http" \/ (hroutes["d1"] = Http!NoRoute /\ hbackend["h1"].cert = "c1")

InResolver(A) ==
    /\ focus = "resolver" /\ A
    /\ UNCHANGED <<focus, lvars, pvars, hvars, fvars, kvars, uvars, bvars, zvars, dvars, cvars>>
InLists(A) ==
    /\ focus = "lists" /\ A
    /\ UNCHANGED <<focus, rvars, pvars, hvars, fvars, kvars, uvars, bvars, zvars, dvars, cvars>>
InHttp(A) ==
    /\ focus = "http" /\ A
    /\ UNCHANGED <<focus, rvars, lvars, pvars, fvars, kvars, uvars, bvars, zvars, dvars, cvars>>
InFeat(A) ==
    /\ focus = "features" /\ A
    /\ UNCHANGED <<focus, rvars, lvars, pvars, hvars, kvars, uvars, bvars, zvars, dvars, cvars>>
InHeart(A) ==
    /\ focus = "heart" /\ A
    /\ UNCHANGED <<focus, rvars, lvars, pvars, hvars, fvars, uvars, bvars, zvars, dvars, cvars>>
InNut(A) ==
    /\ focus = "ups" /\ A
    /\ UNCHANGED <<focus, rvars, lvars, pvars, hvars, fvars, kvars, bvars, zvars, dvars, cvars>>
InBt(A) ==
    /\ focus = "ble" /\ A
    /\ UNCHANGED <<focus, rvars, lvars, pvars, hvars, fvars, kvars, uvars, zvars, dvars, cvars>>
InZig(A) ==
    /\ focus = "zigbee" /\ A
    /\ UNCHANGED <<focus, rvars, lvars, pvars, hvars, fvars, kvars, uvars, bvars, dvars, cvars>>
InPrn(A) ==
    /\ focus = "printers" /\ A
    /\ UNCHANGED <<focus, rvars, lvars, pvars, hvars, fvars, kvars, uvars, bvars, zvars, cvars>>
InClips(A) ==
    /\ focus = "clips" /\ A
    /\ UNCHANGED <<focus, rvars, lvars, pvars, hvars, fvars, kvars, uvars, bvars, zvars, dvars>>

MCNext ==
    \/ InResolver(Resolver!Next) \/ InLists(Lists!Next) \/ InHttp(Http!Next) \/ InFeat(Feat!Next)
    \/ InHeart(Heart!Next) \/ InNut(Nut!Next) \/ InBt(Bt!Next) \/ InZig(Zig!Next)
    \/ InPrn(Prn!Next) \/ InClips(Clips!Next)

(* The fairness of each part, while it is in focus. *)
MCFairness ==
    /\ WF_all(\/ InResolver(Resolver!Replies(1)) \/ InLists(Lists!parsed) \/ InHttp(Http!Step(1))
              \/ InFeat(Feat!restoreBoot) \/ InHeart(Heart!UpdateStep) \/ InNut(Nut!Step(1))
              \/ InBt(Bt!apply) \/ InZig(Zig!apply) \/ InPrn(Prn!requestSearch)
              \/ InClips(Clips!Tick))
    /\ WF_all(\/ InResolver(Resolver!Replies(2)) \/ InLists(Lists!Refreshing) \/ InHttp(Http!Step(2))
              \/ InFeat(Feat!Applied) \/ InHeart(Heart!Goes) \/ InNut(Nut!Step(2))
              \/ InBt(Bt!RestartTimer) \/ InZig(Zig!HostStarts) \/ InPrn(Prn!cycle)
              \/ InClips(Clips!cleanup))
    /\ WF_all(\/ InResolver(Resolver!Exchange(1)) \/ InLists(Lists!refreshFails)
              \/ InHeart(Heart!Beat(1)) \/ InBt(Bt!report) \/ InZig(Zig!Watches)
              \/ InPrn(Prn!SearchStep) \/ InClips(Clips!Halt))
    /\ WF_all(\/ InResolver(Resolver!Exchange(2)) \/ InLists(Lists!TimePasses(1)) \/ InBt(Bt!Posted)
              \/ InZig(Zig!JoinCloses) \/ InPrn(Prn!Refreshes("search")) \/ InClips(Clips!DemandEnds))
    /\ WF_all(\/ InResolver(Resolver!connected(1)) \/ InBt(Bt!HelperStep(1)) \/ InZig(Zig!TailEnds)
              \/ InPrn(Prn!Refreshes("cycle")) \/ InClips(Clips!SnapStep))
    /\ WF_all(\/ InResolver(Resolver!connected(2)) \/ InBt(Bt!HelperStep(2)) \/ InZig(Zig!Steps(1))
              \/ InClips(Clips!StreamEnds(1)))
    /\ WF_all(InBt(Bt!HelperStep(3)) \/ InZig(Zig!Steps(2)) \/ InClips(Clips!_endEvent(1)))
    /\ WF_all(InBt(Bt!HelperStep(4)) \/ InZig(Zig!MustFail(1)) \/ InClips(Clips!_thumb(1)))
    /\ WF_all(InBt(Bt!HelperStep(5)) \/ InZig(Zig!MustFail(2)))
    /\ WF_all(InZig(Zig!tick(1))) /\ WF_all(InZig(Zig!tick(2)))

MCSpec == MCInit /\ [][MCNext]_all /\ MCFairness

-----------------------------------------------------------------------------
(* Type invariants of the parts. *)
TypesOK ==
    CASE focus = "resolver" -> Resolver!TypeOK [] focus = "lists" -> Lists!TypeOK
      [] focus = "http" -> Http!TypeOK [] focus = "features" -> Feat!TypeOK
      [] focus = "heart" -> Heart!TypeOK [] focus = "ups" -> Nut!TypeOK
      [] focus = "ble" -> Bt!TypeOK [] focus = "zigbee" -> Zig!TypeOK
      [] focus = "printers" -> Prn!TypeOK [] focus = "clips" -> Clips!TypeOK
      [] focus = "policy" -> TRUE

(* The pure part of the filter computes what its definitions say: time     *)
(* rules past midnight, names and hashes, a list in pieces, the order of   *)
(* the rules (policy.js, domainSet.js, listParser.js).                     *)
PolicyAgrees ==
    focus = "policy" =>
        Policy!TimesAgree /\ Policy!SetsAgree /\ Policy!PiecesAgree /\ Policy!OrderHolds


(* What is sent and what is kept plays through, over restarts of ffmpeg,   *)
(* and the cleanup takes no clip that is to be kept (cameras.js, fmp4.js). *)
ClipsAreWhole == focus = "clips" => Clips!PlaysThrough /\ Clips!ClipsKept

(* In the end every query and request has its answer and the lists are     *)
(* current, all parts have the newest settings, the server shows the       *)
(* gateway online and no update is open, the UPS telemetry is true, the    *)
(* radios do what is set, printers are listed and old clips are gone.      *)
HouseSettles ==
    <>[](/\ focus = "resolver" => Resolver!AllAnswered
         /\ focus = "lists" => Lists!ListsCurrent
         /\ focus = "http" => Http!AllAnswered
         /\ focus = "features" /\ flife = "up" => Feat!Converged
         /\ focus = "heart" => Heart!Online
         /\ focus = "ups" => Nut!Truth
         /\ focus = "ble" => Bt!Scanning /\ Bt!Reported
         /\ focus = "zigbee" => Zig!Converged
         /\ focus = "printers" => Prn!PrintersListed
         /\ focus = "clips" /\ ccfg.on = "yes" => Clips!RingFollows /\ Clips!OldGone)
=============================================================================
