----------------------------- MODULE EdgeFiles -----------------------------
(***************************************************************************)
(* What the edge host keeps on disk for one plugin: the unpacked packages  *)
(* (edge/packages.js, driven by ensurePlugin of edge/host.js) and the      *)
(* plugin's key-value file (edge/store.js).  Every file system call is a   *)
(* step, so that the host can die or a write can fail between any two.     *)
(*                                                                         *)
(* A package is its sha256; what inspect finds wrong with it is a defect.  *)
(***************************************************************************)
EXTENDS Naturals

CONSTANTS
    Versions, Shas,
    Defects,      \* what inspect may object to, beside the sha256
    MaxStates,    \* bound: states of the server
    MaxFaults,    \* bound: failed downloads, failed writes, deaths of the host
    MaxSets       \* bound: values the plugin stores

VARIABLES
    want,     \* the state of the server: [version, sha, defect: of the package it serves]
    entry,    \* [version, sha: as last looked at; spec: version of the process]
    status,   \* ok, denied, retry
    proc,     \* the sha whose code the process runs, or none
    pc,       \* idle, download, files, ready, remove, rename
    job,      \* the state ensurePlugin works for
    tmp,      \* the directory being filled: [files, ready]
    left,     \* a filled directory of an earlier attempt is left: yes, no
    dest,     \* per version: [files: the package unpacked there, ready: sha in .ready.json]
    file, fileTmp,  \* store.json and its temporary file, as the number of the value
    data,           \* the store in memory, Unread before load()
    acked,          \* the last value gc.store.set answered for
    used

pkg == <<want, entry, status, proc, pc, job, tmp, left, dest>>
kv == <<file, fileTmp, data, acked>>
vars == <<pkg, kv, used>>

None == "none"
Unread == MaxSets + 1
Empty == [files |-> None, ready |-> None]

\* the packages the server can serve: one defect per package
Init ==
    /\ \E v \in Versions, s \in Shas : want = [version |-> v, sha |-> s, defect |-> None]
    /\ entry = [version |-> None, sha |-> None, spec |-> None]
    /\ status = "ok" /\ proc = None /\ pc = "idle" /\ job = want
    /\ tmp = Empty /\ left = "no" /\ dest = [v \in Versions |-> Empty]
    /\ file = 0 /\ fileTmp = 0 /\ data = Unread /\ acked = 0
    /\ used = [states |-> 0, faults |-> 0, sets |-> 0]

Use(f, max) == used[f] < max /\ used' = [used EXCEPT ![f] = @ + 1]

\* external: the server states another version or another package
StateChanges ==
    /\ Use("states", MaxStates)
    /\ \E v \in Versions, s \in Shas, d \in Defects \cup {None} :
          want' = [version |-> v, sha |-> s, defect |-> d]
    /\ UNCHANGED <<entry, status, proc, pc, job, tmp, left, dest, kv>>

-----------------------------------------------------------------------------
(* packages.js.                                                            *)

\* installed(id, version, sha256)
installed(v, sha) == dest[v].ready = sha

\* inspect: what is wrong with the package of a state, none when nothing is;
\* the sha256 is compared with the state's before anything else
inspect(sha, w) == IF sha # w.sha THEN "sha256_mismatch" ELSE w.defect

Starts(w) ==
    /\ entry' = [version |-> w.version, sha |-> w.sha, spec |-> w.version]
    /\ proc' = IF proc = None \/ entry.spec # w.version \/ entry.sha # w.sha
               THEN dest'[w.version].files ELSE proc
    /\ status' = "ok" /\ UNCHANGED left

\* ensurePlugin: installed already, or it is downloaded
ensurePlugin ==
    /\ pc = "idle" /\ job' = want
    /\ IF installed(want.version, want.sha)
       THEN UNCHANGED <<dest, pc>> /\ Starts(want)
       ELSE pc' = "download" /\ UNCHANGED <<entry, status, proc, left, dest>>
    /\ UNCHANGED <<want, tmp, kv, used>>

\* the package came; the server may have another one by now
Downloaded ==
    /\ pc = "download"
    /\ IF inspect(want.sha, job) = None
       THEN pc' = "files" /\ tmp' = Empty /\ UNCHANGED <<entry, status, proc>>
       ELSE /\ pc' = "idle" /\ status' = "denied" /\ proc' = None /\ UNCHANGED tmp
            /\ entry' = [entry EXCEPT !.version = job.version, !.sha = job.sha]
    /\ UNCHANGED <<want, job, left, dest, kv, used>>

\* download_failed, not_found: a later reconcile tries again; the process stays
DownloadFails ==
    /\ pc = "download" /\ Use("faults", MaxFaults)
    /\ pc' = "idle" /\ status' = "retry"
    /\ entry' = [entry EXCEPT !.version = job.version, !.sha = job.sha]
    /\ UNCHANGED <<want, proc, job, tmp, left, dest, kv>>

\* mutant: .ready.json is written with the first files
ReadyFirst ==
    /\ pc = "files" /\ pc' = "ready" /\ tmp' = [files |-> "part", ready |-> job.sha]
    /\ dest' = [dest EXCEPT ![job.version] = tmp']
    /\ UNCHANGED <<want, entry, status, proc, job, left, kv, used>>

\* extract: some of the files
ExtractSome ==
    /\ pc = "files" /\ pc' = "ready" /\ tmp' = [tmp EXCEPT !.files = "part"]
    /\ UNCHANGED <<want, entry, status, proc, job, left, dest, kv, used>>

\* ... the rest and .ready.json
ExtractReady ==
    /\ pc = "ready" /\ pc' = "remove" /\ tmp' = [files |-> job.sha, ready |-> job.sha]
    /\ UNCHANGED <<want, entry, status, proc, job, left, dest, kv, used>>

\* ... the directory of that version goes
ExtractRemove ==
    /\ pc = "remove" /\ pc' = "rename" /\ dest' = [dest EXCEPT ![job.version] = Empty]
    /\ UNCHANGED <<want, entry, status, proc, job, tmp, left, kv, used>>

\* ... and the new one takes its place; the process is started from it
ExtractRename ==
    /\ pc = "rename" /\ pc' = "idle" /\ dest' = [dest EXCEPT ![job.version] = tmp]
    /\ tmp' = Empty /\ Starts(job) /\ UNCHANGED <<want, job, kv, used>>

\* prune, once the process is up: the other versions and what attempts left
prune ==
    /\ proc # None /\ pc \in {"idle", "download"}
    /\ dest' = [v \in Versions |-> IF v = entry.spec THEN dest[v] ELSE Empty]
    /\ left' = "no" /\ UNCHANGED <<want, entry, status, proc, pc, job, tmp, kv, used>>

\* a full disk
WriteFails ==
    /\ pc \in {"files", "ready", "remove", "rename"} /\ Use("faults", MaxFaults)
    /\ pc' = "idle" /\ status' = "denied" /\ proc' = None /\ tmp' = Empty /\ left' = "yes"
    /\ entry' = [entry EXCEPT !.version = job.version, !.sha = job.sha]
    /\ UNCHANGED <<want, job, dest, kv>>

-----------------------------------------------------------------------------
(* store.js.                                                               *)

\* set: load(), then the temporary file
write ==
    /\ fileTmp = 0 /\ Use("sets", MaxSets)
    /\ fileTmp' = used'.sets /\ data' = IF data = Unread THEN file ELSE data
    /\ UNCHANGED <<pkg, file, acked>>

\* ... renamed, the value is in memory and the plugin has its answer
Renamed ==
    /\ fileTmp # 0 /\ file' = fileTmp /\ fileTmp' = 0 /\ data' = fileTmp /\ acked' = fileTmp
    /\ UNCHANGED <<pkg, used>>

\* too_large, or a full disk: the plugin gets the error
SetFails ==
    /\ fileTmp # 0 /\ Use("faults", MaxFaults) /\ fileTmp' = 0 /\ UNCHANGED <<pkg, file, data, acked>>

\* the host dies; the processes with it
HostDies ==
    /\ Use("faults", MaxFaults)
    /\ entry' = [version |-> None, sha |-> None, spec |-> None] /\ status' = "ok" /\ proc' = None
    /\ pc' = "idle" /\ tmp' = Empty /\ left' = IF tmp # Empty THEN "yes" ELSE left
    /\ fileTmp' = 0 /\ data' = Unread /\ UNCHANGED <<want, job, dest, file, acked>>

Extract == ExtractSome \/ ExtractReady \/ ExtractRemove \/ ExtractRename

Packages ==
    \/ StateChanges \/ ensurePlugin \/ Downloaded \/ DownloadFails \/ Extract \/ prune
    \/ WriteFails \/ HostDies

Store == write \/ Renamed \/ SetFails \/ HostDies

Next == Packages \/ Store

Spec == Init /\ [][Next]_vars

(* Reconciles come with every state and every status tick; a download ends. *)
Fairness == WF_vars(ensurePlugin) /\ WF_vars(Downloaded) /\ WF_vars(Extract) /\ WF_vars(Renamed)

-----------------------------------------------------------------------------
(* Type invariant of the files. *)
TypeOK ==
    /\ entry.sha \in Shas \cup {None} /\ proc \in Shas \cup {None, "part"}
    /\ status \in {"ok", "denied", "retry"} /\ left \in {"yes", "no"}
    /\ pc \in {"idle", "download", "files", "ready", "remove", "rename"}
    /\ dest \in [Versions -> [files : Shas \cup {None, "part"}, ready : Shas \cup {None}]]
    /\ {fileTmp, acked} \subseteq 0..MaxSets

(* A directory that counts as installed holds the whole package of that    *)
(* sha256, and a process was started from nothing else, wherever the host  *)
(* died or the disk ran full (packages.js extract, installed).             *)
InstalledIsWhole ==
    /\ \A v \in Versions : dest[v].ready # None => dest[v].files = dest[v].ready
    /\ proc # "part"

(* A value gc.store.set answered for is the one on disk, and in memory,    *)
(* whenever no set is under way (store.js write).                          *)
AckedIsStored == file = acked /\ data \in {Unread, acked}

(* The process that runs is of the package the server states, or the       *)
(* package was refused.                                                    *)
PackageRuns == proc = want.sha \/ status = "denied"

(* In the end it is, whatever the downloads and deaths in between, with    *)
(* one exception: the server put another package under the version that    *)
(* runs and a download of it failed.  The entry then already names the new *)
(* sha256, and a later reconcile sees no change (host.js ensurePlugin).    *)
PackageSettled ==
    PackageRuns \/ (used.faults > 0 /\ proc # None /\ entry.spec = want.version)
=============================================================================
