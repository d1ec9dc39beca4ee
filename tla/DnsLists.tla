------------------------------ MODULE DnsLists ------------------------------
(***************************************************************************)
(* The block lists of the DNS filter (dns/lists.js ListManager): setWanted *)
(* with its awaits, the refresh loop beside it, the files and meta.json.   *)
(*                                                                         *)
(* What a publisher has at a URL is a version number; an ETag names the    *)
(* version, and so does a sha256.  A list of any version has one entry (a  *)
(* unit).  DnsFilter.apply is called once at a time (features/manager.js), *)
(* so there is one setWanted at a time.                                    *)
(***************************************************************************)
EXTENDS Naturals, FiniteSets, FiniteSetsExt

CONSTANTS
    Ids,         \* list ids, numbers in the order of the loops
    Urls,
    Pins,        \* sha256 of the catalog: a version, or 0 for none
    MaxTotal,    \* MAX_ENTRIES_TOTAL, in units
    MaxVersion,  \* bound: versions a publisher issues
    MaxWants,    \* bound: calls of setWanted
    MaxFaults    \* bound: failed downloads and restarts

VARIABLES
    catalog,  \* this.catalog: per id [url, pin, obj], obj the object's identity; obj 0 for absent
    inUse,    \* this.used
    lists,    \* this.lists: per id [url, ver] of what is loaded, NoList
    meta,     \* this.meta: per id [url, ver: of etag and sha256, 0 none; due; obj]
    metaDisk, \* meta.json
    file,     \* <id>.txt
    wants,    \* setWanted: [todo: ids still to look at, reading: the list being parsed]
    job,      \* _refresh: [st: idle, fetch, parse; id, todo, c, obj: of meta; cond, got]
    published,\* per URL the version its publisher has
    stale,    \* history: yes after an older file's list took the place of a newer one
    used

disk == <<metaDisk, file>>
memory == <<catalog, inUse, lists, meta, wants, job>>
vars == <<memory, disk, published, stale, used>>

NoList == [url |-> "none", ver |-> 0]
NoMeta == [url |-> "none", ver |-> 0, due |-> "no", obj |-> 0]
NoCatalog == [url |-> "none", pin |-> 0, obj |-> 0]
NoWants == [todo |-> {}, id |-> 0, read |-> NoList]
NoJob == [st |-> "idle", id |-> 0, todo |-> {}, c |-> NoCatalog, obj |-> 0, cond |-> 0, got |-> NoList]

Init ==
    /\ catalog = [i \in Ids |-> NoCatalog] /\ inUse = {}
    /\ lists = [i \in Ids |-> NoList] /\ meta = [i \in Ids |-> NoMeta]
    /\ metaDisk = [i \in Ids |-> NoMeta] /\ file = [i \in Ids |-> NoList]
    /\ wants = NoWants /\ job = NoJob /\ published = [u \in Urls |-> 1] /\ stale = "no"
    /\ used = [wants |-> 0, faults |-> 0]

Use(f, max) == used[f] < max /\ used' = [used EXCEPT ![f] = @ + 1]

Loaded(ls) == {i \in Ids : ls[i] # NoList}

-----------------------------------------------------------------------------
(* setWanted.                                                              *)

\* same: the meta entry is about what the catalog names
Same(i, cat, m) ==
    /\ m[i] # NoMeta /\ m[i].url = cat[i].url
    /\ cat[i].pin = 0 \/ cat[i].pin = m[i].ver

\* the loop over the used lists, up to the await of parseFile: what is not the
\* same is reset; a list whose file is there is read, one without is due
Walk(todo, cat, ls, m) ==
    LET reads == {i \in todo : Same(i, cat, m) /\ ls[i] = NoList /\ file[i] # NoList}
        seen  == {i \in todo : \A j \in reads : i < j}
        reset == {i \in seen : ~Same(i, cat, m)}
        empty == {i \in seen : Same(i, cat, m) /\ ls[i] = NoList}
        m2    == [i \in Ids |->
                    IF i \in reset THEN [url |-> cat[i].url, ver |-> 0, due |-> "yes", obj |-> used'.wants]
                    ELSE IF i \in empty THEN [m[i] EXCEPT !.due = "yes"] ELSE m[i]]
    IN  /\ meta' = m2
        /\ lists' = [i \in Ids |-> IF i \in reset THEN NoList ELSE ls[i]]
        /\ IF reads = {}
           THEN wants' = NoWants /\ metaDisk' = m2
           ELSE /\ wants' = [todo |-> {i \in todo : i > Min(reads)}, id |-> Min(reads),
                             read |-> file[Min(reads)]]
                /\ UNCHANGED metaDisk

\* fs.rm of the lists the catalog does not have
Removed(gone) == file' = [i \in Ids |-> IF i \in gone THEN NoList ELSE file[i]]

\* setWanted, the part before the loop: the catalog is a new object
setWanted(cat, us) ==
    LET gone == {i \in Ids : meta[i] # NoMeta /\ cat[i].obj = 0}
        ls   == [i \in Ids |-> IF i \in us THEN lists[i] ELSE NoList]
        m    == [i \in Ids |-> IF i \in gone THEN NoMeta ELSE meta[i]]
    IN  /\ wants = NoWants /\ Use("wants", MaxWants)
        /\ catalog' = cat /\ inUse' = us /\ Removed(gone)
        /\ Walk(us, cat, ls, m)
        /\ UNCHANGED <<job, published, stale>>

\* the file is parsed: the list is set, whatever has been loaded meanwhile
parsed ==
    LET i == wants.id IN
    /\ i # 0 /\ UNCHANGED used
    /\ Walk(wants.todo, catalog, [lists EXCEPT ![i] = wants.read], meta)
    /\ stale' = IF wants.read # file[i] THEN "yes" ELSE stale
    /\ UNCHANGED <<catalog, inUse, file, job, published>>

-----------------------------------------------------------------------------
(* refreshDue and _refresh.                                                *)

Due(i) == catalog[i].obj # 0 /\ meta[i].due = "yes"

\* the loop takes the next due list of the set it began with
refreshDue ==
    LET pool == IF \E j \in job.todo : Due(j) THEN job.todo ELSE inUse
        ready == {j \in pool : Due(j)}
        i == Min(ready)
    IN  /\ job.st = "idle" /\ ready # {}
        /\ job' = [st |-> "fetch", id |-> i, todo |-> {j \in pool : j > i}, c |-> catalog[i],
                   obj |-> meta[i].obj, cond |-> IF lists[i] # NoList THEN meta[i].ver ELSE 0,
                   got |-> NoList]
        /\ UNCHANGED <<catalog, inUse, lists, meta, wants, disk, published, stale, used>>

\* m is written, if it still is the meta entry, and meta.json with it
MetaSaved(ver, due) ==
    LET i == job.id
        m2 == IF meta[i] # NoMeta /\ meta[i].obj = job.obj
              THEN [meta EXCEPT ![i].ver = ver, ![i].due = due] ELSE meta
    IN  meta' = m2 /\ metaDisk' = m2

JobEnds == job' = [NoJob EXCEPT !.todo = job.todo]

\* 304
notModified ==
    /\ job.st = "fetch" /\ job.cond # 0 /\ job.cond = published[job.c.url]
    /\ MetaSaved(meta[job.id].ver, "no") /\ JobEnds
    /\ UNCHANGED <<catalog, inUse, lists, wants, file, published, stale, used>>

\* 200, with the pinned contents if there is a pin
fetched ==
    LET v == published[job.c.url] IN
    /\ job.st = "fetch" /\ job.cond # v /\ job.c.pin \in {0, v}
    /\ job' = [job EXCEPT !.st = "parse", !.got = [url |-> job.c.url, ver |-> v]]
    /\ UNCHANGED <<catalog, inUse, lists, meta, wants, disk, published, stale, used>>

\* the catch block: sha256_mismatch, too_many_entries, or any failed download
refreshFails ==
    /\ \/ job.st = "fetch" /\ job.c.pin \notin {0, published[job.c.url]} /\ UNCHANGED used
       \/ job.st = "parse" /\ Cardinality(Loaded(lists) \ {job.id}) >= MaxTotal /\ UNCHANGED used
       \/ job.st # "idle" /\ Use("faults", MaxFaults)
    /\ MetaSaved(meta[job.id].ver, "no") /\ JobEnds
    /\ UNCHANGED <<catalog, inUse, lists, wants, file, published, stale>>

\* the file is renamed; then the catalog is looked at: with another object in
\* it (or the list out of use) neither the list nor its meta is set
Placed ==
    LET i == job.id IN
    /\ file' = [file EXCEPT ![i] = job.got]
    /\ IF catalog[i] # job.c \/ i \notin inUse
       THEN UNCHANGED <<lists, meta, metaDisk>>
       ELSE lists' = [lists EXCEPT ![i] = job.got] /\ MetaSaved(job.got.ver, "no")

refreshed ==
    /\ job.st = "parse" /\ Cardinality(Loaded(lists) \ {job.id}) < MaxTotal
    /\ Placed /\ JobEnds
    /\ UNCHANGED <<catalog, inUse, wants, published, stale, used>>

-----------------------------------------------------------------------------
(* The world: nextAt passes (24 h, or 1 h after an error), a publisher has *)
(* a new version, the gateway restarts.                                    *)

TimePasses(i) ==
    /\ meta[i] # NoMeta /\ meta[i].due = "no" /\ meta' = [meta EXCEPT ![i].due = "yes"]
    /\ UNCHANGED <<catalog, inUse, lists, wants, job, disk, published, stale, used>>

Publish(u) ==
    /\ published[u] < MaxVersion /\ published' = [published EXCEPT ![u] = @ + 1]
    /\ UNCHANGED <<memory, disk, stale, used>>

\* _loadMeta at the first setWanted
Restart ==
    /\ Use("faults", MaxFaults)
    /\ catalog' = [i \in Ids |-> NoCatalog] /\ inUse' = {} /\ lists' = [i \in Ids |-> NoList]
    /\ meta' = metaDisk /\ wants' = NoWants /\ job' = NoJob
    /\ UNCHANGED <<disk, published, stale>>

\* the catalogs a server sends: per id absent, or a URL with or without a pin
Catalogs ==
    [Ids -> {NoCatalog} \cup [url : Urls, pin : Pins, obj : {used.wants + 1}]]

Refreshing == refreshDue \/ notModified \/ fetched \/ refreshed

Next ==
    \/ \E cat \in Catalogs : \E us \in SUBSET {i \in Ids : cat[i].obj # 0} : setWanted(cat, us)
    \/ parsed \/ Refreshing \/ refreshFails \/ Restart
    \/ \E i \in Ids : TimePasses(i)
    \/ \E u \in Urls : Publish(u)

Spec == Init /\ [][Next]_vars

(* Parsing ends; the loop runs every few minutes, downloads have a time    *)
(* limit, and nextAt passes.                                               *)
Fairness ==
    /\ WF_vars(parsed) /\ WF_vars(Refreshing) /\ WF_vars(refreshFails)
    /\ \A i \in Ids : WF_vars(TimePasses(i))

-----------------------------------------------------------------------------
(* Type invariant of the lists. *)
TypeOK ==
    /\ inUse \subseteq {i \in Ids : catalog[i].obj # 0}
    /\ \A i \in Ids : /\ {lists[i].url, file[i].url} \subseteq Urls \cup {"none"}
                      /\ meta[i].due \in {"yes", "no"}
    /\ job.st \in {"idle", "fetch", "parse"} /\ wants.id \in Ids \cup {0}

(* Only lists in use are in memory, with a refresh, a parse and a change   *)
(* of the settings in any order (lists.js setWanted, _refresh).            *)
LoadedIsUsed == Loaded(lists) \subseteq inUse

(* In the end every list in use whose publisher has what the catalog asks  *)
(* for is the published one - unless a slow parse has put an older file's  *)
(* list over a newer one, which the next 304 then confirms.                *)
ListsCurrent ==
    stale = "no" =>
        \A i \in inUse : catalog[i].pin \in {0, published[catalog[i].url]} =>
            lists[i] = [url |-> catalog[i].url, ver |-> published[catalog[i].url]]

(* The file of a list the catalog no longer has goes from the disk, once   *)
(* nothing is under way (setWanted).  Not so: a refresh under way renames  *)
(* its file into place after setWanted has removed it.                     *)
FilesInCatalog ==
    wants = NoWants /\ job.st = "idle" /\ used.faults = 0 =>
        \A i \in Ids : catalog[i].obj = 0 => file[i] = NoList
=============================================================================
