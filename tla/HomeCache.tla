----------------------------- MODULE HomeCache -----------------------------
(***************************************************************************)
(* The cache of the gateway (cache/cache.js, cache/store.js,               *)
(* cache/fetcher.js): a store of blobs on disk, kept within a limit, that  *)
(* is filled from the server's wish list; the gateway reports what it has. *)
(* A sync, a clear and three callers of report interleave at their awaits. *)
(*                                                                         *)
(* The server is external: it keeps what the reports say (known).  A post  *)
(* may be taken and its answer lost.  Switching off and on, or a restart,  *)
(* makes a new store of the files in the directory; a sync or a clear that *)
(* is under way goes on with the old one.                                  *)
(***************************************************************************)
EXTENDS Naturals, FiniteSets

CONSTANTS
    Blobs, Big, Urgent,   \* blobs; those of size 2; those of high priority
    Limit,                \* effectiveMax
    MaxSyncs,             \* bound: syncs
    MaxTurns,             \* bound: clears, failures, switches and crashes together
    MaxEvents             \* bound: syncs and turns together

VARIABLES
    store,      \* this.store: [gen, state]; a number per BlobStore
    items,      \* the keys of store.items
    usedBytes, added, removed,
    files,      \* blobs in the directory
    rms,        \* files whose rm is under way
    needFull,
    syncing,    \* _sync: [pc, gen, want, todo, blob, victims, rm, fetched, aborted]
    clearing,   \* clear: [pc, gen, left, rm]
    report,     \* caller -> [pc, gen, full, have, gone]
    known,      \* the server's view
    cacheUsed

cvars == <<store, items, usedBytes, added, removed, files, rms, needFull,
           syncing, clearing, report, known, cacheUsed>>

Callers == {"loop", "sync", "clear"}
Size(b) == IF b \in Big THEN 2 ELSE 1
Priority(b) == IF b \in Urgent THEN 2 ELSE 1
SizeOf(S) == Cardinality(S) + Cardinality(S \cap Big)
Bound == [syncs |-> MaxSyncs, turns |-> MaxTurns]
Count(f) ==
    /\ cacheUsed[f] < Bound[f] /\ cacheUsed.syncs + cacheUsed.turns < MaxEvents
    /\ cacheUsed' = [cacheUsed EXCEPT ![f] = @ + 1]

NoSync == [pc |-> "idle", gen |-> 0, want |-> {}, todo |-> {}, blob |-> {},
           victims |-> {}, rm |-> {}, fetched |-> "no", aborted |-> "no"]
NoClear == [pc |-> "idle", gen |-> 0, left |-> {}, rm |-> {}]
NoReport == [pc |-> "idle", gen |-> 0, full |-> "no", have |-> {}, gone |-> {}]

Init ==
    /\ store = [gen |-> 1, state |-> "open"] /\ items = {} /\ usedBytes = 0
    /\ added = {} /\ removed = {} /\ files = {} /\ rms = {} /\ needFull = "yes"
    /\ syncing = NoSync /\ clearing = NoClear /\ report = [r \in Callers |-> NoReport]
    /\ known = {} /\ cacheUsed = [syncs |-> 0, turns |-> 0]

Open(gen) == store.state = "open" /\ store.gen = gen
storevars == <<items, usedBytes, added, removed>>

-----------------------------------------------------------------------------
(* The store.  What happens to an old store shows only in the directory.   *)

\* mutant: the bytes of a removed blob stay counted
_unsetForgets(b) == items' = items \ {b} /\ UNCHANGED usedBytes

_unset(b) ==
    /\ items' = items \ {b}
    /\ usedBytes' = usedBytes - (IF b \in items THEN Size(b) ELSE 0)

_set(b) ==
    /\ items' = items \cup {b}
    /\ usedBytes' = usedBytes + (IF b \in items THEN 0 ELSE Size(b))

\* remove up to the rm
remove(gen, b) ==
    IF Open(gen) /\ b \in items
    THEN /\ _unset(b) /\ removed' = removed \cup {b} /\ added' = added \ {b}
         /\ rms' = rms \cup {b}
    ELSE UNCHANGED <<storevars, rms>>

RmDone(b) ==
    /\ b \in rms /\ rms' = rms \ {b} /\ files' = files \ {b}
    /\ UNCHANGED <<store, storevars, needFull, syncing, clearing, report, known, cacheUsed>>

\* commit after the rename
commit(gen, b) ==
    IF Open(gen)
    THEN _set(b) /\ added' = added \cup {b} /\ removed' = removed \ {b}
    ELSE UNCHANGED storevars

\* rank: what is not wanted goes first, then what has a lower priority
Rank(want, b) == IF b \in want THEN Priority(b) ELSE 0

\* mutant: room is not made
VictimsNone(want, w) == {{}}

\* makeRoom: the sets of victims, by the order among those of equal rank
Victims(want, w) ==
    LET cands == {b \in items : Rank(want, b) < Priority(w)}
        enough(S) == usedBytes - SizeOf(S) + Size(w) <= Limit
    IN  {S \in SUBSET cands :
            /\ enough(S)
            /\ \A b \in S, c \in cands \ S : Rank(want, b) <= Rank(want, c)
            /\ S # {} => \E b \in S : /\ ~enough(S \ {b})
                                      /\ \A c \in S : Rank(want, c) <= Rank(want, b)}

-----------------------------------------------------------------------------
(* report: what is told is read before the post, what was told is          *)
(* forgotten after it.                                                     *)

\* mutant: the six hours never pass
fullDueNever(full) == full = needFull

\* full: needFull, or six hours since the last one
fullDue(full) == needFull = "yes" => full = "yes"

BeginReport(r, full) ==
    report' = [report EXCEPT ![r] =
        [pc |-> "post", gen |-> store.gen, full |-> full,
         have |-> IF full = "yes" THEN items' ELSE added',
         gone |-> IF full = "yes" THEN {} ELSE removed']]

reportLoop(full) ==
    /\ store.state = "open" /\ report["loop"].pc = "idle" /\ fullDue(full)
    /\ UNCHANGED <<store, storevars, files, rms, needFull, syncing, clearing, known, cacheUsed>>
    /\ BeginReport("loop", full)

\* the server takes the post
ServerTakes(r) ==
    /\ report[r].pc = "post" /\ report' = [report EXCEPT ![r].pc = "taken"]
    /\ known' = IF report[r].full = "yes" THEN report[r].have
                ELSE (known \cup report[r].have) \ report[r].gone
    /\ UNCHANGED <<store, storevars, files, rms, needFull, syncing, clearing, cacheUsed>>

EndSync == syncing' = NoSync

reported(r) ==
    /\ report[r].pc = "taken" /\ report' = [report EXCEPT ![r] = NoReport]
    /\ IF report[r].full = "yes" THEN needFull' = "no" ELSE UNCHANGED needFull
    /\ IF Open(report[r].gen)
       THEN /\ added' = IF report[r].full = "yes" THEN {} ELSE added \ report[r].have
            /\ removed' = IF report[r].full = "yes" THEN {} ELSE removed \ report[r].gone
       ELSE UNCHANGED <<added, removed>>
    /\ IF r = "sync" THEN EndSync ELSE UNCHANGED syncing
    /\ UNCHANGED <<store, items, usedBytes, files, rms, clearing, known, cacheUsed>>

reportFails(r) ==
    /\ report[r].pc \in {"post", "taken"} /\ report' = [report EXCEPT ![r] = NoReport]
    /\ Count("turns")
    /\ needFull' = "yes" /\ (IF r = "sync" THEN EndSync ELSE UNCHANGED syncing)
    /\ UNCHANGED <<store, storevars, files, rms, clearing, known>>

-----------------------------------------------------------------------------
(* _sync *)

syncStart ==
    /\ store.state = "open" /\ syncing.pc = "idle"
    /\ Count("syncs")
    /\ syncing' = [NoSync EXCEPT !.pc = "want", !.gen = store.gen]
    /\ UNCHANGED <<store, storevars, files, rms, needFull, clearing, report, known>>

\* the wish list comes, or want() throws
Wanted(W) ==
    /\ syncing.pc = "want"
    /\ syncing' = IF W = {} THEN NoSync
                  ELSE [syncing EXCEPT !.pc = "next", !.want = W, !.todo = W]
    /\ UNCHANGED <<store, storevars, files, rms, needFull, clearing, report, known, cacheUsed>>

\* the next blob of the list, by priority: there already, too big, no room for
\* it, or victims are chosen
nextBlob(w) ==
    /\ syncing.pc = "next" /\ Open(syncing.gen) /\ w \in syncing.todo
    /\ \A v \in syncing.todo : Priority(v) <= Priority(w)
    /\ \/ /\ w \in items \/ Size(w) > Limit \/ Victims(syncing.want, w) = {}
          /\ syncing' = [syncing EXCEPT !.todo = @ \ {w}]
       \/ /\ w \notin items /\ Size(w) <= Limit
          /\ \E S \in Victims(syncing.want, w) :
               syncing' = [syncing EXCEPT !.pc = "room", !.todo = @ \ {w}, !.blob = {w}, !.victims = S]
    /\ UNCHANGED <<store, storevars, files, rms, needFull, clearing, report, known, cacheUsed>>

\* one victim; its rm is awaited before the next
evict(v) ==
    /\ syncing.pc = "room" /\ v \in syncing.victims /\ syncing.rm \cap rms = {}
    /\ remove(syncing.gen, v)
    /\ syncing' = [syncing EXCEPT !.victims = @ \ {v}, !.rm = rms' \ rms]
    /\ UNCHANGED <<store, files, needFull, clearing, report, known, cacheUsed>>

startLoad ==
    /\ syncing.pc = "room" /\ syncing.victims = {} /\ syncing.rm \cap rms = {}
    /\ syncing' = [syncing EXCEPT !.pc = "load", !.aborted = "no"]
    /\ UNCHANGED <<store, storevars, files, rms, needFull, clearing, report, known, cacheUsed>>

\* blob: loaded and renamed, failed, or aborted (not once the stream has ended)
Loaded ==
    /\ syncing.pc = "load" /\ syncing' = [syncing EXCEPT !.pc = "commit"]
    /\ files' = files \cup syncing.blob
    /\ UNCHANGED <<store, storevars, rms, needFull, clearing, report, known, cacheUsed>>

LoadFails ==
    /\ syncing.pc = "load"
    /\ \/ /\ Count("turns")
          /\ syncing' = [syncing EXCEPT !.pc = "next", !.blob = {}]
       \/ /\ syncing.aborted = "yes" /\ UNCHANGED cacheUsed
          /\ syncing' = [syncing EXCEPT !.pc = "end", !.blob = {}]
    /\ UNCHANGED <<store, storevars, files, rms, needFull, clearing, report, known>>

Committed ==
    /\ syncing.pc = "commit" /\ \E b \in syncing.blob : commit(syncing.gen, b)
    /\ syncing' = [syncing EXCEPT !.pc = "next", !.blob = {}, !.fetched = "yes"]
    /\ UNCHANGED <<store, files, rms, needFull, clearing, report, known, cacheUsed>>

\* the end of the list, or another store: a report when something was fetched
syncEnd(full) ==
    /\ \/ syncing.pc = "end"
       \/ syncing.pc = "next" /\ (syncing.todo = {} \/ ~Open(syncing.gen))
    /\ UNCHANGED <<store, storevars, files, rms, needFull, clearing, known, cacheUsed>>
    /\ IF syncing.fetched = "yes" /\ store.state = "open"
       THEN /\ fullDue(full) /\ BeginReport("sync", full)
            /\ syncing' = [syncing EXCEPT !.pc = "report"]
       ELSE syncing' = NoSync /\ UNCHANGED report

-----------------------------------------------------------------------------
(* clear and apply *)

Abort(s) == IF s.pc = "load" THEN [s EXCEPT !.aborted = "yes"] ELSE s

clear ==
    /\ store.state = "open" /\ clearing.pc = "idle" /\ report["clear"].pc = "idle"
    /\ Count("turns")
    /\ syncing' = Abort(syncing)
    /\ clearing' = [pc |-> "remove", gen |-> store.gen, left |-> items, rm |-> {}]
    /\ UNCHANGED <<store, storevars, files, rms, needFull, report, known>>

clearOne(b) ==
    /\ clearing.pc = "remove" /\ b \in clearing.left /\ clearing.rm \cap rms = {}
    /\ remove(clearing.gen, b)
    /\ clearing' = [clearing EXCEPT !.left = @ \ {b}, !.rm = rms' \ rms]
    /\ UNCHANGED <<store, files, needFull, syncing, report, known, cacheUsed>>

cleared ==
    /\ clearing.pc = "remove" /\ clearing.left = {} /\ clearing.rm \cap rms = {} /\ clearing' = NoClear
    /\ needFull' = "yes"
    /\ UNCHANGED <<store, storevars, files, rms, syncing, known, cacheUsed>>
    /\ IF store.state = "open" THEN BeginReport("clear", "yes") ELSE UNCHANGED report

\* apply: switched off
shutdown ==
    /\ store.state = "open" /\ Count("turns")
    /\ store' = [store EXCEPT !.state = "closed"] /\ syncing' = Abort(syncing)
    /\ UNCHANGED <<storevars, files, rms, needFull, clearing, report, known>>

\* the process ends with all that it was doing
Crash ==
    /\ Count("turns")
    /\ store' = [store EXCEPT !.state = "closed"] /\ rms' = {}
    /\ syncing' = NoSync /\ clearing' = NoClear /\ report' = [r \in Callers |-> NoReport]
    /\ UNCHANGED <<storevars, files, needFull, known>>

\* apply: a new store with the files of the directory
open ==
    /\ store.state = "closed" /\ store' = [gen |-> store.gen + 1, state |-> "open"]
    /\ items' = files /\ usedBytes' = SizeOf(files) /\ added' = {} /\ removed' = {}
    /\ needFull' = "yes" /\ UNCHANGED <<files, rms, syncing, clearing, report, known, cacheUsed>>

SyncStep ==
    \/ \E W \in SUBSET Blobs : Wanted(W)
    \/ \E w \in Blobs : nextBlob(w) \/ evict(w)
    \/ startLoad \/ Loaded \/ LoadFails \/ Committed
    \/ \E f \in {"yes", "no"} : syncEnd(f)

ClearStep == cleared \/ \E b \in Blobs : clearOne(b)
Post(r) == ServerTakes(r) \/ reported(r)

Next ==
    \/ SyncStep \/ ClearStep \/ syncStart \/ clear \/ shutdown \/ Crash \/ open
    \/ \E b \in Blobs : RmDone(b)
    \/ \E r \in Callers : Post(r) \/ reportFails(r)
    \/ \E f \in {"yes", "no"} : reportLoop(f)

Spec == Init /\ [][Next]_cvars

-----------------------------------------------------------------------------
(* Type invariant of the cache. *)
TypeOK ==
    /\ items \subseteq Blobs /\ files \subseteq Blobs /\ rms \subseteq Blobs /\ known \subseteq Blobs
    /\ added \subseteq items /\ added \cap removed = {} /\ usedBytes \in Nat
    /\ store.state \in {"open", "closed"} /\ needFull \in {"yes", "no"}

(* usedBytes is the size of the blobs in the store, whatever sync, clear   *)
(* and a new store do in between (cache/store.js _set, _unset).            *)
UsedIsSum == usedBytes = SizeOf(items)

(* A blob that is taken into the store keeps it within the limit: the room *)
(* made before the download is still there after it.                       *)
CommitWithinLimit == [][items' \ items # {} /\ store' = store => usedBytes' <= Limit]_cvars

(* The server's view of the cache is right in the end, although reports    *)
(* overlap, fail after they were taken, and miss what changes meanwhile.   *)
HaveConverges == <>[](store.state = "open" => known = items)
=============================================================================
