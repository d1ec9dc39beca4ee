---------------------------- MODULE DnsResolver ----------------------------
(***************************************************************************)
(* A query through the DNS filter: Resolver (dns/resolver.js) with its     *)
(* bundling and its cache (dns/responseCache.js), Upstream and DohClient   *)
(* (dns/upstream.js), the part of DnsFilter.apply that replaces the        *)
(* upstream (dns/dns.js), and the counts of the five-minute report         *)
(* (dns/stats.js).                                                         *)
(*                                                                         *)
(* What Policy decides is a choice here (DnsPolicy says what it is).  All  *)
(* queries are for one name, so a key is U (forwarded) or L (local).  An   *)
(* exchange with an upstream has the number of the query that began it.    *)
(***************************************************************************)
EXTENDS Naturals, FiniteSets, FiniteSetsExt

CONSTANTS
    Queries,     \* the queries, in their order
    FromRouter,  \* those the router itself asks
    DownAfter,   \* DOWN_AFTER
    MaxApplies,  \* bound: settings applied
    MaxFaults,   \* bound: exchanges that fail
    MaxReports   \* bound: reports sent

VARIABLES
    on,        \* cfg.enabled: yes, no
    up,        \* this.upstream: the number of the Upstream object, 0 for null
    made,      \* Upstream objects made
    sess,      \* per Upstream object its HTTP/2 session: none, connecting, open
    q,         \* per query: [st: new, mac, wait, done; key; ex: the exchange it waits for]
    ex,        \* per exchange: [st: none, connect, doh, router, done; up, late]
    inflight,  \* this.inflight: per key the exchange, 0 for none
    cache,     \* per key: [up: of the answer, 0 for none; late: it came after its Upstream went]
    streak, down,             \* of the current Upstream; down: dohDownUntil is to come
    cur, sending, reported,   \* queries counted, in reports under way, and reported
    used

upstreams == <<on, up, made, sess, streak, down>>
answering == <<q, ex, inflight, cache>>
stats == <<cur, sending, reported>>
vars == <<upstreams, answering, stats, used>>

Keys == {"U", "L"}
NoEx == [st |-> "none", up |-> 0, late |-> "no"]
NoEntry == [up |-> 0, late |-> "no"]
Objects == 1..MaxApplies

Init ==
    /\ on = "no" /\ up = 0 /\ made = 0 /\ sess = [u \in Objects |-> "none"]
    /\ q = [i \in Queries |-> [st |-> "new", key |-> "U", ex |-> 0]]
    /\ ex = [i \in Queries |-> NoEx] /\ inflight = [k \in Keys |-> 0]
    /\ cache = [k \in Keys |-> NoEntry]
    /\ streak = 0 /\ down = "no"
    /\ cur = 0 /\ sending = {} /\ reported = 0
    /\ used = [applies |-> 0, faults |-> 0, reports |-> 0]

Use(f, max) == used[f] < max /\ used' = [used EXCEPT ![f] = @ + 1]

-----------------------------------------------------------------------------
(* DnsFilter.                                                              *)

\* what goes with an Upstream: its session, if it has one (close, _drop); what
\* is under way through it is late from now on
Closed(u) ==
    /\ sess' = IF u # 0 /\ sess[u] = "open" THEN [sess EXCEPT ![u] = "none"] ELSE sess
    /\ ex' = [i \in Queries |-> IF ex[i].up = u /\ u # 0 THEN [ex[i] EXCEPT !.late = "yes"] ELSE ex[i]]


\* cache.clear()
clear == cache' = [k \in Keys |-> NoEntry]

\* apply with another upstream
applyUpstream ==
    /\ Use("applies", MaxApplies) /\ on' = "yes" /\ Closed(up)
    /\ up' = made + 1 /\ made' = made + 1 /\ streak' = 0 /\ down' = "no" /\ clear
    /\ UNCHANGED <<q, inflight, stats>>

\* apply with the filter off: _shutdown; its report is report() below
shutdown ==
    /\ on = "yes" /\ on' = "no" /\ Closed(up)
    /\ up' = 0 /\ streak' = 0 /\ down' = "no" /\ clear
    /\ UNCHANGED <<made, q, inflight, stats, used>>

-----------------------------------------------------------------------------
(* Resolver.                                                               *)

\* record(): the query is counted when its answer goes out
Counted(n) == cur' = cur + n /\ UNCHANGED <<sending, reported>>

\* handle, up to the await of macFor
handle(i) ==
    /\ q[i].st = "new" /\ \A j \in Queries : j < i => q[j].st # "new"
    /\ on = "yes" /\ q' = [q EXCEPT ![i].st = "mac"]
    /\ UNCHANGED <<upstreams, ex, inflight, cache, stats, used>>

Done(i) == q' = [q EXCEPT ![i].st = "done"] /\ Counted(1)

\* _router, local: to the router, unless it asks itself; an unknown router (or
\* one that may not be asked) is an error at once
ToRouter(i) == IF i \in FromRouter THEN {"done"} ELSE {"router", "done"}

\* the first step of a new exchange
Begin(i, k) ==
    CASE up = 0 -> {"done"}
      [] up # 0 /\ (k = "L" \/ down = "yes") -> ToRouter(i)
      [] OTHER -> {IF sess[up] = "open" THEN "doh" ELSE "connect"}

\* decide says block, or _forward finds the answer in the cache
Answered(i) ==
    /\ q[i].st = "mac" /\ Done(i)
    /\ UNCHANGED <<upstreams, ex, inflight, cache, used>>

\* _forward: the query joins the exchange of its key
Joins(i, k) ==
    /\ q' = [q EXCEPT ![i] = [st |-> "wait", key |-> k, ex |-> inflight[k]]]
    /\ UNCHANGED <<upstreams, ex, inflight, cache, stats, used>>

\* ... or begins one; it may fail at once
Starts(i, k) ==
    \E b \in Begin(i, k) :
    /\ ex' = [ex EXCEPT ![i] = [st |-> b, up |-> up, late |-> "no"]]
    /\ sess' = IF b = "connect" THEN [sess EXCEPT ![up] = "connecting"] ELSE sess
    /\ IF b = "done"
       THEN Done(i) /\ UNCHANGED inflight
       ELSE /\ q' = [q EXCEPT ![i] = [st |-> "wait", key |-> k, ex |-> i]]
            /\ inflight' = [inflight EXCEPT ![k] = i] /\ UNCHANGED stats
    /\ UNCHANGED <<on, up, made, streak, down, cache, used>>

forward(i, k) ==
    /\ q[i].st = "mac" /\ cache[k].up = 0
    /\ IF inflight[k] # 0 THEN Joins(i, k) ELSE Starts(i, k)

\* a cache entry gets too old
Expires(k) ==
    /\ cache[k].up # 0 /\ cache' = [cache EXCEPT ![k] = NoEntry]
    /\ UNCHANGED <<upstreams, q, ex, inflight, stats, used>>

-----------------------------------------------------------------------------
(* The exchanges.                                                          *)

KeyOf(e) == q[e].key

\* an exchange ends; everybody who waits for it has an answer
Ends(e) ==
    LET joined == {i \in Queries : q[i].st = "wait" /\ q[i].ex = e} IN
    /\ ex' = [ex EXCEPT ![e].st = "done"] /\ inflight' = [inflight EXCEPT ![KeyOf(e)] = 0]
    /\ q' = [i \in Queries |-> IF i \in joined THEN [q[i] EXCEPT !.st = "done"] ELSE q[i]]
    /\ Counted(Cardinality(joined))

\* ... with an answer, which may be one that is not cached (ttlFor)
Succeeds(e) ==
    /\ Ends(e)
    /\ \/ cache' = [cache EXCEPT ![KeyOf(e)] = [up |-> ex[e].up, late |-> ex[e].late]]
       \/ UNCHANGED cache

\* DoH failed: the streak, then the router or the error; an Upstream that is
\* not the current one has its own streak
DohFailed(e) ==
    /\ IF ex[e].up = up
       THEN IF streak + 1 >= DownAfter THEN streak' = 0 /\ down' = "yes"
            ELSE streak' = streak + 1 /\ UNCHANGED down
       ELSE UNCHANGED <<streak, down>>
    /\ \E b \in ToRouter(e) :
          IF b = "router"
          THEN ex' = [ex EXCEPT ![e].st = "router"] /\ UNCHANGED <<q, inflight, stats>>
          ELSE Ends(e)
    /\ UNCHANGED <<on, up, made, cache>>

\* _connectTo succeeds: the requests that waited go out; nothing looks whether
\* the Upstream was closed meanwhile
connected(u) ==
    /\ sess[u] = "connecting" /\ sess' = [sess EXCEPT ![u] = "open"]
    /\ ex' = [i \in Queries |-> IF ex[i].st = "connect" /\ ex[i].up = u
                                THEN [ex[i] EXCEPT !.st = "doh"] ELSE ex[i]]
    /\ UNCHANGED <<on, up, made, streak, down, q, inflight, cache, stats, used>>

\* no address answers
connectFails(e) ==
    /\ ex[e].st = "connect" /\ Use("faults", MaxFaults) /\ DohFailed(e)
    /\ sess' = [sess EXCEPT ![ex[e].up] = "none"]

\* the answer, or a request on a session that is gone
dohAnswers(e) ==
    /\ ex[e].st = "doh" /\ sess[ex[e].up] = "open" /\ Succeeds(e)
    /\ (IF ex[e].up = up THEN streak' = 0 ELSE UNCHANGED streak)
    /\ UNCHANGED <<on, up, made, sess, down, used>>

dohFails(e) ==
    /\ ex[e].st = "doh"
    /\ IF sess[ex[e].up] = "open" THEN Use("faults", MaxFaults) ELSE UNCHANGED used
    /\ DohFailed(e) /\ UNCHANGED sess

\* the router answers, or not within ROUTER_TIMEOUT_MS
routerAnswers(e) ==
    /\ ex[e].st = "router" /\ Succeeds(e) /\ UNCHANGED <<upstreams, used>>

routerFails(e) ==
    /\ ex[e].st = "router" /\ Use("faults", MaxFaults) /\ Ends(e) /\ UNCHANGED <<upstreams, cache>>

\* DOWN_MS are over
DownOver ==
    /\ down = "yes" /\ down' = "no" /\ UNCHANGED <<on, up, made, sess, streak, answering, stats, used>>

\* the session idles out or the provider ends it
sessionEnds(u) ==
    /\ sess[u] = "open" /\ Use("faults", MaxFaults) /\ sess' = [sess EXCEPT ![u] = "none"]
    /\ UNCHANGED <<on, up, made, streak, down, answering, stats>>

-----------------------------------------------------------------------------
(* The report.                                                             *)

\* report(): take() closes the period; at the timer and once at the end
report ==
    /\ Use("reports", MaxReports) /\ cur > 0
    /\ sending' = sending \cup {[id |-> used.reports, n |-> cur]} /\ cur' = 0
    /\ UNCHANGED <<upstreams, answering, reported>>

posted(s) ==
    /\ s \in sending /\ sending' = sending \ {s} /\ reported' = reported + s.n
    /\ UNCHANGED <<upstreams, answering, cur, used>>

\* giveBack: the period joins the current one
giveBack(s) ==
    /\ s \in sending /\ sending' = sending \ {s} /\ cur' = cur + s.n
    /\ UNCHANGED <<upstreams, answering, reported, used>>

-----------------------------------------------------------------------------
Exchange(e) == dohAnswers(e) \/ dohFails(e) \/ routerAnswers(e)

Next ==
    \/ applyUpstream \/ shutdown \/ DownOver \/ report
    \/ \E i \in Queries :
          \/ handle(i) \/ Answered(i) \/ \E k \in Keys : forward(i, k)
          \/ Exchange(i) \/ connectFails(i) \/ routerFails(i)
    \/ \E k \in Keys : Expires(k)
    \/ \E u \in Objects : connected(u) \/ sessionEnds(u)
    \/ \E s \in sending : posted(s) \/ giveBack(s)

Spec == Init /\ [][Next]_vars

(* Lookups return, timeouts end every exchange. *)
Replies(i) == Answered(i) \/ \E k \in Keys : forward(i, k)
Fairness ==
    /\ \A i \in Queries : /\ WF_vars(Replies(i))
                          /\ WF_vars(Exchange(i))
    /\ \A u \in Objects : WF_vars(connected(u))

-----------------------------------------------------------------------------
(* Type invariant of the resolver. *)
TypeOK ==
    /\ on \in {"yes", "no"} /\ down \in {"yes", "no"} /\ streak \in 0..DownAfter - 1
    /\ up \in Objects \cup {0} /\ made \in 0..MaxApplies
    /\ sess \in [Objects -> {"none", "connecting", "open"}]
    /\ \A i \in Queries : /\ q[i].st \in {"new", "mac", "wait", "done"}
                          /\ ex[i].st \in {"none", "connect", "doh", "router", "done"}
    /\ {cur, reported} \subseteq 0..Cardinality(Queries)

(* Bundling: the exchanges under way are those in this.inflight, one per   *)
(* key, and whoever waits waits for one of them (resolver.js _forward).    *)
OneExchange ==
    /\ {e \in Queries : ex[e].st \in {"connect", "doh", "router"}} = {inflight[k] : k \in Keys} \ {0}
    /\ \A i \in Queries : q[i].st = "wait" => q[i].ex = inflight[q[i].key] /\ q[i].ex # 0

(* An answer in the cache is of the current upstream, or it was under way  *)
(* when its upstream was replaced (dns.js apply): a change of the provider *)
(* leaves no older answers.                                                *)
CacheIsCurrent == \A k \in Keys : cache[k].up # 0 => cache[k].up = up \/ cache[k].late = "yes"

(* No query is counted twice or lost between the periods, with a report    *)
(* that fails while another one is under way (stats.js take, giveBack).    *)
QueriesCounted ==
    cur + MapThenSumSet(LAMBDA s : s.n, sending) + reported
        = Cardinality({i \in Queries : q[i].st = "done"})

(* Every query gets its answer, SERVFAIL included. *)
AllAnswered == \A i \in Queries : q[i].st \in {"new", "done"}

(* Loop protection (upstream.js _router): no query of the router waits for *)
(* an answer of the router.  Not so: such a query is bundled with the same *)
(* query of another client, which was given to the router.                 *)
RouterNotAsked ==
    \A i \in FromRouter : q[i].st = "wait" => ex[q[i].ex].st # "router"
=============================================================================
