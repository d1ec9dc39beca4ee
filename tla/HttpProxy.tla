----------------------------- MODULE HttpProxy -----------------------------
(***************************************************************************)
(* The HTTP reverse proxy to LAN backends (proxy/http.js) and the pinned   *)
(* connections of HTTPS backends (proxy/tlsPin.js), also as the            *)
(* inspection of a certificate uses them.                                  *)
(*                                                                         *)
(* A request is taken with the route of that moment; connecting and the    *)
(* handshake take time in which routes, certificates and backends change.  *)
(* What http-proxy does with a request that has its socket is external.    *)
(***************************************************************************)
EXTENDS Naturals, FiniteSets

CONSTANTS
    Requests, Domains, Hosts,
    Certs,           \* SHA-256 fingerprints of leaf certificates
    MaxCachedAgents, \* MAX_CACHED_AGENTS
    MaxChanges       \* bound: changes of routes, certificates and backends

VARIABLES
    routes,  \* configured: per domain NoRoute or [host, tls, fp: a fingerprint, none or junk; wol]
    backend, \* per host [up: yes, refuses or silent; cert]
    agents,  \* agentCache: a set of [key, pin]
    req,     \* per request [st: new, connects, sent, ended; kind: web, ws, inspect; domain,
             \*  route: of the configuration it was taken with; pin: of its agent;
             \*  cert: of the backend it was sent to; answer]
    woken,   \* hosts that got a magic packet
    used

vars == <<routes, backend, agents, req, woken, used>>

NoRoute == [host |-> "none", tls |-> "no", fp |-> "none", wol |-> "no"]
NewReq == [st |-> "new", kind |-> "web", domain |-> "none", route |-> NoRoute, pin |-> "none",
           cert |-> "none", answer |-> "none"]
Routes == {NoRoute} \cup
          [host : Hosts, tls : {"yes", "no"}, fp : Certs \cup {"none", "junk"}, wol : {"yes"}]
Use(f, max) == used[f] < max /\ used' = [used EXCEPT ![f] = @ + 1]

Init ==
    /\ routes \in [Domains -> Routes]
    /\ \E c \in Certs : backend = [h \in Hosts |-> [up |-> "yes", cert |-> c]]
    /\ agents = {} /\ req = [r \in Requests |-> NewReq] /\ woken = {} /\ used = [changes |-> 0]

-----------------------------------------------------------------------------
(* tlsPin.js                                                               *)

\* the cache key of an agent
\* mutant: without the fingerprint
KeyByHost(h, pin) == <<h, "any">>
AgentKey(h, pin) == <<h, pin>>

\* getPinnedAgent: the cached agent, or a new one in a cache emptied when it is full
Cached(h, pin) == {a \in agents : a.key = AgentKey(h, pin)}
getPinnedAgent(h, pin) ==
    IF Cached(h, pin) # {} THEN [all |-> agents, pin |-> (CHOOSE a \in Cached(h, pin) : TRUE).pin]
    ELSE [all |-> {[key |-> AgentKey(h, pin), pin |-> pin]} \cup
                  (IF Cardinality(agents) >= MaxCachedAgents THEN {} ELSE agents),
          pin |-> pin]

\* _verifyPeer: the pin null of an inspection matches nothing
_verifyPeer(pin, cert) == pin # "null" /\ pin = cert

-----------------------------------------------------------------------------
(* router.js and http.js                                                   *)

\* the entry Router.setRoutes makes of a route: a fingerprint that cannot be used
\* (normalizeFingerprint) makes a TLS route broken, on a plain one it has no effect
setRoutes(t) == [pin |-> IF t.fp = "junk" THEN "none" ELSE t.fp,
                 invalid |-> t.tls = "yes" /\ t.fp = "junk"]

\* how a failed request of a kind ends: an upgrade is cut
Failed(kind, web) == IF kind = "web" THEN web ELSE IF kind = "ws" THEN "closed" ELSE "error"
End(r, answer) == req' = [req EXCEPT ![r].st = "ended", ![r].answer = answer]

\* a request or an upgrade comes: targetFor, the pin that cannot be used, proxyOptionsFor
Take(r, kind, d) ==
    LET t == routes[d]
        e == setRoutes(t)
        q == [NewReq EXCEPT !.st = "connects", !.kind = kind, !.domain = d, !.route = t]
    IN  /\ req[r].st = "new"
        /\ \/ /\ t = NoRoute \/ e.invalid
              /\ req' = [req EXCEPT ![r] = [q EXCEPT !.st = "ended", !.answer = Failed(kind, "502")]]
              /\ UNCHANGED agents
           \/ /\ t # NoRoute /\ ~e.invalid /\ (t.tls = "no" \/ e.pin = "none")
              /\ req' = [req EXCEPT ![r] = q] /\ UNCHANGED agents
           \/ /\ t.tls = "yes" /\ e.pin # "none"
              /\ LET g == getPinnedAgent(t.host, e.pin) IN
                 req' = [req EXCEPT ![r] = [q EXCEPT !.pin = g.pin]] /\ agents' = g.all
        /\ UNCHANGED <<routes, backend, woken, used>>

\* inspectLeafCertificate: an agent of its own without a pin
inspectLeafCertificate(r, h) ==
    /\ req[r].st = "new"
    /\ req' = [req EXCEPT ![r] = 
            [NewReq EXCEPT !.st = "connects", !.kind = "inspect", !.pin = "null",
                           !.route = [NoRoute EXCEPT !.host = h, !.tls = "yes"]]]
    /\ UNCHANGED <<routes, backend, agents, woken, used>>

\* createConnection: the handshake ends; the request gets the socket only when the
\* certificate is the agent's, else it fails and the socket is destroyed
Connected(r) ==
    LET q == req[r]
        b == backend[q.route.host]
    IN  /\ q.st = "connects" /\ b.up = "yes"
        /\ \/ /\ q.pin = "none" \/ _verifyPeer(q.pin, b.cert)
              /\ req' = [req EXCEPT ![r].st = "sent", ![r].cert = b.cert]
           \/ /\ q.pin # "none" /\ ~_verifyPeer(q.pin, b.cert)
              /\ End(r, IF q.kind = "inspect" THEN b.cert ELSE Failed(q.kind, "502"))
        /\ UNCHANGED <<routes, backend, agents, woken, used>>

\* the backend refuses: the machine the domain leads to now is woken; or there is no
\* answer at all (the handshake of an inspection has a time limit)
ConnectFails(r) ==
    LET q == req[r]
        t == routes[q.domain]
    IN  /\ q.st = "connects"
        /\ \/ /\ backend[q.route.host].up = "refuses"
              /\ woken' = IF q.kind # "inspect" /\ t # NoRoute /\ t.wol = "yes"
                          THEN woken \cup {t.host} ELSE woken
              /\ End(r, Failed(q.kind, "502"))
           \/ /\ backend[q.route.host].up = "silent" /\ UNCHANGED woken
              /\ End(r, Failed(q.kind, "504"))
        /\ UNCHANGED <<routes, backend, agents, used>>

\* the backend answers, or breaks off (http-proxy)
Answers(r) ==
    req[r].st = "sent" /\ End(r, "backend") /\ UNCHANGED <<routes, backend, agents, woken, used>>

-----------------------------------------------------------------------------
\* a new configuration, a new certificate, another state of a backend
Change ==
    /\ Use("changes", MaxChanges)
    /\ \/ \E d \in Domains, t \in Routes : routes' = [routes EXCEPT ![d] = t] /\ UNCHANGED backend
       \/ \E h \in Hosts, c \in Certs, u \in {"yes", "refuses", "silent"} :
            backend' = [backend EXCEPT ![h] = [up |-> u, cert |-> c]] /\ UNCHANGED routes
    /\ UNCHANGED <<agents, req, woken>>

Step(r) == Connected(r) \/ ConnectFails(r) \/ Answers(r)
Next ==
    \/ Change
    \/ \E r \in Requests :
        \/ Step(r) \/ \E k \in {"web", "ws"}, d \in Domains : Take(r, k, d)
        \/ \E h \in Hosts : inspectLeafCertificate(r, h)

\* connections are made or fail, and backends answer
Fairness == \A r \in Requests : WF_vars(Step(r))
Spec == Init /\ [][Next]_vars /\ Fairness

-----------------------------------------------------------------------------
TypeOK ==
    /\ routes \in [Domains -> Routes] /\ Cardinality(agents) <= MaxCachedAgents
    /\ \A r \in Requests : req[r].st \in {"new", "connects", "sent", "ended"}

\* A request of a pinned route reaches only a backend with the certificate the route had
\* when the request was taken, and an inspection reaches none: not through an agent that
\* the cache kept from an earlier fingerprint, nor after a certificate or the cache
\* changed during the handshake, and a fingerprint that cannot be used lets nothing
\* through (router.js setRoutes, tlsPin.js createConnection, getPinnedAgent).
PinHolds ==
    \A r \in Requests : req[r].cert # "none" =>
        /\ req[r].kind # "inspect"
        /\ req[r].route.tls = "yes" /\ req[r].route.fp # "none" => req[r].route.fp = req[r].cert

\* Every request that was taken is answered or closed (http.js, the error handler).
AllAnswered == \A r \in Requests : req[r].st \in {"new", "ended"}
=============================================================================
