------------------------------ MODULE EdgeProxy ------------------------------
(***************************************************************************)
(* What Condenser answers to clients: the ingress gateway (routes and TLS   *)
(* certificates per host) and the DNS proxy (local zone, cache, upstreams). *)
(*                                                                          *)
(* Store calls are atomic; between two of them other requests run.  Time    *)
(* is a counter that may advance between any two steps.                     *)
(***************************************************************************)
EXTENDS Naturals, FiniteSets

CONSTANTS
    Ingresses,    \* ingress ids
    NsOf,         \* ingress -> its namespace
    IngressSpecs, \* what an ingress may look like: TLS hosts, host, backend name, path length
    Hosts,        \* host names of rules and TLS sections
    Backends,     \* services, as [ns, name] records
    Threads,      \* requests at the API and at the gateway
    Names,        \* names looked up in the DNS
    LocalNames,   \* the ones under raind., svc. and cluster.local.
    CacheKeys,    \* maxKeys
    Ttl,          \* smallest TTL of an answer
    Clients,      \* DNS requests
    MaxTime, MaxEdgeOps   \* bounds

ASSUME EdgeAssumption ==
    /\ LocalNames \subseteq Names /\ IsFiniteSet(Names) /\ IsFiniteSet(Backends)
    /\ CacheKeys \in Nat \ {0} /\ Ttl \in Nat \ {0} /\ MaxTime \in Nat \ {0}
    /\ \A m \in IngressSpecs : m.tls \subseteq Hosts

VARIABLES
    ing,      \* ingress -> its entry
    certs,    \* hosts with a certificate directory
    thr,      \* thread -> the request it serves
    back,     \* backend -> its cluster IP, 0 when it is not stored
    certRace, \* history: hosts applied between the list and the end of a delete
    cache,    \* name -> expiry of its cached answer, 0: not cached
    now,
    dq,       \* DNS request -> where it is
    edgeLeft  \* what is left of the bound

ingressVars == <<ing, certs, thr, back, certRace>>
dnsVars == <<cache, now, dq>>
edgeVars == <<ing, certs, thr, back, certRace, cache, now, dq, edgeLeft>>

NoIng == [tls |-> {}, host |-> "", name |-> "none", len |-> 0]
NoThr == [pc |-> "idle", i |-> 0, new |-> NoIng, host |-> "", list |-> [i \in Ingresses |-> NoIng],
          ip |-> 0, steady |-> FALSE]
Asleep == [pc |-> "idle", n |-> "", at |-> 0]

EdgeTypeOK ==
    /\ ing \in [Ingresses -> IngressSpecs \cup {NoIng}]
    /\ certs \subseteq Hosts
    /\ back \in [Backends -> Nat]
    /\ cache \in [Names -> 0 .. MaxTime + Ttl]
    /\ \A t \in Threads : thr[t].pc \in {"idle", "store", "remove", "drop", "issue", "match", "routed", "none"}
    /\ \A c \in Clients : dq[c].pc \in {"idle", "expired", "ask", "put", "local", "hit", "answered", "failed"}

EdgeInit ==
    /\ ing = [i \in Ingresses |-> NoIng]
    /\ certs = {} /\ certRace = {}
    /\ thr = [t \in Threads |-> NoThr]
    /\ back \in {f \in [Backends -> 1 .. Cardinality(Backends)] : \A b, d \in Backends : f[b] = f[d] => b = d}
    /\ cache = [n \in Names |-> 0]
    /\ now = 1
    /\ dq = [c \in Clients |-> Asleep]
    /\ edgeLeft = MaxEdgeOps

Begin(t, new) ==
    /\ thr[t].pc \in {"idle", "routed", "none"}
    /\ edgeLeft > 0 /\ edgeLeft' = edgeLeft - 1
    /\ thr' = [thr EXCEPT ![t] = new]
Unsteady(f) == [t \in Threads |-> [f[t] EXCEPT !.steady = FALSE]]
\* Deletes that have read the list and not yet dropped certificates.
Deleting == {t \in Threads : thr[t].pc \in {"remove", "drop"}}

-----------------------------------------------------------------------------
(***************************************************************************)
(* Ingresses.  applyIngress issues the certificates, then stores;           *)
(* deleteIngress lists, removes the entry, and drops the certificates of    *)
(* hosts that no other ingress of that list uses.                           *)
(***************************************************************************)
ApplyIngress(t, i, m) ==
    /\ ing[i] # m
    /\ Begin(t, [NoThr EXCEPT !.pc = "store", !.i = i, !.new = m])
    /\ certs' = certs \cup m.tls
    /\ certRace' = IF Deleting = {} THEN certRace ELSE certRace \cup m.tls
    /\ UNCHANGED <<ing, back, dnsVars>>

StoreIngress(t) ==
    /\ thr[t].pc = "store"
    /\ ing' = [ing EXCEPT ![thr[t].i] = thr[t].new]
    /\ certRace' = IF Deleting = {} THEN certRace ELSE certRace \cup thr[t].new.tls
    /\ thr' = Unsteady([thr EXCEPT ![t] = NoThr])
    /\ UNCHANGED <<certs, back, dnsVars, edgeLeft>>

DeleteIngress(t, i) ==
    /\ ing[i] # NoIng
    /\ Begin(t, [NoThr EXCEPT !.pc = "remove", !.i = i, !.list = ing])
    /\ certRace' = certRace \cup UNION {thr[q].new.tls : q \in {x \in Threads : thr[x].pc = "store"}}
    /\ UNCHANGED <<ing, certs, back, dnsVars>>

\* An entry that another delete removed ends this one with an error.
RemoveIngress(t) ==
    /\ thr[t].pc = "remove"
    /\ IF ing[thr[t].i] = NoIng THEN UNCHANGED ing /\ thr' = [thr EXCEPT ![t] = NoThr]
       ELSE /\ ing' = [ing EXCEPT ![thr[t].i] = NoIng]
            /\ thr' = Unsteady([thr EXCEPT ![t].pc = "drop"])
    /\ UNCHANGED <<certs, back, certRace, dnsVars, edgeLeft>>

\* Mutant: the certificates go whether another ingress uses the host or not.
RemoveAllHosts(t) ==
    /\ thr[t].pc = "drop"
    /\ certs' = certs \ thr[t].list[thr[t].i].tls
    /\ thr' = [thr EXCEPT ![t] = NoThr]
    /\ UNCHANGED <<ing, back, certRace, dnsVars, edgeLeft>>

RemoveHostsIfUnused(t) ==
    /\ thr[t].pc = "drop"
    /\ LET i == thr[t].i  list == thr[t].list
           active == UNION {list[k].tls : k \in Ingresses \ {i}}
       IN certs' = certs \ (list[i].tls \ active)
    /\ thr' = [thr EXCEPT ![t] = NoThr]
    /\ UNCHANGED <<ing, back, certRace, dnsVars, edgeLeft>>

\* getCertificate: only a host some ingress lists; the certificate is issued
\* anew on every handshake, after the check.
Handshake(t, h) ==
    /\ \E i \in Ingresses : h \in ing[i].tls
    /\ Begin(t, [NoThr EXCEPT !.pc = "issue", !.host = h])
    /\ UNCHANGED <<ing, certs, back, certRace, dnsVars>>

GetCertificate(t) ==
    /\ thr[t].pc = "issue"
    /\ certs' = certs \cup {thr[t].host}
    /\ thr' = [thr EXCEPT ![t] = NoThr]
    /\ UNCHANGED <<ing, back, certRace, dnsVars, edgeLeft>>

\* ServeHTTP: the ingresses are read first, the services afterwards.
ServeHTTP(t, h) ==
    /\ Begin(t, [NoThr EXCEPT !.pc = "match", !.host = h, !.list = ing, !.steady = TRUE])
    /\ UNCHANGED <<ing, certs, back, certRace, dnsVars>>

\* The rules that match a host ("" matches every host).
Matching(list, h) == {i \in Ingresses : list[i] # NoIng /\ list[i].host \in {"", h}}
BackendOf(list, i) == [ns |-> NsOf[i], name |-> list[i].name]
FindService(list, i) ==
    IF BackendOf(list, i) \in Backends /\ back[BackendOf(list, i)] # 0 THEN {back[BackendOf(list, i)]} ELSE {}

\* resolve: one matching rule without a service fails the request; among the
\* longest paths any may come first.
Resolve(t) ==
    /\ thr[t].pc = "match"
    /\ LET list == thr[t].list  m == Matching(list, thr[t].host) IN
       IF m = {} \/ \E i \in m : FindService(list, i) = {}
       THEN thr' = [thr EXCEPT ![t].pc = "none"]
       ELSE \E i \in {k \in m : \A j \in m : list[j].len <= list[k].len} : \E ip \in FindService(list, i) :
                thr' = [thr EXCEPT ![t].pc = "routed", ![t].i = i, ![t].ip = ip]
    /\ UNCHANGED <<ing, certs, back, certRace, dnsVars, edgeLeft>>

\* A service is deleted, or applied again with another address.
BackendChanges(b) ==
    /\ edgeLeft > 0 /\ edgeLeft' = edgeLeft - 1
    /\ back' = [back EXCEPT ![b] = IF @ = 0 THEN Cardinality(Backends) + 1 ELSE 0]
    /\ \A d \in Backends : back'[d] = back'[b] => d = b \/ back'[b] = 0
    /\ thr' = Unsteady(thr)
    /\ UNCHANGED <<ing, certs, certRace, dnsVars>>

-----------------------------------------------------------------------------
(***************************************************************************)
(* The DNS proxy: ServeDns with the clock read at its start.                *)
(***************************************************************************)
Cached(n) == cache[n] # 0
\* isRaindLocalName and isClusterLocalName.
IsLocalName(n) == n \in LocalNames
\* minTTL: when an answer to a request that came at t expires.
Expiry(t) == t + Ttl
At(c, pc) == dq[c].pc = pc

\* resolveRaindLocal answers every name of the local zones, found or not;
\* then DnsCache.Get, whose first read is under the read lock only.
ServeDns(c, n) ==
    /\ dq[c].pc \in {"idle", "local", "hit", "answered", "failed"}
    /\ edgeLeft > 0 /\ edgeLeft' = edgeLeft - 1
    /\ dq' = [dq EXCEPT ![c] = [Asleep EXCEPT !.n = n, !.at = now, !.pc =
                  CASE IsLocalName(n) -> "local"
                    [] ~IsLocalName(n) /\ ~Cached(n) -> "ask"
                    [] OTHER -> IF now > cache[n] THEN "expired" ELSE "hit"]]
    /\ UNCHANGED <<ingressVars, cache, now>>

\* Mutant: the expired entry is deleted without looking again.
DeleteExpiredBlindly(c) ==
    /\ At(c, "expired")
    /\ cache' = [cache EXCEPT ![dq[c].n] = 0]
    /\ dq' = [dq EXCEPT ![c].pc = "ask"]
    /\ UNCHANGED <<ingressVars, now, edgeLeft>>

\* Get's second part: under the write lock the entry is looked at again.
DeleteExpired(c) ==
    /\ At(c, "expired")
    /\ LET n == dq[c].n
           old == Cached(n) /\ dq[c].at > cache[n]
       IN cache' = IF old THEN [cache EXCEPT ![n] = 0] ELSE cache
    /\ dq' = [dq EXCEPT ![c].pc = "ask"]
    /\ UNCHANGED <<ingressVars, now, edgeLeft>>

\* exchange: an answer (also after the fall-back to TCP), or an error; the
\* second attempt shares the first one's deadline, so after a time-out it
\* fails at once.  An answer without records has no TTL and is not cached.
Exchange(c) ==
    /\ At(c, "ask")
    /\ \E pc \in {"put", "answered", "failed"} : dq' = [dq EXCEPT ![c].pc = pc]
    /\ UNCHANGED <<ingressVars, cache, now, edgeLeft>>

\* Put: at the limit some entry goes first, also when the key is there; the
\* expiry counts from the start of the request.
Put(c) ==
    /\ At(c, "put")
    /\ LET held == {n \in Names : Cached(n)}
           put(f) == cache' = [f EXCEPT ![dq[c].n] = Expiry(dq[c].at)]
       IN IF Cardinality(held) >= CacheKeys THEN \E e \in held : put([cache EXCEPT ![e] = 0]) ELSE put(cache)
    /\ dq' = [dq EXCEPT ![c].pc = "answered"]
    /\ UNCHANGED <<ingressVars, now, edgeLeft>>

Tick ==
    /\ now < MaxTime
    /\ now' = now + 1
    /\ UNCHANGED <<ingressVars, cache, dq, edgeLeft>>

IngressNext ==
    \/ \E t \in Threads, i \in Ingresses, m \in IngressSpecs : ApplyIngress(t, i, m)
    \/ \E t \in Threads, i \in Ingresses : DeleteIngress(t, i)
    \/ \E t \in Threads, h \in Hosts : Handshake(t, h) \/ ServeHTTP(t, h)
    \/ \E t \in Threads : StoreIngress(t) \/ RemoveIngress(t) \/ RemoveHostsIfUnused(t)
                          \/ GetCertificate(t) \/ Resolve(t)
    \/ \E b \in Backends : BackendChanges(b)

DnsNext ==
    \/ \E c \in Clients, n \in Names : ServeDns(c, n)
    \/ \E c \in Clients : DeleteExpired(c) \/ Exchange(c) \/ Put(c)
    \/ Tick

EdgeSpec == EdgeInit /\ [][IngressNext \/ DnsNext]_edgeVars

-----------------------------------------------------------------------------
\* Every TLS host of a stored ingress has its certificate: deleting another
\* ingress that names the host does not take it away, unless the host was
\* applied while that delete was under way.
TLSHostHasCert ==
    \A i \in Ingresses : ing[i].tls \subseteq certs \cup certRace

\* A gateway request during which nothing changed goes to the cluster IP of a
\* backend its host's ingresses name, in the ingress's own namespace, and to
\* none with a shorter path than another.
RoutedToBackend ==
    \A t \in Threads : thr[t].pc = "routed" /\ thr[t].steady =>
        LET i == thr[t].i IN
        /\ [ns |-> NsOf[i], name |-> ing[i].name] \in {b \in Backends : back[b] = thr[t].ip}
        /\ \A j \in Ingresses : ing[j] # NoIng /\ ing[j].host \in {"", thr[t].host} => ing[j].len <= ing[i].len

\* A cache answer is younger than its TTL when the request that gets it looks.
HitIsFresh == [][\A c \in Clients : dq'[c].pc = "hit" /\ dq[c] # dq'[c] => cache[dq'[c].n] >= dq'[c].at]_edgeVars

\* An answer that is still fresh leaves the cache only to make room for another:
\* clearing an expired one never drops what was put in its place meanwhile.
FreshStays ==
    [][\A n \in Names : cache[n] >= now /\ cache'[n] = 0 => \E c \in Clients : At(c, "put") /\ dq[c] # dq'[c]]_edgeVars

\* The cache never holds more answers than it may, with several puts at once.
CacheBounded == Cardinality({n \in Names : Cached(n)}) <= CacheKeys

\* The gateway and the DNS proxy: a TLS host has its certificate, a request
\* goes to a backend of its route, the cache keeps its bound.
EdgeSound == EdgeTypeOK /\ TLSHostHasCert /\ RoutedToBackend /\ CacheBounded

\* The DNS cache never answers with an expired entry and drops no fresh one.
CacheHonest == HitIsFresh /\ FreshStays
=============================================================================
