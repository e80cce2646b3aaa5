------------------------------ MODULE EdgeProofs ------------------------------
(***************************************************************************)
(* Proofs about services and what Condenser answers to clients: the store   *)
(* of services and the iptables rules made from it, the ingress gateway and *)
(* the DNS proxy, for any services, pods, manifests, ingresses, names and   *)
(* requests.                                                                *)
(***************************************************************************)
EXTENDS Endpoints, EdgeProxy, FiniteSetTheorems, TLAPS

Entries == IngressSpecs \cup {NoIng}
ThreadPcs == {"idle", "store", "remove", "drop", "issue", "match", "routed", "none"}
LookupPcs == {"idle", "expired", "ask", "put", "local", "hit", "answered", "failed"}
Requests == [pc : ThreadPcs, i : Ingresses \cup {0}, new : Entries, host : Hosts \cup {""},
             list : [Ingresses -> Entries], ip : Nat, steady : BOOLEAN]
Lookups == [pc : LookupPcs, n : Names \cup {""}, at : Nat]

\* A request knows its ingress or its host once it needs it.
IngressTyped ==
    /\ ing \in [Ingresses -> Entries] /\ back \in [Backends -> Nat]
    /\ certs \subseteq Hosts /\ certRace \subseteq Hosts
    /\ thr \in [Threads -> Requests]
    /\ \A t \in Threads : thr[t].pc \in {"store", "remove", "drop"} => thr[t].i \in Ingresses
    /\ \A t \in Threads : thr[t].pc = "store" => thr[t].new \in IngressSpecs
    /\ \A t \in Threads : thr[t].pc = "issue" => thr[t].host \in Hosts

\* What a host that is about to be stored, and a delete that has read its
\* list, can rely on: a certificate goes only when it is in certRace, or the
\* list the delete decides on names no other ingress with the host.
CertsSafe ==
    /\ TLSHostHasCert
    /\ \A t \in Threads : thr[t].pc = "store" => thr[t].new.tls \subseteq certs \cup certRace
    /\ \A t, d \in Threads : thr[t].pc = "store" /\ d \in Deleting => thr[t].new.tls \subseteq certRace
    /\ \A d \in Deleting : \A i \in Ingresses \ {thr[d].i} : ing[i].tls \subseteq thr[d].list[i].tls \cup certRace
    /\ \A d \in Threads : thr[d].pc = "drop" => ing[thr[d].i].tls \subseteq certRace

\* A steady request still sees the ingresses it matches.
ListIsCurrent == \A t \in Threads : thr[t].pc = "match" /\ thr[t].steady => thr[t].list = ing

IngressInv == IngressTyped /\ CertsSafe /\ ListIsCurrent /\ RoutedToBackend

\* A lookup knows its name, and none comes from the future.
DnsInv ==
    /\ cache \in [Names -> 0 .. MaxTime + Ttl] /\ now \in 1 .. MaxTime /\ dq \in [Clients -> Lookups]
    /\ \A c \in Clients : dq[c].at <= now /\ (dq[c].pc # "idle" => dq[c].n \in Names)
    /\ CacheBounded

-----------------------------------------------------------------------------
(***************************************************************************)
(* The ingress gateway                                                      *)
(***************************************************************************)
LEMMA EntriesTyped ==
    /\ NoIng \in Entries /\ NoIng.tls = {} /\ IngressSpecs \subseteq Entries /\ \A m \in Entries : m.tls \subseteq Hosts
    /\ NoThr \in Requests /\ NoThr.pc = "idle" /\ NoThr.steady = FALSE
  <1>1. NoIng \in Entries /\ NoIng.tls = {} /\ IngressSpecs \subseteq Entries
    BY DEF NoIng, Entries
  <1>2. NoThr \in Requests /\ NoThr.pc = "idle" /\ NoThr.steady = FALSE
    BY <1>1 DEF NoThr, Requests, ThreadPcs
  <1>3. \A m \in Entries : m.tls \subseteq Hosts
    BY <1>1, EdgeAssumption DEF Entries
  <1> QED
    BY <1>1, <1>2, <1>3

\* A request starts: what the other requests rely on stays, if the new one
\* brings what it needs.
LEMMA RequestBegins ==
    ASSUME IngressInv, NEW t \in Threads, NEW r \in Requests, thr' = [thr EXCEPT ![t] = r],
           UNCHANGED <<ing, back>>, certs \subseteq certs', certs' \subseteq Hosts,
           certRace \subseteq certRace', certRace' \subseteq Hosts,
           r.pc \in {"store", "remove", "issue", "match"},
           r.pc \in {"store", "remove"} => r.i \in Ingresses,
           r.pc = "store" => /\ r.new \in IngressSpecs /\ r.new.tls \subseteq certs'
                             /\ Deleting # {} => r.new.tls \subseteq certRace',
           r.pc = "issue" => r.host \in Hosts,
           r.pc \in {"match", "remove"} => r.list = ing,
           r.pc = "remove" => \A q \in Threads : thr[q].pc = "store" => thr[q].new.tls \subseteq certRace'
    PROVE  IngressInv'
  <1>1. IngressTyped'
    BY DEF IngressInv, IngressTyped
  <1>2. Deleting' = IF r.pc = "remove" THEN Deleting \cup {t} ELSE Deleting \ {t}
    BY DEF IngressInv, IngressTyped, Deleting
  <1>3. CertsSafe'
    <2>1. TLSHostHasCert'
      BY DEF IngressInv, CertsSafe, TLSHostHasCert
    <2>2. ASSUME NEW x \in Threads, thr'[x].pc = "store" PROVE thr'[x].new.tls \subseteq certs' \cup certRace'
      BY <2>2 DEF IngressInv, CertsSafe, IngressTyped
    <2>3. ASSUME NEW x \in Threads, NEW d \in Threads, thr'[x].pc = "store", d \in Deleting'
          PROVE  thr'[x].new.tls \subseteq certRace'
      <3>1. CASE x = t
        BY <1>2, <2>3, <3>1 DEF IngressInv, IngressTyped
      <3>2. CASE x # t
        <4>1. thr[x].pc = "store" /\ thr'[x].new = thr[x].new
          BY <2>3, <3>2 DEF IngressInv, IngressTyped
        <4> QED
          BY <1>2, <2>3, <4>1 DEF IngressInv, CertsSafe
      <3> QED
        BY <3>1, <3>2
    <2>4. ASSUME NEW d \in Deleting', NEW i \in Ingresses \ {thr'[d].i}
          PROVE  ing'[i].tls \subseteq thr'[d].list[i].tls \cup certRace'
      <3>1. d \in Threads
        BY DEF Deleting
      <3>2. CASE d = t
        BY <1>2, <3>1, <3>2 DEF IngressInv, IngressTyped
      <3>3. CASE d # t
        BY <1>2, <3>1, <3>3 DEF IngressInv, IngressTyped, CertsSafe
      <3> QED
        BY <3>2, <3>3
    <2>5. ASSUME NEW d \in Threads, thr'[d].pc = "drop" PROVE ing'[thr'[d].i].tls \subseteq certRace'
      BY <2>5 DEF IngressInv, IngressTyped, CertsSafe
    <2> QED
      BY <2>1, <2>2, <2>3, <2>4, <2>5 DEF CertsSafe
  <1>4. ListIsCurrent'
    BY DEF IngressInv, IngressTyped, ListIsCurrent
  <1>5. RoutedToBackend'
    BY DEF IngressInv, IngressTyped, RoutedToBackend
  <1> QED
    BY <1>1, <1>3, <1>4, <1>5 DEF IngressInv

\* ApplyIngress keeps IngressInv.
LEMMA ApplyIngressKeeps ==
    ASSUME IngressInv, NEW t \in Threads, NEW i \in Ingresses, NEW m \in IngressSpecs, ApplyIngress(t, i, m)
    PROVE  IngressInv'
  <1>1. PICK r : r = [NoThr EXCEPT !.pc = "store", !.i = i, !.new = m]
    OBVIOUS
  <1>2. r \in Requests /\ r.pc = "store" /\ r.i = i /\ r.new = m
    BY <1>1, EntriesTyped DEF Requests, ThreadPcs
  <1>3. thr' = [thr EXCEPT ![t] = r] /\ UNCHANGED <<ing, back>>
    BY <1>1 DEF ApplyIngress, Begin
  <1>4. certs' = certs \cup m.tls /\ certRace' = IF Deleting = {} THEN certRace ELSE certRace \cup m.tls
    BY DEF ApplyIngress
  <1>5. m.tls \subseteq Hosts /\ certs \subseteq Hosts /\ certRace \subseteq Hosts
    BY EdgeAssumption DEF IngressInv, IngressTyped
  <1> QED
    BY <1>2, <1>3, <1>4, <1>5, RequestBegins

\* DeleteIngress keeps IngressInv.
LEMMA DeleteIngressKeeps ==
    ASSUME IngressInv, NEW t \in Threads, NEW i \in Ingresses, DeleteIngress(t, i)
    PROVE  IngressInv'
  <1>1. PICK r : r = [NoThr EXCEPT !.pc = "remove", !.i = i, !.list = ing]
    OBVIOUS
  <1>2. ing \in [Ingresses -> Entries]
    BY EntriesTyped DEF IngressInv, IngressTyped
  <1>3. r \in Requests /\ r.pc = "remove" /\ r.i = i /\ r.list = ing
    BY <1>1, <1>2, EntriesTyped DEF Requests, ThreadPcs
  <1>4. thr' = [thr EXCEPT ![t] = r] /\ UNCHANGED <<ing, back, certs>>
    BY <1>1 DEF DeleteIngress, Begin
  <1>5. certRace' = certRace \cup UNION {thr[q].new.tls : q \in {x \in Threads : thr[x].pc = "store"}}
    BY DEF DeleteIngress
  <1>6. \A q \in Threads : thr[q].pc = "store" => thr[q].new.tls \subseteq certRace'
    BY <1>5
  <1>7. \A q \in Threads : thr[q].new.tls \subseteq Hosts
    BY EntriesTyped DEF IngressInv, IngressTyped, Requests
  <1>8. certs \subseteq Hosts /\ certRace \subseteq certRace' /\ certRace' \subseteq Hosts
    BY <1>5, <1>7 DEF IngressInv, IngressTyped
  <1> QED
    BY <1>3, <1>4, <1>6, <1>8, RequestBegins

\* Handshake keeps IngressInv.
LEMMA HandshakeKeeps ==
    ASSUME IngressInv, NEW t \in Threads, NEW h \in Hosts, Handshake(t, h)
    PROVE  IngressInv'
  <1>1. PICK r : r = [NoThr EXCEPT !.pc = "issue", !.host = h]
    OBVIOUS
  <1>2. r \in Requests /\ r.pc = "issue" /\ r.host = h
    BY <1>1, EntriesTyped DEF Requests, ThreadPcs
  <1>3. thr' = [thr EXCEPT ![t] = r] /\ UNCHANGED <<ing, back, certs, certRace>>
    BY <1>1 DEF Handshake, Begin
  <1>4. certs \subseteq Hosts /\ certRace \subseteq Hosts
    BY DEF IngressInv, IngressTyped
  <1> QED
    BY <1>2, <1>3, <1>4, RequestBegins

\* ServeHTTP keeps IngressInv.
LEMMA ServeHTTPKeeps ==
    ASSUME IngressInv, NEW t \in Threads, NEW h \in Hosts, ServeHTTP(t, h)
    PROVE  IngressInv'
  <1>1. PICK r : r = [NoThr EXCEPT !.pc = "match", !.host = h, !.list = ing, !.steady = TRUE]
    OBVIOUS
  <1>2. ing \in [Ingresses -> Entries]
    BY EntriesTyped DEF IngressInv, IngressTyped
  <1>3. r \in Requests /\ r.pc = "match" /\ r.list = ing
    BY <1>1, <1>2, EntriesTyped DEF Requests, ThreadPcs
  <1>4. thr' = [thr EXCEPT ![t] = r] /\ UNCHANGED <<ing, back, certs, certRace>>
    BY <1>1 DEF ServeHTTP, Begin
  <1>5. certs \subseteq Hosts /\ certRace \subseteq Hosts
    BY DEF IngressInv, IngressTyped
  <1> QED
    BY <1>3, <1>4, <1>5, RequestBegins

\* Clearing the steadiness of all requests changes nothing else of them.
LEMMA UnsteadyOnly ==
    ASSUME NEW f \in [Threads -> Requests], thr' = Unsteady(f)
    PROVE  /\ thr' \in [Threads -> Requests]
           /\ \A x \in Threads : /\ thr'[x].pc = f[x].pc /\ thr'[x].i = f[x].i /\ thr'[x].new = f[x].new
                                 /\ thr'[x].host = f[x].host /\ thr'[x].list = f[x].list /\ thr'[x].steady = FALSE
  BY DEF Unsteady, Requests

\* StoreIngress keeps IngressInv.
LEMMA StoreIngressKeeps ==
    ASSUME IngressInv, NEW t \in Threads, StoreIngress(t)
    PROVE  IngressInv'
  <1>1. PICK i \in Ingresses, m \in IngressSpecs :
            /\ i = thr[t].i /\ m = thr[t].new /\ thr[t].pc = "store"
            /\ m.tls \subseteq certs \cup certRace /\ m.tls \subseteq Hosts
            /\ Deleting # {} => m.tls \subseteq certRace
    <2>1. thr[t].i \in Ingresses /\ thr[t].new \in IngressSpecs /\ thr[t].pc = "store"
      BY DEF StoreIngress, IngressInv, IngressTyped
    <2>2. thr[t].new.tls \subseteq certs \cup certRace /\ thr[t].new.tls \subseteq Hosts
      BY <2>1, EdgeAssumption DEF IngressInv, CertsSafe
    <2>3. Deleting # {} => thr[t].new.tls \subseteq certRace
      BY <2>1 DEF IngressInv, CertsSafe, Deleting
    <2> QED
      BY <2>1, <2>2, <2>3
  <1>2. /\ ing' = [ing EXCEPT ![i] = m] /\ UNCHANGED <<certs, back>>
        /\ certRace' = IF Deleting = {} THEN certRace ELSE certRace \cup m.tls
    BY <1>1 DEF StoreIngress
  <1>3. certRace' = certRace
    BY <1>1, <1>2
  <1>4. PICK f : f = [thr EXCEPT ![t] = NoThr]
    OBVIOUS
  <1>5. f \in [Threads -> Requests] /\ f[t].pc = "idle" /\ \A x \in Threads \ {t} : f[x] = thr[x]
    BY <1>4, EntriesTyped DEF IngressInv, IngressTyped
  <1>6. thr' = Unsteady(f)
    BY <1>4 DEF StoreIngress
  <1>7. /\ thr' \in [Threads -> Requests] /\ thr'[t].pc = "idle"
        /\ \A x \in Threads : thr'[x].steady = FALSE
        /\ \A x \in Threads \ {t} : /\ thr'[x].pc = thr[x].pc /\ thr'[x].i = thr[x].i /\ thr'[x].new = thr[x].new
                                    /\ thr'[x].host = thr[x].host /\ thr'[x].list = thr[x].list
    <2>1. /\ thr' \in [Threads -> Requests]
          /\ \A x \in Threads : /\ thr'[x].pc = f[x].pc /\ thr'[x].i = f[x].i /\ thr'[x].new = f[x].new
                                /\ thr'[x].host = f[x].host /\ thr'[x].list = f[x].list /\ thr'[x].steady = FALSE
      BY <1>5, <1>6, UnsteadyOnly
    <2> QED
      BY <1>5, <2>1
  <1>8. Deleting' = Deleting
    BY <1>1, <1>7 DEF Deleting
  <1>9. IngressTyped'
    BY <1>2, <1>3, <1>7, EntriesTyped DEF IngressInv, IngressTyped
  <1>10. CertsSafe'
    <2>1. TLSHostHasCert'
      BY <1>1, <1>2, <1>3 DEF IngressInv, IngressTyped, CertsSafe, TLSHostHasCert
    <2>2. \A x \in Threads : thr'[x].pc = "store" => thr'[x].new.tls \subseteq certs' \cup certRace'
      BY <1>2, <1>3, <1>7 DEF IngressInv, CertsSafe
    <2>3. \A x, d \in Threads : thr'[x].pc = "store" /\ d \in Deleting' => thr'[x].new.tls \subseteq certRace'
      BY <1>3, <1>7, <1>8 DEF IngressInv, CertsSafe
    <2>4. ASSUME NEW d \in Deleting', NEW k \in Ingresses \ {thr'[d].i}
          PROVE  ing'[k].tls \subseteq thr'[d].list[k].tls \cup certRace'
      <3>1. d \in Threads \ {t} /\ d \in Deleting /\ m.tls \subseteq certRace
        BY <1>1, <1>7, <1>8 DEF Deleting
      <3>2. thr'[d].i = thr[d].i /\ thr'[d].list = thr[d].list
        BY <1>7, <3>1
      <3>3. ing[k].tls \subseteq thr[d].list[k].tls \cup certRace
        BY <3>1, <3>2 DEF IngressInv, CertsSafe
      <3> QED
        BY <1>2, <1>3, <3>1, <3>2, <3>3 DEF IngressInv, IngressTyped
    <2>5. ASSUME NEW d \in Threads, thr'[d].pc = "drop" PROVE ing'[thr'[d].i].tls \subseteq certRace'
      <3>1. d \in Threads \ {t} /\ d \in Deleting /\ m.tls \subseteq certRace
        BY <1>1, <1>7, <1>8, <2>5 DEF Deleting
      <3>2. thr'[d].i = thr[d].i /\ thr[d].pc = "drop" /\ thr[d].i \in Ingresses
        BY <1>7, <2>5, <3>1 DEF IngressInv, IngressTyped
      <3>3. ing[thr[d].i].tls \subseteq certRace
        BY <3>1, <3>2 DEF IngressInv, CertsSafe
      <3> QED
        BY <1>2, <1>3, <3>1, <3>2, <3>3 DEF IngressInv, IngressTyped
    <2> QED
      BY <2>1, <2>2, <2>3, <2>4, <2>5 DEF CertsSafe
  <1>11. ListIsCurrent' /\ RoutedToBackend'
    BY <1>7 DEF ListIsCurrent, RoutedToBackend
  <1> QED
    BY <1>9, <1>10, <1>11 DEF IngressInv

\* A request comes to an end or goes on, with what it knows, and no ingress,
\* certificate or service changes.
LEMMA RequestGoesOn ==
    ASSUME IngressInv, NEW t \in Threads, NEW r \in Requests, thr' = [thr EXCEPT ![t] = r],
           UNCHANGED <<ing, back, certRace>>, certs' \subseteq Hosts, certs \subseteq certs',
           r.pc \in {"idle", "none", "routed"},
           r.pc = "routed" /\ r.steady =>
              /\ [ns |-> NsOf[r.i], name |-> ing[r.i].name] \in {b \in Backends : back[b] = r.ip}
              /\ \A j \in Ingresses : ing[j] # NoIng /\ ing[j].host \in {"", r.host} => ing[j].len <= ing[r.i].len
    PROVE  IngressInv'
  <1>1. IngressTyped'
    BY DEF IngressInv, IngressTyped
  <1>2. Deleting' = Deleting \ {t}
    BY DEF IngressInv, IngressTyped, Deleting
  <1>3. CertsSafe'
    <2>1. \A x \in Threads : thr'[x] = thr[x] \/ (x = t /\ thr'[x].pc \notin {"store", "drop"})
      BY DEF IngressInv, IngressTyped
    <2>2. \A d \in Deleting' : d \in Threads /\ d \in Deleting /\ thr'[d] = thr[d]
      BY <1>2, <2>1 DEF Deleting
    <2>3. TLSHostHasCert'
      BY DEF IngressInv, CertsSafe, TLSHostHasCert
    <2>4. \A x \in Threads : thr'[x].pc = "store" => thr'[x].new.tls \subseteq certs' \cup certRace'
      BY <2>1 DEF IngressInv, CertsSafe
    <2>5. \A x, d \in Threads : thr'[x].pc = "store" /\ d \in Deleting' => thr'[x].new.tls \subseteq certRace'
      BY <2>1, <2>2 DEF IngressInv, CertsSafe
    <2>6. \A d \in Deleting' : \A i \in Ingresses \ {thr'[d].i} : ing'[i].tls \subseteq thr'[d].list[i].tls \cup certRace'
      BY <2>2 DEF IngressInv, CertsSafe
    <2>7. \A d \in Threads : thr'[d].pc = "drop" => ing'[thr'[d].i].tls \subseteq certRace'
      BY <2>1 DEF IngressInv, CertsSafe
    <2> QED
      BY <2>3, <2>4, <2>5, <2>6, <2>7 DEF CertsSafe
  <1>4. ListIsCurrent'
    BY DEF IngressInv, IngressTyped, ListIsCurrent
  <1>5. RoutedToBackend'
    <2> SUFFICES ASSUME NEW x \in Threads, thr'[x].pc = "routed", thr'[x].steady
                 PROVE  LET i == thr'[x].i IN
                        /\ [ns |-> NsOf[i], name |-> ing[i].name] \in {b \in Backends : back[b] = thr'[x].ip}
                        /\ \A j \in Ingresses : ing[j] # NoIng /\ ing[j].host \in {"", thr'[x].host} => ing[j].len <= ing[i].len
      BY DEF RoutedToBackend
    <2>1. CASE x = t
      BY <2>1 DEF IngressInv, IngressTyped
    <2>2. CASE x # t
      <3>1. thr'[x] = thr[x]
        BY <2>2 DEF IngressInv, IngressTyped
      <3> QED
        BY <3>1 DEF IngressInv, RoutedToBackend
    <2> QED
      BY <2>1, <2>2
  <1> QED
    BY <1>1, <1>3, <1>4, <1>5 DEF IngressInv

\* RemoveIngress keeps IngressInv.
LEMMA RemoveIngressKeeps ==
    ASSUME IngressInv, NEW t \in Threads, RemoveIngress(t)
    PROVE  IngressInv'
  <1>1. PICK i \in Ingresses, r \in Requests : i = thr[t].i /\ r = thr[t] /\ r.pc = "remove"
    BY DEF RemoveIngress, IngressInv, IngressTyped
  <1>2. CASE ing[i] = NoIng
    <2>1. thr' = [thr EXCEPT ![t] = NoThr] /\ UNCHANGED <<ing, certs, back, certRace>>
      BY <1>1, <1>2 DEF RemoveIngress
    <2>2. certs \subseteq Hosts
      BY DEF IngressInv, IngressTyped
    <2> QED
      BY <2>1, <2>2, EntriesTyped, RequestGoesOn
  <1>3. CASE ing[i] # NoIng
    <2>1. ing' = [ing EXCEPT ![i] = NoIng] /\ UNCHANGED <<certs, back, certRace>>
      BY <1>1, <1>3 DEF RemoveIngress
    <2>2. PICK f : f = [thr EXCEPT ![t].pc = "drop"]
      OBVIOUS
    <2>3. /\ f \in [Threads -> Requests] /\ f[t].pc = "drop" /\ f[t].i = i /\ f[t].list = r.list
          /\ \A x \in Threads \ {t} : f[x] = thr[x]
      BY <1>1, <2>2 DEF IngressInv, IngressTyped, Requests, ThreadPcs
    <2>4. thr' = Unsteady(f)
      BY <1>1, <1>3, <2>2 DEF RemoveIngress
    <2>5. /\ thr' \in [Threads -> Requests] /\ thr'[t].pc = "drop" /\ thr'[t].i = i /\ thr'[t].list = r.list
          /\ \A x \in Threads : thr'[x].steady = FALSE
          /\ \A x \in Threads \ {t} : /\ thr'[x].pc = thr[x].pc /\ thr'[x].i = thr[x].i /\ thr'[x].new = thr[x].new
                                      /\ thr'[x].host = thr[x].host /\ thr'[x].list = thr[x].list
      <3>1. /\ thr' \in [Threads -> Requests]
            /\ \A x \in Threads : /\ thr'[x].pc = f[x].pc /\ thr'[x].i = f[x].i /\ thr'[x].new = f[x].new
                                  /\ thr'[x].host = f[x].host /\ thr'[x].list = f[x].list /\ thr'[x].steady = FALSE
        BY <2>3, <2>4, UnsteadyOnly
      <3> QED
        BY <2>3, <3>1
    <2>6. Deleting' = Deleting
      BY <1>1, <2>5 DEF Deleting
    <2>7. IngressTyped'
      BY <2>1, <2>5, EntriesTyped DEF IngressInv, IngressTyped
    <2>8. CertsSafe'
      <3>1. TLSHostHasCert'
        BY <2>1, EntriesTyped DEF IngressInv, IngressTyped, CertsSafe, TLSHostHasCert
      <3>2. \A x \in Threads : thr'[x].pc = "store" => thr'[x].new.tls \subseteq certs' \cup certRace'
        BY <2>1, <2>5 DEF IngressInv, CertsSafe
      <3>3. \A x, d \in Threads : thr'[x].pc = "store" /\ d \in Deleting' => thr'[x].new.tls \subseteq certRace'
        BY <2>1, <2>5, <2>6 DEF IngressInv, CertsSafe
      <3>4. ASSUME NEW d \in Deleting', NEW k \in Ingresses \ {thr'[d].i}
            PROVE  ing'[k].tls \subseteq thr'[d].list[k].tls \cup certRace'
        <4>1. d \in Threads /\ d \in Deleting /\ thr'[d].i = thr[d].i /\ thr'[d].list = thr[d].list
          BY <1>1, <2>5, <2>6 DEF Deleting
        <4>2. ing[k].tls \subseteq thr[d].list[k].tls \cup certRace
          BY <4>1 DEF IngressInv, CertsSafe
        <4>3. ing'[k] = ing[k] \/ ing'[k].tls = {}
          BY <2>1, EntriesTyped DEF IngressInv, IngressTyped
        <4> QED
          BY <2>1, <4>1, <4>2, <4>3
      <3>5. ASSUME NEW d \in Threads, thr'[d].pc = "drop" PROVE ing'[thr'[d].i].tls \subseteq certRace'
        <4>1. CASE d = t
          BY <2>1, <2>5, <4>1, EntriesTyped DEF IngressInv, IngressTyped
        <4>2. CASE d # t
          <5>1. thr'[d].i = thr[d].i /\ thr[d].i \in Ingresses /\ ing[thr[d].i].tls \subseteq certRace
            BY <2>5, <3>5, <4>2 DEF IngressInv, IngressTyped, CertsSafe
          <5>2. ing'[thr[d].i] = ing[thr[d].i] \/ ing'[thr[d].i].tls = {}
            BY <2>1, <5>1, EntriesTyped DEF IngressInv, IngressTyped
          <5> QED
            BY <2>1, <5>1, <5>2
        <4> QED
          BY <4>1, <4>2
      <3> QED
        BY <3>1, <3>2, <3>3, <3>4, <3>5 DEF CertsSafe
    <2>9. ListIsCurrent' /\ RoutedToBackend'
      BY <2>5 DEF ListIsCurrent, RoutedToBackend
    <2> QED
      BY <2>7, <2>8, <2>9 DEF IngressInv
  <1> QED
    BY <1>2, <1>3

\* The certificates that go are of hosts no ingress of the list names: what is
\* stored, or about to be, either is on the list or came while the delete ran.
LEMMA RemoveHostsIfUnusedKeeps ==
    ASSUME IngressInv, NEW t \in Threads, RemoveHostsIfUnused(t)
    PROVE  IngressInv'
  <1>1. PICK i \in Ingresses, r \in Requests : i = thr[t].i /\ r = thr[t] /\ r.pc = "drop"
    BY DEF RemoveHostsIfUnused, IngressInv, IngressTyped
  <1>2. /\ certs' = certs \ (r.list[i].tls \ UNION {r.list[k].tls : k \in Ingresses \ {i}})
        /\ thr' = [thr EXCEPT ![t] = NoThr] /\ UNCHANGED <<ing, back, certRace>>
    BY <1>1 DEF RemoveHostsIfUnused
  <1>3. \A x \in Threads : thr'[x] = thr[x] \/ (x = t /\ thr'[x].pc = "idle" /\ thr'[x].steady = FALSE)
    BY <1>2, EntriesTyped DEF IngressInv, IngressTyped
  <1>4. t \in Deleting /\ \A d \in Deleting' : d \in Threads /\ d \in Deleting /\ thr'[d] = thr[d]
    BY <1>1, <1>3 DEF Deleting
  <1>5. \A k \in Ingresses : ing[k].tls \subseteq certs' \cup certRace
    <2> SUFFICES ASSUME NEW k \in Ingresses, NEW h \in ing[k].tls, h \notin certRace PROVE h \in certs'
      OBVIOUS
    <2>1. h \in certs
      BY DEF IngressInv, CertsSafe, TLSHostHasCert
    <2>2. k # i
      BY <1>1 DEF IngressInv, CertsSafe
    <2>3. h \in r.list[k].tls
      BY <1>1, <1>4, <2>2 DEF IngressInv, CertsSafe
    <2> QED
      BY <1>2, <2>1, <2>2, <2>3
  <1>6. IngressTyped'
    BY <1>2, <1>3, EntriesTyped DEF IngressInv, IngressTyped
  <1>7. CertsSafe'
    <2>1. TLSHostHasCert'
      BY <1>2, <1>5 DEF TLSHostHasCert
    <2>2. \A x \in Threads : thr'[x].pc = "store" => thr'[x].new.tls \subseteq certRace'
      BY <1>2, <1>3, <1>4 DEF IngressInv, CertsSafe
    <2>3. \A d \in Deleting' : \A k \in Ingresses \ {thr'[d].i} : ing'[k].tls \subseteq thr'[d].list[k].tls \cup certRace'
      BY <1>2, <1>4 DEF IngressInv, CertsSafe
    <2>4. \A d \in Threads : thr'[d].pc = "drop" => ing'[thr'[d].i].tls \subseteq certRace'
      BY <1>2, <1>3 DEF IngressInv, CertsSafe
    <2> QED
      BY <2>1, <2>2, <2>3, <2>4 DEF CertsSafe
  <1>8. ListIsCurrent'
    BY <1>2, <1>3 DEF IngressInv, ListIsCurrent
  <1>9. RoutedToBackend'
    BY <1>2, <1>3 DEF IngressInv, RoutedToBackend
  <1> QED
    BY <1>6, <1>7, <1>8, <1>9 DEF IngressInv

\* GetCertificate keeps IngressInv.
LEMMA GetCertificateKeeps ==
    ASSUME IngressInv, NEW t \in Threads, GetCertificate(t)
    PROVE  IngressInv'
  <1>1. /\ thr' = [thr EXCEPT ![t] = NoThr] /\ UNCHANGED <<ing, back, certRace>>
        /\ certs' = certs \cup {thr[t].host} /\ thr[t].pc = "issue"
    BY DEF GetCertificate
  <1>2. certs \subseteq Hosts /\ thr[t].host \in Hosts
    BY <1>1 DEF IngressInv, IngressTyped
  <1> QED
    BY <1>1, <1>2, EntriesTyped, RequestGoesOn

\* A matching rule is taken whose path is the longest, and whose service is
\* stored with the address the request goes to.
LEMMA ResolveKeeps ==
    ASSUME IngressInv, NEW t \in Threads, Resolve(t)
    PROVE  IngressInv'
  <1>1. PICK r \in Requests : r = thr[t] /\ r.pc = "match"
    BY DEF Resolve, IngressInv, IngressTyped
  <1>2. UNCHANGED <<ing, back, certs, certRace>> /\ certs \subseteq Hosts
    BY DEF Resolve, IngressInv, IngressTyped
  <1>3. CASE thr' = [thr EXCEPT ![t].pc = "none"]
    <2>1. PICK q : q = [r EXCEPT !.pc = "none"]
      OBVIOUS
    <2>2. q \in Requests /\ q.pc = "none"
      BY <2>1 DEF Requests, ThreadPcs
    <2>3. thr' = [thr EXCEPT ![t] = q]
      BY <1>1, <1>3, <2>1 DEF IngressInv, IngressTyped
    <2> QED
      BY <1>2, <2>2, <2>3, RequestGoesOn
  <1>4. ASSUME NEW m, m = Matching(r.list, r.host), NEW i \in m, \A j \in m : r.list[j].len <= r.list[i].len,
               NEW ip \in FindService(r.list, i),
               thr' = [thr EXCEPT ![t].pc = "routed", ![t].i = i, ![t].ip = ip]
        PROVE  IngressInv'
    <2>1. PICK q : q = [r EXCEPT !.pc = "routed", !.i = i, !.ip = ip]
      OBVIOUS
    <2>2. i \in Ingresses /\ BackendOf(r.list, i) \in Backends /\ ip = back[BackendOf(r.list, i)] /\ ip \in Nat
      BY <1>4 DEF Matching, FindService, IngressInv, IngressTyped
    <2>3. /\ q \in Requests /\ q.pc = "routed" /\ q.i = i /\ q.ip = ip /\ q.host = r.host
          /\ q.steady = r.steady /\ q.list = r.list
      BY <2>1, <2>2 DEF Requests, ThreadPcs
    <2>4. thr' = [thr EXCEPT ![t] = q]
      BY <1>1, <1>4, <2>1 DEF IngressInv, IngressTyped
    <2>5. ASSUME q.steady
          PROVE  /\ [ns |-> NsOf[q.i], name |-> ing[q.i].name] \in {b \in Backends : back[b] = q.ip}
                 /\ \A j \in Ingresses : ing[j] # NoIng /\ ing[j].host \in {"", q.host} => ing[j].len <= ing[q.i].len
      <3>1. r.list = ing
        BY <1>1, <2>3, <2>5 DEF IngressInv, ListIsCurrent
      <3>2. [ns |-> NsOf[q.i], name |-> ing[q.i].name] \in {b \in Backends : back[b] = q.ip}
        BY <2>2, <2>3, <3>1 DEF BackendOf
      <3>3. \A j \in Ingresses : ing[j] # NoIng /\ ing[j].host \in {"", q.host} => ing[j].len <= ing[q.i].len
        BY <1>4, <2>3, <3>1 DEF Matching
      <3> QED
        BY <3>2, <3>3
    <2> QED
      BY <1>2, <2>3, <2>4, <2>5, RequestGoesOn
  <1>5. \/ thr' = [thr EXCEPT ![t].pc = "none"]
        \/ \E i \in {k \in Matching(r.list, r.host) : \A j \in Matching(r.list, r.host) : r.list[j].len <= r.list[k].len} :
             \E ip \in FindService(r.list, i) : thr' = [thr EXCEPT ![t].pc = "routed", ![t].i = i, ![t].ip = ip]
    BY <1>1 DEF Resolve
  <1> QED
    BY <1>3, <1>4, <1>5

\* BackendChanges keeps IngressInv.
LEMMA BackendChangesKeeps ==
    ASSUME IngressInv, NEW b \in Backends, BackendChanges(b)
    PROVE  IngressInv'
  <1>1. UNCHANGED <<ing, certs, certRace>> /\ back' \in [Backends -> Nat]
    BY EdgeAssumption, FS_CardinalityType DEF BackendChanges, IngressInv, IngressTyped
  <1>2. /\ thr' \in [Threads -> Requests]
        /\ \A x \in Threads : /\ thr'[x].pc = thr[x].pc /\ thr'[x].i = thr[x].i /\ thr'[x].new = thr[x].new
                              /\ thr'[x].host = thr[x].host /\ thr'[x].list = thr[x].list /\ thr'[x].steady = FALSE
    <2>1. PICK f \in [Threads -> Requests] : f = thr
      BY DEF IngressInv, IngressTyped
    <2>2. thr' = Unsteady(f)
      BY <2>1 DEF BackendChanges
    <2>3. /\ thr' \in [Threads -> Requests]
          /\ \A x \in Threads : /\ thr'[x].pc = f[x].pc /\ thr'[x].i = f[x].i /\ thr'[x].new = f[x].new
                                /\ thr'[x].host = f[x].host /\ thr'[x].list = f[x].list /\ thr'[x].steady = FALSE
      BY <2>2, UnsteadyOnly
    <2> QED
      BY <2>1, <2>3
  <1>3. Deleting' = Deleting
    BY <1>2 DEF Deleting
  <1>4. IngressTyped'
    BY <1>1, <1>2 DEF IngressInv, IngressTyped
  <1>5. CertsSafe'
    <2>1. TLSHostHasCert'
      BY <1>1 DEF IngressInv, CertsSafe, TLSHostHasCert
    <2>2. \A x \in Threads : thr'[x].pc = "store" => thr'[x].new.tls \subseteq certs' \cup certRace'
      BY <1>1, <1>2 DEF IngressInv, CertsSafe
    <2>3. \A x, d \in Threads : thr'[x].pc = "store" /\ d \in Deleting' => thr'[x].new.tls \subseteq certRace'
      BY <1>1, <1>2, <1>3 DEF IngressInv, CertsSafe
    <2>4. \A d \in Deleting' : \A k \in Ingresses \ {thr'[d].i} : ing'[k].tls \subseteq thr'[d].list[k].tls \cup certRace'
      BY <1>1, <1>2, <1>3 DEF IngressInv, CertsSafe, Deleting
    <2>5. \A d \in Threads : thr'[d].pc = "drop" => ing'[thr'[d].i].tls \subseteq certRace'
      BY <1>1, <1>2 DEF IngressInv, CertsSafe
    <2> QED
      BY <2>1, <2>2, <2>3, <2>4, <2>5 DEF CertsSafe
  <1>6. ListIsCurrent' /\ RoutedToBackend'
    BY <1>2 DEF ListIsCurrent, RoutedToBackend
  <1> QED
    BY <1>4, <1>5, <1>6 DEF IngressInv

\* A step of the DNS proxy keeps the gateway's invariant.
LEMMA IngressUntouched ==
    ASSUME IngressInv, UNCHANGED ingressVars
    PROVE  IngressInv'
  <1>1. UNCHANGED <<ing, certs, thr, back, certRace>>
    BY DEF ingressVars
  <1>2. Deleting' = Deleting
    BY <1>1 DEF Deleting
  <1> QED
    BY <1>1, <1>2 DEF IngressInv, IngressTyped, CertsSafe, TLSHostHasCert, ListIsCurrent, RoutedToBackend

\* IngressNext keeps IngressInv.
LEMMA IngressNextKeeps ==
    ASSUME IngressInv, IngressNext
    PROVE  IngressInv' /\ UNCHANGED dnsVars
  <1>1. IngressInv'
    BY ApplyIngressKeeps, DeleteIngressKeeps, HandshakeKeeps, ServeHTTPKeeps, StoreIngressKeeps, RemoveIngressKeeps,
       RemoveHostsIfUnusedKeeps, GetCertificateKeeps, ResolveKeeps, BackendChangesKeeps DEF IngressNext
  <1>2. UNCHANGED dnsVars
    BY DEF IngressNext, ApplyIngress, DeleteIngress, Handshake, ServeHTTP, StoreIngress, RemoveIngress,
           RemoveHostsIfUnused, GetCertificate, Resolve, BackendChanges
  <1> QED
    BY <1>1, <1>2

-----------------------------------------------------------------------------
(***************************************************************************)
(* The DNS proxy                                                            *)
(***************************************************************************)
\* What a lookup changes of itself.
LEMMA LookupMoves ==
    ASSUME DnsInv, NEW c \in Clients, NEW pc \in LookupPcs, dq' = [dq EXCEPT ![c].pc = pc], At(c, "idle") => pc = "idle",
           now' \in 1 .. MaxTime, now <= now'
    PROVE  /\ dq' \in [Clients -> Lookups]
           /\ \A x \in Clients : dq'[x].at <= now' /\ (dq'[x].pc # "idle" => dq'[x].n \in Names)
  <1>1. dq' \in [Clients -> Lookups]
    BY DEF DnsInv, Lookups
  <1>2. ASSUME NEW x \in Clients PROVE dq'[x].at <= now' /\ (dq'[x].pc # "idle" => dq'[x].n \in Names)
    <2>1. dq'[x].at = dq[x].at /\ dq'[x].n = dq[x].n /\ (dq'[x].pc # "idle" => dq[x].pc # "idle")
      <3>1. CASE x = c
        <4>1. PICK q \in Lookups : q = dq[c]
          BY DEF DnsInv
        <4>2. dq'[c] = [q EXCEPT !.pc = pc]
          BY <4>1 DEF DnsInv
        <4>3. dq'[c].at = q.at /\ dq'[c].n = q.n /\ dq'[c].pc = pc
          BY <4>2 DEF Lookups
        <4> QED
          BY <3>1, <4>1, <4>3 DEF At
      <3>2. CASE x # c
        <4>1. dq'[x] = dq[x]
          BY <3>2 DEF DnsInv
        <4> QED
          BY <4>1
      <3> QED
        BY <3>1, <3>2
    <2>2. dq[x].at \in Nat /\ now \in Nat /\ now' \in Nat
      <3>1. dq[x] \in Lookups
        BY DEF DnsInv
      <3>2. dq[x].at \in Nat
        BY <3>1 DEF Lookups
      <3>3. now \in Nat /\ now' \in Nat
        BY EdgeAssumption DEF DnsInv
      <3> QED
        BY <3>2, <3>3
    <2> QED
      BY <2>1, <2>2 DEF DnsInv
  <1> QED
    BY <1>1, <1>2

\* An entry that goes makes the cache no fuller.
LEMMA CacheShrinks ==
    ASSUME DnsInv, \A n \in Names : cache'[n] # 0 => cache[n] # 0
    PROVE  CacheBounded'
  <1>1. PICK H, K : H = {n \in Names : cache[n] # 0} /\ K = {n \in Names : cache'[n] # 0}
    OBVIOUS
  <1>2. IsFiniteSet(H) /\ K \subseteq H
    BY <1>1, EdgeAssumption, FS_Subset
  <1>3. Cardinality(K) <= Cardinality(H) /\ Cardinality(K) \in Nat /\ Cardinality(H) \in Nat
    BY <1>2, FS_Subset, FS_CardinalityType
  <1>4. Cardinality(H) <= CacheKeys
    BY <1>1 DEF DnsInv, CacheBounded, Cached
  <1>5. Cardinality(K) <= CacheKeys
    BY <1>3, <1>4, EdgeAssumption
  <1> QED
    BY <1>1, <1>5 DEF CacheBounded, Cached

\* ServeDns keeps DnsInv.
LEMMA ServeDnsKeeps ==
    ASSUME DnsInv, NEW c \in Clients, NEW n \in Names, ServeDns(c, n)
    PROVE  DnsInv'
  <1>1. PICK pc \in LookupPcs : dq' = [dq EXCEPT ![c] = [Asleep EXCEPT !.n = n, !.at = now, !.pc = pc]]
    BY DEF ServeDns, LookupPcs
  <1>2. PICK q \in Lookups : q = [Asleep EXCEPT !.n = n, !.at = now, !.pc = pc] /\ q.n = n /\ q.at = now
    <2>1. PICK q : q = [Asleep EXCEPT !.n = n, !.at = now, !.pc = pc]
      OBVIOUS
    <2>2. q = [pc |-> pc, n |-> n, at |-> now]
      BY <2>1 DEF Asleep
    <2>3. now \in Nat
      BY EdgeAssumption DEF DnsInv
    <2>4. q \in Lookups /\ q.n = n /\ q.at = now
      BY <2>2, <2>3 DEF Lookups
    <2> QED
      BY <2>1, <2>4
  <1>3. dq' = [dq EXCEPT ![c] = q] /\ UNCHANGED <<cache, now>>
    BY <1>1, <1>2 DEF ServeDns
  <1>4. dq' \in [Clients -> Lookups] /\ \A x \in Clients : dq'[x].at <= now' /\ (dq'[x].pc # "idle" => dq'[x].n \in Names)
    BY <1>2, <1>3 DEF DnsInv
  <1>5. CacheBounded'
    BY <1>3, CacheShrinks
  <1> QED
    BY <1>3, <1>4, <1>5 DEF DnsInv

\* DeleteExpired keeps DnsInv.
LEMMA DeleteExpiredKeeps ==
    ASSUME DnsInv, NEW c \in Clients, DeleteExpired(c)
    PROVE  DnsInv'
  <1>1. /\ dq' = [dq EXCEPT ![c].pc = "ask"] /\ At(c, "expired") /\ now' = now
        /\ cache' = cache \/ cache' = [cache EXCEPT ![dq[c].n] = 0]
    BY DEF DeleteExpired
  <1>2. cache' \in [Names -> 0 .. MaxTime + Ttl] /\ \A n \in Names : cache'[n] # 0 => cache[n] # 0
    BY <1>1, EdgeAssumption DEF DnsInv
  <1>3. CacheBounded'
    BY <1>2, CacheShrinks
  <1>4. now' \in 1 .. MaxTime /\ now <= now' /\ "ask" \in LookupPcs /\ (At(c, "idle") => "ask" = "idle")
    BY <1>1 DEF DnsInv, At, LookupPcs
  <1>5. dq' \in [Clients -> Lookups] /\ \A x \in Clients : dq'[x].at <= now' /\ (dq'[x].pc # "idle" => dq'[x].n \in Names)
    BY <1>1, <1>4, LookupMoves
  <1> QED
    BY <1>2, <1>3, <1>4, <1>5 DEF DnsInv

\* Exchange keeps DnsInv.
LEMMA ExchangeKeeps ==
    ASSUME DnsInv, NEW c \in Clients, Exchange(c)
    PROVE  DnsInv'
  <1>1. PICK pc \in LookupPcs : dq' = [dq EXCEPT ![c].pc = pc]
    BY DEF Exchange, LookupPcs
  <1>2. At(c, "ask") /\ UNCHANGED <<cache, now>>
    BY DEF Exchange
  <1>3. now' \in 1 .. MaxTime /\ now <= now' /\ (At(c, "idle") => pc = "idle")
    BY <1>2 DEF DnsInv, At
  <1>4. dq' \in [Clients -> Lookups] /\ \A x \in Clients : dq'[x].at <= now' /\ (dq'[x].pc # "idle" => dq'[x].n \in Names)
    BY <1>1, <1>3, LookupMoves
  <1>5. CacheBounded'
    BY <1>2, CacheShrinks
  <1> QED
    BY <1>2, <1>3, <1>4, <1>5 DEF DnsInv

\* A put adds one name, and at the limit takes another away first.
LEMMA PutKeeps ==
    ASSUME DnsInv, NEW c \in Clients, Put(c)
    PROVE  DnsInv'
  <1>1. At(c, "put") /\ dq' = [dq EXCEPT ![c].pc = "answered"] /\ now' = now
    BY DEF Put
  <1>2. PICK n \in Names, at \in Nat : n = dq[c].n /\ at = dq[c].at /\ at <= now
    BY <1>1 DEF DnsInv, At, Lookups
  <1>3. PICK H : H = {m \in Names : cache[m] # 0}
    OBVIOUS
  <1>4. Expiry(at) \in 1 .. MaxTime + Ttl
    BY <1>2, EdgeAssumption DEF Expiry, DnsInv
  <1>5. IsFiniteSet(H) /\ Cardinality(H) \in Nat /\ Cardinality(H) <= CacheKeys
    <2>1. IsFiniteSet(H)
      BY <1>3, EdgeAssumption, FS_Subset
    <2> QED
      BY <1>3, <2>1, FS_CardinalityType DEF DnsInv, CacheBounded, Cached
  <1>6. \/ Cardinality(H) < CacheKeys /\ cache' = [cache EXCEPT ![n] = Expiry(at)]
        \/ \E e \in H : cache' = [[cache EXCEPT ![e] = 0] EXCEPT ![n] = Expiry(at)]
    <2>1. {m \in Names : Cached(m)} = H
      BY <1>3 DEF Cached
    <2>2. IF Cardinality(H) >= CacheKeys THEN \E e \in H : cache' = [[cache EXCEPT ![e] = 0] EXCEPT ![n] = Expiry(at)]
          ELSE cache' = [cache EXCEPT ![n] = Expiry(at)]
      BY <1>2, <2>1 DEF Put
    <2> QED
      BY <2>2, <1>5, EdgeAssumption
  <1>7. cache' \in [Names -> 0 .. MaxTime + Ttl] /\ CacheBounded'
    <2>1. PICK K : K = {m \in Names : cache'[m] # 0}
      OBVIOUS
    <2>2. CASE Cardinality(H) < CacheKeys /\ cache' = [cache EXCEPT ![n] = Expiry(at)]
      <3>1. cache' \in [Names -> 0 .. MaxTime + Ttl]
        BY <1>4, <2>2 DEF DnsInv
      <3>2. K = H \cup {n}
        BY <1>3, <1>4, <2>1, <2>2 DEF DnsInv
      <3>3. Cardinality(K) \in Nat /\ Cardinality(K) <= Cardinality(H) + 1
        <4>1. IsFiniteSet(K) /\ Cardinality(K) = IF n \in H THEN Cardinality(H) ELSE Cardinality(H) + 1
          BY <1>5, <3>2, FS_AddElement
        <4> QED
          BY <1>5, <4>1
      <3>4. Cardinality(K) <= CacheKeys
        BY <1>5, <2>2, <3>3, EdgeAssumption
      <3> QED
        BY <2>1, <3>1, <3>4 DEF CacheBounded, Cached
    <2>3. ASSUME NEW e \in H, cache' = [[cache EXCEPT ![e] = 0] EXCEPT ![n] = Expiry(at)]
          PROVE  cache' \in [Names -> 0 .. MaxTime + Ttl] /\ CacheBounded'
      <3>1. cache' \in [Names -> 0 .. MaxTime + Ttl]
        <4>1. 0 \in 0 .. MaxTime + Ttl /\ Expiry(at) \in 0 .. MaxTime + Ttl
          BY <1>4, EdgeAssumption
        <4> QED
          BY <2>3, <4>1 DEF DnsInv
      <3>2. K = (H \ {e}) \cup {n}
        <4>1. \A m \in Names : cache'[m] = IF m = n THEN Expiry(at) ELSE IF m = e THEN 0 ELSE cache[m]
          BY <2>3 DEF DnsInv
        <4>2. Expiry(at) # 0
          BY <1>4, EdgeAssumption
        <4> QED
          BY <1>3, <2>1, <4>1, <4>2
      <3>3. IsFiniteSet(H \ {e}) /\ Cardinality(H \ {e}) = Cardinality(H) - 1
        BY <1>5, <2>3, FS_RemoveElement
      <3>4. Cardinality(H \ {e}) \in Nat
        BY <3>3, FS_CardinalityType
      <3>5. Cardinality(K) \in Nat /\ Cardinality(K) <= Cardinality(H \ {e}) + 1
        <4>1. PICK G : G = H \ {e}
          OBVIOUS
        <4>2. IsFiniteSet(K) /\ Cardinality(K) = IF n \in G THEN Cardinality(G) ELSE Cardinality(G) + 1
          BY <3>2, <3>3, <4>1, FS_AddElement
        <4> QED
          BY <3>4, <4>1, <4>2
      <3>6. Cardinality(K) <= CacheKeys
        BY <1>5, <3>3, <3>5, EdgeAssumption
      <3> QED
        BY <2>1, <3>1, <3>6 DEF CacheBounded, Cached
    <2> QED
      BY <1>6, <2>2, <2>3
  <1>8. now' \in 1 .. MaxTime /\ now <= now' /\ "answered" \in LookupPcs /\ (At(c, "idle") => "answered" = "idle")
    BY <1>1 DEF DnsInv, At, LookupPcs
  <1>9. dq' \in [Clients -> Lookups] /\ \A x \in Clients : dq'[x].at <= now' /\ (dq'[x].pc # "idle" => dq'[x].n \in Names)
    BY <1>1, <1>8, LookupMoves
  <1> QED
    BY <1>7, <1>8, <1>9 DEF DnsInv

\* Tick keeps DnsInv.
LEMMA TickKeeps == DnsInv /\ Tick => DnsInv'
  <1> SUFFICES ASSUME DnsInv, Tick PROVE DnsInv'
    OBVIOUS
  <1>1. UNCHANGED <<cache, dq>> /\ now' = now + 1 /\ now < MaxTime
    BY DEF Tick
  <1>2. now' \in 1 .. MaxTime /\ CacheBounded'
    BY <1>1, CacheShrinks, EdgeAssumption DEF DnsInv
  <1>3. \A c \in Clients : dq[c].at \in Nat
    BY DEF DnsInv, Lookups
  <1> QED
    BY <1>1, <1>2, <1>3 DEF DnsInv

\* DnsNext keeps DnsInv.
LEMMA DnsNextKeeps ==
    ASSUME DnsInv, DnsNext
    PROVE  DnsInv' /\ UNCHANGED ingressVars
  <1>1. DnsInv'
    BY ServeDnsKeeps, DeleteExpiredKeeps, ExchangeKeeps, PutKeeps, TickKeeps DEF DnsNext
  <1>2. UNCHANGED ingressVars
    BY DEF DnsNext, ServeDns, DeleteExpired, Exchange, Put, Tick
  <1> QED
    BY <1>1, <1>2

\* A step of the gateway keeps the DNS proxy's invariant.
LEMMA DnsUntouched ==
    ASSUME DnsInv, UNCHANGED dnsVars
    PROVE  DnsInv'
  BY DEF dnsVars, DnsInv, CacheBounded, Cached

-----------------------------------------------------------------------------
EdgeInv == IngressInv /\ DnsInv

\* The invariants of gateway and DNS proxy hold at the start.
LEMMA EdgeStarts == EdgeInit => EdgeInv
  <1> SUFFICES ASSUME EdgeInit PROVE EdgeInv
    OBVIOUS
  <1>1. \A t \in Threads : thr[t] = NoThr
    BY DEF EdgeInit
  <1>2. \A t \in Threads : thr[t].pc = "idle"
    BY <1>1, EntriesTyped
  <1>3. back \in [Backends -> Nat]
    BY EdgeAssumption, FS_CardinalityType DEF EdgeInit
  <1>4. IngressTyped
    BY <1>2, <1>3, EntriesTyped DEF EdgeInit, IngressTyped
  <1>5. CertsSafe
    BY <1>2, EntriesTyped DEF EdgeInit, CertsSafe, TLSHostHasCert, Deleting
  <1>6. ListIsCurrent /\ RoutedToBackend
    BY <1>2 DEF ListIsCurrent, RoutedToBackend
  <1>7. CacheBounded
    <2>1. {n \in Names : Cached(n)} = {}
      BY DEF EdgeInit, Cached
    <2>2. Cardinality({}) = 0
      BY FS_EmptySet
    <2> QED
      BY <2>1, <2>2, EdgeAssumption DEF CacheBounded
  <1>8. Asleep \in Lookups /\ Asleep.pc = "idle" /\ Asleep.at = 0
    BY DEF Asleep, Lookups, LookupPcs
  <1>9. DnsInv
    BY <1>7, <1>8, EdgeAssumption DEF EdgeInit, DnsInv
  <1> QED
    BY <1>4, <1>5, <1>6, <1>9 DEF IngressInv, EdgeInv

\* Every step of gateway or DNS proxy keeps both invariants.
LEMMA EdgeStep == EdgeInv /\ [IngressNext \/ DnsNext]_edgeVars => EdgeInv'
  <1> SUFFICES ASSUME EdgeInv, [IngressNext \/ DnsNext]_edgeVars PROVE EdgeInv'
    OBVIOUS
  <1>1. CASE IngressNext
    BY <1>1, IngressNextKeeps, DnsUntouched DEF EdgeInv
  <1>2. CASE DnsNext
    BY <1>2, DnsNextKeeps, IngressUntouched DEF EdgeInv
  <1>3. CASE UNCHANGED edgeVars
    <2>1. UNCHANGED ingressVars /\ UNCHANGED dnsVars
      BY <1>3 DEF edgeVars, ingressVars, dnsVars
    <2> QED
      BY <2>1, IngressUntouched, DnsUntouched DEF EdgeInv
  <1> QED
    BY <1>1, <1>2, <1>3

\* Hence they hold in every state.
LEMMA EdgeInvariant == EdgeSpec => []EdgeInv
  BY EdgeStarts, EdgeStep, PTL DEF EdgeSpec

\* However applies, deletes and handshakes overlap, a TLS host of a stored
\* ingress keeps its certificate; a request during which nothing changed goes
\* to a backend of its route; the DNS cache keeps its limit.
THEOREM EdgeStaysSound == EdgeSpec => []EdgeSound
  <1>1. ASSUME EdgeInv PROVE EdgeSound
    <2>1. TLSHostHasCert /\ RoutedToBackend /\ CacheBounded
      BY <1>1 DEF EdgeInv, IngressInv, CertsSafe, DnsInv
    <2>2. ing \in [Ingresses -> IngressSpecs \cup {NoIng}] /\ certs \subseteq Hosts /\ back \in [Backends -> Nat]
      BY <1>1 DEF EdgeInv, IngressInv, IngressTyped, Entries
    <2>3. cache \in [Names -> 0 .. MaxTime + Ttl]
      BY <1>1 DEF EdgeInv, DnsInv
    <2>4. \A t \in Threads : thr[t].pc \in ThreadPcs
      BY <1>1 DEF EdgeInv, IngressInv, IngressTyped, Requests
    <2>5. \A c \in Clients : dq[c].pc \in LookupPcs
      BY <1>1 DEF EdgeInv, DnsInv, Lookups
    <2>6. EdgeTypeOK
      BY <2>2, <2>3, <2>4, <2>5 DEF EdgeTypeOK, ThreadPcs, LookupPcs
    <2> QED
      BY <2>1, <2>6 DEF EdgeSound
  <1> QED
    BY <1>1, EdgeInvariant, PTL

\* A lookup is answered from the cache only while the answer has not expired,
\* and a query that clears an expired answer after another has put a fresh
\* one there does not drop the fresh one.
THEOREM EdgeCacheIsHonest == EdgeSpec => CacheHonest
  <1>1. ASSUME EdgeInv, [IngressNext \/ DnsNext]_edgeVars, NEW c \in Clients, dq'[c].pc = "hit", dq[c] # dq'[c]
        PROVE  cache[dq'[c].n] >= dq'[c].at
    <2>1. dq' # dq
      BY <1>1
    <2>2. DnsNext
      BY <1>1, <2>1, IngressNextKeeps DEF edgeVars, dnsVars, EdgeInv
    <2>3. ASSUME NEW x \in Clients, NEW n \in Names, ServeDns(x, n) PROVE cache[dq'[c].n] >= dq'[c].at
      <3>1. x = c
        BY <1>1, <2>3 DEF ServeDns, EdgeInv, DnsInv
      <3>2. PICK pc : /\ dq' = [dq EXCEPT ![c] = [Asleep EXCEPT !.n = n, !.at = now, !.pc = pc]]
                      /\ pc = CASE IsLocalName(n) -> "local"
                                [] ~IsLocalName(n) /\ ~Cached(n) -> "ask"
                                [] OTHER -> IF now > cache[n] THEN "expired" ELSE "hit"
        BY <2>3, <3>1 DEF ServeDns
      <3>3. dq'[c] = [pc |-> pc, n |-> n, at |-> now]
        BY <1>1, <3>2 DEF EdgeInv, DnsInv, Asleep
      <3>4. dq'[c].pc = pc /\ dq'[c].n = n /\ dq'[c].at = now /\ pc = "hit"
        BY <1>1, <3>3
      <3>5. ~(now > cache[n])
        BY <3>2, <3>4
      <3>6. now \in Nat /\ cache[n] \in Nat
        BY <1>1, EdgeAssumption DEF EdgeInv, DnsInv
      <3> QED
        BY <3>4, <3>5, <3>6
    <2>4. ASSUME NEW x \in Clients, NEW pc \in LookupPcs \ {"hit"}, dq' = [dq EXCEPT ![x].pc = pc] PROVE FALSE
      <3>1. CASE x = c
        <4>1. PICK q \in Lookups : q = dq[c]
          BY <1>1 DEF EdgeInv, DnsInv
        <4>2. dq'[c] = [q EXCEPT !.pc = pc]
          BY <1>1, <2>4, <3>1, <4>1 DEF EdgeInv, DnsInv
        <4>3. dq'[c].pc = pc
          BY <4>2 DEF Lookups
        <4> QED
          BY <1>1, <2>4, <4>3
      <3>2. CASE x # c
        BY <1>1, <2>4, <3>2 DEF EdgeInv, DnsInv
      <3> QED
        BY <3>1, <3>2
    <2>5. \/ \E x \in Clients, n \in Names : ServeDns(x, n)
          \/ \E x \in Clients : \E pc \in LookupPcs \ {"hit"} : dq' = [dq EXCEPT ![x].pc = pc]
      BY <2>1, <2>2 DEF DnsNext, DeleteExpired, Exchange, Put, Tick, LookupPcs
    <2> QED
      BY <2>3, <2>4, <2>5
  <1>2. ASSUME EdgeInv, [IngressNext \/ DnsNext]_edgeVars, NEW n \in Names, cache[n] >= now, cache'[n] = 0
        PROVE  \E c \in Clients : At(c, "put") /\ dq[c] # dq'[c]
    <2>1. now \in Nat \ {0} /\ cache[n] \in Nat /\ \A x \in Clients : dq[x].at \in Nat /\ dq[x].at <= now
      <3>1. \A x \in Clients : dq[x] \in Lookups /\ dq[x].at <= now
        BY <1>2 DEF EdgeInv, DnsInv
      <3>2. \A x \in Clients : dq[x].at \in Nat
        BY <3>1 DEF Lookups
      <3>3. now \in Nat \ {0} /\ cache[n] \in Nat
        BY <1>2, EdgeAssumption DEF EdgeInv, DnsInv
      <3> QED
        BY <3>1, <3>2, <3>3
    <2>2. cache[n] # 0 /\ cache' # cache
      BY <1>2, <2>1
    <2>3. DnsNext
      BY <1>2, <2>2, IngressNextKeeps DEF edgeVars, dnsVars, EdgeInv
    <2>4. ASSUME NEW x \in Clients, DeleteExpired(x) PROVE FALSE
      <3>1. Cached(dq[x].n) /\ dq[x].at > cache[dq[x].n] /\ cache' = [cache EXCEPT ![dq[x].n] = 0]
        BY <2>2, <2>4 DEF DeleteExpired
      <3>2. dq[x].n = n
        BY <1>2, <2>2, <3>1 DEF EdgeInv, DnsInv
      <3> QED
        BY <1>2, <2>1, <3>1, <3>2
    <2>5. ASSUME NEW x \in Clients, Put(x) PROVE At(x, "put") /\ dq[x] # dq'[x]
      <3>1. At(x, "put") /\ dq' = [dq EXCEPT ![x].pc = "answered"]
        BY <2>5 DEF Put
      <3>2. PICK q \in Lookups : q = dq[x]
        BY <1>2 DEF EdgeInv, DnsInv
      <3>3. dq'[x] = [q EXCEPT !.pc = "answered"] /\ q.pc = "put"
        BY <1>2, <3>1, <3>2 DEF EdgeInv, DnsInv, At
      <3>4. dq'[x].pc = "answered"
        BY <3>3 DEF Lookups
      <3> QED
        BY <3>1, <3>2, <3>3, <3>4
    <2> QED
      BY <2>2, <2>3, <2>4, <2>5 DEF DnsNext, ServeDns, Exchange, Tick
  <1>3. EdgeInv /\ [IngressNext \/ DnsNext]_edgeVars
            => [\A c \in Clients : dq'[c].pc = "hit" /\ dq[c] # dq'[c] => cache[dq'[c].n] >= dq'[c].at]_edgeVars
    BY <1>1
  <1>4. EdgeInv /\ [IngressNext \/ DnsNext]_edgeVars
            => [\A n \in Names : cache[n] >= now /\ cache'[n] = 0 => \E c \in Clients : At(c, "put") /\ dq[c] # dq'[c]]_edgeVars
    BY <1>2
  <1>5. EdgeSpec => HitIsFresh
    BY <1>3, EdgeInvariant, PTL DEF EdgeSpec, HitIsFresh
  <1>6. EdgeSpec => FreshStays
    BY <1>4, EdgeInvariant, PTL DEF EdgeSpec, FreshStays
  <1> QED
    BY <1>5, <1>6 DEF CacheHonest

-----------------------------------------------------------------------------
(***************************************************************************)
(* Services: the store                                                      *)
(***************************************************************************)
AllSpecs == Specs \ {NoSpec}
Updates == {NoUpd} \cup [old : AllSpecs, new : AllSpecs]
Keyed == [spec : Specs, eps : SUBSET Addrs]

PassType == [on : BOOLEAN, svcs : [Services -> Specs], pods : SUBSET Pods, todo : SUBSET Services]

\* An update holds two entries; what the controller remembers is a service,
\* and it is at work only when it is up.
StoreTyped ==
    /\ svc \in [Services -> Specs] /\ upd \in [Services -> Updates]
    /\ pod \in [Pods -> [run : BOOLEAN, addr : Addrs \cup {NoAddr}, members : BOOLEAN]]
    /\ chainOf \in [Services -> ChainNames] /\ wanted \subseteq Services
CtlTyped ==
    /\ chains \subseteq Keys /\ jumps \subseteq Keys \X (-1 .. CidrSize) /\ rules \subseteq Keys \X Addrs
    /\ last \in [Services -> Keyed] /\ pass \in PassType
    /\ \A s \in pass.todo : pass.svcs[s] # NoSpec
    /\ \A s \in Services : last[s] # NoKey => last[s].spec # NoSpec
    /\ pass.on => up
    /\ ~up => \A s \in Services : last[s] = NoKey

\* Every chain, jump and rule is one that the last recorded state of some
\* service, in whole or in part, has put there, or under a name where a failing
\* clean-up left something.
Known == {s \in Services : last[s] # NoKey}
AllOwned ==
    up =>
        /\ \A k \in chains : k[2] \in littered \/ \E s \in Known : k \in KeysOf(s, last[s].spec)
        /\ \A j \in jumps : j[1][2] \in littered \/ \E s \in Known : j \in JumpsOf(s, last[s].spec)
        /\ \A r \in rules : r[1][2] \in littered \/ \E s \in Known : r[1] \in KeysOf(s, last[s].spec)

StoreInv == StoreTyped /\ ServicesSound
RulesInv == CtlTyped /\ AllOwned /\ InstalledAsRecorded
EndpointsInv == StoreInv /\ RulesInv

\* The records that stand for nothing have the shapes the type invariants ask.
LEMMA NoneTyped ==
    /\ NoSpec \in Specs /\ NoSpec.type = "none" /\ NoSpec.ip = 0
    /\ NoUpd \in Updates /\ NoUpd \in [old : Specs, new : Specs] /\ NoUpd.new = NoSpec
    /\ NoKey \in Keyed /\ NoKey.spec = NoSpec
    /\ NoPass \in PassType
    /\ NoPass.on = FALSE /\ NoPass.todo = {}
    /\ [old : AllSpecs, new : AllSpecs] \subseteq [old : Specs, new : Specs]
  BY DEF NoSpec, Specs, NoUpd, Updates, NoKey, Keyed, NoPass, PassType, AllSpecs

\* What a manifest asks for, with an address of the service network, and what
\* the store writes for it.
LEMMA WithAddress ==
    ASSUME NEW m \in Manifests \cup AllSpecs, NEW i \in 0 .. CidrSize - 1
    PROVE  /\ [m EXCEPT !.ip = i] \in AllSpecs /\ [m EXCEPT !.ip = i].ip = i
           /\ [m EXCEPT !.ip = i].type = m.type
           /\ m \in AllSpecs /\ m.ip \in 0 .. CidrSize - 1 /\ m.type \in {"ClusterIP", "NodePort"}
  <1>1. m \in [ports : {x.ports : x \in Manifests}, type : {"ClusterIP", "NodePort"}, ip : 0 .. CidrSize - 1]
    BY EndpointsAssumption DEF AllSpecs, Specs
  <1>2. PICK e : e = [m EXCEPT !.ip = i]
    OBVIOUS
  <1>3. /\ e \in [ports : {x.ports : x \in Manifests}, type : {"ClusterIP", "NodePort"}, ip : 0 .. CidrSize - 1]
        /\ e.ip = i /\ e.type = m.type
    BY <1>1, <1>2
  <1>4. m.type # "none" /\ e.type # "none"
    BY <1>1, <1>3
  <1>5. m # NoSpec /\ e # NoSpec
    BY <1>4 DEF NoSpec
  <1> QED
    BY <1>1, <1>2, <1>3, <1>5 DEF AllSpecs, Specs

\* What is on record of a service is a specification with an address of the pool.
LEMMA StoredEntries ==
    ASSUME NEW m \in AllSpecs, NEW e \in Stored(m)
    PROVE  /\ e \in AllSpecs
           /\ e.type = "ClusterIP" => e.ip \in FreeIPs
  <1>1. CASE m.type = "ClusterIP"
    <2>1. PICK i \in AllocateClusterIP(m.ip) : e = [m EXCEPT !.ip = i]
      BY <1>1 DEF Stored
    <2>2. i \in FreeIPs /\ i \in 0 .. CidrSize - 1
      BY <2>1 DEF AllocateClusterIP, FreeIPs
    <2> QED
      BY <2>1, <2>2, WithAddress
  <1>2. CASE m.type # "ClusterIP"
    BY <1>2 DEF Stored
  <1> QED
    BY <1>1, <1>2

\* An entry of the store is written or removed.
LEMMA AddressesStayDistinct ==
    ASSUME StoreInv, NEW s \in Services, NEW e \in Specs, svc' = [svc EXCEPT ![s] = e],
           e.type = "ClusterIP" => e.ip \in FreeIPs
    PROVE  ClusterIPsDistinct' /\ svc' \in [Services -> Specs]
  <1>1. svc' \in [Services -> Specs]
    BY DEF StoreInv, StoreTyped
  <1>2. e.type = "ClusterIP" => e.ip \notin Reserved /\ \A t \in Services : svc[t].ip # e.ip
    BY DEF FreeIPs, UsedIPs, Reserved
  <1>3. \A t \in Services : svc'[t] = IF t = s THEN e ELSE svc[t]
    BY DEF StoreInv, StoreTyped
  <1>4. ASSUME NEW t \in Services, svc'[t].type = "ClusterIP"
        PROVE  /\ svc'[t].ip \notin Reserved
               /\ \A u \in Services \ {t} : svc'[u].type = "ClusterIP" => svc'[u].ip # svc'[t].ip
    BY <1>2, <1>3, <1>4 DEF StoreInv, ServicesSound, ClusterIPsDistinct
  <1>5. Reserved' = Reserved
    BY DEF Reserved
  <1> QED
    BY <1>1, <1>4, <1>5 DEF ClusterIPsDistinct

\* ApplyNewService keeps StoreInv.
LEMMA ApplyNewServiceKeeps ==
    ASSUME StoreInv, NEW s \in Services, NEW m \in Manifests, ApplyNewService(s, m)
    PROVE  StoreInv'
  <1>1. UNCHANGED <<upd, pod, chainOf, robbed>>
    BY DEF ApplyNewService
  <1>2. CASE UNCHANGED <<svc, wanted>>
    BY <1>1, <1>2 DEF StoreInv, StoreTyped, ServicesSound, ClusterIPsDistinct, ServiceKept, Reserved
  <1>3. ASSUME NEW e \in Stored(m), svc' = [svc EXCEPT ![s] = e], wanted' = wanted \cup {s} PROVE StoreInv'
    <2>1. 0 \in 0 .. CidrSize - 1 \/ m \in AllSpecs
      BY WithAddress, EndpointsAssumption
    <2>2. m \in AllSpecs
      <3>1. m.ip \in 0 .. CidrSize - 1
        BY EndpointsAssumption
      <3> QED
        BY <3>1, WithAddress
    <2>3. e \in AllSpecs /\ e \in Specs /\ e # NoSpec /\ (e.type = "ClusterIP" => e.ip \in FreeIPs)
      BY <1>3, <2>2, StoredEntries DEF AllSpecs
    <2>4. ClusterIPsDistinct' /\ svc' \in [Services -> Specs]
      BY <1>3, <2>3, AddressesStayDistinct
    <2>5. ServiceKept'
      BY <1>1, <1>3, <2>3 DEF StoreInv, StoreTyped, ServicesSound, ServiceKept
    <2> QED
      BY <1>1, <1>3, <2>4, <2>5 DEF StoreInv, StoreTyped, ServicesSound
  <1> QED
    BY <1>2, <1>3 DEF ApplyNewService

\* ApplyService keeps StoreInv.
LEMMA ApplyServiceKeeps ==
    ASSUME StoreInv, NEW s \in Services, NEW m \in Manifests, ApplyService(s, m)
    PROVE  StoreInv'
  <1>1. PICK old \in AllSpecs : old = svc[s]
    BY DEF ApplyService, StoreInv, StoreTyped, AllSpecs
  <1>2. m.ip \in 0 .. CidrSize - 1
    BY EndpointsAssumption
  <1>3. PICK i : i = IF m.ip = 0 THEN old.ip ELSE m.ip
    OBVIOUS
  <1>4. old.ip \in 0 .. CidrSize - 1
    BY <1>2, WithAddress
  <1>5. i \in 0 .. CidrSize - 1
    BY <1>2, <1>3, <1>4
  <1>6. PICK new : new = [m EXCEPT !.ip = i]
    OBVIOUS
  <1>7. new \in AllSpecs
    BY <1>5, <1>6, WithAddress
  <1>8. PICK u : u = [old |-> old, new |-> new]
    OBVIOUS
  <1>9. u \in Updates /\ u # NoUpd
    <2>1. u \in [old : AllSpecs, new : AllSpecs] /\ u.new # NoSpec
      BY <1>7, <1>8 DEF AllSpecs
    <2> QED
      BY <2>1, NoneTyped DEF Updates
  <1>10. /\ svc' = [svc EXCEPT ![s] = NoSpec] /\ upd' = [upd EXCEPT ![s] = u]
         /\ UNCHANGED <<pod, chainOf, wanted, robbed>>
    BY <1>1, <1>3, <1>6, <1>8 DEF ApplyService
  <1>11. ClusterIPsDistinct' /\ svc' \in [Services -> Specs]
    BY <1>10, NoneTyped, AddressesStayDistinct
  <1>12. ServiceKept'
    BY <1>9, <1>10 DEF StoreInv, StoreTyped, ServicesSound, ServiceKept
  <1> QED
    BY <1>9, <1>10, <1>11, <1>12 DEF StoreInv, StoreTyped, ServicesSound

\* The update stores the new entry, the old one again, or neither.
LEMMA StoreUpdatedKeeps ==
    ASSUME StoreInv, NEW s \in Services, StoreUpdated(s)
    PROVE  StoreInv'
  <1>1. PICK u \in [old : AllSpecs, new : AllSpecs] : u = upd[s]
    BY DEF StoreUpdated, StoreInv, StoreTyped, Updates
  <1>2. u.old \in AllSpecs /\ u.new \in AllSpecs
    OBVIOUS
  <1>3. upd' = [upd EXCEPT ![s] = NoUpd] /\ UNCHANGED <<pod, chainOf, wanted>>
    BY DEF StoreUpdated
  <1>4. upd' \in [Services -> Updates]
    BY <1>3, NoneTyped DEF StoreInv, StoreTyped
  <1>5. ASSUME NEW m \in AllSpecs, NEW e \in Stored(m), svc' = [svc EXCEPT ![s] = e], UNCHANGED robbed PROVE StoreInv'
    <2>1. e \in Specs /\ e # NoSpec /\ (e.type = "ClusterIP" => e.ip \in FreeIPs)
      BY <1>5, StoredEntries DEF AllSpecs
    <2>2. ClusterIPsDistinct' /\ svc' \in [Services -> Specs]
      BY <1>5, <2>1, AddressesStayDistinct
    <2>3. ServiceKept'
      BY <1>3, <1>5, <2>1 DEF StoreInv, StoreTyped, ServicesSound, ServiceKept
    <2> QED
      BY <1>3, <1>4, <2>2, <2>3 DEF StoreInv, StoreTyped, ServicesSound
  <1>6. CASE UNCHANGED svc /\ robbed' = robbed \cup {s}
    <2>1. ServiceKept'
      BY <1>3, <1>6 DEF StoreInv, StoreTyped, ServicesSound, ServiceKept
    <2>2. ClusterIPsDistinct'
      BY <1>6 DEF StoreInv, ServicesSound, ClusterIPsDistinct, Reserved
    <2> QED
      BY <1>3, <1>4, <1>6, <2>1, <2>2 DEF StoreInv, StoreTyped, ServicesSound
  <1>7. \/ \E m \in AllSpecs : \E e \in Stored(m) : svc' = [svc EXCEPT ![s] = e] /\ UNCHANGED robbed
        \/ UNCHANGED svc /\ robbed' = robbed \cup {s}
    BY <1>1, <1>2 DEF StoreUpdated
  <1> QED
    BY <1>5, <1>6, <1>7

\* DeleteService keeps StoreInv.
LEMMA DeleteServiceKeeps ==
    ASSUME StoreInv, NEW s \in Services, DeleteService(s)
    PROVE  StoreInv'
  <1>1. /\ svc' = [svc EXCEPT ![s] = NoSpec] /\ wanted' = wanted \ {s} /\ robbed' = robbed \ {s}
        /\ UNCHANGED <<upd, pod, chainOf>>
    BY DEF DeleteService
  <1>2. ClusterIPsDistinct' /\ svc' \in [Services -> Specs]
    BY <1>1, NoneTyped, AddressesStayDistinct
  <1>3. ServiceKept'
    BY <1>1 DEF StoreInv, StoreTyped, ServicesSound, ServiceKept
  <1> QED
    BY <1>1, <1>2, <1>3 DEF StoreInv, StoreTyped, ServicesSound

\* A crash keeps what is on record.
LEMMA CrashKeepsStore ==
    ASSUME StoreInv, Crash
    PROVE  StoreInv'
  <1>1. /\ upd' = [x \in Services |-> NoUpd] /\ robbed' = robbed \cup {x \in Services : upd[x] # NoUpd}
        /\ UNCHANGED <<svc, pod, chainOf, wanted>>
    BY DEF Crash
  <1>2. upd' \in [Services -> Updates]
    BY <1>1, NoneTyped
  <1>3. ServiceKept'
    BY <1>1 DEF StoreInv, StoreTyped, ServicesSound, ServiceKept
  <1>4. ClusterIPsDistinct'
    BY <1>1 DEF StoreInv, ServicesSound, ClusterIPsDistinct, Reserved
  <1> QED
    BY <1>1, <1>2, <1>3, <1>4 DEF StoreInv, StoreTyped, ServicesSound

\* PodChanges keeps StoreInv.
LEMMA PodChangesKeeps ==
    ASSUME StoreInv, NEW p \in Pods, PodChanges(p)
    PROVE  StoreInv'
  <1>1. UNCHANGED <<svc, upd, wanted, robbed, chainOf>>
    BY DEF PodChanges, store
  <1>2. pod' \in [Pods -> [run : BOOLEAN, addr : Addrs \cup {NoAddr}, members : BOOLEAN]]
    <2>1. PICK r \in [run : BOOLEAN, addr : Addrs \cup {NoAddr}, members : BOOLEAN] : r = pod[p]
      BY DEF StoreInv, StoreTyped
    <2>2. \E q \in [run : BOOLEAN, addr : Addrs \cup {NoAddr}, members : BOOLEAN] : pod' = [pod EXCEPT ![p] = q]
      <3>1. CASE pod' = [pod EXCEPT ![p].run = ~@]
        <4>1. pod' = [pod EXCEPT ![p] = [r EXCEPT !.run = ~r.run]]
          BY <2>1, <3>1
        <4> QED
          BY <4>1
      <3>2. CASE pod' = [pod EXCEPT ![p].members = ~@]
        <4>1. pod' = [pod EXCEPT ![p] = [r EXCEPT !.members = ~r.members]]
          BY <2>1, <3>2
        <4> QED
          BY <4>1
      <3>3. ASSUME NEW a \in Addrs \cup {NoAddr}, pod' = [pod EXCEPT ![p].addr = a]
            PROVE  \E q \in [run : BOOLEAN, addr : Addrs \cup {NoAddr}, members : BOOLEAN] : pod' = [pod EXCEPT ![p] = q]
        <4>1. pod' = [pod EXCEPT ![p] = [r EXCEPT !.addr = a]]
          BY <2>1, <3>3
        <4> QED
          BY <4>1
      <3> QED
        BY <3>1, <3>2, <3>3 DEF PodChanges
    <2> QED
      BY <2>2 DEF StoreInv, StoreTyped
  <1> QED
    BY <1>1, <1>2 DEF StoreInv, StoreTyped, ServicesSound, ClusterIPsDistinct, ServiceKept, Reserved

\* The controller only reads the store and the pods.
LEMMA ControllerKeepsStore ==
    ASSUME StoreInv, ControllerStep \/ UNCHANGED epVars
    PROVE  StoreInv'
  <1>1. UNCHANGED <<svc, upd, wanted, robbed, pod, chainOf>>
    BY DEF epVars, store, ControllerStep, StartController, ListServices, ReconcileService, CleanupRemoved, EndPass
  <1> QED
    BY <1>1 DEF StoreInv, StoreTyped, ServicesSound, ClusterIPsDistinct, ServiceKept, Reserved

-----------------------------------------------------------------------------
(***************************************************************************)
(* Services: the rules                                                      *)
(***************************************************************************)
\* The names a service uses are its own, and two services share one only when
\* they share the name of their chains.
LEMMA NamesOfService ==
    ASSUME StoreTyped, NEW s \in Services, NEW spec \in Specs
    PROVE  /\ KeysOf(s, spec) \subseteq Mine(s)
           /\ Mine(s) \subseteq Keys /\ \A k \in Keys : k \in Mine(s) <=> k[2] = chainOf[s]
           /\ JumpsOf(s, spec) \subseteq Keys \X (-1 .. CidrSize)
           /\ \A j \in JumpsOf(s, spec) : j[1] \in KeysOf(s, spec)
  <1>1. chainOf[s] \in ChainNames /\ CidrSize \in Nat
    BY EndpointsAssumption DEF StoreTyped
  <1>2. /\ spec.ports \in {m.ports : m \in Manifests} \cup {{}}
        /\ spec.type \in {"ClusterIP", "NodePort", "none"} /\ (spec.type = "ClusterIP" => spec.ip \in 0 .. CidrSize - 1)
    BY DEF Specs, NoSpec
  <1>3. spec.ports \subseteq UNION {m.ports : m \in Manifests}
    BY <1>2
  <1>4. Fwd(s) \in Keys /\ Snat(s) \in Keys /\ \A p \in spec.ports : Port(s, p) \in Keys
    BY <1>1, <1>3 DEF Fwd, Snat, Port, Keys
  <1>5. Fwd(s)[2] = chainOf[s] /\ Snat(s)[2] = chainOf[s] /\ \A p \in spec.ports : Port(s, p)[2] = chainOf[s]
    BY DEF Fwd, Snat, Port
  <1>6. KeysOf(s, spec) \subseteq Keys /\ \A k \in KeysOf(s, spec) : k[2] = chainOf[s]
    BY <1>4, <1>5 DEF KeysOf
  <1>7. Dest(spec) \in -1 .. CidrSize
    BY <1>1, <1>2 DEF Dest
  <1>8. \A j \in JumpsOf(s, spec) : \E k \in KeysOf(s, spec), d \in {0, Dest(spec)} : j = <<k, d>>
    BY DEF JumpsOf, KeysOf
  <1>9. 0 \in -1 .. CidrSize
    BY <1>1
  <1>10. JumpsOf(s, spec) \subseteq Keys \X (-1 .. CidrSize)
    <2> SUFFICES ASSUME NEW j \in JumpsOf(s, spec) PROVE j \in Keys \X (-1 .. CidrSize)
      OBVIOUS
    <2>1. PICK k \in KeysOf(s, spec), d \in {0, Dest(spec)} : j = <<k, d>>
      BY <1>8
    <2> QED
      BY <2>1, <1>6, <1>7, <1>9
  <1>11. \A j \in JumpsOf(s, spec) : j[1] \in KeysOf(s, spec)
    BY <1>8
  <1> QED
    BY <1>6, <1>10, <1>11 DEF Mine

\* Names of a service that shares its chains with none are no other's.
LEMMA OwnNames ==
    ASSUME StoreTyped, NEW s \in Services, OwnChains(s), NEW t \in Services \ {s}
    PROVE  Mine(s) \cap Mine(t) = {} /\ \A spec \in Specs : KeysOf(t, spec) \cap Mine(s) = {}
  <1>1. Mine(s) \cap Mine(t) = {}
    BY DEF OwnChains, Mine
  <1>2. \A spec \in Specs : KeysOf(t, spec) \subseteq Mine(t)
    BY NamesOfService
  <1> QED
    BY <1>1, <1>2

\* What a clean-up of a service's old rules takes away and leaves, whatever
\* commands of it fail.
LEMMA CleanupTakes ==
    ASSUME StoreTyped, NEW s \in Services, NEW old \in Specs, NEW kept, NEW cs, NEW js, NEW rs,
           [chains |-> cs, jumps |-> js, rules |-> rs] = CleanedService(s, old, kept)
    PROVE  /\ cs \subseteq chains /\ js \subseteq jumps /\ rs \subseteq rules
           /\ \A k \in chains : k \notin Mine(s) => k \in cs
           /\ \A j \in jumps : j[1] \notin Mine(s) => j \in js
           /\ \A r \in rules : r[1] \notin Mine(s) => r \in rs
           /\ old = NoSpec => cs = chains /\ js = jumps /\ rs = rules
           /\ kept = {} /\ old # NoSpec => /\ js = jumps \ JumpsOf(s, old)
                                          /\ rs = {r \in rules : r[1] \notin KeysOf(s, old)}
                                          /\ \A k \in cs : k \in KeysOf(s, old) => \E j \in js : j[1] = k
  <1>1. KeysOf(s, old) \subseteq Mine(s) /\ \A j \in JumpsOf(s, old) : j[1] \in KeysOf(s, old)
    BY NamesOfService
  <1>2. PICK K, J : /\ K = Former(s, old) /\ J = IF old = NoSpec THEN {} ELSE JumpsOf(s, old)
    OBVIOUS
  <1>3. /\ js = {j \in jumps : j \in J => <<"-D", j[1]>> \in kept}
        /\ rs = {r \in rules : r[1] \in K => <<"-F", r[1]>> \in kept}
        /\ cs = {k \in chains : k \in K => \/ <<"-X", k>> \in kept
                                           \/ \E j \in js : j[1] = k
                                           \/ \E r \in rs : r[1] = k}
    BY <1>2 DEF CleanedService, Cleaned
  <1>4. CASE old = NoSpec
    <2>1. K = {} /\ J = {}
      BY <1>2, <1>4 DEF Former
    <2> QED
      BY <1>3, <1>4, <2>1
  <1>5. CASE old # NoSpec
    <2>1. K = KeysOf(s, old) /\ J = JumpsOf(s, old)
      BY <1>2, <1>5 DEF Former
    <2>2. kept = {} => \A k \in cs : k \in KeysOf(s, old) => \E j \in js : j[1] = k
      BY <1>3, <2>1
    <2> QED
      BY <1>1, <1>3, <1>5, <2>1, <2>2
  <1> QED
    BY <1>4, <1>5

LitterOf(s, kept) == IF kept = {} THEN littered ELSE littered \cup {chainOf[s]}

\* After the clean-up of a service everything left belongs to another, or has
\* a name where a failing clean-up left something.
LEMMA CleanupLeaves ==
    ASSUME StoreInv, RulesInv, up, NEW s \in Services, NEW old \in Specs, old = last[s].spec,
           NEW kept, NEW cs, NEW js, NEW rs, NEW left,
           [chains |-> cs, jumps |-> js, rules |-> rs] = CleanedService(s, old, kept),
           left = LitterOf(s, kept)
    PROVE  /\ \A k \in cs : k[2] \in left \/ \E t \in Known \ {s} : k \in KeysOf(t, last[t].spec)
           /\ \A j \in js : j[1][2] \in left \/ \E t \in Known \ {s} : j \in JumpsOf(t, last[t].spec)
           /\ \A r \in rs : r[1][2] \in left \/ \E t \in Known \ {s} : r[1] \in KeysOf(t, last[t].spec)
  <1>1. /\ \A k \in chains : k[2] \in littered \/ \E t \in Known : k \in KeysOf(t, last[t].spec)
        /\ \A j \in jumps : j[1][2] \in littered \/ \E t \in Known : j \in JumpsOf(t, last[t].spec)
        /\ \A r \in rules : r[1][2] \in littered \/ \E t \in Known : r[1] \in KeysOf(t, last[t].spec)
    BY DEF RulesInv, AllOwned
  <1>2. StoreTyped /\ littered \subseteq left
    BY DEF StoreInv, LitterOf
  <1>3. /\ cs \subseteq chains /\ js \subseteq jumps /\ rs \subseteq rules
        /\ old = NoSpec => cs = chains /\ js = jumps /\ rs = rules
        /\ kept = {} /\ old # NoSpec => /\ js = jumps \ JumpsOf(s, old)
                                       /\ rs = {r \in rules : r[1] \notin KeysOf(s, old)}
                                       /\ \A k \in cs : k \in KeysOf(s, old) => \E j \in js : j[1] = k
    BY <1>2, CleanupTakes
  <1>4. CASE old = NoSpec
    <2>1. s \notin Known
      BY <1>4 DEF RulesInv, CtlTyped, Known
    <2> QED
      BY <1>1, <1>2, <1>3, <1>4, <2>1
  <1>5. CASE old # NoSpec /\ kept # {}
    <2>1. chainOf[s] \in left
      BY <1>5 DEF LitterOf
    <2>2. /\ \A k \in KeysOf(s, old) : k[2] = chainOf[s]
          /\ \A j \in JumpsOf(s, old) : j[1] \in KeysOf(s, old)
      BY <1>2, NamesOfService DEF Mine
    <2> QED
      BY <1>1, <1>2, <1>3, <2>1, <2>2
  <1>6. CASE old # NoSpec /\ kept = {}
    <2>1. js = jumps \ JumpsOf(s, old) /\ rs = {r \in rules : r[1] \notin KeysOf(s, old)}
      BY <1>3, <1>6
    <2>2. \A j \in js : j[1][2] \in left \/ \E t \in Known \ {s} : j \in JumpsOf(t, last[t].spec)
      BY <1>1, <1>2, <2>1
    <2>3. \A r \in rs : r[1][2] \in left \/ \E t \in Known \ {s} : r[1] \in KeysOf(t, last[t].spec)
      BY <1>1, <1>2, <2>1
    <2>4. ASSUME NEW k \in cs PROVE k[2] \in left \/ \E t \in Known \ {s} : k \in KeysOf(t, last[t].spec)
      <3>1. k \in chains /\ (k \in KeysOf(s, old) => \E j \in js : j[1] = k)
        BY <1>3, <1>6
      <3>2. CASE k \notin KeysOf(s, old)
        BY <1>1, <1>2, <3>1, <3>2
      <3>3. CASE k \in KeysOf(s, old)
        <4>1. PICK j \in js : j[1] = k
          BY <3>1, <3>3
        <4>2. CASE j[1][2] \in left
          BY <4>1, <4>2
        <4>3. ASSUME NEW t \in Known \ {s}, j \in JumpsOf(t, last[t].spec) PROVE k \in KeysOf(t, last[t].spec)
          <5>1. t \in Services /\ last[t].spec \in Specs
            BY DEF Known, RulesInv, CtlTyped, Keyed
          <5> QED
            BY <1>2, <4>1, <4>3, <5>1, NamesOfService
        <4> QED
          BY <2>2, <4>1, <4>2, <4>3
      <3> QED
        BY <3>2, <3>3
    <2> QED
      BY <2>2, <2>3, <2>4
  <1> QED
    BY <1>4, <1>5, <1>6

\* The old rules of a service are cleaned up, and those of its new key, if it
\* has one, are put there as a whole or in part; in part counts as damaged.
\* (cs, js, rs: what the clean-up leaves when the commands in kept fail.)
Replaced(s, old, key, kept, cs, js, rs) ==
    /\ [chains |-> cs, jumps |-> js, rules |-> rs] = CleanedService(s, old, kept) /\ Litter(s, kept)
    /\ key # NoKey => key.spec # NoSpec
    /\ up /\ UNCHANGED <<svc, upd, pod, chainOf, wanted, up>>
    /\ last' = [last EXCEPT ![s] = key]
    /\ pass' \in PassType /\ \A t \in pass'.todo : pass'.svcs[t] # NoSpec
    /\ cs \subseteq chains' /\ \A k \in chains' : k \in cs \/ (key # NoKey /\ k \in KeysOf(s, key.spec))
    /\ \A j \in js : j[1] \notin KeysOf(s, key.spec) => j \in jumps'
    /\ \A j \in jumps' : j \in js \/ (key # NoKey /\ j \in JumpsOf(s, key.spec))
    /\ \A r \in rs : r[1] \notin KeysOf(s, key.spec) => r \in rules'
    /\ \A r \in rules' : r \in rs \/ (key # NoKey /\ r \in RulesOf(s, key))
    /\ key # NoKey /\ s \notin damaged' =>
           /\ KeysOf(s, key.spec) \subseteq chains' /\ JumpsOf(s, key.spec) \subseteq jumps' /\ RulesOf(s, key) \subseteq rules'
           /\ \A r \in rules' : r[1] \in KeysOf(s, key.spec) => r \in RulesOf(s, key)
    /\ \A t \in Services \ {s} : t \in damaged' <=> t \in damaged

\* Taking a service's old rules out and its new ones in keeps the invariant of the rules.
LEMMA RulesReplaced ==
    ASSUME StoreInv, RulesInv, NEW s \in Services, NEW old \in Specs, old = last[s].spec,
           NEW key \in Keyed, NEW kept, NEW cs, NEW js, NEW rs, Replaced(s, old, key, kept, cs, js, rs)
    PROVE  RulesInv'
  <1>0. /\ [chains |-> cs, jumps |-> js, rules |-> rs] = CleanedService(s, old, kept)
        /\ littered' = IF kept = {} THEN littered ELSE littered \cup {chainOf[s]}
        /\ key # NoKey => key.spec # NoSpec
        /\ up /\ UNCHANGED <<svc, upd, pod, chainOf, wanted, up>>
        /\ last' = [last EXCEPT ![s] = key]
        /\ pass' \in PassType /\ \A t \in pass'.todo : pass'.svcs[t] # NoSpec
        /\ cs \subseteq chains' /\ \A k \in chains' : k \in cs \/ (key # NoKey /\ k \in KeysOf(s, key.spec))
        /\ \A j \in js : j[1] \notin KeysOf(s, key.spec) => j \in jumps'
        /\ \A j \in jumps' : j \in js \/ (key # NoKey /\ j \in JumpsOf(s, key.spec))
        /\ \A r \in rs : r[1] \notin KeysOf(s, key.spec) => r \in rules'
        /\ \A r \in rules' : r \in rs \/ (key # NoKey /\ r \in RulesOf(s, key))
        /\ key # NoKey /\ s \notin damaged' =>
               /\ KeysOf(s, key.spec) \subseteq chains' /\ JumpsOf(s, key.spec) \subseteq jumps' /\ RulesOf(s, key) \subseteq rules'
               /\ \A r \in rules' : r[1] \in KeysOf(s, key.spec) => r \in RulesOf(s, key)
        /\ \A t \in Services \ {s} : t \in damaged' <=> t \in damaged
    BY DEF Replaced, Litter
  <1> USE <1>0
  <1>1. key.spec \in Specs /\ key.eps \subseteq Addrs
    BY DEF Keyed
  <1>2. StoreTyped /\ StoreTyped'
    BY DEF StoreInv, StoreTyped
  <1>3. /\ KeysOf(s, key.spec) \subseteq Mine(s) /\ Mine(s) \subseteq Keys
        /\ \A k \in Keys : k \in Mine(s) <=> k[2] = chainOf[s]
        /\ JumpsOf(s, key.spec) \subseteq Keys \X (-1 .. CidrSize) /\ \A j \in JumpsOf(s, key.spec) : j[1] \in KeysOf(s, key.spec)
    BY <1>1, <1>2, NamesOfService
  <1>4. RulesOf(s, key) \subseteq KeysOf(s, key.spec) \X key.eps
    BY DEF RulesOf
  <1>5. /\ cs \subseteq chains /\ js \subseteq jumps /\ rs \subseteq rules
        /\ \A k \in chains : k \notin Mine(s) => k \in cs
        /\ \A j \in jumps : j[1] \notin Mine(s) => j \in js
        /\ \A r \in rules : r[1] \notin Mine(s) => r \in rs
    BY <1>2, CleanupTakes
  <1>6. /\ last' \in [Services -> Keyed] /\ last'[s] = key /\ \A t \in Services \ {s} : last'[t] = last[t]
    BY DEF RulesInv, CtlTyped
  <1>7. CtlTyped'
    <2>1. chains' \subseteq Keys
      BY <1>3, <1>5 DEF RulesInv, CtlTyped
    <2>2. jumps' \subseteq Keys \X (-1 .. CidrSize)
      BY <1>3, <1>5 DEF RulesInv, CtlTyped
    <2>3. rules' \subseteq Keys \X Addrs
      <3>1. RulesOf(s, key) \subseteq Keys \X Addrs
        BY <1>1, <1>3, <1>4
      <3> QED
        BY <1>5, <3>1 DEF RulesInv, CtlTyped
    <2>4. \A t \in Services : last'[t] # NoKey => last'[t].spec # NoSpec
      BY <1>6 DEF RulesInv, CtlTyped
    <2>5. Specs' = Specs /\ Keyed' = Keyed /\ PassType' = PassType /\ Keys' = Keys
      BY DEF Specs, Keyed, PassType, Keys
    <2> QED
      BY <1>6, <2>1, <2>2, <2>3, <2>4 DEF CtlTyped
  <1>8. \A t \in Services, spec \in Specs :
            KeysOf(t, spec)' = KeysOf(t, spec) /\ JumpsOf(t, spec)' = JumpsOf(t, spec) /\ Mine(t)' = Mine(t)
    BY DEF KeysOf, JumpsOf, Mine, Fwd, Snat, Port
  <1>9. /\ \A k \in cs : k[2] \in littered' \/ \E t \in Known \ {s} : k \in KeysOf(t, last[t].spec)
        /\ \A j \in js : j[1][2] \in littered' \/ \E t \in Known \ {s} : j \in JumpsOf(t, last[t].spec)
        /\ \A r \in rs : r[1][2] \in littered' \/ \E t \in Known \ {s} : r[1] \in KeysOf(t, last[t].spec)
    <2>1. PICK left : left = littered'
      OBVIOUS
    <2>2. left = LitterOf(s, kept)
      BY <2>1 DEF LitterOf
    <2>3. /\ \A k \in cs : k[2] \in left \/ \E t \in Known \ {s} : k \in KeysOf(t, last[t].spec)
          /\ \A j \in js : j[1][2] \in left \/ \E t \in Known \ {s} : j \in JumpsOf(t, last[t].spec)
          /\ \A r \in rs : r[1][2] \in left \/ \E t \in Known \ {s} : r[1] \in KeysOf(t, last[t].spec)
      <3> HIDE <1>0
      <3>1. up /\ [chains |-> cs, jumps |-> js, rules |-> rs] = CleanedService(s, old, kept)
        BY <1>0
      <3> QED
        BY <2>2, <3>1, CleanupLeaves
    <2> QED
      BY <2>1, <2>3
  <1>10. AllOwned'
    <2> SUFFICES /\ \A k \in chains' : k[2] \in littered' \/ \E t \in Known' : k \in KeysOf(t, last'[t].spec)
                 /\ \A j \in jumps' : j[1][2] \in littered' \/ \E t \in Known' : j \in JumpsOf(t, last'[t].spec)
                 /\ \A r \in rules' : r[1][2] \in littered' \/ \E t \in Known' : r[1] \in KeysOf(t, last'[t].spec)
      BY DEF AllOwned, KeysOf, JumpsOf, Fwd, Snat, Port
    <2>1. /\ \A k \in cs : k[2] \in littered' \/ \E t \in Known \ {s} : k \in KeysOf(t, last[t].spec)
          /\ \A j \in js : j[1][2] \in littered' \/ \E t \in Known \ {s} : j \in JumpsOf(t, last[t].spec)
          /\ \A r \in rs : r[1][2] \in littered' \/ \E t \in Known \ {s} : r[1] \in KeysOf(t, last[t].spec)
      BY <1>9
    <2>2. /\ \A t \in Known \ {s} : t \in Known' /\ last'[t] = last[t]
          /\ key # NoKey => s \in Known'
      BY <1>6 DEF Known
    <2>3. ASSUME NEW k \in chains' PROVE k[2] \in littered' \/ \E t \in Known' : k \in KeysOf(t, last'[t].spec)
      BY <1>6, <2>1, <2>2
    <2>4. ASSUME NEW j \in jumps' PROVE j[1][2] \in littered' \/ \E t \in Known' : j \in JumpsOf(t, last'[t].spec)
      BY <1>6, <2>1, <2>2
    <2>5. ASSUME NEW r \in rules' PROVE r[1][2] \in littered' \/ \E t \in Known' : r[1] \in KeysOf(t, last'[t].spec)
      BY <1>4, <1>6, <2>1, <2>2
    <2> QED
      BY <2>3, <2>4, <2>5
  <1>11. ASSUME NEW u \in Services, last'[u] # NoKey, u \notin damaged', OwnChains(u)
         PROVE  /\ KeysOf(u, last'[u].spec) \subseteq chains'
                /\ JumpsOf(u, last'[u].spec) \subseteq jumps'
                /\ {r \in rules' : r[1] \in KeysOf(u, last'[u].spec)} = RulesOf(u, last'[u])
                /\ chainOf[u] \notin littered' =>
                    /\ chains' \cap Mine(u) \subseteq KeysOf(u, last'[u].spec)
                    /\ {j \in jumps' : j[1] \in Mine(u)} \subseteq JumpsOf(u, last'[u].spec)
                    /\ {r \in rules' : r[1] \in Mine(u)} \subseteq RulesOf(u, last'[u])
    <2>1. CASE u = s
      <3>1. ASSUME chainOf[s] \notin littered'
            PROVE  /\ \A k \in cs : k \notin Mine(s)
                   /\ \A j \in js : j[1] \notin Mine(s)
                   /\ \A r \in rs : r[1] \notin Mine(s)
        <4>1. \A t \in Known \ {s} : /\ KeysOf(t, last[t].spec) \cap Mine(s) = {}
                                     /\ \A j \in JumpsOf(t, last[t].spec) : j[1] \in KeysOf(t, last[t].spec)
          <5> SUFFICES ASSUME NEW t \in Known \ {s}
                       PROVE  /\ KeysOf(t, last[t].spec) \cap Mine(s) = {}
                              /\ \A j \in JumpsOf(t, last[t].spec) : j[1] \in KeysOf(t, last[t].spec)
            OBVIOUS
          <5>1. t \in Services \ {s} /\ last[t].spec \in Specs
            BY DEF Known, RulesInv, CtlTyped, Keyed
          <5> QED
            BY <1>2, <1>11, <2>1, <5>1, OwnNames, NamesOfService
        <4>2. \A k \in Mine(s) : k[2] \notin littered'
          BY <3>1 DEF Mine
        <4> QED
          BY <1>9, <4>1, <4>2
      <3>2. key # NoKey /\ s \notin damaged'
        BY <1>6, <1>11, <2>1
      <3>3. {r \in rules' : r[1] \in KeysOf(s, key.spec)} = RulesOf(s, key)
        BY <1>4, <3>2
      <3>4. chainOf[s] \notin littered' => chains' \cap Mine(s) \subseteq KeysOf(s, key.spec)
        BY <1>3, <3>1, <3>2
      <3>5. chainOf[s] \notin littered' => {j \in jumps' : j[1] \in Mine(s)} \subseteq JumpsOf(s, key.spec)
        BY <1>3, <3>1, <3>2
      <3>6. chainOf[s] \notin littered' => {r \in rules' : r[1] \in Mine(s)} \subseteq RulesOf(s, key)
        BY <1>3, <1>4, <3>1, <3>2
      <3> QED
        BY <1>6, <2>1, <3>2, <3>3, <3>4, <3>5, <3>6
    <2>2. CASE u # s
      <3>1. /\ KeysOf(u, last[u].spec) \subseteq chains
            /\ JumpsOf(u, last[u].spec) \subseteq jumps
            /\ {r \in rules : r[1] \in KeysOf(u, last[u].spec)} = RulesOf(u, last[u])
            /\ chainOf[u] \notin littered =>
                /\ chains \cap Mine(u) \subseteq KeysOf(u, last[u].spec)
                /\ {j \in jumps : j[1] \in Mine(u)} \subseteq JumpsOf(u, last[u].spec)
                /\ {r \in rules : r[1] \in Mine(u)} \subseteq RulesOf(u, last[u])
        BY <1>6, <1>11, <2>2 DEF RulesInv, InstalledAsRecorded
      <3>2. Mine(u) \cap Mine(s) = {} /\ last'[u] = last[u]
        BY <1>2, <1>6, <1>11, <2>2, OwnNames
      <3>3. chains' \cap Mine(u) = chains \cap Mine(u)
        BY <1>3, <1>5, <3>2
      <3>4. {j \in jumps' : j[1] \in Mine(u)} = {j \in jumps : j[1] \in Mine(u)}
        BY <1>3, <1>5, <3>2
      <3>5. {r \in rules' : r[1] \in Mine(u)} = {r \in rules : r[1] \in Mine(u)}
        BY <1>3, <1>4, <1>5, <3>2
      <3>6. /\ KeysOf(u, last[u].spec) \subseteq Mine(u)
            /\ \A j \in JumpsOf(u, last[u].spec) : j[1] \in Mine(u)
        <4>1. last[u].spec \in Specs
          BY DEF RulesInv, CtlTyped, Keyed
        <4> QED
          BY <1>2, <4>1, NamesOfService
      <3>7. chainOf[u] \notin littered' => chainOf[u] \notin littered
        OBVIOUS
      <3>8. KeysOf(u, last[u].spec) \subseteq chains'
        BY <3>1, <3>3, <3>6
      <3>9. JumpsOf(u, last[u].spec) \subseteq jumps'
        BY <3>1, <3>4, <3>6
      <3>10. {r \in rules' : r[1] \in KeysOf(u, last[u].spec)} = RulesOf(u, last[u])
        BY <3>1, <3>5, <3>6
      <3> QED
        BY <3>1, <3>2, <3>3, <3>4, <3>5, <3>7, <3>8, <3>9, <3>10
    <2> QED
      BY <2>1, <2>2
  <1>12. InstalledAsRecorded'
    BY <1>11 DEF InstalledAsRecorded, OwnChains, Mine, KeysOf, JumpsOf, RulesOf, Fwd, Snat, Port
  <1> QED
    BY <1>7, <1>10, <1>12 DEF RulesInv

\* What applying the rules puts there: chains, jumps and rules of the service,
\* in place of what was there under their names.
LEMMA AppliedIs ==
    ASSUME NEW s \in Services, NEW key, NEW done, NEW touched, NEW lost, NEW c, NEW js, NEW rs, NEW cs,
           js = c.jumps, rs = c.rules, cs = c.chains,
           done \subseteq touched, touched \subseteq KeysOf(s, key.spec), Applied(s, key, done, touched, lost, c)
    PROVE  /\ cs \subseteq chains' /\ \A k \in chains' : k \in cs \/ k \in KeysOf(s, key.spec)
           /\ \A j \in js : j[1] \notin KeysOf(s, key.spec) => j \in jumps'
           /\ \A j \in jumps' : j \in js \/ j \in JumpsOf(s, key.spec)
           /\ \A r \in rs : r[1] \notin KeysOf(s, key.spec) => r \in rules'
           /\ \A r \in rules' : r \in rs \/ r \in RulesOf(s, key)
           /\ \A r \in rules' : r[1] \in touched => r \in RulesOf(s, key)
           /\ touched \subseteq chains'
           /\ \A j \in JumpsOf(s, key.spec) : j[1] \in done => j \in jumps'
           /\ \A r \in RulesOf(s, key) \ lost :
                  (\E p \in key.spec.ports : Port(s, p) \in done /\ r[1] \in {Fwd(s), Snat(s), Port(s, p)}) => r \in rules'
  BY DEF Applied

\* Steps that leave the kernel's rules and what the controller remembers.
LEMMA RulesUntouched ==
    ASSUME RulesInv, UNCHANGED <<chainOf, chains, jumps, rules, last, up, damaged, littered>>,
           pass' \in PassType, pass'.on => up, \A t \in pass'.todo : pass'.svcs[t] # NoSpec
    PROVE  RulesInv'
  <1>1. CtlTyped'
    BY DEF RulesInv, CtlTyped, Keyed, Specs, Keys, PassType
  <1>2. AllOwned'
    BY DEF RulesInv, AllOwned, Known, KeysOf, JumpsOf, Fwd, Snat, Port
  <1>3. InstalledAsRecorded'
    BY DEF RulesInv, InstalledAsRecorded, OwnChains, Mine, KeysOf, JumpsOf, RulesOf, Fwd, Snat, Port
  <1> QED
    BY <1>1, <1>2, <1>3 DEF RulesInv

\* A step outside the controller keeps the invariant of the rules.
LEMMA OutsideKeepsRules ==
    ASSUME RulesInv, UNCHANGED <<chainOf, kern, ctl>>
    PROVE  RulesInv'
  <1>1. UNCHANGED <<chainOf, chains, jumps, rules, last, up, damaged, littered>> /\ pass' = pass
    BY DEF kern, ctl
  <1>2. pass' \in PassType /\ (pass'.on => up) /\ \A t \in pass'.todo : pass'.svcs[t] # NoSpec
    BY <1>1 DEF RulesInv, CtlTyped
  <1> QED
    BY <1>1, <1>2, RulesUntouched

\* StartController keeps RulesInv: what it leaves has a name in littered.
LEMMA StartControllerKeeps ==
    ASSUME StoreInv, RulesInv, StartController
    PROVE  RulesInv'
  <1>1. /\ ~up /\ up' = TRUE /\ UNCHANGED <<chainOf, last, pass, damaged>>
        /\ littered' = {k[2] : k \in chains' \cup {j[1] : j \in jumps'} \cup {r[1] : r \in rules'}}
    BY DEF StartController, store
  <1>2. chains' \subseteq chains /\ jumps' \subseteq jumps /\ rules' \subseteq rules
    <2>1. \A kept : LET c == Cleaned(chains, jumps, kept)
                    IN c.chains \subseteq chains /\ c.jumps \subseteq jumps /\ c.rules \subseteq rules
      BY DEF Cleaned
    <2> QED
      BY <2>1 DEF StartController, kern
  <1>3. \A t \in Services : last'[t] = NoKey
    BY <1>1 DEF RulesInv, CtlTyped
  <1>4. CtlTyped'
    BY <1>1, <1>2, <1>3 DEF RulesInv, CtlTyped, Keyed, Specs, Keys, PassType
  <1>5. AllOwned'
    BY <1>1 DEF AllOwned
  <1>6. InstalledAsRecorded'
    BY <1>3 DEF InstalledAsRecorded
  <1> QED
    BY <1>4, <1>5, <1>6 DEF RulesInv

\* ListServices keeps RulesInv.
LEMMA ListServicesKeeps ==
    ASSUME StoreInv, RulesInv, ListServices
    PROVE  RulesInv'
  <1>1. PICK q : q = [on |-> TRUE, svcs |-> svc, pods |-> {p \in Pods : pod[p].run}, todo |-> {t \in Services : svc[t] # NoSpec}]
    OBVIOUS
  <1>2. q \in PassType /\ \A t \in q.todo : q.svcs[t] # NoSpec
    BY <1>1 DEF PassType, StoreInv, StoreTyped
  <1>3. up /\ pass' = q /\ UNCHANGED <<chainOf, chains, jumps, rules, last, up, damaged, littered>>
    BY <1>1 DEF ListServices, kern
  <1> QED
    BY <1>2, <1>3, RulesUntouched

\* EndPass keeps RulesInv.
LEMMA EndPassKeeps ==
    ASSUME RulesInv, EndPass
    PROVE  RulesInv'
  <1>1. pass' = NoPass /\ UNCHANGED <<chainOf, chains, jumps, rules, last, up, damaged, littered>>
    BY DEF EndPass, kern
  <1> QED
    BY <1>1, NoneTyped, RulesUntouched

\* A crash keeps the invariant of the rules.
LEMMA CrashKeepsRules ==
    ASSUME RulesInv, Crash
    PROVE  RulesInv'
  <1>1. /\ up' = FALSE /\ pass' = NoPass /\ last' = [t \in Services |-> NoKey] /\ UNCHANGED <<chains, jumps, rules, chainOf>>
    BY DEF Crash, kern
  <1>2. CtlTyped'
    BY <1>1, NoneTyped DEF RulesInv, CtlTyped, Keyed, Specs, Keys, PassType
  <1> QED
    BY <1>1, <1>2 DEF RulesInv, AllOwned, InstalledAsRecorded

\* The pass takes the next service off its list.
LEMMA PassGoesOn ==
    ASSUME RulesInv, NEW s \in Services, pass' = [pass EXCEPT !.todo = @ \ {s}]
    PROVE  /\ pass' \in PassType /\ \A t \in pass'.todo : pass'.svcs[t] # NoSpec
           /\ pass'.on = pass.on
  <1>1. PICK q \in PassType : q = pass /\ \A t \in q.todo : q.svcs[t] # NoSpec
    BY DEF RulesInv, CtlTyped
  <1>2. pass' = [q EXCEPT !.todo = q.todo \ {s}]
    BY <1>1
  <1>3. pass' = [on |-> q.on, svcs |-> q.svcs, pods |-> q.pods, todo |-> q.todo \ {s}]
    BY <1>2 DEF PassType
  <1> QED
    BY <1>1, <1>3 DEF PassType

\* The key of a service still to be reconciled is typed and names a specification.
LEMMA StateKeyTyped ==
    ASSUME StoreInv, RulesInv, NEW s \in pass.todo
    PROVE  s \in Services /\ BuildStateKey(s) \in Keyed /\ BuildStateKey(s).spec # NoSpec
  <1>1. s \in Services /\ pass.svcs[s] \in Specs /\ pass.svcs[s] # NoSpec
    BY DEF RulesInv, CtlTyped, PassType
  <1>2. BuildEndpoints(s, pass.pods) \subseteq Addrs
    BY DEF BuildEndpoints, ReadyInfra, StoreInv, StoreTyped
  <1> QED
    BY <1>1, <1>2 DEF BuildStateKey, Keyed

\* CleanupRemoved keeps RulesInv.
LEMMA CleanupRemovedKeeps ==
    ASSUME StoreInv, RulesInv, NEW s \in Services, CleanupRemoved(s)
    PROVE  RulesInv'
  <1>1. PICK old \in Specs : old = last[s].spec
    BY DEF RulesInv, CtlTyped, Keyed
  <1>2. PICK kept, cs, js, rs :
            /\ [chains |-> cs, jumps |-> js, rules |-> rs] = CleanedService(s, old, kept) /\ Litter(s, kept)
            /\ chains' = cs /\ jumps' = js /\ rules' = rs
    <2>1. PICK kept : LET c == CleanedService(s, old, kept)
                      IN chains' = c.chains /\ jumps' = c.jumps /\ rules' = c.rules /\ Litter(s, kept)
      BY <1>1 DEF CleanupRemoved
    <2>2. [chains |-> chains', jumps |-> jumps', rules |-> rules'] = CleanedService(s, old, kept)
      BY <2>1 DEF CleanedService, Cleaned
    <2> QED
      BY <2>1, <2>2
  <1>3. /\ pass.on /\ pass' = pass
        /\ last' = [last EXCEPT ![s] = NoKey] /\ damaged' = damaged \ {s}
    BY DEF CleanupRemoved
  <1>4. up
    BY <1>3 DEF RulesInv, CtlTyped
  <1>5. UNCHANGED <<svc, upd, pod, chainOf, wanted, up>>
    BY DEF CleanupRemoved, store
  <1>6. pass' \in PassType
    BY <1>3 DEF RulesInv, CtlTyped
  <1>7. \A t \in pass'.todo : pass'.svcs[t] # NoSpec
    BY <1>3 DEF RulesInv, CtlTyped
  <1>8. PICK key \in Keyed : key = NoKey
    BY NoneTyped
  <1>9. Replaced(s, old, key, kept, cs, js, rs)
    BY <1>2, <1>3, <1>4, <1>5, <1>6, <1>7, <1>8 DEF Replaced
  <1> QED
    BY <1>1, <1>9, RulesReplaced

\* The outcomes of applying the rules of a key, in terms of what is there after.
LEMMA ApplyRulesIs ==
    ASSUME NEW s \in Services, NEW key \in Keyed, NEW c, NEW n, NEW js, NEW rs, NEW cs,
           js = c.jumps, rs = c.rules, cs = c.chains, ApplyRules(s, key, c, n)
    PROVE  /\ cs \subseteq chains' /\ \A k \in chains' : k \in cs \/ k \in KeysOf(s, key.spec)
           /\ \A j \in js : j[1] \notin KeysOf(s, key.spec) => j \in jumps'
           /\ \A j \in jumps' : j \in js \/ j \in JumpsOf(s, key.spec)
           /\ \A r \in rs : r[1] \notin KeysOf(s, key.spec) => r \in rules'
           /\ \A r \in rules' : r \in rs \/ r \in RulesOf(s, key)
           /\ s \notin damaged' =>
                 /\ \A r \in rules' : r[1] \in KeysOf(s, key.spec) => r \in RulesOf(s, key)
                 /\ KeysOf(s, key.spec) \subseteq chains' /\ JumpsOf(s, key.spec) \subseteq jumps' /\ RulesOf(s, key) \subseteq rules'
           /\ \A t \in Services \ {s} : t \in damaged' <=> t \in damaged
  <1>1. PICK all : all = KeysOf(s, key.spec)
    OBVIOUS
  <1>2. /\ Fwd(s) \in all /\ Snat(s) \in all /\ \A p \in key.spec.ports : Port(s, p) \in all
        /\ \A k \in all : k \in {Fwd(s), Snat(s)} \/ \E p \in key.spec.ports : k = Port(s, p)
        /\ \A j \in JumpsOf(s, key.spec) : j[1] \in all
    BY <1>1 DEF KeysOf, JumpsOf
  <1>3. CASE Applied(s, key, all, all, {}, c) /\ damaged' = damaged \ {s}
    <2>1. \A r \in RulesOf(s, key) : \E p \in key.spec.ports : Port(s, p) \in all /\ r[1] \in {Fwd(s), Snat(s), Port(s, p)}
      BY <1>1, <1>2 DEF RulesOf
    <2> QED
      BY <1>1, <1>2, <1>3, <2>1, AppliedIs
  <1>4. ASSUME NEW done, NEW touched, NEW lost, done \subseteq touched, touched \subseteq all,
               Applied(s, key, done, touched, lost, c), damaged' = damaged \cup {s}
        PROVE  /\ cs \subseteq chains' /\ \A k \in chains' : k \in cs \/ k \in KeysOf(s, key.spec)
               /\ \A j \in js : j[1] \notin KeysOf(s, key.spec) => j \in jumps'
               /\ \A j \in jumps' : j \in js \/ j \in JumpsOf(s, key.spec)
               /\ \A r \in rs : r[1] \notin KeysOf(s, key.spec) => r \in rules'
               /\ \A r \in rules' : r \in rs \/ r \in RulesOf(s, key)
               /\ s \in damaged' /\ \A t \in Services \ {s} : t \in damaged' <=> t \in damaged
    BY <1>1, <1>4, AppliedIs
  <1>5. ASSUME damaged' = damaged \cup {s},
               NEW p \in key.spec.ports, NEW part \in SUBSET {Port(s, p)},
               Applied(s, key, {Fwd(s), Snat(s)} \cup {Port(s, q) : q \in {x \in key.spec.ports : x < p}} \cup part,
                       {Fwd(s), Snat(s)} \cup {Port(s, q) : q \in {x \in key.spec.ports : x <= p}},
                       {<<Port(s, p), a>> : a \in key.eps}, c)
        PROVE  \E done, touched, lost : done \subseteq touched /\ touched \subseteq all /\ Applied(s, key, done, touched, lost, c)
    <2>1. PICK done, touched, lost :
              /\ done = {Fwd(s), Snat(s)} \cup {Port(s, q) : q \in {x \in key.spec.ports : x < p}} \cup part
              /\ touched = {Fwd(s), Snat(s)} \cup {Port(s, q) : q \in {x \in key.spec.ports : x <= p}}
              /\ lost = {<<Port(s, p), a>> : a \in key.eps}
      OBVIOUS
    <2>2. Applied(s, key, done, touched, lost, c)
      BY <1>5, <2>1
    <2>3. key.spec.ports \subseteq Nat /\ p \in Nat
      BY EndpointsAssumption DEF Keyed, Specs, NoSpec
    <2>4. \A x \in key.spec.ports : x < p => x <= p
      BY <2>3
    <2>5. part \subseteq {Port(s, q) : q \in {x \in key.spec.ports : x <= p}}
      BY <2>3
    <2>6. done \subseteq touched
      BY <2>1, <2>4, <2>5
    <2>7. touched \subseteq all
      BY <1>2, <2>1
    <2> QED
      BY <2>2, <2>6, <2>7
  <1>6. \/ Applied(s, key, all, all, {}, c) /\ damaged' = damaged \ {s}
        \/ /\ damaged' = damaged \cup {s}
           /\ \E done, touched, lost : done \subseteq touched /\ touched \subseteq all /\ Applied(s, key, done, touched, lost, c)
    BY <1>1, <1>2, <1>5 DEF ApplyRules
  <1> QED
    BY <1>3, <1>4, <1>6

\* ReconcileService keeps RulesInv.
LEMMA ReconcileServiceKeeps ==
    ASSUME StoreInv, RulesInv, NEW s \in Services, ReconcileService(s)
    PROVE  RulesInv'
  <1>1. PICK key \in Keyed : key = BuildStateKey(s) /\ key.spec # NoSpec
    BY StateKeyTyped DEF ReconcileService
  <1>2. PICK old \in Specs : old = last[s].spec
    BY DEF RulesInv, CtlTyped, Keyed
  <1>3. /\ pass.on /\ pass' = [pass EXCEPT !.todo = @ \ {s}]
        /\ UNCHANGED <<svc, upd, pod, chainOf, wanted, up>>
        /\ last[s] = key => UNCHANGED <<kern, last, damaged, littered>>
    BY <1>1 DEF ReconcileService, store
  <1>4. ASSUME last[s] # key
        PROVE  \E kept : /\ last' = [last EXCEPT ![s] = key] /\ Litter(s, kept)
                         /\ ApplyRules(s, key, CleanedService(s, old, kept), Cardinality(kept))
    BY <1>1, <1>2, <1>4 DEF ReconcileService
  <1>5. up
    BY <1>3 DEF RulesInv, CtlTyped
  <1>6. pass' \in PassType /\ \A t \in pass'.todo : pass'.svcs[t] # NoSpec
    BY <1>3, PassGoesOn
  <1>7. CASE last[s] = key
    <2>1. UNCHANGED <<chainOf, chains, jumps, rules, last, up, damaged, littered>>
      BY <1>3, <1>7 DEF kern
    <2>2. up'
      BY <1>3, <1>5
    <2> QED
      BY <1>6, <2>1, <2>2, RulesUntouched
  <1>8. CASE last[s] # key
    <2>0. PICK kept : /\ last' = [last EXCEPT ![s] = key] /\ Litter(s, kept)
                      /\ ApplyRules(s, key, CleanedService(s, old, kept), Cardinality(kept))
      BY <1>4, <1>8
    <2>1. PICK cs, js, rs : /\ [chains |-> cs, jumps |-> js, rules |-> rs] = CleanedService(s, old, kept)
                            /\ js = CleanedService(s, old, kept).jumps
                            /\ rs = CleanedService(s, old, kept).rules
                            /\ cs = CleanedService(s, old, kept).chains
      BY DEF CleanedService, Cleaned
    <2>2. /\ cs \subseteq chains' /\ \A k \in chains' : k \in cs \/ k \in KeysOf(s, key.spec)
          /\ \A j \in js : j[1] \notin KeysOf(s, key.spec) => j \in jumps'
          /\ \A j \in jumps' : j \in js \/ j \in JumpsOf(s, key.spec)
          /\ \A r \in rs : r[1] \notin KeysOf(s, key.spec) => r \in rules'
          /\ \A r \in rules' : r \in rs \/ r \in RulesOf(s, key)
          /\ s \notin damaged' =>
                /\ \A r \in rules' : r[1] \in KeysOf(s, key.spec) => r \in RulesOf(s, key)
                /\ KeysOf(s, key.spec) \subseteq chains' /\ JumpsOf(s, key.spec) \subseteq jumps' /\ RulesOf(s, key) \subseteq rules'
          /\ \A t \in Services \ {s} : t \in damaged' <=> t \in damaged
      BY <2>0, <2>1, ApplyRulesIs
    <2>3. key # NoKey
      BY <1>1, NoneTyped
    <2>4. Replaced(s, old, key, kept, cs, js, rs)
      BY <1>1, <1>3, <1>5, <1>6, <2>0, <2>1, <2>2, <2>3 DEF Replaced
    <2> QED
      BY <1>2, <2>4, RulesReplaced
  <1> QED
    BY <1>7, <1>8

-----------------------------------------------------------------------------

\* The invariant holds at the start.
LEMMA EndpointsStarts == EndpointsInit => EndpointsInv
  <1> SUFFICES ASSUME EndpointsInit PROVE EndpointsInv
    OBVIOUS
  <1>1. \A s \in Services : svc[s] = NoSpec /\ svc[s].type = "none" /\ last[s] = NoKey
    BY NoneTyped DEF EndpointsInit
  <1>2. StoreTyped
    BY NoneTyped DEF EndpointsInit, StoreTyped
  <1>3. ServicesSound
    BY <1>1 DEF EndpointsInit, ServicesSound, ClusterIPsDistinct, ServiceKept
  <1>4. CtlTyped
    BY <1>1, NoneTyped DEF EndpointsInit, CtlTyped
  <1>5. AllOwned /\ InstalledAsRecorded
    BY <1>1 DEF EndpointsInit, AllOwned, InstalledAsRecorded
  <1> QED
    BY <1>2, <1>3, <1>4, <1>5 DEF EndpointsInv, StoreInv, RulesInv

\* Every step of the controller keeps the invariant of the rules.
LEMMA ControllerKeepsRules ==
    ASSUME StoreInv, RulesInv, ControllerStep
    PROVE  RulesInv'
  BY StartControllerKeeps, ListServicesKeeps, ReconcileServiceKeeps, CleanupRemovedKeeps, EndPassKeeps DEF ControllerStep

\* Every step keeps the invariant.
LEMMA EndpointsStep == EndpointsInv /\ [EndpointsNext]_epVars => EndpointsInv'
  <1> SUFFICES ASSUME StoreInv, RulesInv, [EndpointsNext]_epVars PROVE StoreInv' /\ RulesInv'
    BY DEF EndpointsInv
  <1>1. ASSUME NEW s \in Services, NEW m \in Manifests, ApplyNewService(s, m) PROVE StoreInv' /\ RulesInv'
    <2>1. UNCHANGED <<chainOf, kern, ctl>>
      BY <1>1 DEF ApplyNewService
    <2> QED
      BY <1>1, <2>1, ApplyNewServiceKeeps, OutsideKeepsRules
  <1>2. ASSUME NEW s \in Services, NEW m \in Manifests, ApplyService(s, m) PROVE StoreInv' /\ RulesInv'
    <2>1. UNCHANGED <<chainOf, kern, ctl>>
      BY <1>2 DEF ApplyService
    <2> QED
      BY <1>2, <2>1, ApplyServiceKeeps, OutsideKeepsRules
  <1>3. ASSUME NEW s \in Services, StoreUpdated(s) PROVE StoreInv' /\ RulesInv'
    <2>1. UNCHANGED <<chainOf, kern, ctl>>
      BY <1>3 DEF StoreUpdated
    <2> QED
      BY <1>3, <2>1, StoreUpdatedKeeps, OutsideKeepsRules
  <1>4. ASSUME NEW s \in Services, DeleteService(s) PROVE StoreInv' /\ RulesInv'
    <2>1. UNCHANGED <<chainOf, kern, ctl>>
      BY <1>4 DEF DeleteService
    <2> QED
      BY <1>4, <2>1, DeleteServiceKeeps, OutsideKeepsRules
  <1>5. ASSUME NEW p \in Pods, PodChanges(p) PROVE StoreInv' /\ RulesInv'
    <2>1. UNCHANGED <<chainOf, kern, ctl>>
      BY <1>5 DEF PodChanges
    <2> QED
      BY <1>5, <2>1, PodChangesKeeps, OutsideKeepsRules
  <1>6. CASE ControllerStep
    BY <1>6, ControllerKeepsStore, ControllerKeepsRules
  <1>7. CASE Crash
    BY <1>7, CrashKeepsStore, CrashKeepsRules
  <1>8. CASE UNCHANGED epVars
    <2>1. UNCHANGED <<chainOf, kern, ctl>>
      BY <1>8 DEF epVars, kern, ctl
    <2> QED
      BY <1>8, <2>1, ControllerKeepsStore, OutsideKeepsRules
  <1> QED
    BY <1>1, <1>2, <1>3, <1>4, <1>5, <1>6, <1>7, <1>8 DEF EndpointsNext

\* Hence it holds in every state.
LEMMA EndpointsInvariant == EndpointsSpec => []EndpointsInv
  BY EndpointsStarts, EndpointsStep, PTL DEF EndpointsSpec

\* However applies, updates and deletes of services overlap, and wherever a
\* restart falls, no two services have one cluster address and a service that
\* was applied is there until it is deleted.
THEOREM ServicesStaySound == EndpointsSpec => []ServicesSound
  BY EndpointsInvariant, PTL DEF EndpointsInv, StoreInv

\* What iptables holds for a service is what the controller has recorded of
\* it, and every rule is that of a service it knows.
THEOREM RulesStayAsRecorded == EndpointsSpec => []RulesAsRecorded
  <1>1. ASSUME EndpointsInv PROVE RulesAsRecorded
    <2>1. StoreTyped /\ CtlTyped /\ AllOwned /\ InstalledAsRecorded
      BY <1>1 DEF EndpointsInv, StoreInv, RulesInv
    <2>2. upd \in [Services -> [old : Specs, new : Specs]]
      BY <2>1, NoneTyped DEF StoreTyped, Updates
    <2>3. EndpointsTypeOK
      BY <2>1, <2>2 DEF StoreTyped, CtlTyped, Keyed, EndpointsTypeOK
    <2>4. ASSUME up, NEW k \in chains \cup {j[1] : j \in jumps} \cup {r[1] : r \in rules}, k[2] \notin littered
          PROVE  \E s \in Services : last[s] # NoKey /\ k[2] = chainOf[s]
      <3>1. \A t \in Known : t \in Services /\ last[t] # NoKey /\ last[t].spec \in Specs
        BY <2>1 DEF Known, CtlTyped, Keyed
      <3>2. \A t \in Known : \A j \in JumpsOf(t, last[t].spec) : j[1] \in KeysOf(t, last[t].spec)
        BY <2>1, <3>1, NamesOfService
      <3>3. /\ \A c \in chains : c[2] \in littered \/ \E t \in Known : c \in KeysOf(t, last[t].spec)
            /\ \A j \in jumps : j[1][2] \in littered \/ \E t \in Known : j \in JumpsOf(t, last[t].spec)
            /\ \A r \in rules : r[1][2] \in littered \/ \E t \in Known : r[1] \in KeysOf(t, last[t].spec)
        BY <2>1, <2>4 DEF AllOwned
      <3>4. PICK t \in Known : k \in KeysOf(t, last[t].spec)
        BY <2>4, <3>2, <3>3
      <3>5. k \in Mine(t)
        BY <2>1, <3>1, <3>4, NamesOfService
      <3> QED
        BY <3>1, <3>5 DEF Mine
    <2>5. NoStrayRules
      BY <2>4 DEF NoStrayRules
    <2> QED
      BY <2>1, <2>3, <2>5 DEF RulesAsRecorded
  <1> QED
    BY <1>1, EndpointsInvariant, PTL
===============================================================================
