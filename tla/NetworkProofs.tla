--------------------------- MODULE NetworkProofs ----------------------------
(***************************************************************************)
(* Proofs about NetworkService, for any number of requests, bridges,        *)
(* namespaces and containers and any bounds: the host's bridges and DNS     *)
(* redirects match the pools of the store, containers keep their addresses  *)
(* and namespaces their networks, but for what the history variables name.  *)
(***************************************************************************)
EXTENDS NetworkService, IpamProofs, FiniteSetTheorems

\* Request r is at work on network b.
On(r, b) == net[r].pc # "idle" /\ net[r].b = b

NetRequest == [pc : NetPcs, b : Bridges, n : Namespaces \cup {NoNamespace} \cup Containers,
               stored : BOOLEAN, linked : BOOLEAN]

\* What a request knows from its own steps: the flags of the rollback, and
\* whom it serves.
RequestOK(x) ==
    /\ x.pc \in {"check", "pool"} => ~x.stored /\ ~x.linked
    /\ x.pc \in {"link", "dns", "commit", "named"} => x.stored
    /\ x.pc = "link" => ~x.linked
    /\ x.pc \in {"dns", "commit", "named"} => x.linked
    /\ x.linked => x.stored
    /\ x.pc \in {"check", "pool", "link", "dns", "commit"} => x.n \in Namespaces \cup {NoNamespace}
    /\ x.pc \in {"named", "share", "unnamed"} => x.n \in Namespaces
    /\ x.pc = "resolved" => x.n \in Containers
RequestsOK == \A r \in NetReqs : RequestOK(net[r])

-----------------------------------------------------------------------------
\* Links against pools.  Whoever is between making (removing) the pool and
\* the link holds the difference of the two.
Holding(r, b) ==
    On(r, b) /\ (net[r].pc \in {"link", "unpool"} \/ (net[r].pc = "rbpool" /\ net[r].stored /\ ~net[r].linked))
Undoing(r, b) == On(r, b) /\ net[r].pc = "rblink" /\ net[r].linked
Holders(b) == {r \in NetReqs : Holding(r, b)}

\* There is a pool exactly if there is a link or one holder.
Matched(b) ==
    /\ Configured(b) <=> b \in links \/ Holders(b) # {}
    /\ b \in links => Holders(b) = {}
    /\ \A q, r \in Holders(b) : q = r

\* A create has rolled its pool back and not yet its link: there is one link
\* or holder more than pools.
Ahead(b) ==
    /\ \E r \in NetReqs : Undoing(r, b)
    /\ \/ ~Configured(b) /\ b \in links /\ Holders(b) = {}
       \/ ~Configured(b) /\ b \notin links /\ \E x \in NetReqs : Holders(b) = {x}
       \/ Configured(b) /\ b \in links /\ \E x \in NetReqs : Holders(b) = {x}
       \/ Configured(b) /\ b \notin links /\ \E x, y \in NetReqs : x # y /\ Holders(b) = {x, y}

\* A pool without its redirects belongs to somebody who is on the way to make
\* them or to remove the pool.
Redirecting(r, b) ==
    On(r, b) /\ (net[r].pc \in {"link", "dns", "unlink", "unpool"} \/ (net[r].pc = "rbpool" /\ net[r].stored))

HostAt(b) ==
    b \notin spoiled =>
        /\ Matched(b) \/ Ahead(b)
        /\ \A q, r \in NetReqs : Undoing(q, b) /\ Undoing(r, b) => q = r
        /\ Configured(b) /\ redirect[b] # Protocols => \E r \in NetReqs : Redirecting(r, b)

-----------------------------------------------------------------------------
\* A create that stored the pool of b and may still roll it back
Owner(r, b) ==
    On(r, b) /\ (net[r].pc \in {"link", "dns", "commit", "named"} \/ (net[r].pc = "rbpool" /\ net[r].stored))
\* A removal that found b empty
Emptying(r, b) == On(r, b) /\ net[r].pc \in {"undns", "unlink", "unpool"}
\* A removal of namespace n that has removed b, or has no need to
Leaving(r, n, b) == On(r, b) /\ net[r].n = n /\ net[r].pc \in {"recommit", "unnamed"}

\* Nobody who may remove the pool shares it with a container.
LiveAt(b) ==
    \A c \in Containers \ raced : ctr[c] = b /\ b # NoBridge =>
        /\ \E h \in Hosts : Holds(c, b, h)
        /\ \A r \in NetReqs : ~Owner(r, b) /\ ~Emptying(r, b)

\* A network that nobody cut has its pool for its creator and for those about
\* to share it; a namespace is on it without a pool, or with one that somebody
\* else has just stored, only while it is being removed.
NamedAt(b) ==
    b \notin cut \cup spoiled =>
        /\ \A r \in NetReqs : Owner(r, b) \/ (On(r, b) /\ net[r].pc = "share") => Configured(b)
        /\ \A q, r \in NetReqs : Owner(q, b) /\ Owner(r, b) => q = r
        /\ \A n \in Namespaces :
               ns[n] = b /\ b # NoBridge /\ (~Configured(b) \/ \E r \in NetReqs : Owner(r, b))
               => \E q \in NetReqs : Leaving(q, n, b)

\* The inductive invariant of the network service
NetworkInv ==
    /\ IpamInv /\ NetworkTypeOK /\ RequestsOK
    /\ \A b \in Bridges : HostAt(b) /\ LiveAt(b) /\ NamedAt(b)

-----------------------------------------------------------------------------
(***************************************************************************)
(* How a step moves its request                                             *)
(***************************************************************************)
OnlyMoves(r) == net' \in [NetReqs -> NetRequest] /\ \A q \in NetReqs \ {r} : net'[q] = net[q]

\* A call that goes on keeps the rest of its record.
LEMMA StepMoves ==
    ASSUME NetworkTypeOK, NEW r \in NetReqs, NEW pc \in NetPcs, Step(r, pc)
    PROVE  /\ OnlyMoves(r) /\ net'[r].pc = pc /\ net'[r].b = net[r].b /\ net'[r].n = net[r].n
           /\ net'[r].stored = net[r].stored /\ net'[r].linked = net[r].linked
BY DEF NetworkTypeOK, NetRequest, Step, OnlyMoves

\* A call that ends holds nothing.
LEMMA DoneMoves ==
    ASSUME NetworkTypeOK, NEW r \in NetReqs, Done(r)
    PROVE  OnlyMoves(r) /\ net'[r] = Resting /\ net'[r].pc = "idle" /\ ~net'[r].stored /\ ~net'[r].linked
<1>1. Resting \in NetRequest /\ Resting.pc = "idle" /\ ~Resting.stored /\ ~Resting.linked
  BY IpamAssumption DEF Resting, NetRequest, NetPcs
<1>2. QED
  BY <1>1 DEF NetworkTypeOK, NetRequest, Done, OnlyMoves

\* A call that begins holds nothing yet.
LEMMA BeginMoves ==
    ASSUME NetworkTypeOK, NEW r \in NetReqs, NEW pc \in NetPcs, NEW b \in Bridges,
           NEW n \in Namespaces \cup {NoNamespace} \cup Containers, Begin(r, pc, b, n)
    PROVE  /\ OnlyMoves(r) /\ net[r].pc = "idle" /\ net'[r].pc = pc /\ net'[r].b = b /\ net'[r].n = n
           /\ ~net'[r].stored /\ ~net'[r].linked
<1> DEFINE x == [Resting EXCEPT !.pc = pc, !.b = b, !.n = n]
<1>1. x \in NetRequest /\ x.pc = pc /\ x.b = b /\ x.n = n /\ ~x.stored /\ ~x.linked
  BY IpamAssumption DEF Resting, NetRequest
<1>2. net' = [net EXCEPT ![r] = x] /\ net[r].pc = "idle"
  BY DEF Begin, At
<1>3. OnlyMoves(r) /\ net'[r] = x
  BY <1>1, <1>2 DEF NetworkTypeOK, NetRequest, OnlyMoves
<1>4. QED
  BY <1>1, <1>2, <1>3

-----------------------------------------------------------------------------
(***************************************************************************)
(* What the calls of the IPAM store do to pools and holders                 *)
(***************************************************************************)
LEMMA PoolEffect ==
    ASSUME IpamInv, NEW b \in Bridges, StoreBridge(b) \/ RemoveBridge(b)
    PROVE  /\ StoreBridge(b) => ~Configured(b) /\ Configured(b)'
           /\ RemoveBridge(b) => Configured(b) /\ ~Configured(b)'
           /\ \A d \in Bridges \ {b} : (Configured(d)' <=> Configured(d)) /\
                  \A c \in Containers, h \in Hosts : Holds(c, d, h)' <=> Holds(c, d, h)
           /\ IpamInv'
<1>1. IpamInv'
  BY StoreBridgeInv, RemoveBridgeInv
<1>2. \A s \in Subnets : s # NoSubnet
  BY IpamAssumption DEF Subnets, NoSubnet
<1>3. \A d \in Bridges \ {b} : subnetOf'[d] = subnetOf[d] /\ alloc'[d] = alloc[d]
  BY DEF StoreBridge, RemoveBridge, IpamInv, IpamTypeOK
<1>4. /\ StoreBridge(b) => subnetOf'[b] \in Subnets
      /\ RemoveBridge(b) => subnetOf'[b] = NoSubnet
  BY DEF StoreBridge, RemoveBridge, IpamInv, IpamTypeOK
<1>5. QED
  BY <1>1, <1>2, <1>3, <1>4 DEF StoreBridge, RemoveBridge, Configured, Holds, HeldBy

\* A step that leaves the address pools alone keeps what they say.
LEMMA NoPoolEffect ==
    ASSUME IpamInv, UNCHANGED ipamVars
    PROVE  /\ \A d : (Configured(d)' <=> Configured(d)) /\ \A c, h : Holds(c, d, h)' <=> Holds(c, d, h)
           /\ IpamInv'
<1>1. IpamInv'
  BY IpamNextInv
<1>2. QED
  BY <1>1 DEF ipamVars, Configured, Holds, HeldBy

\* A removal that counts no container finds none.
LEMMA CountIsZero ==
    ASSUME IpamInv, NEW b \in Bridges, NumContainers(b) = 0
    PROVE  \A c \in Containers, h \in Hosts : ~Holds(c, b, h)
<1> DEFINE S == {h \in Hosts : HeldBy(b, h) # NoContainer}
<1>1. IsFiniteSet(Hosts)
  BY FS_Interval, IpamAssumption DEF Hosts
<1>2. IsFiniteSet(S)
  BY <1>1, FS_Subset
<1>3. S = {}
  BY <1>2, FS_EmptySet DEF NumContainers
<1>4. QED
  BY <1>3, IpamAssumption DEF Holds

-----------------------------------------------------------------------------
(***************************************************************************)
(* A step concerns one network                                              *)
(***************************************************************************)
Elsewhere(d) ==
    /\ (d \in links' <=> d \in links) /\ redirect'[d] = redirect[d] /\ (Configured(d)' <=> Configured(d))
    /\ (d \in spoiled => d \in spoiled') /\ (d \in cut' <=> d \in cut)
    /\ \A n \in Namespaces : ns'[n] = d /\ d # NoBridge => ns[n] = d
    /\ \A c \in Containers : ctr'[c] = d /\ d # NoBridge =>
           ctr[c] = d /\ (c \in raced' <=> c \in raced) /\ \A h \in Hosts : Holds(c, d, h) => Holds(c, d, h)'

\* What a step does not touch of another bridge stays as it was there.
LEMMA ElsewhereKeeps ==
    ASSUME NetworkInv, NEW d \in Bridges, Elsewhere(d),
           \A q \in NetReqs : (On(q, d)' <=> On(q, d)) /\ (On(q, d) => net'[q] = net[q])
    PROVE  HostAt(d)' /\ LiveAt(d)' /\ NamedAt(d)'
<1>1. HostAt(d) /\ LiveAt(d) /\ NamedAt(d)
  BY DEF NetworkInv
<1>2. \A q \in NetReqs : (Holding(q, d)' <=> Holding(q, d)) /\ (Undoing(q, d)' <=> Undoing(q, d))
                         /\ (Redirecting(q, d)' <=> Redirecting(q, d))
  BY DEF Holding, Undoing, Redirecting
<1>3. \A q \in NetReqs : (Owner(q, d)' <=> Owner(q, d)) /\ (Emptying(q, d)' <=> Emptying(q, d))
                         /\ \A n : Leaving(q, n, d)' <=> Leaving(q, n, d)
  BY DEF Owner, Emptying, Leaving
<1>4. Holders(d)' = Holders(d)
  BY <1>2 DEF Holders
<1>5. HostAt(d)'
  <2>1. (Matched(d) => Matched(d)') /\ (Ahead(d) => Ahead(d)')
    BY <1>2, <1>4 DEF Elsewhere, Matched, Ahead
  <2>2. QED
    BY <1>1, <1>2, <2>1 DEF Elsewhere, HostAt
<1>6. LiveAt(d)'
  BY <1>1, <1>3 DEF Elsewhere, LiveAt
<1>7. NamedAt(d)'
  BY <1>1, <1>3 DEF Elsewhere, NamedAt
<1>8. QED
  BY <1>5, <1>6, <1>7

\* A step that keeps to its bridge keeps the invariant when it keeps it there.
LEMMA NetworkStep ==
    ASSUME NetworkInv, NEW r \in NetReqs, NEW b \in Bridges, OnlyMoves(r),
           net[r].pc = "idle" \/ net[r].b = b, net'[r].pc = "idle" \/ net'[r].b = b,
           \A d \in Bridges \ {b} : Elsewhere(d),
           IpamInv', NetworkTypeOK', RequestOK(net'[r]), HostAt(b)', LiveAt(b)', NamedAt(b)'
    PROVE  NetworkInv'
<1>1. RequestsOK'
  BY DEF NetworkInv, RequestsOK, OnlyMoves
<1>2. ASSUME NEW d \in Bridges, d # b PROVE HostAt(d)' /\ LiveAt(d)' /\ NamedAt(d)'
  <2>1. \A q \in NetReqs : (On(q, d)' <=> On(q, d)) /\ (On(q, d) => net'[q] = net[q])
    BY <1>2 DEF On, OnlyMoves
  <2>2. QED
    BY <1>2, <2>1, ElsewhereKeeps
<1>3. QED
  BY <1>1, <1>2 DEF NetworkInv

-----------------------------------------------------------------------------
(***************************************************************************)
(* Steps that leave a part of their network as it is                        *)
(***************************************************************************)
\* The holders after a step of r
LEMMA HoldersMove ==
    ASSUME NEW r \in NetReqs, NEW b, OnlyMoves(r)
    PROVE  /\ Holders(b)' = IF Holding(r, b)' THEN Holders(b) \cup {r} ELSE Holders(b) \ {r}
           /\ \A q \in NetReqs \ {r} :
                  /\ (Undoing(q, b)' <=> Undoing(q, b)) /\ (Redirecting(q, b)' <=> Redirecting(q, b))
                  /\ (Owner(q, b)' <=> Owner(q, b)) /\ (Emptying(q, b)' <=> Emptying(q, b))
                  /\ (On(q, b)' <=> On(q, b)) /\ \A n : Leaving(q, n, b)' <=> Leaving(q, n, b)
<1>1. \A q \in NetReqs \ {r} : net'[q] = net[q]
  BY DEF OnlyMoves
<1>2. \A q \in NetReqs \ {r} : Holding(q, b)' <=> Holding(q, b)
  BY <1>1 DEF Holding, On
<1>3. Holders(b)' = IF Holding(r, b)' THEN Holders(b) \cup {r} ELSE Holders(b) \ {r}
  BY <1>2 DEF Holders
<1>4. QED
  BY <1>1, <1>3 DEF Undoing, Redirecting, Owner, Emptying, Leaving, On

\* A step that changes nothing of the bridge on the host keeps what is said of it.
LEMMA CalmHost ==
    ASSUME NetworkInv, NEW r \in NetReqs, NEW b \in Bridges, OnlyMoves(r),
           b \in links' <=> b \in links, Configured(b)' <=> Configured(b), redirect'[b] = redirect[b],
           b \in spoiled => b \in spoiled', Holding(r, b)' <=> Holding(r, b), Undoing(r, b)' <=> Undoing(r, b),
           Redirecting(r, b) => Redirecting(r, b)'
    PROVE  HostAt(b)'
<1>1. HostAt(b)
  BY DEF NetworkInv
<1>2. Holders(b)' = Holders(b)
  BY HoldersMove DEF Holders
<1>3. \A q \in NetReqs : (Undoing(q, b)' <=> Undoing(q, b)) /\ (Redirecting(q, b) => Redirecting(q, b)')
  BY HoldersMove
<1>4. (Matched(b) => Matched(b)') /\ (Ahead(b) => Ahead(b)')
  BY <1>2, <1>3 DEF Matched, Ahead
<1>5. QED
  BY <1>1, <1>3, <1>4 DEF HostAt

\* The same, when only the redirect rules change.
LEMMA CalmLinks ==
    ASSUME NetworkInv, NEW r \in NetReqs, NEW b \in Bridges, OnlyMoves(r),
           b \in links' <=> b \in links, Configured(b)' <=> Configured(b),
           b \in spoiled => b \in spoiled', Holding(r, b)' <=> Holding(r, b), Undoing(r, b)' <=> Undoing(r, b),
           redirect'[b] = Protocols \/ Redirecting(r, b)'
    PROVE  HostAt(b)'
<1>1. HostAt(b)
  BY DEF NetworkInv
<1>2. Holders(b)' = Holders(b)
  BY HoldersMove DEF Holders
<1>3. \A q \in NetReqs : Undoing(q, b)' <=> Undoing(q, b)
  BY HoldersMove
<1>4. (Matched(b) => Matched(b)') /\ (Ahead(b) => Ahead(b)')
  BY <1>2, <1>3 DEF Matched, Ahead
<1>5. QED
  BY <1>1, <1>3, <1>4 DEF HostAt

\* A step that moves no container keeps what is said of live addresses.
LEMMA CalmLive ==
    ASSUME NetworkInv, NEW r \in NetReqs, NEW b \in Bridges, OnlyMoves(r), ctr' = ctr, raced' = raced,
           \A c \in Containers, h \in Hosts : Holds(c, b, h) => Holds(c, b, h)',
           Owner(r, b)' \/ Emptying(r, b)' => Owner(r, b) \/ Emptying(r, b)
    PROVE  LiveAt(b)'
<1>1. LiveAt(b)
  BY DEF NetworkInv
<1>2. \A q \in NetReqs : Owner(q, b)' \/ Emptying(q, b)' => Owner(q, b) \/ Emptying(q, b)
  BY HoldersMove
<1>3. QED
  BY <1>1, <1>2 DEF LiveAt

\* A step that moves no namespace keeps what is said of named bridges.
LEMMA CalmNamed ==
    ASSUME NetworkInv, NEW r \in NetReqs, NEW b \in Bridges, OnlyMoves(r),
           \A n \in Namespaces : ns'[n] = b /\ b # NoBridge => ns[n] = b,
           b \in cut \cup spoiled => b \in cut' \cup spoiled', Configured(b)' <=> Configured(b),
           Owner(r, b)' => Owner(r, b), On(r, b)' /\ net'[r].pc = "share" => Configured(b),
           \A n \in Namespaces : Leaving(r, n, b) => Leaving(r, n, b)' \/ (ns'[n] # b \/ b = NoBridge)
    PROVE  NamedAt(b)'
<1>1. NamedAt(b)
  BY DEF NetworkInv
<1>2. \A q \in NetReqs : (Owner(q, b)' => Owner(q, b)) /\ ((On(q, b) /\ net[q].pc = "share")' => (On(q, b) /\ net[q].pc = "share") \/ Configured(b))
  BY HoldersMove DEF OnlyMoves
<1>3. \A n \in Namespaces : ns'[n] = b /\ b # NoBridge =>
          \A q \in NetReqs : Leaving(q, n, b) => Leaving(q, n, b)'
  BY HoldersMove
<1>4. QED
  BY <1>1, <1>2, <1>3 DEF NamedAt

-----------------------------------------------------------------------------
(***************************************************************************)
(* The requests begin                                                       *)
(***************************************************************************)
LEMMA BeginKeeps ==
    ASSUME NetworkInv, NEW r \in NetReqs, NEW pc \in {"check", "count", "share", "unnamed", "resolved"}, NEW b \in Bridges,
           NEW n \in Namespaces \cup {NoNamespace} \cup Containers, Begin(r, pc, b, n),
           pc = "check" => n \in Namespaces \cup {NoNamespace}, pc \in {"share", "unnamed"} => n \in Namespaces,
           pc = "resolved" => n \in Containers, pc = "share" => Configured(b),
           UNCHANGED <<ipamVars, kern, ns, auto, ctr, hist>>
    PROVE  NetworkInv'
<1>1. NetworkTypeOK /\ IpamInv
  BY DEF NetworkInv
<1>2. /\ OnlyMoves(r) /\ net[r].pc = "idle" /\ net'[r].pc = pc /\ net'[r].b = b /\ net'[r].n = n
      /\ ~net'[r].stored /\ ~net'[r].linked
  BY <1>1, BeginMoves DEF NetPcs
<1>3. /\ links' = links /\ redirect' = redirect /\ spoiled' = spoiled /\ cut' = cut /\ raced' = raced
      /\ ns' = ns /\ ctr' = ctr /\ auto' = auto
  BY DEF kern, hist
<1>4. IpamInv' /\ \A d : (Configured(d)' <=> Configured(d)) /\ \A c, h : Holds(c, d, h)' <=> Holds(c, d, h)
  BY <1>1, NoPoolEffect
<1>5. NetworkTypeOK'
  BY <1>1, <1>2, <1>3 DEF NetworkTypeOK, OnlyMoves, NetRequest
<1>6. RequestOK(net'[r])
  BY <1>2 DEF RequestOK
<1>7. \A d \in Bridges : Elsewhere(d)
  BY <1>3, <1>4 DEF Elsewhere
<1>8. ~Holding(r, b) /\ ~Undoing(r, b) /\ ~Redirecting(r, b) /\ \A m : ~Leaving(r, m, b)
  BY <1>2 DEF Holding, Undoing, Redirecting, Leaving, On
<1>9. ~Holding(r, b)' /\ ~Undoing(r, b)' /\ ~Owner(r, b)' /\ ~Emptying(r, b)'
  BY <1>2 DEF Holding, Undoing, Owner, Emptying
<1>10. HostAt(b)'
  BY <1>2, <1>3, <1>4, <1>8, <1>9, CalmHost
<1>11. LiveAt(b)'
  BY <1>2, <1>3, <1>4, <1>9, CalmLive
<1>12. NamedAt(b)'
  BY <1>2, <1>3, <1>4, <1>8, <1>9, CalmNamed
<1>13. QED
  BY <1>2, <1>4, <1>5, <1>6, <1>7, <1>10, <1>11, <1>12, NetworkStep

-----------------------------------------------------------------------------
(***************************************************************************)
(* The steps of a request                                                   *)
(***************************************************************************)
\* CreateNewNetwork: the check.
LEMMA EnsureNoUnmanagedNamespaceBridgeKeeps ==
    ASSUME NetworkInv, NEW r \in NetReqs, EnsureNoUnmanagedNamespaceBridge(r)
    PROVE  NetworkInv'
<1>1. PICK b \in Bridges : b = net[r].b /\ b = Br(r)
  BY DEF NetworkInv, NetworkTypeOK, Br
<1>2. NetworkTypeOK /\ IpamInv /\ RequestOK(net[r]) /\ HostAt(b) /\ LiveAt(b) /\ NamedAt(b)
  BY DEF NetworkInv, RequestsOK
<1>3. /\ OnlyMoves(r) /\ net[r].pc = "check"
      /\ \/ net'[r].pc = "pool" /\ net'[r].b = b /\ net'[r].n = net[r].n /\ net'[r].stored = net[r].stored /\ net'[r].linked = net[r].linked
         \/ net'[r].pc = "idle" /\ ~net'[r].stored /\ ~net'[r].linked
  BY <1>1, <1>2, StepMoves, DoneMoves DEF EnsureNoUnmanagedNamespaceBridge, At, NetPcs
<1>4. /\ links' = links /\ redirect' = redirect /\ spoiled' = spoiled /\ cut' = cut /\ raced' = raced /\ ns' = ns /\ ctr' = ctr /\ auto' = auto
  BY <1>1 DEF EnsureNoUnmanagedNamespaceBridge, kern, hist
<1>5. IpamInv' /\ \A d : (Configured(d)' <=> Configured(d)) /\ \A c, h : Holds(c, d, h)' <=> Holds(c, d, h)
  BY <1>2, NoPoolEffect DEF EnsureNoUnmanagedNamespaceBridge
<1>6. NetworkTypeOK'
  BY <1>2, <1>3, <1>4 DEF NetworkTypeOK, OnlyMoves, NetRequest
<1>7. RequestOK(net'[r])
  BY <1>2, <1>3 DEF RequestOK
<1>8. \A d \in Bridges \ {b} : Elsewhere(d)
  BY <1>4, <1>5 DEF Elsewhere
<1>9. HostAt(b)'
  BY <1>1, <1>2, <1>3, <1>4, <1>5, CalmHost DEF Holding, Undoing, Redirecting, On
<1>10. LiveAt(b)'
  BY <1>1, <1>2, <1>3, <1>4, <1>5, CalmLive DEF Owner, Emptying, On
<1>11. NamedAt(b)'
  BY <1>1, <1>2, <1>3, <1>4, <1>5, CalmNamed DEF Owner, Leaving, On, RequestOK
<1>12. QED
  BY <1>1, <1>3, <1>5, <1>6, <1>7, <1>8, <1>9, <1>10, <1>11, NetworkStep

\* CreateNewNetwork: the commit.
LEMMA RefreshPolicyKeeps ==
    ASSUME NetworkInv, NEW r \in NetReqs, RefreshPolicy(r)
    PROVE  NetworkInv'
<1>1. PICK b \in Bridges : b = net[r].b /\ b = Br(r)
  BY DEF NetworkInv, NetworkTypeOK, Br
<1>2. NetworkTypeOK /\ IpamInv /\ RequestOK(net[r]) /\ HostAt(b) /\ LiveAt(b) /\ NamedAt(b)
  BY DEF NetworkInv, RequestsOK
<1>3. /\ OnlyMoves(r) /\ net[r].pc = "commit"
      /\ \/ net'[r].pc \in {"named", "rbpool"} /\ net'[r].b = b /\ net'[r].n = net[r].n /\ net'[r].stored = net[r].stored /\ net'[r].linked = net[r].linked /\ (net'[r].pc = "named" => net[r].n # NoNamespace)
         \/ net'[r].pc = "idle" /\ ~net'[r].stored /\ ~net'[r].linked
  BY <1>1, <1>2, StepMoves, DoneMoves DEF RefreshPolicy, At, NetPcs
<1>4. /\ links' = links /\ redirect' = redirect /\ spoiled' = spoiled /\ cut' = cut /\ raced' = raced /\ ns' = ns /\ ctr' = ctr /\ auto' = auto
  BY <1>1 DEF RefreshPolicy, kern, hist
<1>5. IpamInv' /\ \A d : (Configured(d)' <=> Configured(d)) /\ \A c, h : Holds(c, d, h)' <=> Holds(c, d, h)
  BY <1>2, NoPoolEffect DEF RefreshPolicy
<1>6. NetworkTypeOK'
  BY <1>2, <1>3, <1>4 DEF NetworkTypeOK, OnlyMoves, NetRequest
<1>7. RequestOK(net'[r])
  BY <1>2, <1>3 DEF RequestOK
<1>8. \A d \in Bridges \ {b} : Elsewhere(d)
  BY <1>4, <1>5 DEF Elsewhere
<1>9. HostAt(b)'
  BY <1>1, <1>2, <1>3, <1>4, <1>5, CalmHost DEF Holding, Undoing, Redirecting, On, RequestOK
<1>10. LiveAt(b)'
  BY <1>1, <1>2, <1>3, <1>4, <1>5, CalmLive DEF Owner, Emptying, On
<1>11. NamedAt(b)'
  BY <1>1, <1>2, <1>3, <1>4, <1>5, CalmNamed DEF Owner, Leaving, On, RequestOK
<1>12. QED
  BY <1>1, <1>3, <1>5, <1>6, <1>7, <1>8, <1>9, <1>10, <1>11, NetworkStep

\* CreateNewNetwork: the end of the rollback.
LEMMA RollbackCommitKeeps ==
    ASSUME NetworkInv, NEW r \in NetReqs, RollbackCommit(r)
    PROVE  NetworkInv'
<1>1. PICK b \in Bridges : b = net[r].b /\ b = Br(r)
  BY DEF NetworkInv, NetworkTypeOK, Br
<1>2. NetworkTypeOK /\ IpamInv /\ RequestOK(net[r]) /\ HostAt(b) /\ LiveAt(b) /\ NamedAt(b)
  BY DEF NetworkInv, RequestsOK
<1>3. /\ OnlyMoves(r) /\ net[r].pc = "rbcommit"
      /\ net'[r].pc = "idle" /\ ~net'[r].stored /\ ~net'[r].linked
  BY <1>1, <1>2, StepMoves, DoneMoves DEF RollbackCommit, At, NetPcs
<1>4. /\ links' = links /\ redirect' = redirect /\ spoiled' = spoiled /\ cut' = cut /\ raced' = raced /\ ns' = ns /\ ctr' = ctr /\ auto' = auto
  BY <1>1 DEF RollbackCommit, kern, hist
<1>5. IpamInv' /\ \A d : (Configured(d)' <=> Configured(d)) /\ \A c, h : Holds(c, d, h)' <=> Holds(c, d, h)
  BY <1>2, NoPoolEffect DEF RollbackCommit
<1>6. NetworkTypeOK'
  BY <1>2, <1>3, <1>4 DEF NetworkTypeOK, OnlyMoves, NetRequest
<1>7. RequestOK(net'[r])
  BY <1>2, <1>3 DEF RequestOK
<1>8. \A d \in Bridges \ {b} : Elsewhere(d)
  BY <1>4, <1>5 DEF Elsewhere
<1>9. HostAt(b)'
  BY <1>1, <1>2, <1>3, <1>4, <1>5, CalmHost DEF Holding, Undoing, Redirecting, On
<1>10. LiveAt(b)'
  BY <1>1, <1>2, <1>3, <1>4, <1>5, CalmLive DEF Owner, Emptying, On
<1>11. NamedAt(b)'
  BY <1>1, <1>2, <1>3, <1>4, <1>5, CalmNamed DEF Owner, Leaving, On, RequestOK
<1>12. QED
  BY <1>1, <1>3, <1>5, <1>6, <1>7, <1>8, <1>9, <1>10, <1>11, NetworkStep

\* RemoveNetwork: the count.
LEMMA CountContainersKeeps ==
    ASSUME NetworkInv, NEW r \in NetReqs, CountContainers(r)
    PROVE  NetworkInv'
<1>1. PICK b \in Bridges : b = net[r].b /\ b = Br(r)
  BY DEF NetworkInv, NetworkTypeOK, Br
<1>2. NetworkTypeOK /\ IpamInv /\ RequestOK(net[r]) /\ HostAt(b) /\ LiveAt(b) /\ NamedAt(b)
  BY DEF NetworkInv, RequestsOK
<1>3. /\ OnlyMoves(r) /\ net[r].pc = "count"
      /\ \/ net'[r].pc = "undns" /\ net'[r].b = b /\ net'[r].n = net[r].n /\ net'[r].stored = net[r].stored /\ net'[r].linked = net[r].linked /\ NumContainers(b) = 0
         \/ net'[r].pc = "idle" /\ ~net'[r].stored /\ ~net'[r].linked
  BY <1>1, <1>2, StepMoves, DoneMoves DEF CountContainers, At, NetPcs
<1>4. /\ links' = links /\ redirect' = redirect /\ spoiled' = spoiled /\ cut' = cut /\ raced' = raced /\ ns' = ns /\ ctr' = ctr /\ auto' = auto
  BY <1>1 DEF CountContainers, kern, hist
<1>5. IpamInv' /\ \A d : (Configured(d)' <=> Configured(d)) /\ \A c, h : Holds(c, d, h)' <=> Holds(c, d, h)
  BY <1>2, NoPoolEffect DEF CountContainers
<1>6. NetworkTypeOK'
  BY <1>2, <1>3, <1>4 DEF NetworkTypeOK, OnlyMoves, NetRequest
<1>7. RequestOK(net'[r])
  BY <1>2, <1>3 DEF RequestOK
<1>8. \A d \in Bridges \ {b} : Elsewhere(d)
  BY <1>4, <1>5 DEF Elsewhere
<1>9. HostAt(b)'
  BY <1>1, <1>2, <1>3, <1>4, <1>5, CalmHost DEF Holding, Undoing, Redirecting, On
<1>10. LiveAt(b)'
  <2>1. CASE NumContainers(b) = 0
    <3>1. \A c \in Containers, h \in Hosts : ~Holds(c, b, h)
      BY <1>2, <2>1, CountIsZero
    <3>2. QED
      BY <1>2, <1>4, <3>1 DEF LiveAt
  <2>2. CASE net'[r].pc = "idle"
    BY <1>3, <1>4, <1>5, <2>2, CalmLive DEF Owner, Emptying, On
  <2>3. QED
    BY <1>3, <2>1, <2>2
<1>11. NamedAt(b)'
  BY <1>1, <1>2, <1>3, <1>4, <1>5, CalmNamed DEF Owner, Leaving, On, RequestOK
<1>12. QED
  BY <1>1, <1>3, <1>5, <1>6, <1>7, <1>8, <1>9, <1>10, <1>11, NetworkStep

\* RemoveNetwork: the commit.
LEMMA RefreshPolicyAfterRemoveKeeps ==
    ASSUME NetworkInv, NEW r \in NetReqs, RefreshPolicyAfterRemove(r)
    PROVE  NetworkInv'
<1>1. PICK b \in Bridges : b = net[r].b /\ b = Br(r)
  BY DEF NetworkInv, NetworkTypeOK, Br
<1>2. NetworkTypeOK /\ IpamInv /\ RequestOK(net[r]) /\ HostAt(b) /\ LiveAt(b) /\ NamedAt(b)
  BY DEF NetworkInv, RequestsOK
<1>3. /\ OnlyMoves(r) /\ net[r].pc = "recommit"
      /\ \/ net'[r].pc = "unnamed" /\ net'[r].b = b /\ net'[r].n = net[r].n /\ net'[r].stored = net[r].stored /\ net'[r].linked = net[r].linked /\ net[r].n \in Namespaces
         \/ net'[r].pc = "idle" /\ ~net'[r].stored /\ ~net'[r].linked /\ (net[r].n \in Namespaces => b \in cut')
  <2>1. CASE Step(r, "unnamed") /\ net[r].n \in Namespaces
    BY <1>1, <1>2, <2>1, StepMoves DEF RefreshPolicyAfterRemove, At, NetPcs
  <2>2. CASE Done(r) /\ (net[r].n \in Namespaces => b \in cut')
    BY <1>2, <2>2, DoneMoves DEF RefreshPolicyAfterRemove, At
  <2>3. QED
    BY <1>1, <2>1, <2>2 DEF RefreshPolicyAfterRemove
<1>4. /\ links' = links /\ redirect' = redirect /\ spoiled' = spoiled /\ raced' = raced /\ ns' = ns /\ ctr' = ctr /\ auto' = auto
      /\ cut' = cut \/ cut' = cut \cup {b}
  BY <1>1 DEF RefreshPolicyAfterRemove, kern, hist
<1>5. IpamInv' /\ \A d : (Configured(d)' <=> Configured(d)) /\ \A c, h : Holds(c, d, h)' <=> Holds(c, d, h)
  BY <1>2, NoPoolEffect DEF RefreshPolicyAfterRemove
<1>6. NetworkTypeOK'
  BY <1>2, <1>3, <1>4 DEF NetworkTypeOK, OnlyMoves, NetRequest
<1>7. RequestOK(net'[r])
  BY <1>2, <1>3 DEF RequestOK
<1>8. \A d \in Bridges \ {b} : Elsewhere(d)
  BY <1>4, <1>5 DEF Elsewhere
<1>9. HostAt(b)'
  BY <1>1, <1>2, <1>3, <1>4, <1>5, CalmHost DEF Holding, Undoing, Redirecting, On
<1>10. LiveAt(b)'
  BY <1>1, <1>2, <1>3, <1>4, <1>5, CalmLive DEF Owner, Emptying, On
<1>11. NamedAt(b)'
  <2>1. CASE b \in cut'
    BY <2>1 DEF NamedAt
  <2>2. CASE b \notin cut'
    <3>1. \A n \in Namespaces : Leaving(r, n, b) => Leaving(r, n, b)'
      BY <1>1, <1>3, <2>2 DEF Leaving, On
    <3>2. QED
      BY <1>1, <1>3, <1>4, <1>5, <3>1, CalmNamed DEF Owner, On
  <2>3. QED
    BY <2>1, <2>2
<1>12. QED
  BY <1>1, <1>3, <1>5, <1>6, <1>7, <1>8, <1>9, <1>10, <1>11, NetworkStep

\* Namespaces, Remove: the name is dropped.
LEMMA DropNamespaceKeeps ==
    ASSUME NetworkInv, NEW r \in NetReqs, DropNamespace(r)
    PROVE  NetworkInv'
<1>1. PICK b \in Bridges : b = net[r].b /\ b = Br(r)
  BY DEF NetworkInv, NetworkTypeOK, Br
<1>2. NetworkTypeOK /\ IpamInv /\ RequestOK(net[r]) /\ HostAt(b) /\ LiveAt(b) /\ NamedAt(b)
  BY DEF NetworkInv, RequestsOK
<1>3. /\ OnlyMoves(r) /\ net[r].pc = "unnamed"
      /\ net'[r].pc = "idle" /\ ~net'[r].stored /\ ~net'[r].linked
  BY <1>1, <1>2, StepMoves, DoneMoves DEF DropNamespace, At, NetPcs
<1>4. /\ links' = links /\ redirect' = redirect /\ spoiled' = spoiled /\ cut' = cut /\ raced' = raced /\ ctr' = ctr
      /\ \A n \in Namespaces : ns'[n] = IF n = net[r].n THEN NoBridge ELSE ns[n]
  BY <1>1 DEF DropNamespace, NetworkInv, NetworkTypeOK, kern, hist
<1>5. IpamInv' /\ \A d : (Configured(d)' <=> Configured(d)) /\ \A c, h : Holds(c, d, h)' <=> Holds(c, d, h)
  BY <1>2, NoPoolEffect DEF DropNamespace
<1>6. NetworkTypeOK'
  <2>1. ns' \in [Namespaces -> Bridges \cup {NoBridge}] /\ auto' \subseteq Namespaces
    BY <1>1, <1>2, <1>3 DEF DropNamespace, NetworkTypeOK, RequestOK
  <2>2. QED
    BY <1>2, <1>3, <1>4, <2>1 DEF NetworkTypeOK, OnlyMoves, NetRequest
<1>7. RequestOK(net'[r])
  BY <1>2, <1>3 DEF RequestOK
<1>8. \A d \in Bridges \ {b} : Elsewhere(d)
  BY <1>4, <1>5 DEF Elsewhere
<1>9. HostAt(b)'
  BY <1>1, <1>2, <1>3, <1>4, <1>5, CalmHost DEF Holding, Undoing, Redirecting, On
<1>10. LiveAt(b)'
  BY <1>1, <1>2, <1>3, <1>4, <1>5, CalmLive DEF Owner, Emptying, On
<1>11. NamedAt(b)'
  BY <1>1, <1>2, <1>3, <1>4, <1>5, CalmNamed DEF Owner, Leaving, On, RequestOK
<1>12. QED
  BY <1>1, <1>3, <1>5, <1>6, <1>7, <1>8, <1>9, <1>10, <1>11, NetworkStep

\* Namespaces, Create: the name of a shared network is stored.
LEMMA StoreSharingKeeps ==
    ASSUME NetworkInv, NEW r \in NetReqs, StoreSharing(r)
    PROVE  NetworkInv'
<1>1. PICK b \in Bridges : b = net[r].b /\ b = Br(r)
  BY DEF NetworkInv, NetworkTypeOK, Br
<1>2. NetworkTypeOK /\ IpamInv /\ RequestOK(net[r]) /\ HostAt(b) /\ LiveAt(b) /\ NamedAt(b)
  BY DEF NetworkInv, RequestsOK
<1>3. /\ OnlyMoves(r) /\ net[r].pc = "share"
      /\ net'[r].pc = "idle" /\ ~net'[r].stored /\ ~net'[r].linked
  BY <1>1, <1>2, StepMoves, DoneMoves DEF StoreSharing, At, NetPcs
<1>4. /\ links' = links /\ redirect' = redirect /\ spoiled' = spoiled /\ raced' = raced /\ ctr' = ctr
      /\ \A n \in Namespaces : ns'[n] = ns[n] \/ ns'[n] = b
      /\ cut' = IF Going(b) THEN cut \cup {b} ELSE cut
  BY <1>1 DEF StoreSharing, NetworkInv, NetworkTypeOK, kern, hist
<1>5. IpamInv' /\ \A d : (Configured(d)' <=> Configured(d)) /\ \A c, h : Holds(c, d, h)' <=> Holds(c, d, h)
  BY <1>2, NoPoolEffect DEF StoreSharing
<1>6. NetworkTypeOK'
  <2>1. ns' \in [Namespaces -> Bridges \cup {NoBridge}] /\ auto' \subseteq Namespaces
    BY <1>1, <1>2, <1>3 DEF StoreSharing, NetworkTypeOK, RequestOK
  <2>2. QED
    BY <1>2, <1>3, <1>4, <2>1 DEF NetworkTypeOK, OnlyMoves, NetRequest
<1>7. RequestOK(net'[r])
  BY <1>2, <1>3 DEF RequestOK
<1>8. \A d \in Bridges \ {b} : Elsewhere(d)
  BY <1>4, <1>5 DEF Elsewhere
<1>9. HostAt(b)'
  BY <1>1, <1>2, <1>3, <1>4, <1>5, CalmHost DEF Holding, Undoing, Redirecting, On
<1>10. LiveAt(b)'
  BY <1>1, <1>2, <1>3, <1>4, <1>5, CalmLive DEF Owner, Emptying, On
<1>11. NamedAt(b)'
  <2>1. CASE b \in cut' \cup spoiled
    BY <1>4, <2>1 DEF NamedAt
  <2>2. CASE b \notin cut' \cup spoiled
    <3>1. b \notin cut \cup spoiled /\ ~Going(b)
      BY <1>4, <2>2
    <3>2. \A q \in NetReqs : ~Owner(q, b)
      BY <3>1 DEF Owner, On, Going
    <3>3. Configured(b)
      BY <1>1, <1>2, <1>3, <3>1 DEF NamedAt, On
    <3>4. \A q \in NetReqs : ~Owner(q, b)'
      BY <1>3, <3>2, HoldersMove DEF Owner, On
    <3>5. QED
      BY <1>5, <3>3, <3>4 DEF NamedAt
  <2>3. QED
    BY <2>1, <2>2
<1>12. QED
  BY <1>1, <1>3, <1>5, <1>6, <1>7, <1>8, <1>9, <1>10, <1>11, NetworkStep

\* Namespaces, Create: the name of a new network is stored, or was taken.
LEMMA StoreNamespaceKeeps ==
    ASSUME NetworkInv, NEW r \in NetReqs, StoreNamespace(r)
    PROVE  NetworkInv'
<1>1. PICK b \in Bridges : b = net[r].b /\ b = Br(r)
  BY DEF NetworkInv, NetworkTypeOK, Br
<1>2. NetworkTypeOK /\ IpamInv /\ RequestOK(net[r]) /\ HostAt(b) /\ LiveAt(b) /\ NamedAt(b)
  BY DEF NetworkInv, RequestsOK
<1>3. /\ OnlyMoves(r) /\ net[r].pc = "named"
      /\ \/ net'[r].pc = "idle" /\ ~net'[r].stored /\ ~net'[r].linked
         \/ net'[r].pc = "count" /\ net'[r].b = b /\ ~net'[r].stored /\ ~net'[r].linked /\ ns' = ns
  <2>1. CASE Done(r)
    BY <1>2, <2>1, DoneMoves DEF StoreNamespace, At
  <2> DEFINE x == [Resting EXCEPT !.pc = "count", !.b = Br(r)]
  <2>2. CASE net' = [net EXCEPT ![r] = x] /\ ns' = ns
    <3>1. x \in NetRequest /\ x.pc = "count" /\ x.b = b /\ ~x.stored /\ ~x.linked
      BY <1>1, IpamAssumption DEF Resting, NetRequest, NetPcs
    <3>2. OnlyMoves(r) /\ net'[r] = x
      BY <1>2, <2>2, <3>1 DEF NetworkTypeOK, NetRequest, OnlyMoves
    <3>3. QED
      BY <2>2, <3>1, <3>2 DEF StoreNamespace, At
  <2>3. QED
    BY <1>1, <2>1, <2>2 DEF StoreNamespace
<1>4. /\ links' = links /\ redirect' = redirect /\ spoiled' = spoiled /\ cut' = cut /\ raced' = raced /\ ctr' = ctr
      /\ \A n \in Namespaces : ns'[n] = ns[n] \/ ns'[n] = b
  BY <1>1 DEF StoreNamespace, NetworkInv, NetworkTypeOK, kern, hist
<1>5. IpamInv' /\ \A d : (Configured(d)' <=> Configured(d)) /\ \A c, h : Holds(c, d, h)' <=> Holds(c, d, h)
  BY <1>2, NoPoolEffect DEF StoreNamespace
<1>6. NetworkTypeOK'
  <2>1. ns' \in [Namespaces -> Bridges \cup {NoBridge}] /\ auto' \subseteq Namespaces
    BY <1>1, <1>2, <1>3 DEF StoreNamespace, NetworkTypeOK, RequestOK
  <2>2. QED
    BY <1>2, <1>3, <1>4, <2>1 DEF NetworkTypeOK, OnlyMoves, NetRequest
<1>7. RequestOK(net'[r])
  BY <1>2, <1>3 DEF RequestOK
<1>8. \A d \in Bridges \ {b} : Elsewhere(d)
  BY <1>4, <1>5 DEF Elsewhere
<1>9. HostAt(b)'
  BY <1>1, <1>2, <1>3, <1>4, <1>5, CalmHost DEF Holding, Undoing, Redirecting, On
<1>10. LiveAt(b)'
  BY <1>1, <1>2, <1>3, <1>4, <1>5, CalmLive DEF Owner, Emptying, On
<1>11. NamedAt(b)'
  <2>1. CASE b \in cut \cup spoiled
    BY <1>4, <2>1 DEF NamedAt
  <2>2. CASE b \notin cut \cup spoiled
    <3>1. Owner(r, b) /\ ~Owner(r, b)' /\ ~(On(r, b)' /\ net'[r].pc = "share")
      BY <1>1, <1>3 DEF Owner, On
    <3>2. Configured(b) /\ \A q \in NetReqs \ {r} : ~Owner(q, b)
      BY <1>2, <2>2, <3>1 DEF NamedAt
    <3>3. \A q \in NetReqs : ~Owner(q, b)'
      BY <1>3, <3>1, <3>2, HoldersMove
    <3>4. QED
      BY <1>5, <3>2, <3>3 DEF NamedAt
  <2>3. QED
    BY <2>1, <2>2
<1>12. QED
  BY <1>1, <1>3, <1>5, <1>6, <1>7, <1>8, <1>9, <1>10, <1>11, NetworkStep

\* CreateNewNetwork: StoreBridge, or the pool exists.
LEMMA StorePoolKeeps ==
    ASSUME NetworkInv, NEW r \in NetReqs, StorePool(r)
    PROVE  NetworkInv'
<1>1. PICK b \in Bridges : b = net[r].b /\ b = Br(r)
  BY DEF NetworkInv, NetworkTypeOK, Br
<1>2. NetworkTypeOK /\ IpamInv /\ RequestOK(net[r]) /\ HostAt(b) /\ LiveAt(b) /\ NamedAt(b)
  BY DEF NetworkInv, RequestsOK
<1>3. /\ OnlyMoves(r) /\ net[r].pc = "pool"
      /\ \/ /\ StoreBridge(b) /\ net'[r].pc = "link" /\ net'[r].b = b /\ net'[r].n = net[r].n /\ net'[r].stored /\ net'[r].linked = net[r].linked
            /\ cut' = IF Others(r) \/ (\E n \in Namespaces : ns[n] = b) THEN cut ELSE cut \ {b}
         \/ /\ UNCHANGED ipamVars /\ cut' = cut
            /\ net'[r].pc = "rbpool" /\ net'[r].b = b /\ net'[r].n = net[r].n /\ net'[r].stored = net[r].stored /\ net'[r].linked = net[r].linked
  <2>1. CASE StoreBridge(b) /\ net' = [net EXCEPT ![r].pc = "link", ![r].stored = TRUE]
    <3> DEFINE x == [net[r] EXCEPT !.pc = "link", !.stored = TRUE]
    <3>1. x \in NetRequest /\ x.pc = "link" /\ x.b = b /\ x.n = net[r].n /\ x.stored /\ x.linked = net[r].linked
      BY <1>1, <1>2 DEF NetworkTypeOK, NetRequest, NetPcs
    <3>2. OnlyMoves(r) /\ net'[r] = x
      BY <1>2, <2>1, <3>1 DEF NetworkTypeOK, NetRequest, OnlyMoves
    <3>3. ~Configured(b) /\ (UNCHANGED ipamVars => (Configured(b)' <=> Configured(b))) /\ Configured(b)'
      BY <1>2, <2>1, PoolEffect, NoPoolEffect
    <3>4. cut' = IF Others(r) \/ (\E n \in Namespaces : ns[n] = b) THEN cut ELSE cut \ {b}
      BY <1>1, <3>3 DEF StorePool
    <3>5. QED
      BY <2>1, <3>1, <3>2, <3>4 DEF StorePool, At
  <2>2. CASE UNCHANGED <<ipamVars, cut>> /\ Step(r, "rbpool")
    BY <1>1, <1>2, <2>2, StepMoves DEF StorePool, At, NetPcs
  <2>3. QED
    BY <1>1, <2>1, <2>2 DEF StorePool
<1>4. /\ links' = links /\ redirect' = redirect /\ spoiled' = spoiled /\ raced' = raced /\ ns' = ns /\ ctr' = ctr /\ auto' = auto
      /\ cut' = cut \/ cut' = cut \ {b}
  BY <1>1 DEF StorePool, kern, hist
<1>5. /\ IpamInv'
      /\ \A d \in Bridges \ {b} : (Configured(d)' <=> Configured(d)) /\ \A c \in Containers, h \in Hosts : Holds(c, d, h)' <=> Holds(c, d, h)
      /\ StoreBridge(b) => ~Configured(b) /\ Configured(b)'
      /\ UNCHANGED ipamVars => (Configured(b)' <=> Configured(b)) /\ \A c, h : Holds(c, b, h)' <=> Holds(c, b, h)
  BY <1>2, <1>3, PoolEffect, NoPoolEffect
<1>6. NetworkTypeOK'
  BY <1>2, <1>3, <1>4 DEF NetworkTypeOK, OnlyMoves, NetRequest
<1>7. RequestOK(net'[r])
  BY <1>2, <1>3 DEF RequestOK
<1>8. \A d \in Bridges \ {b} : Elsewhere(d)
  BY <1>4, <1>5 DEF Elsewhere
<1>9. HostAt(b)'
  <2>1. CASE UNCHANGED ipamVars /\ net'[r].pc = "rbpool" /\ ~net'[r].stored
    BY <1>1, <1>3, <1>4, <1>5, <2>1, CalmHost DEF Holding, Undoing, Redirecting, On
  <2>2. CASE StoreBridge(b) /\ net'[r].pc = "link"
    <3>1. Holding(r, b)' /\ Redirecting(r, b)' /\ ~Undoing(r, b)' /\ ~Undoing(r, b) /\ ~Holding(r, b)
      BY <1>1, <1>3, <2>2 DEF Holding, Redirecting, Undoing, On
    <3>2. Holders(b)' = Holders(b) \cup {r} /\ r \notin Holders(b)
      BY <1>3, <3>1, HoldersMove DEF Holders
    <3>3. \A q \in NetReqs : Undoing(q, b)' <=> Undoing(q, b)
      BY <1>3, <3>1, HoldersMove
    <3>4. Matched(b) => Matched(b)'
      BY <1>4, <1>5, <2>2, <3>2 DEF Matched
    <3>5. Ahead(b) => Ahead(b)'
      BY <1>4, <1>5, <2>2, <3>2, <3>3 DEF Ahead
    <3>6. QED
      BY <1>2, <1>4, <3>1, <3>3, <3>4, <3>5 DEF HostAt
  <2>3. QED
    BY <1>2, <1>3, <2>1, <2>2 DEF RequestOK
<1>10. LiveAt(b)'
  <2>1. CASE UNCHANGED ipamVars /\ net'[r].pc = "rbpool" /\ ~net'[r].stored
    BY <1>1, <1>3, <1>4, <1>5, <2>1, CalmLive DEF Owner, Emptying, On
  <2>2. CASE StoreBridge(b)
    BY <1>2, <1>4, <1>5, <2>2 DEF LiveAt, Holds
  <2>3. QED
    BY <1>2, <1>3, <2>1, <2>2 DEF RequestOK
<1>11. NamedAt(b)'
  <2>1. CASE UNCHANGED ipamVars /\ net'[r].pc = "rbpool" /\ ~net'[r].stored /\ cut' = cut
    BY <1>1, <1>3, <1>4, <1>5, <2>1, CalmNamed DEF Owner, Leaving, On
  <2>2. CASE /\ StoreBridge(b) /\ net'[r].pc = "link"
             /\ cut' = IF Others(r) \/ (\E n \in Namespaces : ns[n] = b) THEN cut ELSE cut \ {b}
    <3>1. SUFFICES ASSUME b \notin cut' \cup spoiled PROVE NamedAt(b)'
      BY <1>4 DEF NamedAt
    <3>2. Configured(b)' /\ ~Configured(b)
      BY <1>5, <2>2
    <3>3. CASE b \notin cut
      <4>1. \A q \in NetReqs : ~Owner(q, b)
        BY <1>2, <3>1, <3>2, <3>3 DEF NamedAt
      <4>2. \A q \in NetReqs \ {r} : ~Owner(q, b)'
        BY <1>3, <4>1, HoldersMove
      <4>3. \A n \in Namespaces : ns[n] = b /\ b # NoBridge => \E q \in NetReqs \ {r} : Leaving(q, n, b)
        BY <1>2, <1>3, <3>1, <3>2, <3>3 DEF NamedAt, Leaving
      <4>4. \A n \in Namespaces : ns[n] = b /\ b # NoBridge => \E q \in NetReqs \ {r} : Leaving(q, n, b)'
        BY <1>3, <4>3, HoldersMove
      <4>5. QED
        BY <1>4, <3>2, <4>2, <4>4 DEF NamedAt
    <3>4. CASE b \in cut
      <4>1. ~Others(r) /\ ~\E n \in Namespaces : ns[n] = b
        BY <2>2, <3>1, <3>4
      <4>2. \A q \in NetReqs \ {r} : ~On(q, b)
        BY <1>1, <4>1 DEF Others, On, At, Br
      <4>3. \A q \in NetReqs \ {r} : ~Owner(q, b)'
        BY <1>3, <4>2, HoldersMove DEF Owner
      <4>4. QED
        BY <1>4, <3>2, <4>1, <4>3 DEF NamedAt
    <3>5. QED
      BY <3>3, <3>4
  <2>3. QED
    BY <1>2, <1>3, <2>1, <2>2 DEF RequestOK
<1>12. QED
  BY <1>1, <1>3, <1>5, <1>6, <1>7, <1>8, <1>9, <1>10, <1>11, NetworkStep

\* CreateNewNetwork: the link.
LEMMA CreateBridgeInterfaceKeeps ==
    ASSUME NetworkInv, NEW r \in NetReqs, CreateBridgeInterface(r)
    PROVE  NetworkInv'
<1>1. PICK b \in Bridges : b = net[r].b /\ b = Br(r)
  BY DEF NetworkInv, NetworkTypeOK, Br
<1>2. NetworkTypeOK /\ IpamInv /\ RequestOK(net[r]) /\ HostAt(b) /\ LiveAt(b) /\ NamedAt(b)
  BY DEF NetworkInv, RequestsOK
<1>3. /\ OnlyMoves(r) /\ net[r].pc = "link"
      /\ \/ /\ links' = links \cup {b} /\ spoiled' = spoiled
            /\ net'[r].pc = "dns" /\ net'[r].b = b /\ net'[r].n = net[r].n /\ net'[r].stored = net[r].stored /\ net'[r].linked
         \/ /\ (links' = links /\ spoiled' = spoiled) \/ (links' = links \cup {b} /\ spoiled' = spoiled \cup {b})
            /\ net'[r].pc = "rbpool" /\ net'[r].b = b /\ net'[r].n = net[r].n /\ net'[r].stored = net[r].stored /\ net'[r].linked = net[r].linked
  <2>1. CASE links' = links \cup {b} /\ spoiled' = spoiled /\ net' = [net EXCEPT ![r].pc = "dns", ![r].linked = TRUE]
    <3> DEFINE x == [net[r] EXCEPT !.pc = "dns", !.linked = TRUE]
    <3>1. x \in NetRequest /\ x.pc = "dns" /\ x.b = b /\ x.n = net[r].n /\ x.stored = net[r].stored /\ x.linked
      BY <1>1, <1>2 DEF NetworkTypeOK, NetRequest, NetPcs
    <3>2. OnlyMoves(r) /\ net'[r] = x
      BY <1>2, <2>1, <3>1 DEF NetworkTypeOK, NetRequest, OnlyMoves
    <3>3. QED
      BY <2>1, <3>1, <3>2 DEF CreateBridgeInterface, At
  <2>2. CASE /\ (links' = links /\ spoiled' = spoiled) \/ (links' = links \cup {b} /\ spoiled' = spoiled \cup {b})
             /\ Step(r, "rbpool")
    BY <1>1, <1>2, <2>2, StepMoves DEF CreateBridgeInterface, At, NetPcs
  <2>3. QED
    BY <1>1, <2>1, <2>2 DEF CreateBridgeInterface
<1>4. /\ redirect' = redirect /\ cut' = cut /\ raced' = raced /\ ns' = ns /\ ctr' = ctr /\ auto' = auto
      /\ links' = links \/ links' = links \cup {b}
      /\ spoiled' = spoiled \/ spoiled' = spoiled \cup {b}
  BY <1>1 DEF CreateBridgeInterface, kern, hist
<1>5. IpamInv' /\ \A d : (Configured(d)' <=> Configured(d)) /\ \A c, h : Holds(c, d, h)' <=> Holds(c, d, h)
  BY <1>2, NoPoolEffect DEF CreateBridgeInterface
<1>6. NetworkTypeOK'
  BY <1>2, <1>3, <1>4 DEF NetworkTypeOK, OnlyMoves, NetRequest
<1>7. RequestOK(net'[r])
  BY <1>2, <1>3 DEF RequestOK
<1>8. \A d \in Bridges \ {b} : Elsewhere(d)
  BY <1>4, <1>5 DEF Elsewhere
<1>9. HostAt(b)'
  <2>1. CASE b \in spoiled'
    BY <2>1 DEF HostAt
  <2>2. CASE links' = links /\ spoiled' = spoiled /\ net'[r].pc = "rbpool"
    BY <1>1, <1>2, <1>3, <1>4, <1>5, <2>2, CalmHost DEF Holding, Undoing, Redirecting, On, RequestOK
  <2>3. CASE links' = links \cup {b} /\ spoiled' = spoiled /\ net'[r].pc = "dns"
    <3>1. Holding(r, b) /\ ~Holding(r, b)' /\ Redirecting(r, b)' /\ ~Undoing(r, b)' /\ ~Undoing(r, b)
      BY <1>1, <1>3, <2>3 DEF Holding, Redirecting, Undoing, On
    <3>2. Holders(b)' = Holders(b) \ {r} /\ r \in Holders(b)
      BY <1>3, <3>1, HoldersMove DEF Holders
    <3>3. \A q \in NetReqs : Undoing(q, b)' <=> Undoing(q, b)
      BY <1>3, <3>1, HoldersMove
    <3>4. Matched(b) => Matched(b)'
      <4>1. Matched(b) => b \notin links /\ Configured(b) /\ Holders(b) \ {r} = {}
        BY <3>2 DEF Matched
      <4>2. QED
        BY <1>5, <2>3, <3>2, <4>1 DEF Matched
    <3>5. Ahead(b) => Matched(b)' \/ Ahead(b)'
      <4>1. CASE /\ ~Configured(b) /\ b \notin links /\ \E x \in NetReqs : Holders(b) = {x}
                 /\ \E q \in NetReqs : Undoing(q, b)
        <5>1. Holders(b)' = {}
          BY <3>2, <4>1
        <5>2. QED
          BY <1>5, <2>3, <3>3, <4>1, <5>1 DEF Ahead
      <4>2. CASE Configured(b) /\ b \in links /\ \E x \in NetReqs : Holders(b) = {x}
        <5>1. Holders(b)' = {}
          BY <3>2, <4>2
        <5>2. QED
          BY <1>5, <2>3, <4>2, <5>1 DEF Matched
      <4>3. CASE /\ Configured(b) /\ b \notin links /\ \E x, y \in NetReqs : x # y /\ Holders(b) = {x, y}
                 /\ \E q \in NetReqs : Undoing(q, b)
        <5>1. \E x \in NetReqs : Holders(b)' = {x}
          BY <3>2, <4>3
        <5>2. QED
          BY <1>5, <2>3, <3>3, <4>3, <5>1 DEF Ahead
      <4>4. QED
        BY <3>2, <4>1, <4>2, <4>3 DEF Ahead
    <3>6. QED
      BY <1>2, <2>3, <3>1, <3>3, <3>4, <3>5 DEF HostAt
  <2>4. QED
    BY <1>3, <2>1, <2>2, <2>3
<1>10. LiveAt(b)'
  BY <1>1, <1>2, <1>3, <1>4, <1>5, CalmLive DEF Owner, Emptying, On, RequestOK
<1>11. NamedAt(b)'
  BY <1>1, <1>2, <1>3, <1>4, <1>5, CalmNamed DEF Owner, Leaving, On, RequestOK
<1>12. QED
  BY <1>1, <1>3, <1>5, <1>6, <1>7, <1>8, <1>9, <1>10, <1>11, NetworkStep

\* CreateNewNetwork: the redirects of udp and tcp.
LEMMA CreateRedirectDnsTrafficRuleKeeps ==
    ASSUME NetworkInv, NEW r \in NetReqs, CreateRedirectDnsTrafficRule(r)
    PROVE  NetworkInv'
<1>1. PICK b \in Bridges : b = net[r].b /\ b = Br(r)
  BY DEF NetworkInv, NetworkTypeOK, Br
<1>2. NetworkTypeOK /\ IpamInv /\ RequestOK(net[r]) /\ HostAt(b) /\ LiveAt(b) /\ NamedAt(b)
  BY DEF NetworkInv, RequestsOK
<1>3. /\ OnlyMoves(r) /\ net[r].pc = "dns"
      /\ \/ net'[r].pc = "commit" /\ net'[r].b = b /\ net'[r].n = net[r].n /\ net'[r].stored = net[r].stored /\ net'[r].linked = net[r].linked /\ redirect' = [redirect EXCEPT ![b] = Protocols]
         \/ net'[r].pc = "rbpool" /\ net'[r].b = b /\ net'[r].n = net[r].n /\ net'[r].stored = net[r].stored /\ net'[r].linked = net[r].linked /\ redirect' \in {redirect, [redirect EXCEPT ![b] = @ \cup {"udp"}]}
  <2>1. CASE redirect' = [redirect EXCEPT ![b] = Protocols] /\ Step(r, "commit")
    BY <1>1, <1>2, <2>1, StepMoves DEF CreateRedirectDnsTrafficRule, At, NetPcs
  <2>2. CASE redirect' \in {redirect, [redirect EXCEPT ![b] = @ \cup {"udp"}]} /\ Step(r, "rbpool")
    BY <1>1, <1>2, <2>2, StepMoves DEF CreateRedirectDnsTrafficRule, At, NetPcs
  <2>3. QED
    BY <1>1, <2>1, <2>2 DEF CreateRedirectDnsTrafficRule
<1>4. /\ links' = links /\ spoiled' = spoiled /\ cut' = cut /\ raced' = raced /\ ns' = ns /\ ctr' = ctr /\ auto' = auto
      /\ \A d \in Bridges \ {b} : redirect'[d] = redirect[d]
      /\ redirect' \in [Bridges -> SUBSET Protocols]
  BY <1>1 DEF CreateRedirectDnsTrafficRule, NetworkInv, NetworkTypeOK, Protocols, kern, hist
<1>5. IpamInv' /\ \A d : (Configured(d)' <=> Configured(d)) /\ \A c, h : Holds(c, d, h)' <=> Holds(c, d, h)
  BY <1>2, NoPoolEffect DEF CreateRedirectDnsTrafficRule
<1>6. NetworkTypeOK'
  BY <1>2, <1>3, <1>4 DEF NetworkTypeOK, OnlyMoves, NetRequest
<1>7. RequestOK(net'[r])
  BY <1>2, <1>3 DEF RequestOK
<1>8. \A d \in Bridges \ {b} : Elsewhere(d)
  BY <1>4, <1>5 DEF Elsewhere
<1>9. HostAt(b)'
  <2>1. redirect'[b] = Protocols \/ Redirecting(r, b)'
    BY <1>1, <1>2, <1>3 DEF Redirecting, On, RequestOK, NetworkTypeOK
  <2>2. QED
    BY <1>1, <1>2, <1>3, <1>4, <1>5, <2>1, CalmLinks DEF Holding, Undoing, On, RequestOK
<1>10. LiveAt(b)'
  BY <1>1, <1>2, <1>3, <1>4, <1>5, CalmLive DEF Owner, Emptying, On, RequestOK
<1>11. NamedAt(b)'
  BY <1>1, <1>2, <1>3, <1>4, <1>5, CalmNamed DEF Owner, Leaving, On, RequestOK
<1>12. QED
  BY <1>1, <1>3, <1>5, <1>6, <1>7, <1>8, <1>9, <1>10, <1>11, NetworkStep

\* RemoveNetwork: the redirects of udp and tcp.
LEMMA RemoveRedirectDnsTrafficRuleKeeps ==
    ASSUME NetworkInv, NEW r \in NetReqs, RemoveRedirectDnsTrafficRule(r)
    PROVE  NetworkInv'
<1>1. PICK b \in Bridges : b = net[r].b /\ b = Br(r)
  BY DEF NetworkInv, NetworkTypeOK, Br
<1>2. NetworkTypeOK /\ IpamInv /\ RequestOK(net[r]) /\ HostAt(b) /\ LiveAt(b) /\ NamedAt(b)
  BY DEF NetworkInv, RequestsOK
<1>3. /\ OnlyMoves(r) /\ net[r].pc = "undns"
      /\ \/ net'[r].pc = "unlink" /\ net'[r].b = b /\ net'[r].n = net[r].n /\ net'[r].stored = net[r].stored /\ net'[r].linked = net[r].linked
         \/ net'[r].pc = "idle" /\ ~net'[r].stored /\ ~net'[r].linked /\ b \in spoiled'
  <2>1. CASE Step(r, "unlink")
    BY <1>1, <1>2, <2>1, StepMoves DEF RemoveRedirectDnsTrafficRule, At, NetPcs
  <2>2. CASE b \in spoiled' /\ Done(r)
    BY <1>1, <1>2, <2>2, DoneMoves DEF RemoveRedirectDnsTrafficRule, At
  <2>3. QED
    BY <1>1, <2>1, <2>2 DEF RemoveRedirectDnsTrafficRule
<1>4. /\ links' = links /\ cut' = cut /\ raced' = raced /\ ns' = ns /\ ctr' = ctr /\ auto' = auto
      /\ \A d \in Bridges \ {b} : redirect'[d] = redirect[d]
      /\ redirect' \in [Bridges -> SUBSET Protocols]
      /\ spoiled' = spoiled \/ spoiled' = spoiled \cup {b}
  BY <1>1 DEF RemoveRedirectDnsTrafficRule, NetworkInv, NetworkTypeOK, Protocols, kern, hist
<1>5. IpamInv' /\ \A d : (Configured(d)' <=> Configured(d)) /\ \A c, h : Holds(c, d, h)' <=> Holds(c, d, h)
  BY <1>2, NoPoolEffect DEF RemoveRedirectDnsTrafficRule
<1>6. NetworkTypeOK'
  BY <1>2, <1>3, <1>4 DEF NetworkTypeOK, OnlyMoves, NetRequest
<1>7. RequestOK(net'[r])
  BY <1>2, <1>3 DEF RequestOK
<1>8. \A d \in Bridges \ {b} : Elsewhere(d)
  BY <1>4, <1>5 DEF Elsewhere
<1>9. HostAt(b)'
  <2>1. CASE b \in spoiled'
    BY <2>1 DEF HostAt
  <2>2. CASE b \notin spoiled'
    <3>1. Redirecting(r, b)'
      BY <1>3, <2>2 DEF Redirecting, On
    <3>2. QED
      BY <1>1, <1>3, <1>4, <1>5, <2>2, <3>1, CalmLinks DEF Holding, Undoing, On
  <2>3. QED
    BY <2>1, <2>2
<1>10. LiveAt(b)'
  BY <1>1, <1>2, <1>3, <1>4, <1>5, CalmLive DEF Owner, Emptying, On
<1>11. NamedAt(b)'
  BY <1>1, <1>2, <1>3, <1>4, <1>5, CalmNamed DEF Owner, Leaving, On, RequestOK
<1>12. QED
  BY <1>1, <1>3, <1>5, <1>6, <1>7, <1>8, <1>9, <1>10, <1>11, NetworkStep

\* CreateNewNetwork, rollback: the pool.
LEMMA RollbackPoolKeeps ==
    ASSUME NetworkInv, NEW r \in NetReqs, RollbackPool(r)
    PROVE  NetworkInv'
<1>1. PICK b \in Bridges : b = net[r].b /\ b = Br(r)
  BY DEF NetworkInv, NetworkTypeOK, Br
<1>2. NetworkTypeOK /\ IpamInv /\ RequestOK(net[r]) /\ HostAt(b) /\ LiveAt(b) /\ NamedAt(b)
  BY DEF NetworkInv, RequestsOK
<1>3. /\ OnlyMoves(r) /\ net[r].pc = "rbpool"
      /\ \/ /\ RemoveBridge(b) /\ net[r].stored
            /\ net'[r].pc = "rblink" /\ net'[r].b = b /\ net'[r].n = net[r].n /\ net'[r].stored = net[r].stored /\ net'[r].linked = net[r].linked
         \/ /\ UNCHANGED ipamVars /\ net[r].stored /\ ~Configured(b)
            /\ net'[r].pc = "idle" /\ ~net'[r].stored /\ ~net'[r].linked
         \/ /\ UNCHANGED ipamVars /\ ~net[r].stored
            /\ net'[r].pc = "rblink" /\ net'[r].b = b /\ net'[r].n = net[r].n /\ net'[r].stored = net[r].stored /\ net'[r].linked = net[r].linked
  <2>1. CASE RemoveBridge(b) /\ net[r].stored /\ Step(r, "rblink")
    BY <1>1, <1>2, <2>1, StepMoves DEF RollbackPool, At, NetPcs
  <2>2. CASE UNCHANGED ipamVars /\ net[r].stored /\ ~Configured(b) /\ Done(r)
    BY <1>1, <1>2, <2>2, DoneMoves DEF RollbackPool, At
  <2>3. CASE UNCHANGED ipamVars /\ ~net[r].stored /\ Step(r, "rblink")
    BY <1>1, <1>2, <2>3, StepMoves DEF RollbackPool, At, NetPcs
  <2>4. QED
    BY <1>1, <2>1, <2>2, <2>3 DEF RollbackPool
<1>4. /\ links' = links /\ redirect' = redirect /\ cut' = cut /\ raced' = raced /\ ns' = ns /\ ctr' = ctr /\ auto' = auto
      /\ spoiled' = IF Others(r) THEN spoiled \cup {b} ELSE spoiled
  BY <1>1 DEF RollbackPool, kern, hist
<1>5. /\ IpamInv'
      /\ \A d \in Bridges \ {b} : (Configured(d)' <=> Configured(d)) /\ \A c \in Containers, h \in Hosts : Holds(c, d, h)' <=> Holds(c, d, h)
      /\ RemoveBridge(b) => Configured(b) /\ ~Configured(b)'
      /\ UNCHANGED ipamVars => (Configured(b)' <=> Configured(b)) /\ \A c, h : Holds(c, b, h)' <=> Holds(c, b, h)
  BY <1>2, <1>3, PoolEffect, NoPoolEffect
<1>6. NetworkTypeOK'
  BY <1>2, <1>3, <1>4 DEF NetworkTypeOK, OnlyMoves, NetRequest
<1>7. RequestOK(net'[r])
  BY <1>2, <1>3 DEF RequestOK
<1>8. \A d \in Bridges \ {b} : Elsewhere(d)
  BY <1>4, <1>5 DEF Elsewhere
<1>9. HostAt(b)'
  <2>1. CASE b \in spoiled'
    BY <2>1 DEF HostAt
  <2>2. CASE b \notin spoiled'
    <3>1. ~Others(r) /\ b \notin spoiled
      BY <1>4, <2>2
    <3>2. \A q \in NetReqs \ {r} : ~On(q, b)
      BY <1>1, <3>1 DEF Others, On, At, Br
    <3>3. Holders(b) \subseteq {r} /\ ~Undoing(r, b) /\ ~Holding(r, b)'
      BY <1>3, <3>2 DEF Holders, Holding, Undoing
    <3>4. Holders(b)' = {} /\ (\A q \in NetReqs \ {r} : ~Undoing(q, b)')
      <4>1. Holders(b)' = Holders(b) \ {r}
        BY <1>3, <3>3, HoldersMove
      <4>2. \A q \in NetReqs \ {r} : ~Undoing(q, b)'
        BY <1>3, <3>2, HoldersMove DEF Undoing
      <4>3. QED
        BY <3>3, <4>1, <4>2
    <3>5. Matched(b)
      BY <1>2, <3>1, <3>2, <3>3 DEF HostAt, Ahead, Undoing
    <3>6. r \in Holders(b) <=> net[r].stored /\ ~net[r].linked
      BY <1>1, <1>2, <1>3 DEF Holders, Holding, On, NetworkTypeOK
    <3>7. Matched(b)' \/ Ahead(b)'
      <4>1. CASE RemoveBridge(b) /\ net[r].linked
        <5>1. b \in links /\ Configured(b) /\ ~Configured(b)'
          BY <1>5, <3>3, <3>5, <3>6, <4>1 DEF Matched
        <5>2. Undoing(r, b)'
          BY <1>3, <1>5, <4>1, <5>1 DEF Undoing, On
        <5>3. QED
          BY <1>4, <3>4, <5>1, <5>2 DEF Ahead
      <4>2. CASE RemoveBridge(b) /\ ~net[r].linked
        <5>1. Configured(b) /\ ~Configured(b)'
          BY <1>5, <4>2
        <5>2. net[r].stored
          BY <1>3, <1>5, <5>1
        <5>3. r \in Holders(b)
          BY <3>6, <4>2, <5>2
        <5>4. b \notin links
          BY <3>5, <5>3 DEF Matched
        <5>5. QED
          BY <1>4, <3>4, <5>1, <5>4 DEF Matched
      <4>3. CASE UNCHANGED ipamVars
        <5>1. r \notin Holders(b)
          BY <1>3, <1>5, <3>5, <3>6, <4>3 DEF Matched
        <5>2. Holders(b) = {}
          BY <3>3, <5>1
        <5>3. QED
          BY <1>4, <1>5, <3>4, <3>5, <4>3, <5>2 DEF Matched
      <4>4. QED
        BY <1>3, <4>1, <4>2, <4>3
    <3>8. Configured(b)' => redirect[b] = Protocols \/ \E q \in NetReqs : Redirecting(q, b)'
      <4>1. Configured(b)' => ~net[r].stored /\ Configured(b)
        BY <1>3, <1>5
      <4>2. Configured(b)' => ~Redirecting(r, b) /\ \A q \in NetReqs \ {r} : ~Redirecting(q, b)
        BY <1>3, <3>2, <4>1 DEF Redirecting
      <4>3. QED
        BY <1>2, <3>1, <4>1, <4>2 DEF HostAt
    <3>9. QED
      BY <1>4, <3>4, <3>7, <3>8 DEF HostAt
  <2>3. QED
    BY <2>1, <2>2
<1>10. LiveAt(b)'
  <2>1. CASE UNCHANGED ipamVars
    BY <1>1, <1>3, <1>4, <1>5, <2>1, CalmLive DEF Owner, Emptying, On
  <2>2. CASE RemoveBridge(b) /\ net[r].stored
    <3>1. Owner(r, b)
      BY <1>1, <1>3, <2>2 DEF Owner, On
    <3>2. QED
      BY <1>2, <1>4, <3>1 DEF LiveAt
  <2>3. QED
    BY <1>3, <2>1, <2>2
<1>11. NamedAt(b)'
  <2>1. CASE UNCHANGED ipamVars
    BY <1>1, <1>3, <1>4, <1>5, <2>1, CalmNamed DEF Owner, Leaving, On
  <2>2. CASE RemoveBridge(b) /\ net[r].stored
    <3>1. SUFFICES ASSUME b \notin cut \cup spoiled' PROVE NamedAt(b)'
      BY <1>4 DEF NamedAt
    <3>2. ~Others(r) /\ b \notin cut \cup spoiled
      BY <1>4, <3>1
    <3>3. \A q \in NetReqs \ {r} : ~On(q, b)
      BY <1>1, <3>2 DEF Others, On, At, Br
    <3>4. \A q \in NetReqs : ~Owner(q, b)' /\ ~(On(q, b)' /\ net'[q].pc = "share")
      <4>1. ~Owner(r, b)' /\ net'[r].pc = "rblink"
        BY <1>3, <1>5, <2>2 DEF Owner
      <4>2. \A q \in NetReqs \ {r} : ~On(q, b)'
        BY <1>3, <3>3, HoldersMove
      <4>3. QED
        BY <4>1, <4>2 DEF Owner
    <3>5. Owner(r, b)
      BY <1>1, <1>3, <2>2 DEF Owner, On
    <3>6. \A n \in Namespaces : ns[n] = b => b = NoBridge
      BY <1>2, <1>3, <3>2, <3>3, <3>5 DEF NamedAt, Leaving
    <3>7. QED
      BY <1>4, <3>4, <3>6 DEF NamedAt
  <2>3. QED
    BY <1>3, <2>1, <2>2
<1>12. QED
  BY <1>1, <1>3, <1>5, <1>6, <1>7, <1>8, <1>9, <1>10, <1>11, NetworkStep

\* CreateNewNetwork, rollback: the link.
LEMMA RollbackLinkKeeps ==
    ASSUME NetworkInv, NEW r \in NetReqs, RollbackLink(r)
    PROVE  NetworkInv'
<1>1. PICK b \in Bridges : b = net[r].b /\ b = Br(r)
  BY DEF NetworkInv, NetworkTypeOK, Br
<1>2. NetworkTypeOK /\ IpamInv /\ RequestOK(net[r]) /\ HostAt(b) /\ LiveAt(b) /\ NamedAt(b)
  BY DEF NetworkInv, RequestsOK
<1>3. /\ OnlyMoves(r) /\ net[r].pc = "rblink"
      /\ \/ /\ net[r].linked /\ b \in links /\ links' = links \ {b} /\ (Configured(b) => b \in spoiled')
            /\ net'[r].pc = "rbcommit" /\ net'[r].b = b /\ net'[r].n = net[r].n /\ net'[r].stored = net[r].stored /\ net'[r].linked = net[r].linked
         \/ /\ links' = links /\ b \in spoiled'
            /\ net'[r].pc = "idle" /\ ~net'[r].stored /\ ~net'[r].linked
         \/ /\ ~net[r].linked /\ links' = links
            /\ net'[r].pc = "rbcommit" /\ net'[r].b = b /\ net'[r].n = net[r].n /\ net'[r].stored = net[r].stored /\ net'[r].linked = net[r].linked
  <2>1. CASE net[r].linked /\ b \in links /\ links' = links \ {b} /\ (Configured(b) => b \in spoiled') /\ Step(r, "rbcommit")
    BY <1>1, <1>2, <2>1, StepMoves DEF RollbackLink, At, NetPcs
  <2>2. CASE links' = links /\ b \in spoiled' /\ Done(r)
    BY <1>1, <1>2, <2>2, DoneMoves DEF RollbackLink, At
  <2>3. CASE ~net[r].linked /\ links' = links /\ Step(r, "rbcommit")
    BY <1>1, <1>2, <2>3, StepMoves DEF RollbackLink, At, NetPcs
  <2>4. QED
    BY <1>1, <2>1, <2>2, <2>3 DEF RollbackLink
<1>4. /\ redirect' = redirect /\ cut' = cut /\ raced' = raced /\ ns' = ns /\ ctr' = ctr /\ auto' = auto
      /\ links' = links \/ links' = links \ {b}
      /\ spoiled' = spoiled \/ spoiled' = spoiled \cup {b}
  BY <1>1 DEF RollbackLink, kern, hist
<1>5. IpamInv' /\ \A d : (Configured(d)' <=> Configured(d)) /\ \A c, h : Holds(c, d, h)' <=> Holds(c, d, h)
  BY <1>2, NoPoolEffect DEF RollbackLink
<1>6. NetworkTypeOK'
  BY <1>2, <1>3, <1>4 DEF NetworkTypeOK, OnlyMoves, NetRequest
<1>7. RequestOK(net'[r])
  BY <1>2, <1>3 DEF RequestOK
<1>8. \A d \in Bridges \ {b} : Elsewhere(d)
  BY <1>4, <1>5 DEF Elsewhere
<1>9. HostAt(b)'
  <2>1. CASE b \in spoiled'
    BY <2>1 DEF HostAt
  <2>2. CASE ~net[r].linked /\ links' = links /\ net'[r].pc = "rbcommit" /\ b \notin spoiled'
    BY <1>1, <1>3, <1>4, <1>5, <2>2, CalmHost DEF Holding, Undoing, Redirecting, On
  <2>3. CASE net[r].linked /\ b \in links /\ links' = links \ {b} /\ net'[r].pc = "rbcommit" /\ b \notin spoiled'
    <3>1. ~Configured(b) /\ b \notin spoiled
      BY <1>3, <1>4, <2>3
    <3>2. ~Holding(r, b) /\ ~Holding(r, b)' /\ ~Undoing(r, b)'
      BY <1>3, <2>3 DEF Holding, Undoing
    <3>3. Holders(b)' = Holders(b)
      BY <1>3, <3>2, HoldersMove DEF Holders
    <3>4. Holders(b) = {}
      BY <1>2, <2>3, <3>1 DEF HostAt, Matched, Ahead
    <3>5. Matched(b)'
      BY <1>5, <2>3, <3>1, <3>3, <3>4 DEF Matched
    <3>6. \A q, x \in NetReqs : Undoing(q, b)' /\ Undoing(x, b)' => q = x
      BY <1>2, <1>3, <3>1, <3>2, HoldersMove DEF HostAt
    <3>7. QED
      BY <1>5, <3>1, <3>5, <3>6 DEF HostAt
  <2>4. QED
    BY <1>3, <2>1, <2>2, <2>3
<1>10. LiveAt(b)'
  BY <1>1, <1>2, <1>3, <1>4, <1>5, CalmLive DEF Owner, Emptying, On
<1>11. NamedAt(b)'
  BY <1>1, <1>2, <1>3, <1>4, <1>5, CalmNamed DEF Owner, Leaving, On, RequestOK
<1>12. QED
  BY <1>1, <1>3, <1>5, <1>6, <1>7, <1>8, <1>9, <1>10, <1>11, NetworkStep

\* RemoveNetwork: the link.
LEMMA RemoveBridgeInterfaceKeeps ==
    ASSUME NetworkInv, NEW r \in NetReqs, RemoveBridgeInterface(r)
    PROVE  NetworkInv'
<1>1. PICK b \in Bridges : b = net[r].b /\ b = Br(r)
  BY DEF NetworkInv, NetworkTypeOK, Br
<1>2. NetworkTypeOK /\ IpamInv /\ RequestOK(net[r]) /\ HostAt(b) /\ LiveAt(b) /\ NamedAt(b)
  BY DEF NetworkInv, RequestsOK
<1>3. /\ OnlyMoves(r) /\ net[r].pc = "unlink"
      /\ \/ /\ b \in links /\ links' = links \ {b} /\ spoiled' = spoiled
            /\ net'[r].pc = "unpool" /\ net'[r].b = b /\ net'[r].n = net[r].n /\ net'[r].stored = net[r].stored /\ net'[r].linked = net[r].linked
         \/ /\ links' = links /\ (b \in links => b \in spoiled')
            /\ net'[r].pc = "idle" /\ ~net'[r].stored /\ ~net'[r].linked
  <2>1. CASE b \in links /\ links' = links \ {b} /\ spoiled' = spoiled /\ Step(r, "unpool")
    BY <1>1, <1>2, <2>1, StepMoves DEF RemoveBridgeInterface, At, NetPcs
  <2>2. CASE links' = links /\ (b \in links => b \in spoiled') /\ Done(r)
    BY <1>1, <1>2, <2>2, DoneMoves DEF RemoveBridgeInterface, At
  <2>3. QED
    BY <1>1, <2>1, <2>2 DEF RemoveBridgeInterface
<1>4. /\ redirect' = redirect /\ cut' = cut /\ raced' = raced /\ ns' = ns /\ ctr' = ctr /\ auto' = auto
      /\ links' = links \/ links' = links \ {b}
      /\ spoiled' = spoiled \/ spoiled' = spoiled \cup {b}
  BY <1>1 DEF RemoveBridgeInterface, kern, hist
<1>5. IpamInv' /\ \A d : (Configured(d)' <=> Configured(d)) /\ \A c, h : Holds(c, d, h)' <=> Holds(c, d, h)
  BY <1>2, NoPoolEffect DEF RemoveBridgeInterface
<1>6. NetworkTypeOK'
  BY <1>2, <1>3, <1>4 DEF NetworkTypeOK, OnlyMoves, NetRequest
<1>7. RequestOK(net'[r])
  BY <1>2, <1>3 DEF RequestOK
<1>8. \A d \in Bridges \ {b} : Elsewhere(d)
  BY <1>4, <1>5 DEF Elsewhere
<1>9. HostAt(b)'
  <2>1. CASE b \in spoiled'
    BY <2>1 DEF HostAt
  <2>2. CASE links' = links /\ b \notin links /\ net'[r].pc = "idle" /\ b \notin spoiled'
    <3>1. b \notin spoiled /\ ~Holding(r, b) /\ ~Holding(r, b)' /\ ~Undoing(r, b) /\ ~Undoing(r, b)'
      BY <1>3, <1>4, <2>2 DEF Holding, Undoing, On
    <3>2. Holders(b)' = Holders(b) /\ r \notin Holders(b)
      BY <1>3, <3>1, HoldersMove DEF Holders
    <3>3. \A q \in NetReqs : Undoing(q, b)' <=> Undoing(q, b)
      BY <1>3, <3>1, HoldersMove
    <3>4. (Matched(b) => Matched(b)') /\ (Ahead(b) => Ahead(b)')
      BY <1>5, <2>2, <3>2, <3>3 DEF Matched, Ahead
    <3>5. Configured(b) => \E q \in NetReqs : q \in Holders(b)
      BY <1>2, <2>2, <3>1 DEF HostAt, Matched, Ahead, Holders
    <3>6. \A q \in Holders(b) : q \in NetReqs \ {r} /\ Redirecting(q, b)
      BY <3>2 DEF Holders, Holding, Redirecting
    <3>7. Configured(b)' => \E q \in NetReqs : Redirecting(q, b)'
      BY <1>3, <1>5, <3>5, <3>6, HoldersMove
    <3>8. QED
      BY <1>2, <3>1, <3>3, <3>4, <3>7 DEF HostAt
  <2>3. CASE b \in links /\ links' = links \ {b} /\ spoiled' = spoiled /\ net'[r].pc = "unpool"
    <3>1. Holding(r, b)' /\ Redirecting(r, b)' /\ ~Undoing(r, b)' /\ ~Undoing(r, b) /\ ~Holding(r, b)
      BY <1>1, <1>3, <2>3 DEF Holding, Redirecting, Undoing, On
    <3>2. Holders(b)' = Holders(b) \cup {r} /\ r \notin Holders(b)
      BY <1>3, <3>1, HoldersMove DEF Holders
    <3>3. \A q \in NetReqs : Undoing(q, b)' <=> Undoing(q, b)
      BY <1>3, <3>1, HoldersMove
    <3>4. Matched(b) => Matched(b)'
      BY <1>5, <2>3, <3>2 DEF Matched
    <3>5. Ahead(b) => Ahead(b)'
      BY <1>5, <2>3, <3>2, <3>3 DEF Ahead
    <3>6. QED
      BY <1>2, <2>3, <3>1, <3>3, <3>4, <3>5 DEF HostAt
  <2>4. QED
    BY <1>3, <2>1, <2>2, <2>3
<1>10. LiveAt(b)'
  BY <1>1, <1>2, <1>3, <1>4, <1>5, CalmLive DEF Owner, Emptying, On
<1>11. NamedAt(b)'
  BY <1>1, <1>2, <1>3, <1>4, <1>5, CalmNamed DEF Owner, Leaving, On, RequestOK
<1>12. QED
  BY <1>1, <1>3, <1>5, <1>6, <1>7, <1>8, <1>9, <1>10, <1>11, NetworkStep

\* RemoveNetwork: RemoveBridge.
LEMMA RemovePoolKeeps ==
    ASSUME NetworkInv, NEW r \in NetReqs, RemovePool(r)
    PROVE  NetworkInv'
<1>1. PICK b \in Bridges : b = net[r].b /\ b = Br(r)
  BY DEF NetworkInv, NetworkTypeOK, Br
<1>2. NetworkTypeOK /\ IpamInv /\ RequestOK(net[r]) /\ HostAt(b) /\ LiveAt(b) /\ NamedAt(b)
  BY DEF NetworkInv, RequestsOK
<1>3. /\ OnlyMoves(r) /\ net[r].pc = "unpool"
      /\ \/ /\ RemoveBridge(b)
            /\ net'[r].pc = "recommit" /\ net'[r].b = b /\ net'[r].n = net[r].n /\ net'[r].stored = net[r].stored /\ net'[r].linked = net[r].linked
         \/ /\ UNCHANGED ipamVars /\ ~Configured(b)
            /\ net'[r].pc = "idle" /\ ~net'[r].stored /\ ~net'[r].linked
  <2>1. CASE RemoveBridge(b) /\ Step(r, "recommit")
    BY <1>1, <1>2, <2>1, StepMoves DEF RemovePool, At, NetPcs
  <2>2. CASE UNCHANGED ipamVars /\ ~Configured(b) /\ Done(r)
    BY <1>1, <1>2, <2>2, DoneMoves DEF RemovePool, At
  <2>3. QED
    BY <1>1, <2>1, <2>2 DEF RemovePool
<1>4. /\ links' = links /\ redirect' = redirect /\ spoiled' = spoiled /\ raced' = raced /\ ns' = ns /\ ctr' = ctr /\ auto' = auto
      /\ cut' = cut \/ cut' = cut \cup {b}
      /\ b \in cut' \/ (~Others(r) /\ net[r].n # NoNamespace /\ \A m \in Namespaces \ {net[r].n} : ns[m] # b)
  BY <1>1 DEF RemovePool, kern, hist
<1>5. /\ IpamInv'
      /\ \A d \in Bridges \ {b} : (Configured(d)' <=> Configured(d)) /\ \A c \in Containers, h \in Hosts : Holds(c, d, h)' <=> Holds(c, d, h)
      /\ RemoveBridge(b) => Configured(b) /\ ~Configured(b)'
      /\ UNCHANGED ipamVars => (Configured(b)' <=> Configured(b)) /\ \A c, h : Holds(c, b, h)' <=> Holds(c, b, h)
  BY <1>2, <1>3, PoolEffect, NoPoolEffect
<1>6. NetworkTypeOK'
  BY <1>2, <1>3, <1>4 DEF NetworkTypeOK, OnlyMoves, NetRequest
<1>7. RequestOK(net'[r])
  BY <1>2, <1>3 DEF RequestOK
<1>8. \A d \in Bridges \ {b} : Elsewhere(d)
  BY <1>4, <1>5 DEF Elsewhere
<1>9. HostAt(b)'
  <2>1. ~Configured(b)'
    BY <1>3, <1>5
  <2>2. Holding(r, b) /\ ~Holding(r, b)' /\ ~Undoing(r, b)' /\ ~Undoing(r, b)
    BY <1>1, <1>3 DEF Holding, Undoing, On
  <2>3. Holders(b)' = Holders(b) \ {r} /\ r \in Holders(b)
    BY <1>3, <2>2, HoldersMove DEF Holders
  <2>4. \A q \in NetReqs : Undoing(q, b)' <=> Undoing(q, b)
    BY <1>3, <2>2, HoldersMove
  <2>5. Matched(b) => Matched(b)'
    <3>1. Matched(b) => b \notin links /\ Holders(b) \ {r} = {}
      BY <2>3 DEF Matched
    <3>2. QED
      BY <1>4, <2>1, <2>3, <3>1 DEF Matched
  <2>6. Ahead(b) => Matched(b)' \/ Ahead(b)'
    <3>1. CASE b \notin links /\ \E x \in NetReqs : Holders(b) = {x}
      <4>1. Holders(b)' = {}
        BY <2>3, <3>1
      <4>2. QED
        BY <1>4, <2>1, <3>1, <4>1 DEF Matched
    <3>2. CASE /\ b \in links /\ \E x \in NetReqs : Holders(b) = {x}
               /\ \E q \in NetReqs : Undoing(q, b)
      <4>1. Holders(b)' = {}
        BY <2>3, <3>2
      <4>2. QED
        BY <1>4, <2>1, <2>4, <3>2, <4>1 DEF Ahead
    <3>3. CASE /\ b \notin links /\ \E x, y \in NetReqs : x # y /\ Holders(b) = {x, y}
               /\ \E q \in NetReqs : Undoing(q, b)
      <4>1. \E x \in NetReqs : Holders(b)' = {x}
        BY <2>3, <3>3
      <4>2. QED
        BY <1>4, <2>1, <2>4, <3>3, <4>1 DEF Ahead
    <3>4. QED
      BY <2>3, <3>1, <3>2, <3>3 DEF Ahead
  <2>7. QED
    BY <1>2, <1>4, <2>1, <2>4, <2>5, <2>6 DEF HostAt
<1>10. LiveAt(b)'
  <2>1. Emptying(r, b)
    BY <1>1, <1>3 DEF Emptying, On
  <2>2. QED
    BY <1>2, <1>4, <2>1 DEF LiveAt
<1>11. NamedAt(b)'
  <2>1. SUFFICES ASSUME b \notin cut' \cup spoiled PROVE NamedAt(b)'
    BY <1>4 DEF NamedAt
  <2>2. /\ b \notin cut \cup spoiled
        /\ ~Others(r) /\ \A m \in Namespaces \ {net[r].n} : ns[m] # b
    BY <1>4, <2>1
  <2>3. \A q \in NetReqs \ {r} : ~On(q, b)
    BY <1>1, <2>2 DEF Others, On, At, Br
  <2>4. \A q \in NetReqs : ~Owner(q, b)' /\ ~(On(q, b)' /\ net'[q].pc = "share")
    <3>1. ~Owner(r, b)' /\ net'[r].pc # "share"
      BY <1>3 DEF Owner, On
    <3>2. \A q \in NetReqs \ {r} : ~On(q, b)'
      BY <1>3, <2>3, HoldersMove
    <3>3. QED
      BY <3>1, <3>2 DEF Owner
  <2>5. ASSUME NEW n \in Namespaces, ns[n] = b, b # NoBridge PROVE Leaving(r, n, b)'
    <3>1. n = net[r].n
      BY <2>2, <2>5
    <3>2. Configured(b)
      BY <1>2, <1>3, <2>2, <2>3, <2>5 DEF NamedAt, Leaving
    <3>3. QED
      BY <1>3, <3>1, <3>2 DEF Leaving, On
  <2>6. QED
    BY <1>4, <2>4, <2>5 DEF NamedAt
<1>12. QED
  BY <1>1, <1>3, <1>5, <1>6, <1>7, <1>8, <1>9, <1>10, <1>11, NetworkStep

-----------------------------------------------------------------------------
(***************************************************************************)
(* Containers come and go                                                   *)
(***************************************************************************)
\* Allocate adds an address of one container and takes none away.
LEMMA AllocateEffect ==
    ASSUME IpamInv, NEW c \in Containers, NEW b \in Bridges, Allocate(c, b)
    PROVE  /\ IpamInv' /\ \A d \in Bridges : Configured(d)' <=> Configured(d)
           /\ \E h \in Hosts : Holds(c, b, h)'
           /\ \A d \in Bridges, e \in Containers, h \in Hosts : Holds(e, d, h) => Holds(e, d, h)'
<1>1. IpamInv'
  BY AllocateInv
<1>2. PICK h \in Hosts : h \in FreeHosts(b) /\ alloc' = [alloc EXCEPT ![b][h] = [cid |-> c, fwds |-> {}]]
  BY DEF Allocate, IsLowest
<1>3. subnetOf' = subnetOf /\ Configured(b)
  BY DEF Allocate
<1>4. HeldBy(b, h) = NoContainer /\ HeldBy(b, h)' = c
  BY <1>2 DEF FreeHosts, HeldBy, IpamInv, IpamTypeOK
<1>5. \A d \in Bridges, k \in Hosts : d # b \/ k # h => HeldBy(d, k)' = HeldBy(d, k)
  BY <1>2 DEF HeldBy, IpamInv, IpamTypeOK
<1>6. QED
  BY <1>1, <1>2, <1>3, <1>4, <1>5, IpamAssumption DEF Configured, Holds

\* Release takes addresses of one container only.
LEMMA ReleaseEffect ==
    ASSUME IpamInv, NEW c \in Containers, Release(c)
    PROVE  /\ IpamInv' /\ \A d \in Bridges : Configured(d)' <=> Configured(d)
           /\ \A d \in Bridges, e \in Containers \ {c}, h \in Hosts : Holds(e, d, h) => Holds(e, d, h)'
<1>1. IpamInv' /\ subnetOf' = subnetOf
  BY ReleaseInv DEF Release
<1>2. CASE UNCHANGED alloc
  BY <1>1, <1>2 DEF Configured, Holds, HeldBy
<1>3. CASE ~UNCHANGED alloc
  <2>1. PICK b \in Bridges, h \in Hosts : Holds(c, b, h) /\ alloc' = [alloc EXCEPT ![b][h] = Free]
    BY <1>3 DEF Release
  <2>2. \A d \in Bridges, k \in Hosts : d # b \/ k # h => HeldBy(d, k)' = HeldBy(d, k)
    BY <2>1 DEF HeldBy, IpamInv, IpamTypeOK
  <2>3. QED
    BY <1>1, <2>1, <2>2 DEF Configured, Holds
<1>4. QED
  BY <1>2, <1>3

\* A container allocated while nobody creates or removes its network is one
\* that LiveAt holds for.
LEMMA AllocateInKeeps ==
    ASSUME NetworkInv, NEW r \in NetReqs, AllocateIn(r)
    PROVE  NetworkInv'
<1>1. PICK b \in Bridges, c \in Containers : b = net[r].b /\ b = Br(r) /\ c = net[r].n
  BY DEF NetworkInv, NetworkTypeOK, Br, RequestsOK, RequestOK, AllocateIn, At
<1>2. NetworkTypeOK /\ IpamInv /\ HostAt(b) /\ LiveAt(b) /\ NamedAt(b)
  BY DEF NetworkInv
<1>3. /\ OnlyMoves(r) /\ net[r].pc = "resolved"
      /\ net'[r].pc = "idle" /\ ~net'[r].stored /\ ~net'[r].linked
  BY <1>2, DoneMoves DEF AllocateIn, At
<1>4. links' = links /\ redirect' = redirect /\ spoiled' = spoiled /\ cut' = cut /\ ns' = ns /\ auto' = auto
  BY DEF AllocateIn, kern
<1>5. \/ /\ Allocate(c, b) /\ ctr' = [ctr EXCEPT ![c] = b]
         /\ raced' = IF Going(b) THEN raced \cup {c} ELSE raced \ {c}
      \/ UNCHANGED ipamVars /\ ctr' = ctr /\ raced' = raced
  BY <1>1 DEF AllocateIn
<1>6. /\ IpamInv' /\ \A d \in Bridges : Configured(d)' <=> Configured(d)
      /\ \A d \in Bridges, e \in Containers, h \in Hosts : Holds(e, d, h) => Holds(e, d, h)'
      /\ Allocate(c, b) => \E h \in Hosts : Holds(c, b, h)'
  <2>1. CASE Allocate(c, b)
    BY <1>2, <2>1, AllocateEffect
  <2>2. CASE UNCHANGED ipamVars /\ ~Allocate(c, b)
    BY <1>2, <2>2, NoPoolEffect
  <2>3. QED
    BY <1>5, <2>1, <2>2
<1>7. NetworkTypeOK'
  BY <1>2, <1>3, <1>4, <1>5 DEF NetworkTypeOK, OnlyMoves, NetRequest
<1>8. RequestOK(net'[r])
  BY <1>3 DEF RequestOK
<1>9. \A e \in Containers \ {c} : ctr'[e] = ctr[e] /\ (e \in raced' <=> e \in raced)
  BY <1>2, <1>5 DEF NetworkTypeOK
<1>10. \A d \in Bridges \ {b} : Elsewhere(d)
  <2>1. ASSUME NEW d \in Bridges \ {b} PROVE ctr'[c] = d => ctr[c] = d /\ (c \in raced' <=> c \in raced)
    BY <1>2, <1>5 DEF NetworkTypeOK
  <2>2. QED
    BY <1>4, <1>6, <1>9, <2>1 DEF Elsewhere
<1>11. ~Owner(r, b)' /\ ~Emptying(r, b)'
  BY <1>3 DEF Owner, Emptying, On
<1>12. HostAt(b)'
  BY <1>3, <1>4, <1>6, CalmHost DEF Holding, Undoing, Redirecting, On
<1>13. NamedAt(b)'
  BY <1>3, <1>4, <1>6, CalmNamed DEF Owner, Leaving, On
<1>14. LiveAt(b)'
  <2>1. CASE ctr' = ctr /\ raced' = raced
    BY <1>3, <1>6, <1>11, <2>1, CalmLive
  <2>2. CASE Allocate(c, b) /\ raced' = IF Going(b) THEN raced \cup {c} ELSE raced \ {c}
    <3>1. \A q \in NetReqs : Owner(q, b)' \/ Emptying(q, b)' => Owner(q, b) \/ Emptying(q, b)
      BY <1>3, <1>11, HoldersMove
    <3>2. c \notin raced' => \A q \in NetReqs : ~Owner(q, b) /\ ~Emptying(q, b)
      BY <2>2 DEF Going, Owner, Emptying, On
    <3>3. \A e \in Containers \ raced' : e # c /\ ctr'[e] = b /\ b # NoBridge =>
              /\ \E h \in Hosts : Holds(e, b, h)
              /\ \A q \in NetReqs : ~Owner(q, b) /\ ~Emptying(q, b)
      BY <1>2, <1>9 DEF LiveAt
    <3>4. QED
      BY <1>6, <2>2, <3>1, <3>2, <3>3 DEF LiveAt
  <2>3. QED
    BY <1>5, <2>1, <2>2
<1>15. QED
  BY <1>1, <1>3, <1>6, <1>7, <1>8, <1>10, <1>12, <1>13, <1>14, NetworkStep

\* RemoveContainer keeps NetworkInv.
LEMMA RemoveContainerKeeps ==
    ASSUME NetworkInv, NEW c \in Containers, RemoveContainer(c)
    PROVE  NetworkInv'
<1>1. NetworkTypeOK /\ IpamInv /\ RequestsOK
  BY DEF NetworkInv
<1>2. /\ links' = links /\ redirect' = redirect /\ spoiled' = spoiled /\ cut' = cut /\ raced' = raced
      /\ ns' = ns /\ auto' = auto /\ net' = net /\ ctr' = [ctr EXCEPT ![c] = NoBridge]
  BY DEF RemoveContainer, kern, hist
<1>3. /\ IpamInv' /\ \A d \in Bridges : Configured(d)' <=> Configured(d)
      /\ \A d \in Bridges, e \in Containers \ {c}, h \in Hosts : Holds(e, d, h) => Holds(e, d, h)'
  BY <1>1, ReleaseEffect DEF RemoveContainer
<1>4. NetworkTypeOK' /\ RequestsOK'
  BY <1>1, <1>2 DEF NetworkTypeOK, RequestsOK
<1>5. ctr'[c] = NoBridge /\ \A e \in Containers \ {c} : ctr'[e] = ctr[e]
  BY <1>1, <1>2 DEF NetworkTypeOK
<1>6. ASSUME NEW d \in Bridges PROVE HostAt(d)' /\ LiveAt(d)' /\ NamedAt(d)'
  <2>1. Elsewhere(d)
    BY <1>2, <1>3, <1>5 DEF Elsewhere
  <2>2. \A q \in NetReqs : (On(q, d)' <=> On(q, d)) /\ (On(q, d) => net'[q] = net[q])
    BY <1>2 DEF On
  <2>3. QED
    BY <2>1, <2>2, ElsewhereKeeps
<1>7. QED
  BY <1>3, <1>4, <1>6 DEF NetworkInv

-----------------------------------------------------------------------------
(***************************************************************************)
(* The invariant                                                            *)
(***************************************************************************)
LEMMA NetworkInitInv == NetworkInit => NetworkInv
<1> SUFFICES ASSUME NetworkInit PROVE NetworkInv
  OBVIOUS
<1>1. IpamInv
  BY IpamInitInv DEF NetworkInit
<1>2. /\ Resting \in NetRequest /\ Resting.pc = "idle" /\ ~Resting.stored /\ ~Resting.linked
  BY IpamAssumption DEF Resting, NetRequest, NetPcs
<1>3. /\ net = [r \in NetReqs |-> Resting] /\ ns = [n \in Namespaces |-> NoBridge]
      /\ ctr = [c \in Containers |-> NoBridge] /\ links = {DefaultBridge} /\ auto = {}
      /\ redirect = [b \in Bridges |-> IF b = DefaultBridge THEN Protocols ELSE {}]
  BY DEF NetworkInit
<1>4. NetworkTypeOK
  BY <1>2, <1>3, IpamAssumption DEF NetworkTypeOK, NetRequest
<1>5. \A r \in NetReqs : net[r].pc = "idle" /\ ~net[r].stored /\ ~net[r].linked
  BY <1>2, <1>3
<1>6. RequestsOK
  BY <1>5 DEF RequestsOK, RequestOK
<1>7. \A b \in Bridges : Configured(b) <=> b = DefaultBridge
  BY IpamAssumption DEF NetworkInit, IpamInit, Configured, NoSubnet
<1>8. \A r \in NetReqs : \A b : ~On(r, b)
  BY <1>5 DEF On
<1>9. ASSUME NEW b \in Bridges PROVE HostAt(b) /\ LiveAt(b) /\ NamedAt(b)
  <2>1. Holders(b) = {}
    BY <1>8 DEF Holders, Holding
  <2>2. Matched(b)
    BY <1>3, <1>7, <2>1 DEF Matched
  <2>3. HostAt(b)
    BY <1>3, <1>7, <1>8, <2>2 DEF HostAt, Undoing
  <2>4. LiveAt(b)
    BY <1>3 DEF LiveAt
  <2>5. NamedAt(b)
    BY <1>3, <1>8 DEF NamedAt, Owner
  <2>6. QED
    BY <2>3, <2>4, <2>5
<1>10. QED
  BY <1>1, <1>4, <1>6, <1>9 DEF NetworkInv

\* Every step keeps the invariant.
LEMMA NetworkNextInv == NetworkInv /\ [NetworkNext]_networkVars => NetworkInv'
<1> SUFFICES ASSUME NetworkInv, [NetworkNext]_networkVars PROVE NetworkInv'
  OBVIOUS
<1>1. ASSUME NEW r \in NetReqs, NEW b \in Bridges, CreateNewNetwork(r, b) PROVE NetworkInv'
  BY <1>1, BeginKeeps DEF CreateNewNetwork
<1>2. ASSUME NEW r \in NetReqs, NEW b \in Bridges, RemoveNetwork(r, b) PROVE NetworkInv'
  BY <1>2, BeginKeeps DEF RemoveNetwork
<1>3. ASSUME NEW r \in NetReqs, NEW n \in Namespaces, CreateNamespace(r, n) PROVE NetworkInv'
  <2>1. BridgeOf[n] \in Bridges
    BY NetworkAssumption
  <2>2. QED
    BY <1>3, <2>1, BeginKeeps DEF CreateNamespace
<1>4. ASSUME NEW r \in NetReqs, NEW n \in Namespaces, RemoveNamespace(r, n) PROVE NetworkInv'
  <2>1. ns[n] \in Bridges
    BY <1>4 DEF NetworkInv, NetworkTypeOK, RemoveNamespace
  <2>2. CASE n \in auto
    BY <1>4, <2>1, <2>2, BeginKeeps DEF RemoveNamespace
  <2>3. CASE n \notin auto
    BY <1>4, <2>1, <2>3, BeginKeeps DEF RemoveNamespace
  <2>4. QED
    BY <2>2, <2>3
<1>5. ASSUME NEW r \in NetReqs, NEW n \in Namespaces, NEW b \in Bridges, ShareNetwork(r, n, b) PROVE NetworkInv'
  BY <1>5, BeginKeeps DEF ShareNetwork
<1>6. ASSUME NEW r \in NetReqs, NEW c \in Containers, NEW b \in Bridges, ResolveNetwork(r, c, b) PROVE NetworkInv'
  BY <1>6, BeginKeeps DEF ResolveNetwork
<1>7. ASSUME NEW r \in NetReqs, NetStep(r) PROVE NetworkInv'
  BY <1>7, EnsureNoUnmanagedNamespaceBridgeKeeps, StorePoolKeeps, CreateBridgeInterfaceKeeps,
     CreateRedirectDnsTrafficRuleKeeps, RefreshPolicyKeeps, RollbackPoolKeeps, RollbackLinkKeeps,
     RollbackCommitKeeps, CountContainersKeeps, RemoveRedirectDnsTrafficRuleKeeps, RemoveBridgeInterfaceKeeps,
     RemovePoolKeeps, RefreshPolicyAfterRemoveKeeps, StoreNamespaceKeeps, StoreSharingKeeps,
     DropNamespaceKeeps, AllocateInKeeps DEF NetStep
<1>8. CASE UNCHANGED networkVars
  <2>1. /\ links' = links /\ redirect' = redirect /\ spoiled' = spoiled /\ cut' = cut /\ raced' = raced
        /\ ns' = ns /\ auto' = auto /\ net' = net /\ ctr' = ctr /\ UNCHANGED ipamVars
    BY <1>8 DEF networkVars, ipamVars
  <2>2. IpamInv' /\ \A d : (Configured(d)' <=> Configured(d)) /\ \A c, h : Holds(c, d, h)' <=> Holds(c, d, h)
    BY <2>1, NoPoolEffect DEF NetworkInv
  <2>3. NetworkTypeOK' /\ RequestsOK'
    BY <2>1 DEF NetworkInv, NetworkTypeOK, RequestsOK
  <2>4. ASSUME NEW d \in Bridges PROVE HostAt(d)' /\ LiveAt(d)' /\ NamedAt(d)'
    <3>1. Elsewhere(d) /\ \A q \in NetReqs : (On(q, d)' <=> On(q, d)) /\ (On(q, d) => net'[q] = net[q])
      BY <2>1, <2>2 DEF Elsewhere, On
    <3>2. QED
      BY <3>1, ElsewhereKeeps
  <2>5. QED
    BY <2>2, <2>3, <2>4 DEF NetworkInv
<1>9. QED
  BY <1>1, <1>2, <1>3, <1>4, <1>5, <1>6, <1>7, <1>8, RemoveContainerKeeps DEF NetworkNext

\* Hence it holds in every state.
LEMMA NetworkInvariant == NetworkSpec => []NetworkInv
<1>1. QED
  BY NetworkInitInv, NetworkNextInv, PTL DEF NetworkSpec

-----------------------------------------------------------------------------
\* Whatever creates, removals and rollbacks overlap, a bridge exists and its
\* DNS traffic is redirected exactly for the pools of the store once its
\* requests are over, unless a command failed half way.
THEOREM NetworkHostMatchesPools == NetworkSpec => []HostMatchesPools
<1>1. NetworkInv => HostMatchesPools
  <2> SUFFICES ASSUME NetworkInv PROVE HostMatchesPools
    OBVIOUS
  <2>1. ASSUME NEW b \in Bridges, Untouched(b), b \notin spoiled
        PROVE  (b \in links <=> Configured(b)) /\ (Configured(b) => redirect[b] = Protocols)
    <3>1. \A r \in NetReqs : ~On(r, b)
      BY <2>1 DEF Untouched, On
    <3>2. HostAt(b)
      BY DEF NetworkInv
    <3>3. Holders(b) = {}
      BY <3>1 DEF Holders, Holding
    <3>4. QED
      BY <2>1, <3>1, <3>2, <3>3 DEF HostAt, Matched, Ahead, Undoing, Redirecting
  <2>2. QED
    BY <2>1 DEF NetworkInv, HostMatchesPools, BridgesMatchPools, RedirectsMatchPools
<1>2. QED
  BY <1>1, NetworkInvariant, PTL

\* No create, rollback or removal of a network takes the address of a
\* container that was allocated while no create or removal was past its look.
THEOREM NetworkLiveKeepsAddress == NetworkSpec => []LiveKeepsAddress
<1>1. NetworkInv => LiveKeepsAddress
  <2> SUFFICES ASSUME NetworkInv, NEW c \in Containers \ raced, ctr[c] # NoBridge
               PROVE  \E h \in Hosts : Holds(c, ctr[c], h)
    BY DEF LiveKeepsAddress
  <2>1. PICK b \in Bridges : b = ctr[c]
    BY DEF NetworkInv, NetworkTypeOK
  <2>2. LiveAt(b)
    BY DEF NetworkInv
  <2>3. QED
    BY <2>1, <2>2 DEF LiveAt
<1>2. QED
  BY <1>1, NetworkInvariant, PTL

\* A stored namespace has a pool for its network once the requests on it are
\* over, unless the network was deleted from under it or a command failed.
THEOREM NetworkNamespaceHasNetwork == NetworkSpec => []NamespaceHasNetwork
<1>1. NetworkInv => NamespaceHasNetwork
  <2> SUFFICES ASSUME NetworkInv, NEW n \in Namespaces, ns[n] # NoBridge, Untouched(ns[n]),
                      ns[n] \notin cut \cup spoiled
               PROVE  Configured(ns[n])
    BY DEF NamespaceHasNetwork
  <2>1. PICK b \in Bridges : b = ns[n]
    BY DEF NetworkInv, NetworkTypeOK
  <2>2. NamedAt(b)
    BY DEF NetworkInv
  <2>3. \A r \in NetReqs : ~On(r, b)
    BY <2>1 DEF Untouched, On
  <2>4. QED
    BY <2>1, <2>2, <2>3 DEF NamedAt, Leaving
<1>2. QED
  BY <1>1, NetworkInvariant, PTL
=============================================================================
