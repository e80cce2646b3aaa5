--------------------------- MODULE NetworkService ---------------------------
(***************************************************************************)
(* Networks and namespaces of Condenser: CreateNewNetwork with its deferred *)
(* rollback, RemoveNetwork, and the namespaces that own or share a network, *)
(* over the pools of Ipam, the bridge links and the DNS redirect rules of   *)
(* the kernel.  No lock spans a request: between two calls of the store or  *)
(* two commands other requests run, and containers come and go.             *)
(*                                                                          *)
(* A container stands for whatever a namespace counts as a resource: it     *)
(* resolves the namespace's network and allocates there in two steps, as    *)
(* the pod and container services do.  CommitPolicy (PolicyService) is a    *)
(* call that succeeds or fails.                                             *)
(***************************************************************************)
EXTENDS Ipam

CONSTANTS
    Namespaces,    \* names of namespaces other than "default"
    NoNamespace,   \* marks a network request that serves no namespace
    BridgeOf,      \* namespace -> bridgeNameForNamespace
    NetReqs,       \* request threads
    MaxOps,        \* bound on requests
    MaxFails       \* bound on failing commands and commits

ASSUME NetworkAssumption ==
    /\ BridgeOf \in [Namespaces -> Bridges \ {DefaultBridge}]
    /\ NoNamespace \notin Namespaces

VARIABLES
    links,    \* bridge interfaces of the kernel
    redirect, \* bridge -> protocols whose DNS traffic is redirected
    ns,       \* namespace -> its network, or NoBridge when it is not stored
    auto,     \* namespaces that own their network (NetworkAuto)
    ctr,      \* container -> bridge it runs on, or NoContainer
    net,      \* request thread -> where it is
    spoiled,  \* history: bridges a failed command left half made or removed
    raced,    \* history: containers allocated while their network was going
    cut,      \* history: networks deleted from under a namespace or a create
    netLeft   \* what is left of the bounds

kern == <<links, redirect>>
hist == <<spoiled, raced, cut>>
networkVars == <<subnetOf, alloc, links, redirect, ns, auto, ctr, net, spoiled, raced, cut, netLeft>>

Protocols == {"udp", "tcp"}
NoBridge == NoContainer
Resting == [pc |-> "idle", b |-> DefaultBridge, n |-> NoNamespace, stored |-> FALSE, linked |-> FALSE]
NetPcs == {"idle", "check", "pool", "link", "dns", "commit", "named", "share",
           "rbpool", "rblink", "rbcommit",
           "count", "undns", "unlink", "unpool", "recommit", "unnamed", "resolved"}

NetworkTypeOK ==
    /\ links \subseteq Bridges
    /\ redirect \in [Bridges -> SUBSET Protocols]
    /\ ns \in [Namespaces -> Bridges \cup {NoBridge}]
    /\ auto \subseteq Namespaces
    /\ ctr \in [Containers -> Bridges \cup {NoBridge}]
    /\ net \in [NetReqs -> [pc : NetPcs, b : Bridges, n : Namespaces \cup {NoNamespace} \cup Containers,
                            stored : BOOLEAN, linked : BOOLEAN]]

NetworkInit ==
    /\ IpamInit
    /\ links = {DefaultBridge}
    /\ redirect = [b \in Bridges |-> IF b = DefaultBridge THEN Protocols ELSE {}]
    /\ ns = [n \in Namespaces |-> NoBridge]
    /\ auto = {}
    /\ ctr = [c \in Containers |-> NoBridge]
    /\ net = [r \in NetReqs |-> Resting]
    /\ spoiled = {} /\ raced = {} /\ cut = {}
    /\ netLeft = [ops |-> MaxOps, fails |-> MaxFails]

At(r, pc) == net[r].pc = pc
Br(r) == net[r].b
Step(r, pc) == net' = [net EXCEPT ![r].pc = pc]
Done(r) == net' = [net EXCEPT ![r] = Resting]
Begin(r, pc, b, n) ==
    /\ At(r, "idle")
    /\ netLeft.ops > 0
    /\ netLeft' = [netLeft EXCEPT !.ops = @ - 1]
    /\ net' = [net EXCEPT ![r] = [Resting EXCEPT !.pc = pc, !.b = b, !.n = n]]
\* Another request is at work on the same network.
Others(r) == \E q \in NetReqs \ {r} : ~At(q, "idle") /\ Br(q) = Br(r)
Fails == netLeft.fails > 0 /\ netLeft' = [netLeft EXCEPT !.fails = @ - 1]
Works == UNCHANGED netLeft

-----------------------------------------------------------------------------
(***************************************************************************)
(* CreateNewNetwork.  A namespace's create waits for it at "named".         *)
(***************************************************************************)
CreateNewNetwork(r, b) ==
    /\ Begin(r, "check", b, NoNamespace)
    /\ UNCHANGED <<ipamVars, kern, ns, auto, ctr, hist>>

\* ensureNoUnmanagedNamespaceBridge: a bridge of a namespace without a pool.
NsBridges == {BridgeOf[n] : n \in Namespaces}
EnsureNoUnmanagedNamespaceBridge(r) ==
    /\ At(r, "check")
    /\ IF \A b \in links \cap NsBridges : Configured(b) THEN Step(r, "pool") ELSE Done(r)
    /\ UNCHANGED <<ipamVars, kern, ns, auto, ctr, hist, netLeft>>

\* Mutant: the rollback flag is raised before the pool is stored.
StorePoolFlagFirst(r) ==
    /\ At(r, "pool")
    /\ \/ /\ StoreBridge(Br(r))
          /\ net' = [net EXCEPT ![r].pc = "link", ![r].stored = TRUE]
       \/ /\ Configured(Br(r)) \/ UnusedSubnets = {}
          /\ UNCHANGED ipamVars
          /\ net' = [net EXCEPT ![r].pc = "rbpool", ![r].stored = TRUE]
    /\ UNCHANGED <<kern, ns, auto, ctr, hist, netLeft>>

StorePool(r) ==
    /\ At(r, "pool")
    /\ \/ /\ StoreBridge(Br(r))
          /\ net' = [net EXCEPT ![r].pc = "link", ![r].stored = TRUE]
          /\ cut' = IF Others(r) \/ (\E n \in Namespaces : ns[n] = Br(r)) THEN cut ELSE cut \ {Br(r)}
       \/ /\ Configured(Br(r)) \/ UnusedSubnets = {}
          /\ UNCHANGED <<ipamVars, cut>>
          /\ Step(r, "rbpool")
    /\ UNCHANGED <<kern, ns, auto, ctr, spoiled, raced, netLeft>>

\* CreateBridgeInterface keeps an existing link; of its three commands the
\* address and the "up" may fail after the link was added.
CreateBridgeInterface(r) ==
    /\ At(r, "link")
    /\ \/ /\ Works
          /\ links' = links \cup {Br(r)}
          /\ net' = [net EXCEPT ![r].pc = "dns", ![r].linked = TRUE]
          /\ UNCHANGED spoiled
       \/ /\ Br(r) \notin links /\ Fails
          /\ \/ UNCHANGED <<links, spoiled>>
             \/ links' = links \cup {Br(r)} /\ spoiled' = spoiled \cup {Br(r)}
          /\ Step(r, "rbpool")
    /\ UNCHANGED <<ipamVars, redirect, ns, auto, ctr, raced, cut>>

\* CreateRedirectDnsTrafficRule: udp, then tcp; neither is ever rolled back.
CreateRedirectDnsTrafficRule(r) ==
    /\ At(r, "dns")
    /\ \/ /\ Works
          /\ redirect' = [redirect EXCEPT ![Br(r)] = Protocols]
          /\ Step(r, "commit")
       \/ /\ Fails
          /\ \/ UNCHANGED redirect
             \/ redirect' = [redirect EXCEPT ![Br(r)] = @ \cup {"udp"}]
          /\ Step(r, "rbpool")
    /\ UNCHANGED <<ipamVars, links, ns, auto, ctr, hist>>

RefreshPolicy(r) ==
    /\ At(r, "commit")
    /\ \/ Works /\ IF net[r].n = NoNamespace THEN Done(r) ELSE Step(r, "named")
       \/ Fails /\ Step(r, "rbpool")
    /\ UNCHANGED <<ipamVars, kern, ns, auto, ctr, hist>>

\* The deferred rollback: pool, link, commit, each only if it was made here.
\* Removing the pool drops whatever was allocated meanwhile.
RollbackPool(r) ==
    /\ At(r, "rbpool")
    /\ IF net[r].stored /\ Configured(Br(r))
       THEN RemoveBridge(Br(r)) /\ Step(r, "rblink")
       ELSE UNCHANGED ipamVars /\ IF net[r].stored THEN Done(r) ELSE Step(r, "rblink")
    /\ spoiled' = IF Others(r) THEN spoiled \cup {Br(r)} ELSE spoiled
    /\ UNCHANGED <<kern, ns, auto, ctr, raced, cut, netLeft>>

RollbackLink(r) ==
    /\ At(r, "rblink")
    /\ \/ /\ net[r].linked /\ Br(r) \in links /\ Works
          /\ links' = links \ {Br(r)}
          /\ Step(r, "rbcommit")
          /\ spoiled' = IF Configured(Br(r)) THEN spoiled \cup {Br(r)} ELSE spoiled
       \/ /\ net[r].linked /\ (IF Br(r) \in links THEN Fails ELSE Works)
          /\ UNCHANGED links
          /\ spoiled' = spoiled \cup {Br(r)}
          /\ Done(r)
       \/ /\ ~net[r].linked /\ Works
          /\ UNCHANGED <<links, spoiled>>
          /\ Step(r, "rbcommit")
    /\ UNCHANGED <<ipamVars, redirect, ns, auto, ctr, raced, cut>>

RollbackCommit(r) ==
    /\ At(r, "rbcommit")
    /\ Done(r)
    /\ UNCHANGED <<ipamVars, kern, ns, auto, ctr, hist, netLeft>>

-----------------------------------------------------------------------------
(***************************************************************************)
(* RemoveNetwork: the count is read first, the pool goes last.  The default *)
(* network is removed like any other, and may be created again.             *)
(***************************************************************************)
RemoveNetwork(r, b) ==
    /\ Begin(r, "count", b, NoNamespace)
    /\ UNCHANGED <<ipamVars, kern, ns, auto, ctr, hist>>

\* Mutant: the count of containers is not looked at.
CountNothing(r) ==
    /\ At(r, "count")
    /\ Step(r, "undns")
    /\ UNCHANGED <<ipamVars, kern, ns, auto, ctr, hist, netLeft>>

CountContainers(r) ==
    /\ At(r, "count")
    /\ IF NumContainers(Br(r)) # 0 THEN Done(r) ELSE Step(r, "undns")
    /\ UNCHANGED <<ipamVars, kern, ns, auto, ctr, hist, netLeft>>

RemoveRedirectDnsTrafficRule(r) ==
    /\ At(r, "undns")
    /\ \/ /\ Works
          /\ redirect' = [redirect EXCEPT ![Br(r)] = {}]
          /\ Step(r, "unlink")
          /\ UNCHANGED spoiled
       \/ /\ redirect[Br(r)] # {} /\ Fails
          /\ \/ UNCHANGED redirect
             \/ redirect' = [redirect EXCEPT ![Br(r)] = @ \ {"udp"}]
          /\ spoiled' = spoiled \cup {Br(r)}
          /\ Done(r)
    /\ UNCHANGED <<ipamVars, links, ns, auto, ctr, raced, cut>>

\* Mutant: a missing link does not end the removal, a present one stays.
RemoveBridgeInterfaceSkips(r) ==
    /\ At(r, "unlink")
    /\ Step(r, "unpool")
    /\ UNCHANGED <<ipamVars, kern, ns, auto, ctr, hist, netLeft>>

\* A link that is missing, or cannot be deleted, ends the removal half way.
RemoveBridgeInterface(r) ==
    /\ At(r, "unlink")
    /\ \/ /\ Br(r) \in links /\ Works
          /\ links' = links \ {Br(r)}
          /\ Step(r, "unpool")
          /\ UNCHANGED spoiled
       \/ /\ (IF Br(r) \in links THEN Fails ELSE Works)
          /\ UNCHANGED links
          /\ spoiled' = IF Br(r) \in links THEN spoiled \cup {Br(r)} ELSE spoiled
          /\ Done(r)
    /\ UNCHANGED <<ipamVars, redirect, ns, auto, ctr, raced, cut>>

\* A network goes with its owner, also when another namespace shares it.
RemovePool(r) ==
    /\ At(r, "unpool")
    /\ IF Configured(Br(r)) THEN RemoveBridge(Br(r)) /\ Step(r, "recommit")
       ELSE UNCHANGED ipamVars /\ Done(r)
    /\ cut' = IF \/ net[r].n = NoNamespace
                 \/ \E m \in Namespaces \ {net[r].n} : ns[m] = Br(r)
                 \/ Others(r)
              THEN cut \cup {Br(r)} ELSE cut
    /\ UNCHANGED <<kern, ns, auto, ctr, spoiled, raced, netLeft>>

\* A commit that fails here leaves a namespace without the network it had.
RefreshPolicyAfterRemove(r) ==
    /\ At(r, "recommit")
    /\ \/ /\ Works
          /\ IF net[r].n \in Namespaces THEN Step(r, "unnamed") ELSE Done(r)
          /\ UNCHANGED cut
       \/ Fails /\ Done(r) /\ cut' = cut \cup {Br(r)}
    /\ UNCHANGED <<ipamVars, kern, ns, auto, ctr, spoiled, raced>>

-----------------------------------------------------------------------------
(***************************************************************************)
(* Namespaces: Create makes a network of its own or shares one that exists; *)
(* Remove refuses a namespace that is not empty.                            *)
(***************************************************************************)
CreateNamespace(r, n) ==
    /\ Begin(r, "check", BridgeOf[n], n)
    /\ UNCHANGED <<ipamVars, kern, ns, auto, ctr, hist>>

\* A create or removal of the network past the point where it looked.
Going(b) == \E q \in NetReqs : net[q].b = b /\ net[q].pc \notin {"idle", "check", "pool", "count", "resolved", "share"}

\* Sharing looks the network up first (GetBridgeAddr).
ShareNetwork(r, n, b) ==
    /\ Configured(b)
    /\ Begin(r, "share", b, n)
    /\ UNCHANGED <<ipamVars, kern, ns, auto, ctr, hist>>

StoreSharing(r) ==
    /\ At(r, "share")
    /\ IF ns[net[r].n] = NoBridge
       THEN ns' = [ns EXCEPT ![net[r].n] = Br(r)] /\ auto' = auto \ {net[r].n}
       ELSE UNCHANGED <<ns, auto>>
    /\ cut' = IF Going(Br(r)) THEN cut \cup {Br(r)} ELSE cut
    /\ Done(r)
    /\ UNCHANGED <<ipamVars, kern, ctr, spoiled, raced, netLeft>>

\* StoreNamespace; a name taken meanwhile gives the new network back.
StoreNamespace(r) ==
    /\ At(r, "named")
    /\ IF ns[net[r].n] = NoBridge
       THEN /\ ns' = [ns EXCEPT ![net[r].n] = Br(r)]
            /\ auto' = auto \cup {net[r].n}
            /\ Done(r)
       ELSE /\ net' = [net EXCEPT ![r] = [Resting EXCEPT !.pc = "count", !.b = Br(r)]]
            /\ UNCHANGED <<ns, auto>>
    /\ UNCHANGED <<ipamVars, kern, ctr, hist, netLeft>>

\* resourceCounts: nothing of the namespace, nothing in its network.
IsEmpty(n) == NumContainers(ns[n]) = 0
RemoveNamespace(r, n) ==
    /\ ns[n] # NoBridge
    /\ IsEmpty(n)
    /\ Begin(r, IF n \in auto THEN "count" ELSE "unnamed", ns[n], n)
    /\ UNCHANGED <<ipamVars, kern, ns, auto, ctr, hist>>

DropNamespace(r) ==
    /\ At(r, "unnamed")
    /\ ns' = [ns EXCEPT ![net[r].n] = NoBridge]
    /\ auto' = auto \ {net[r].n}
    /\ UNCHANGED hist
    /\ Done(r)
    /\ UNCHANGED <<ipamVars, kern, ctr, netLeft>>

-----------------------------------------------------------------------------
(***************************************************************************)
(* Containers: ResolveNetwork, then Allocate; Release when they go.         *)
(***************************************************************************)
ResolveNetwork(r, c, b) ==
    /\ Begin(r, "resolved", b, c)
    /\ ctr[c] = NoBridge /\ \A q \in NetReqs : net[q].n # c
    /\ b = DefaultBridge \/ \E n \in Namespaces : ns[n] = b
    /\ ~HasAddress(c)
    /\ UNCHANGED <<ipamVars, kern, ns, auto, ctr, hist>>

AllocateIn(r) ==
    /\ At(r, "resolved")
    /\ LET c == net[r].n  b == Br(r) IN
       IF CanAllocate(b)
       THEN /\ Allocate(c, b)
            /\ ctr' = [ctr EXCEPT ![c] = b]
            /\ raced' = IF Going(b) THEN raced \cup {c} ELSE raced \ {c}
       ELSE UNCHANGED <<ipamVars, ctr, raced>>
    /\ Done(r)
    /\ UNCHANGED <<kern, ns, auto, spoiled, cut, netLeft>>

RemoveContainer(c) ==
    /\ ctr[c] # NoBridge
    /\ Release(c)
    /\ ctr' = [ctr EXCEPT ![c] = NoBridge]
    /\ UNCHANGED <<kern, ns, auto, net, hist, netLeft>>

NetStep(r) ==
    \/ EnsureNoUnmanagedNamespaceBridge(r)
    \/ StorePool(r)
    \/ CreateBridgeInterface(r)
    \/ CreateRedirectDnsTrafficRule(r)
    \/ RefreshPolicy(r)
    \/ RollbackPool(r)
    \/ RollbackLink(r)
    \/ RollbackCommit(r)
    \/ CountContainers(r)
    \/ RemoveRedirectDnsTrafficRule(r)
    \/ RemoveBridgeInterface(r)
    \/ RemovePool(r)
    \/ RefreshPolicyAfterRemove(r)
    \/ StoreNamespace(r)
    \/ StoreSharing(r)
    \/ DropNamespace(r)
    \/ AllocateIn(r)

NetworkNext ==
    \/ \E r \in NetReqs, b \in Bridges : CreateNewNetwork(r, b) \/ RemoveNetwork(r, b)
    \/ \E r \in NetReqs, n \in Namespaces : CreateNamespace(r, n) \/ RemoveNamespace(r, n)
    \/ \E r \in NetReqs, n \in Namespaces, b \in Bridges : ShareNetwork(r, n, b)
    \/ \E r \in NetReqs, c \in Containers, b \in Bridges : ResolveNetwork(r, c, b)
    \/ \E c \in Containers : RemoveContainer(c)
    \/ \E r \in NetReqs : NetStep(r)

NetworkSpec == NetworkInit /\ [][NetworkNext]_networkVars

-----------------------------------------------------------------------------
Untouched(b) == \A r \in NetReqs : net[r].pc # "idle" => net[r].b # b

\* Once the requests on a network are over, its bridge exists exactly when the
\* store has a pool for it, however creates and removes of it overlapped; only
\* a failed command leaves one without the other.
BridgesMatchPools ==
    \A b \in Bridges : Untouched(b) /\ b \notin spoiled => (b \in links <=> Configured(b))

\* A network in use redirects the DNS traffic of both protocols, also after it
\* was removed and created again.
RedirectsMatchPools ==
    \A b \in Bridges : Untouched(b) /\ b \notin spoiled /\ Configured(b) => redirect[b] = Protocols

\* A running container keeps its address while networks are created, fail and
\* are removed around it; only an allocation that came between a removal's
\* count (or a create's rollback) and the end of it can be dropped.
LiveKeepsAddress ==
    \A c \in Containers \ raced : ctr[c] # NoBridge => \E h \in Hosts : Holds(c, ctr[c], h)

\* A namespace's network has a pool, through creates that fail or find the
\* name taken and their clean-up, until somebody deletes the network itself,
\* its owner goes while another shares it, a removal overlaps a create, or
\* the commit that ends a removal fails.
NamespaceHasNetwork ==
    \A n \in Namespaces :
        ns[n] # NoBridge /\ Untouched(ns[n]) /\ ns[n] \notin cut \cup spoiled => Configured(ns[n])

\* Links and DNS redirects of the host match the pools of the store.
HostMatchesPools == NetworkTypeOK /\ BridgesMatchPools /\ RedirectsMatchPools
=============================================================================
