------------------------------ MODULE Endpoints ------------------------------
(***************************************************************************)
(* Services: the store that hands out cluster IPs, the request that applies *)
(* a Service manifest (an update removes the entry and stores it again),    *)
(* and the controller that turns services and ready pods into iptables      *)
(* chains every five seconds.                                               *)
(*                                                                          *)
(* The chains of a service are named after the first eight characters of    *)
(* its ULID, the coarse part of a time stamp, so services created within    *)
(* the same second share them: chainOf is any assignment of names.          *)
(***************************************************************************)
EXTENDS Integers, FiniteSets

CONSTANTS
    Services,    \* service ids
    Pods,
    Addrs,       \* addresses of infra containers
    NoAddr,      \* a pod without a running infra container
    Manifests,   \* what a Service manifest may ask for
    Selects,     \* <<service, pod>>: namespace and labels match
    ChainNames,  \* prefixes of service ids
    CidrSize,    \* addresses of the service network
    MaxOps,      \* bound on requests
    MaxChurn,    \* bound on changes of pods
    MaxFaults    \* bound on failing commands and restarts

ASSUME EndpointsAssumption ==
    /\ CidrSize \in Nat
    /\ Manifests \subseteq [ports : SUBSET Nat, type : {"ClusterIP", "NodePort"}, ip : 0 .. CidrSize - 1]
    /\ Selects \subseteq Services \X Pods

VARIABLES
    svc,      \* service -> its entry in the store
    upd,      \* service -> the entries an update has removed and will store
    pod,      \* pod -> state, infra address, members
    chainOf,  \* service -> name of its chains
    chains, jumps, rules,   \* iptables: chains, jumps to them, rules in them
    last,     \* the controller's lastState and lastServices
    pass,     \* the reconcile pass under way
    up,       \* the controller runs (has done its start-up cleanup)
    wanted,   \* history: services applied and not deleted
    robbed,   \* history: services an interrupted update lost
    damaged,  \* history: services whose last apply failed
    littered, \* history: chain names under which a failing clean-up left something
    epLeft    \* what is left of the bounds

kern == <<chains, jumps, rules>>
store == <<svc, upd, wanted, robbed>>
ctl == <<last, pass, up, damaged, littered>>
epVars == <<svc, upd, pod, chainOf, chains, jumps, rules, last, pass, up,
            wanted, robbed, damaged, littered, epLeft>>

NoSpec == [ports |-> {}, type |-> "none", ip |-> 0]
NoUpd == [old |-> NoSpec, new |-> NoSpec]
NoKey == [spec |-> NoSpec, eps |-> {}]
NoPass == [on |-> FALSE, svcs |-> [s \in Services |-> NoSpec], pods |-> {}, todo |-> {}]
Specs == [ports : {m.ports : m \in Manifests}, type : {"ClusterIP", "NodePort"}, ip : 0 .. CidrSize - 1] \cup {NoSpec}
Keys == {<<k, c>> : k \in {"fwd", "snat"}, c \in ChainNames}
        \cup {<<"svc", c, p>> : c \in ChainNames, p \in UNION {m.ports : m \in Manifests}}

EndpointsTypeOK ==
    /\ svc \in [Services -> Specs]
    /\ upd \in [Services -> [old : Specs, new : Specs]]
    /\ chains \subseteq Keys /\ jumps \subseteq Keys \X (-1 .. CidrSize) /\ rules \subseteq Keys \X Addrs
    /\ last \in [Services -> [spec : Specs, eps : SUBSET Addrs]]
    /\ \A s \in pass.todo : pass.svcs[s] # NoSpec

EndpointsInit ==
    /\ svc = [s \in Services |-> NoSpec]
    /\ upd = [s \in Services |-> NoUpd]
    /\ pod \in [Pods -> [run : BOOLEAN, addr : Addrs \cup {NoAddr}, members : BOOLEAN]]
    /\ \A p, q \in Pods : pod[p].addr = pod[q].addr => p = q \/ pod[p].addr = NoAddr
    /\ chainOf \in [Services -> ChainNames]
    /\ chains = {} /\ jumps = {} /\ rules = {}
    /\ last = [s \in Services |-> NoKey]
    /\ pass = NoPass
    /\ up = FALSE
    /\ wanted = {} /\ robbed = {} /\ damaged = {} /\ littered = {}
    /\ epLeft = [ops |-> MaxOps, churn |-> MaxChurn, faults |-> MaxFaults]

Spend(what) == epLeft[what] > 0 /\ epLeft' = [epLeft EXCEPT ![what] = @ - 1]
Failing(n) == n <= epLeft.faults /\ epLeft' = [epLeft EXCEPT !.faults = @ - n]

-----------------------------------------------------------------------------
(***************************************************************************)
(* The service store and the requests.                                      *)
(***************************************************************************)
Reserved == {0, CidrSize - 1}
UsedIPs == {svc[t].ip : t \in Services} \ {0}
FreeIPs == (0 .. CidrSize - 1) \ (Reserved \cup UsedIPs)

\* allocateClusterIP: the one asked for, or the first free one; empty: error.
AllocateClusterIP(want) ==
    IF want # 0 THEN {want} \cap FreeIPs ELSE {i \in FreeIPs : \A j \in FreeIPs : i <= j}

\* The entries StoreService may write for a spec.  A NodePort service keeps
\* the address it asked for, unchecked.
Stored(spec) ==
    IF spec.type = "ClusterIP" THEN {[spec EXCEPT !.ip = i] : i \in AllocateClusterIP(spec.ip)}
    ELSE {spec}

\* applyService for a name that is not there.
ApplyNewService(s, m) ==
    /\ s \notin wanted /\ svc[s] = NoSpec /\ upd[s] = NoUpd
    /\ Spend("ops")
    /\ IF Stored(m) = {} THEN UNCHANGED <<svc, wanted>>
       ELSE \E e \in Stored(m) : svc' = [svc EXCEPT ![s] = e] /\ wanted' = wanted \cup {s}
    /\ UNCHANGED <<upd, pod, chainOf, kern, ctl, robbed>>

\* applyService for a service that exists, first part: RemoveService.
ApplyService(s, m) ==
    LET new == [m EXCEPT !.ip = IF m.ip = 0 THEN svc[s].ip ELSE m.ip] IN
    /\ svc[s] # NoSpec /\ upd[s] = NoUpd /\ new # svc[s]
    /\ Spend("ops")
    /\ svc' = [svc EXCEPT ![s] = NoSpec]
    /\ upd' = [upd EXCEPT ![s] = [old |-> svc[s], new |-> new]]
    /\ UNCHANGED <<pod, chainOf, kern, ctl, wanted, robbed>>

\* Mutant: a store that fails does not put the old entry back.
StoreUpdatedNoUndo(s) ==
    /\ upd[s] # NoUpd
    /\ IF Stored(upd[s].new) # {} THEN \E e \in Stored(upd[s].new) : svc' = [svc EXCEPT ![s] = e]
       ELSE UNCHANGED svc
    /\ upd' = [upd EXCEPT ![s] = NoUpd]
    /\ UNCHANGED <<pod, chainOf, kern, ctl, wanted, robbed, epLeft>>

\* Second part: StoreService, and the old entry again when it fails; that
\* store can fail as well, when another service took the old address.
StoreUpdated(s) ==
    /\ upd[s] # NoUpd
    /\ IF Stored(upd[s].new) # {}
       THEN (\E e \in Stored(upd[s].new) : svc' = [svc EXCEPT ![s] = e]) /\ UNCHANGED robbed
       ELSE IF Stored(upd[s].old) # {}
       THEN (\E e \in Stored(upd[s].old) : svc' = [svc EXCEPT ![s] = e]) /\ UNCHANGED robbed
       ELSE UNCHANGED svc /\ robbed' = robbed \cup {s}
    /\ upd' = [upd EXCEPT ![s] = NoUpd]
    /\ UNCHANGED <<pod, chainOf, kern, ctl, wanted, epLeft>>

DeleteService(s) ==
    /\ svc[s] # NoSpec
    /\ Spend("ops")
    /\ svc' = [svc EXCEPT ![s] = NoSpec]
    /\ wanted' = wanted \ {s} /\ robbed' = robbed \ {s}
    /\ UNCHANGED <<upd, pod, chainOf, kern, ctl>>

-----------------------------------------------------------------------------
(***************************************************************************)
(* Pods: started and stopped by the user, infra and member containers up    *)
(* and down; an address goes back to the pool and to another pod.           *)
(***************************************************************************)
PodChanges(p) ==
    /\ Spend("churn")
    /\ \/ pod' = [pod EXCEPT ![p].run = ~@]
       \/ pod' = [pod EXCEPT ![p].members = ~@]
       \/ pod[p].addr # NoAddr /\ pod' = [pod EXCEPT ![p].addr = NoAddr]
       \/ /\ pod[p].addr = NoAddr
          /\ \E a \in Addrs \ {pod[q].addr : q \in Pods} : pod' = [pod EXCEPT ![p].addr = a]
    /\ UNCHANGED <<store, chainOf, kern, ctl>>

\* getReadyInfraContainerId: pod running and not stopped (from the list read
\* before), infra and every expected member running (read now).
ReadyInfra(p, listed) == p \in listed /\ pod[p].addr # NoAddr /\ pod[p].members
LabelsMatch(s, p) == <<s, p>> \in Selects
BuildEndpoints(s, listed) ==
    {pod[p].addr : p \in {q \in Pods : LabelsMatch(s, q) /\ ReadyInfra(q, listed)}}
\* buildStateKey: what the rules of a service depend on.
BuildStateKey(s) == [spec |-> pass.svcs[s], eps |-> BuildEndpoints(s, pass.pods)]

-----------------------------------------------------------------------------
(***************************************************************************)
(* The rules of a service.                                                  *)
(***************************************************************************)
Fwd(s) == <<"fwd", chainOf[s]>>
Snat(s) == <<"snat", chainOf[s]>>
Port(s, p) == <<"svc", chainOf[s], p>>
KeysOf(s, spec) == {Fwd(s), Snat(s)} \cup {Port(s, p) : p \in spec.ports}
Dest(spec) == IF spec.type = "ClusterIP" THEN spec.ip ELSE -1
JumpsOf(s, spec) == {<<Fwd(s), 0>>, <<Snat(s), 0>>} \cup {<<Port(s, p), Dest(spec)>> : p \in spec.ports}
RulesOf(s, key) == IF key.spec.ports = {} THEN {} ELSE KeysOf(s, key.spec) \X key.eps

\* Which commands on the chains K fail: as many as the bound has left.
Failures(K) ==
    LET n == epLeft.faults
    IN {{}} \cup {{f[i] : i \in 1 .. n} : f \in [1 .. n -> {"-D", "-F", "-X"} \X K]}

\* What is left when the jumps J and the chains K are removed and the commands
\* in kept fail: every error is ignored.  A chain goes only when it is empty
\* and nothing leads to it.
Cleaned(K, J, kept) ==
    LET js == {j \in jumps : j \in J => <<"-D", j[1]>> \in kept}
        rs == {r \in rules : r[1] \in K => <<"-F", r[1]>> \in kept}
    IN [jumps |-> js, rules |-> rs,
        chains |-> {k \in chains : k \in K => \/ <<"-X", k>> \in kept
                                              \/ \E j \in js : j[1] = k
                                              \/ \E r \in rs : r[1] = k}]

\* cleanupServiceRules of the spec that was recorded, if any
Former(s, spec) == IF spec = NoSpec THEN {} ELSE KeysOf(s, spec)
CleanedService(s, spec, kept) ==
    Cleaned(Former(s, spec), IF spec = NoSpec THEN {} ELSE JumpsOf(s, spec), kept)
Litter(s, kept) == littered' = IF kept = {} THEN littered ELSE littered \cup {chainOf[s]}

\* applyRules up to and including the stages in done; the keys in touched have
\* been created and flushed, after a clean-up left c.  A jump it cannot delete
\* first is one that a clean-up has left.
Applied(s, key, done, touched, lost, c) ==
    /\ chains' = c.chains \cup touched
    /\ jumps' = {j \in c.jumps : j \notin {k \in JumpsOf(s, key.spec) : k[1] \in touched}}
                \cup {j \in JumpsOf(s, key.spec) : j[1] \in done}
    /\ rules' = {r \in c.rules : r[1] \notin touched}
                \cup {r \in RulesOf(s, key) \ lost :
                        \E p \in key.spec.ports : Port(s, p) \in done /\ r[1] \in {Fwd(s), Snat(s), Port(s, p)}}

\* Everything works; or a command fails and ends it there; or a rule whose
\* error is ignored (forward, SNAT) is missing.  n commands failed before.
ApplyRules(s, key, c, n) ==
    LET all == KeysOf(s, key.spec) IN
    \/ Applied(s, key, all, all, {}, c) /\ damaged' = damaged \ {s} /\ Failing(n)
    \/ /\ Failing(n + 1)
       /\ damaged' = damaged \cup {s}
       /\ \/ \E p \in key.spec.ports : \E part \in SUBSET {Port(s, p)} :
                 Applied(s, key, {Fwd(s), Snat(s)} \cup {Port(s, q) : q \in {x \in key.spec.ports : x < p}} \cup part,
                         {Fwd(s), Snat(s)} \cup {Port(s, q) : q \in {x \in key.spec.ports : x <= p}},
                         {<<Port(s, p), a>> : a \in key.eps}, c)
          \/ Applied(s, key, {}, {Fwd(s)}, {}, c)
          \/ Applied(s, key, {Fwd(s)}, {Fwd(s), Snat(s)}, {}, c)
          \/ \E a \in key.eps, k \in {Fwd(s), Snat(s)} : Applied(s, key, all, all, {<<k, a>>}, c)

-----------------------------------------------------------------------------
(***************************************************************************)
(* The controller.                                                          *)
(***************************************************************************)
\* cleanupManagedRulesOnStart: nat first; a failing listing ends it, a failing
\* command is ignored.
StartController ==
    /\ ~up
    /\ up' = TRUE
    /\ \/ \E kept \in Failures(chains) :
            LET c == Cleaned(chains, jumps, kept) IN
            /\ chains' = c.chains /\ jumps' = c.jumps /\ rules' = c.rules
            /\ Failing(Cardinality(kept))
       \/ /\ Spend("faults")
          /\ \/ UNCHANGED kern
             \/ /\ chains' = {k \in chains : k[1] = "fwd"}
                /\ jumps' = {j \in jumps : j[1][1] = "fwd"}
                /\ rules' = {r \in rules : r[1][1] = "fwd"}
    /\ littered' = {k[2] : k \in chains' \cup {j[1] : j \in jumps'} \cup {r[1] : r \in rules'}}
    /\ UNCHANGED <<store, pod, chainOf, last, pass, damaged>>

\* GetServiceList and GetPodList.
ListServices ==
    /\ up /\ ~pass.on
    /\ pass' = [on |-> TRUE, svcs |-> svc, pods |-> {p \in Pods : pod[p].run},
                todo |-> {s \in Services : svc[s] # NoSpec}]
    /\ UNCHANGED <<store, pod, chainOf, kern, last, up, damaged, littered, epLeft>>

\* Mutant: the rules of the previous spec are not cleaned up.
ReconcileNoCleanup(s) ==
    /\ pass.on /\ s \in pass.todo
    /\ pass' = [pass EXCEPT !.todo = @ \ {s}]
    /\ LET key == BuildStateKey(s) IN
       IF last[s] = key THEN UNCHANGED <<kern, last, damaged, epLeft>>
       ELSE last' = [last EXCEPT ![s] = key] /\ ApplyRules(s, key, Cleaned({}, {}, {}), 0)
    /\ UNCHANGED <<store, pod, chainOf, up, littered>>

\* Mutant: the key is the spec without the endpoints.
ReconcileSpecOnly(s) ==
    /\ pass.on /\ s \in pass.todo
    /\ pass' = [pass EXCEPT !.todo = @ \ {s}]
    /\ LET key == BuildStateKey(s)
           old == last[s].spec
       IN IF old = key.spec THEN UNCHANGED <<kern, last, damaged, epLeft>>
          ELSE last' = [last EXCEPT ![s] = key] /\ ApplyRules(s, key, CleanedService(s, old, {}), 0)
    /\ UNCHANGED <<store, pod, chainOf, up, littered>>

\* One service of reconcileOnce.  The key is recorded before the rules are
\* applied, and whatever the clean-up could not remove: a failed apply is not
\* tried again until the key changes, a failed clean-up never.
ReconcileService(s) ==
    /\ pass.on /\ s \in pass.todo
    /\ pass' = [pass EXCEPT !.todo = @ \ {s}]
    /\ LET key == BuildStateKey(s)
           old == last[s].spec
       IN IF last[s] = key THEN UNCHANGED <<kern, last, damaged, littered, epLeft>>
          ELSE \E kept \in Failures(Former(s, old)) :
               /\ last' = [last EXCEPT ![s] = key]
               /\ Litter(s, kept)
               /\ ApplyRules(s, key, CleanedService(s, old, kept), Cardinality(kept))
    /\ UNCHANGED <<store, pod, chainOf, up>>

CleanupRemoved(s) ==
    /\ pass.on /\ pass.todo = {}
    /\ last[s] # NoKey /\ pass.svcs[s] = NoSpec
    /\ \E kept \in Failures(Former(s, last[s].spec)) :
        LET c == CleanedService(s, last[s].spec, kept) IN
        /\ chains' = c.chains /\ jumps' = c.jumps /\ rules' = c.rules
        /\ Litter(s, kept)
        /\ Failing(Cardinality(kept))
    /\ last' = [last EXCEPT ![s] = NoKey] /\ damaged' = damaged \ {s}
    /\ UNCHANGED <<store, pod, chainOf, pass, up>>

EndPass ==
    /\ pass.on /\ pass.todo = {}
    /\ \A s \in Services : last[s] # NoKey => pass.svcs[s] # NoSpec
    /\ pass' = NoPass
    /\ UNCHANGED <<store, pod, chainOf, kern, last, up, damaged, littered, epLeft>>

\* Condenser dies: an update between its two store calls loses the service.
Crash ==
    /\ up
    /\ Spend("faults")
    /\ up' = FALSE /\ pass' = NoPass /\ last' = [s \in Services |-> NoKey] /\ damaged' = {}
    /\ upd' = [s \in Services |-> NoUpd]
    /\ robbed' = robbed \cup {s \in Services : upd[s] # NoUpd}
    /\ UNCHANGED <<svc, pod, chainOf, kern, wanted, littered>>

ControllerStep ==
    \/ StartController
    \/ ListServices
    \/ \E s \in Services : ReconcileService(s) \/ CleanupRemoved(s)
    \/ EndPass

EndpointsNext ==
    \/ \E s \in Services, m \in Manifests : ApplyNewService(s, m) \/ ApplyService(s, m)
    \/ \E s \in Services : StoreUpdated(s) \/ DeleteService(s)
    \/ \E p \in Pods : PodChanges(p)
    \/ ControllerStep
    \/ Crash

\* The ticker keeps the controller going.
EndpointsSpec == EndpointsInit /\ [][EndpointsNext]_epVars /\ WF_epVars(ControllerStep)

-----------------------------------------------------------------------------
OwnChains(s) == \A t \in Services \ {s} : chainOf[t] # chainOf[s]
Mine(s) == {k \in Keys : k[2] = chainOf[s]}

\* What the controller remembers of a service is what iptables holds: its
\* chains, its jumps (for the current type, address and ports) and a rule per
\* endpoint.  Of an earlier spec or endpoint nothing is left, unless a command
\* of a clean-up failed under these names: the controller ignores that, and
\* only its next start tries again; but even then nothing is missing, and the
\* chains in use hold the rules of the present endpoints alone.  Exempt: a
\* service whose apply failed, and one that shares its chain names with another.
InstalledAsRecorded ==
    \A s \in Services : up /\ last[s] # NoKey /\ s \notin damaged /\ OwnChains(s) =>
        /\ KeysOf(s, last[s].spec) \subseteq chains
        /\ JumpsOf(s, last[s].spec) \subseteq jumps
        /\ {r \in rules : r[1] \in KeysOf(s, last[s].spec)} = RulesOf(s, last[s])
        /\ chainOf[s] \notin littered =>
            /\ chains \cap Mine(s) \subseteq KeysOf(s, last[s].spec)
            /\ {j \in jumps : j[1] \in Mine(s)} \subseteq JumpsOf(s, last[s].spec)
            /\ {r \in rules : r[1] \in Mine(s)} \subseteq RulesOf(s, last[s])

\* Every chain, jump and rule belongs to a service the controller knows:
\* nothing outlives a deleted service, also when Condenser restarted meanwhile,
\* but for what a failing command of a clean-up has left.
NoStrayRules ==
    up =>
        \A k \in chains \cup {j[1] : j \in jumps} \cup {r[1] : r \in rules} :
            \/ k[2] \in littered
            \/ \E s \in Services : last[s] # NoKey /\ k[2] = chainOf[s]

\* Two ClusterIP services never have the same address, and never a reserved
\* one, through updates that give theirs up for a moment.
ClusterIPsDistinct ==
    \A s \in Services : svc[s].type = "ClusterIP" =>
        /\ svc[s].ip \notin Reserved
        /\ \A t \in Services \ {s} : svc[t].type = "ClusterIP" => svc[t].ip # svc[s].ip

\* A service that was applied is there until it is deleted, also after an
\* update that was refused; only a crash within an update, or losing the
\* address to another service within it, loses the entry.
ServiceKept ==
    \A s \in wanted \ robbed : svc[s] # NoSpec \/ upd[s] # NoUpd

\* When a service and its ready pod stay, with the labels it selects, the pod is eventually reached: some
\* port's chain has a rule for it and a jump leads there.
Serves(s, p) == svc[s].ports # {} /\ pod[p].run /\ ReadyInfra(p, Pods)
Reached(s, p) ==
    \E k \in Mine(s) : <<k, pod[p].addr>> \in rules /\ k[1] = "svc" /\ \E j \in jumps : j[1] = k
PodEventuallyReached ==
    \A x \in Selects :
        LET s == x[1]  p == x[2]
        IN <>[]Serves(s, p) => []<>(Reached(s, p) \/ s \in damaged \/ ~OwnChains(s))

\* The rules of the host are those the controller has recorded, through
\* restarts, failing commands and services that come and go.
RulesAsRecorded == EndpointsTypeOK /\ InstalledAsRecorded /\ NoStrayRules

\* Requests that create, update and remove services at once neither give one
\* cluster address twice nor lose a service.
ServicesSound == ClusterIPsDistinct /\ ServiceKept
=============================================================================
