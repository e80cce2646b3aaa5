------------------------------- MODULE Bottle -------------------------------
(***************************************************************************)
(* Bottles: a set of containers with dependencies, the policies and the     *)
(* network that belong to them.  A registration orders the services, adds   *)
(* the policies, stores the bottle and creates the containers one by one;   *)
(* Start, Stop and Delete go through the containers of the entry they read. *)
(* Requests run at the same time without a lock over the bottle.            *)
(*                                                                         *)
(* A behaviour registers one bottle, so a container is known by its service.*)
(***************************************************************************)
EXTENDS Integers, Sequences, FiniteSetsExt, SequencesExt

CONSTANTS
    Services,       \* of the bottle
    BottleUsers,    \* requests at the same time; one of them registers
    Registrar,
    MaxActions,     \* Start, Stop and Delete requests
    MaxFailures     \* calls that fail

Missing == "missing"    \* a service the manifest does not have

ASSUME BottleAssumption ==
    /\ IsFiniteSet(Services) /\ Services # {} /\ Missing \notin Services
    /\ Registrar \in BottleUsers /\ MaxActions \in Nat /\ MaxFailures \in Nat

VARIABLES
    deps,       \* service -> depends_on
    wants,      \* the rest of the manifest: a policy, a network of its own
    bottle,     \* the entry in the store
    boxes,      \* container -> "none", "created", "running", "stopped"
    bridge,     \* the bottle's network exists
    policies,   \* the bottle's policies in the policy store
    ran,        \* history: containers that were started
    breq,       \* request -> what it does
    actions, failures
bottleVars == <<deps, wants, bottle, boxes, bridge, policies, ran, breq, actions, failures>>

NoBottle == [order |-> <<>>, has |-> {}, net |-> FALSE, pols |-> {}, there |-> FALSE]
Resting == [op |-> "idle", pc |-> "rest", info |-> NoBottle, queue |-> <<>>, degree |-> <<>>, order |-> <<>>,
            made |-> <<>>, left |-> <<>>, pols |-> {}, hurt |-> FALSE, solo |-> TRUE]

BottleInit ==
    /\ deps \in [Services -> SUBSET (Services \cup {Missing})]
    /\ wants \in [policy : BOOLEAN, network : BOOLEAN]
    /\ bottle = NoBottle /\ boxes = [s \in Services |-> "none"] /\ bridge = FALSE
    /\ policies = {} /\ ran = {} /\ actions = 0 /\ failures = 0
    /\ breq = [u \in BottleUsers |-> Resting]

-----------------------------------------------------------------------------
(* Steps of requests *)
Go(u, pc) == breq' = [breq EXCEPT ![u].pc = pc]
\* Anything another request does to the containers or the entry is noted.
GoWith(u, r) ==
    breq' = [v \in BottleUsers |->
               IF v = u THEN r ELSE IF breq[v].pc = "rest" THEN breq[v] ELSE [breq[v] EXCEPT !.solo = FALSE]]
May(failing) == IF failing THEN failures < MaxFailures /\ failures' = failures + 1 ELSE failures' = failures
Given == <<deps, wants, actions>>

\* BuildStartOrder: the services nobody has to wait for come first, in any
\* order, as a Go map is traversed.
RegisterBottle(u) ==
    /\ u = Registrar /\ breq[u].pc = "rest" /\ breq[u].op = "idle"
    /\ IF \E s \in Services : Missing \in deps[s]
         THEN breq' = [breq EXCEPT ![u] = [@ EXCEPT !.op = "register", !.pc = "refused"]]
         ELSE \E q \in SetToSeqs({s \in Services : deps[s] = {}}) :
                breq' = [breq EXCEPT ![u] = [@ EXCEPT !.op = "register", !.pc = "order", !.queue = q,
                                                      !.degree = [s \in Services |-> Cardinality(deps[s])]]]
    /\ UNCHANGED <<Given, bottle, boxes, bridge, policies, ran, failures>>
OrderNext(u) ==
    LET q == breq[u]
        n == Head(q.queue)
        degree == [s \in Services |-> IF n \in deps[s] THEN q.degree[s] - 1 ELSE q.degree[s]]
        free == {s \in Services : n \in deps[s] /\ degree[s] = 0}
    IN /\ q.pc = "order" /\ q.queue # <<>>
       /\ \E more \in SetToSeqs(free) :
             breq' = [breq EXCEPT ![u] = [q EXCEPT !.order = Append(q.order, n), !.degree = degree,
                                                   !.queue = Tail(q.queue) \o more]]
       /\ UNCHANGED <<Given, bottle, boxes, bridge, policies, ran, failures>>
\* The name must be free; a cycle leaves services over.
OrderEnd(u) ==
    /\ breq[u].pc = "order" /\ breq[u].queue = <<>>
    /\ Go(u, IF Len(breq[u].order) # Cardinality(Services) \/ bottle.there THEN "refused"
             ELSE IF wants.policy THEN "policy" ELSE "store")
    /\ UNCHANGED <<Given, bottle, boxes, bridge, policies, ran, failures>>

\* applyPolicies.  A failed commit is answered without a rollback and leaves the
\* policy in the store.
ApplyPolicies(u) ==
    /\ breq[u].pc = "policy"
    /\ \E failing \in BOOLEAN :
          /\ May(failing)
          /\ policies' = IF failing THEN {} ELSE {"p"}
          /\ breq' = [breq EXCEPT ![u] = [@ EXCEPT !.pc = IF failing THEN "rb_policies" ELSE "commit", !.pols = policies']]
    /\ UNCHANGED <<Given, bottle, boxes, bridge, ran>>
CommitPolicies(u) ==
    /\ breq[u].pc = "commit"
    /\ \E failing \in BOOLEAN :
          /\ May(failing)
          /\ Go(u, IF failing THEN "uncommitted" ELSE "store")
    /\ UNCHANGED <<Given, bottle, boxes, bridge, policies, ran>>
StoreBottle(u) ==
    /\ breq[u].pc = "store"
    /\ \E failing \in BOOLEAN :
          /\ May(failing)
          /\ bottle' = IF failing THEN bottle ELSE [NoBottle EXCEPT !.order = breq[u].order, !.pols = breq[u].pols, !.there = TRUE]
          /\ Go(u, IF failing THEN "rb_policies" ELSE IF wants.network THEN "network" ELSE "create")
    /\ UNCHANGED <<Given, boxes, bridge, policies, ran>>

\* Create: the network, then the containers in order.
CreateNetwork(u) ==
    /\ breq[u].pc = "network"
    /\ \E failing \in BOOLEAN :
          /\ May(failing) /\ bridge' = ~failing
          /\ Go(u, IF failing THEN "rb_bottle" ELSE "netentry")
    /\ UNCHANGED <<Given, bottle, boxes, policies, ran>>
\* UpdateBottleNetwork; the network is removed again if the entry is gone.
RecordNetwork(u) ==
    /\ breq[u].pc = "netentry"
    /\ \E failing \in BOOLEAN :
          /\ May(failing)
          /\ LET ok == ~failing /\ bottle.there
             IN /\ bottle' = IF ok THEN [bottle EXCEPT !.net = TRUE] ELSE bottle
                /\ Go(u, IF ok THEN "create" ELSE "rb_network")
    /\ UNCHANGED <<Given, boxes, bridge, policies, ran>>
CreateContainer(u) ==
    LET s == breq[u].order[Len(breq[u].made) + 1]
    IN /\ breq[u].pc = "create"
       /\ \E failing \in BOOLEAN :
             /\ May(failing)
             /\ boxes' = IF failing THEN boxes ELSE [boxes EXCEPT ![s] = "created"]
             /\ breq' = [breq EXCEPT ![u] = IF failing THEN [@ EXCEPT !.pc = "rb_delete", !.left = breq[u].made]
                                             ELSE [@ EXCEPT !.pc = "entry", !.made = Append(breq[u].made, s)]]
       /\ UNCHANGED <<Given, bottle, bridge, policies, ran>>
\* Mutant: a container counts as created only once it is in the entry.
RecordContainerForgets(u) ==
    LET q == breq[u]
    IN /\ q.pc = "entry"
       /\ \E failing \in BOOLEAN :
             /\ May(failing)
             /\ LET ok == ~failing /\ bottle.there
                IN /\ bottle' = IF ok THEN [bottle EXCEPT !.has = @ \cup {Last(q.made)}] ELSE bottle
                   /\ breq' = [breq EXCEPT ![u] = IF ~ok THEN [@ EXCEPT !.pc = "rb_delete", !.left = Front(breq[u].made)]
                                                   ELSE [@ EXCEPT !.pc = IF q.made = q.order THEN "ok" ELSE "create"]]
       /\ UNCHANGED <<Given, boxes, bridge, policies, ran>>
RecordContainer(u) ==
    LET q == breq[u]
    IN /\ q.pc = "entry"
       /\ \E failing \in BOOLEAN :
             /\ May(failing)
             /\ LET ok == ~failing /\ bottle.there
                IN /\ bottle' = IF ok THEN [bottle EXCEPT !.has = @ \cup {Last(q.made)}] ELSE bottle
                   /\ breq' = [breq EXCEPT ![u] = IF ~ok THEN [@ EXCEPT !.pc = "rb_delete", !.left = breq[u].made]
                                                   ELSE [@ EXCEPT !.pc = IF q.made = q.order THEN "ok" ELSE "create"]]
       /\ UNCHANGED <<Given, boxes, bridge, policies, ran>>

\* rollbackCreatedContainers, the last container first, errors ignored; the
\* entry then names none of them.  A container that was started meanwhile
\* cannot be deleted.
RollbackDelete(u) ==
    LET q == breq[u]
        s == Last(q.left)
    IN /\ q.pc = "rb_delete" /\ q.left # <<>>
       /\ \E failing \in BOOLEAN :
             /\ May(failing)
             /\ LET ok == ~failing /\ boxes[s] \in {"created", "stopped"}
                IN /\ boxes' = IF ok THEN [boxes EXCEPT ![s] = "none"] ELSE boxes
                   /\ GoWith(u, [q EXCEPT !.left = Front(@), !.hurt = @ \/ ~ok])
       /\ UNCHANGED <<Given, bottle, bridge, policies, ran>>
RollbackEntry(u) ==
    /\ breq[u].pc = "rb_delete" /\ breq[u].left = <<>>
    /\ \E failing \in BOOLEAN :
          /\ May(failing)
          /\ bottle' = IF failing THEN bottle ELSE [bottle EXCEPT !.has = @ \ ToSet(breq[u].made)]
          /\ Go(u, IF wants.network THEN "rb_network" ELSE "rb_bottle")
    /\ UNCHANGED <<Given, boxes, bridge, policies, ran>>
\* RemoveNetwork refuses while there are containers.
RollbackNetwork(u) ==
    /\ breq[u].pc = "rb_network"
    /\ \E failing \in BOOLEAN :
          /\ May(failing)
          /\ LET ok == ~failing /\ \A s \in Services : boxes[s] = "none"
             IN /\ bridge' = (bridge /\ ~ok)
                /\ bottle' = [bottle EXCEPT !.net = FALSE]
                /\ breq' = [breq EXCEPT ![u] = [@ EXCEPT !.pc = "rb_bottle", !.hurt = breq[u].hurt \/ ~ok]]
    /\ UNCHANGED <<Given, boxes, policies, ran>>
RollbackBottle(u) ==
    /\ breq[u].pc = "rb_bottle"
    /\ \E failing \in BOOLEAN :
          /\ May(failing)
          /\ bottle' = IF failing THEN bottle ELSE NoBottle
          /\ breq' = [breq EXCEPT ![u] = [@ EXCEPT !.pc = "rb_policies", !.hurt = breq[u].hurt \/ failing]]
    /\ UNCHANGED <<Given, boxes, bridge, policies, ran>>
RollbackPolicies(u) ==
    /\ breq[u].pc = "rb_policies"
    /\ \E failing \in BOOLEAN :
          /\ May(failing)
          /\ policies' = IF failing THEN policies ELSE policies \ breq[u].pols
          /\ breq' = [breq EXCEPT ![u] = [@ EXCEPT !.pc = "failed", !.hurt = breq[u].hurt \/ failing]]
    /\ UNCHANGED <<Given, bottle, boxes, bridge, ran>>

-----------------------------------------------------------------------------
(* Start, Stop, Delete: on the entry read at their begin *)
Act(u, op) ==
    /\ u # Registrar /\ breq[u].pc = "rest" /\ bottle.there
    /\ actions < MaxActions /\ actions' = actions + 1
    /\ breq' = [breq EXCEPT ![u] = [Resting EXCEPT !.op = op, !.pc = "next", !.info = bottle,
                                    !.left = IF op = "start" THEN bottle.order ELSE Reverse(bottle.order),
                                    !.solo = \A v \in BottleUsers \ {u} : breq[v].pc = "rest"]]
    /\ UNCHANGED <<deps, wants, bottle, boxes, bridge, policies, ran, failures>>
\* The container of the next service, by the entry that was read; Stop and
\* Delete look at its state before they go on.
Take(u) ==
    LET q == breq[u]
        s == Head(q.left)
    IN /\ q.pc = "next" /\ q.left # <<>>
       /\ Go(u, IF s \notin q.info.has THEN "failed"
                ELSE IF q.op = "start" THEN "start"
                ELSE IF boxes[s] = "none" THEN "failed"
                ELSE IF boxes[s] = "running" THEN "stop"
                ELSE IF q.op = "stop" THEN "skip"
                ELSE "delete")
       /\ UNCHANGED <<Given, bottle, boxes, bridge, policies, ran, failures>>
Skip(u) ==
    /\ breq[u].pc = "skip"
    /\ breq' = [breq EXCEPT ![u] = [@ EXCEPT !.pc = "next", !.left = Tail(breq[u].left)]]
    /\ UNCHANGED <<Given, bottle, boxes, bridge, policies, ran, failures>>
\* containerService.Start, Stop and Delete read the state again.
OnContainer(u, op, from, to) ==
    LET q == breq[u]
        s == Head(q.left)
    IN /\ q.pc = op
       /\ \E failing \in BOOLEAN :
             /\ May(failing)
             /\ LET ok == ~failing /\ boxes[s] \in from
                    onward == IF op = "stop" /\ q.op = "delete" THEN [q EXCEPT !.pc = "delete"]
                              ELSE [q EXCEPT !.pc = "next", !.left = Tail(@)]
                IN /\ boxes' = IF ok THEN [boxes EXCEPT ![s] = to] ELSE boxes
                   /\ ran' = IF ok /\ op = "start" THEN ran \cup {s} ELSE ran
                   /\ GoWith(u, IF ok THEN onward ELSE [q EXCEPT !.pc = "failed"])
       /\ UNCHANGED <<Given, bottle, bridge, policies>>
BottleStart(u) == OnContainer(u, "start", {"created", "stopped"}, "running")
BottleStop(u) == OnContainer(u, "stop", {"running"}, "stopped")
BottleDelete(u) == OnContainer(u, "delete", {"created", "stopped"}, "none")

AllTaken(u) ==
    /\ breq[u].pc = "next" /\ breq[u].left = <<>>
    /\ Go(u, IF breq[u].op # "delete" THEN "ok" ELSE IF breq[u].info.pols # {} THEN "del_policies" ELSE "del_network")
    /\ UNCHANGED <<Given, bottle, boxes, bridge, policies, ran, failures>>
\* removeBottlePolicies fails at a policy that is gone.
DeletePolicies(u) ==
    /\ breq[u].pc = "del_policies"
    /\ \E failing \in BOOLEAN :
          /\ May(failing)
          /\ LET ok == ~failing /\ breq[u].info.pols \subseteq policies
             IN /\ policies' = IF ok THEN policies \ breq[u].info.pols ELSE policies
                /\ GoWith(u, [breq[u] EXCEPT !.pc = IF ok THEN "del_network" ELSE "failed"])
    /\ UNCHANGED <<Given, bottle, boxes, bridge, ran>>
DeleteNetwork(u) ==
    /\ breq[u].pc = "del_network"
    /\ \E failing \in BOOLEAN :
          /\ May(failing)
          /\ LET ok == ~breq[u].info.net \/ (~failing /\ bridge /\ \A s \in Services : boxes[s] = "none")
             IN /\ bridge' = IF ok /\ breq[u].info.net THEN FALSE ELSE bridge
                /\ GoWith(u, [breq[u] EXCEPT !.pc = IF ok THEN "del_bottle" ELSE "failed"])
    /\ UNCHANGED <<Given, bottle, boxes, policies, ran>>
DeleteBottle(u) ==
    /\ breq[u].pc = "del_bottle"
    /\ \E failing \in BOOLEAN :
          /\ May(failing)
          /\ LET ok == ~failing /\ bottle.there
             IN /\ bottle' = IF ok THEN NoBottle ELSE bottle
                /\ GoWith(u, [breq[u] EXCEPT !.pc = IF ok THEN "ok" ELSE "failed"])
    /\ UNCHANGED <<Given, boxes, bridge, policies, ran>>
\* The answer is sent; the registrar makes no second bottle.
Answer(u) ==
    /\ breq[u].pc \in {"ok", "failed", "uncommitted", "refused"}
    /\ breq' = [breq EXCEPT ![u] = [Resting EXCEPT !.op = IF u = Registrar THEN "done" ELSE "idle"]]
    /\ UNCHANGED <<Given, bottle, boxes, bridge, policies, ran, failures>>
\* A container ends on its own.
Exit(s) ==
    /\ boxes[s] = "running" /\ boxes' = [boxes EXCEPT ![s] = "stopped"]
    /\ UNCHANGED <<Given, bottle, bridge, policies, ran, breq, failures>>

BottleNext ==
    \/ \E u \in BottleUsers :
          \/ RegisterBottle(u) \/ OrderNext(u) \/ OrderEnd(u) \/ ApplyPolicies(u) \/ CommitPolicies(u) \/ StoreBottle(u)
          \/ CreateNetwork(u) \/ RecordNetwork(u) \/ CreateContainer(u) \/ RecordContainer(u)
          \/ RollbackDelete(u) \/ RollbackEntry(u) \/ RollbackNetwork(u) \/ RollbackBottle(u) \/ RollbackPolicies(u)
          \/ \E op \in {"start", "stop", "delete"} : Act(u, op)
          \/ Take(u) \/ Skip(u) \/ BottleStart(u) \/ BottleStop(u) \/ BottleDelete(u)
          \/ AllTaken(u) \/ DeletePolicies(u) \/ DeleteNetwork(u) \/ DeleteBottle(u) \/ Answer(u)
    \/ \E s \in Services : Exit(s)

BottleSpec == BottleInit /\ [][BottleNext]_bottleVars

-----------------------------------------------------------------------------
BottleTypeOK ==
    /\ boxes \in [Services -> {"none", "created", "running", "stopped"}]
    /\ bottle.has \subseteq Services /\ bridge \in BOOLEAN
    /\ policies \subseteq {"p"} /\ ran \subseteq Services

\* The start order puts every service behind the ones it depends on, and the
\* registration is refused exactly for services that wait on one another or on
\* a service that is not there.
Circular == \E S \in SUBSET Services : S # {} /\ \A s \in S : deps[s] \cap S # {}
OrderHonoursDependencies ==
    LET q == breq[Registrar]
    IN /\ bottle.there => \A i, j \in DOMAIN bottle.order : bottle.order[i] \in deps[bottle.order[j]] => i < j
       /\ q.pc = "refused" => Circular \/ \E s \in Services : Missing \in deps[s]
       /\ bottle.there => ~Circular

\* A container runs only after the containers it depends on were started,
\* whatever else is going on with the bottle.
DependenciesFirst == \A s \in ran : deps[s] \subseteq ran

\* A registration that failed leaves no container, network or entry, and no
\* policy either unless what failed was the commit of its policies, after which
\* the handler rolls nothing back.  hurt: a step of the rollback itself failed,
\* among them the removal of a container that was started meanwhile.
RegisterAllOrNothing ==
    LET q == breq[Registrar]
    IN q.pc \in {"failed", "uncommitted"} /\ ~q.hurt =>
         /\ ~bottle.there /\ ~bridge /\ \A s \in Services : boxes[s] = "none"
         /\ q.pc = "failed" => policies = {}

\* A Delete that reports success left nothing of the bottle; a Stop that does,
\* with no other request meanwhile, left nothing running.
DeletedIsGone ==
    \A u \in BottleUsers : breq[u].pc = "ok" =>
        /\ breq[u].op = "delete" => ~bottle.there /\ ~bridge /\ policies = {} /\ \A s \in Services : boxes[s] = "none"
        /\ breq[u].op = "stop" /\ breq[u].solo => \A s \in Services : boxes[s] # "running"

\* Bottles: the invariants above.
BottleSound == BottleTypeOK /\ OrderHonoursDependencies /\ DependenciesFirst /\ RegisterAllOrNothing /\ DeletedIsGone
=============================================================================
