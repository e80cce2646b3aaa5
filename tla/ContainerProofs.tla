-------------------------- MODULE ContainerProofs ---------------------------
(***************************************************************************)
(* Proofs about ContainerService, for any sets of requests, containers,     *)
(* names, forwards and bridges and any faults: its state is well-typed, and *)
(* its requests, however they are interleaved, use the IPAM store only as   *)
(* module Ipam allows, so that the store's theorems hold of the whole       *)
(* service.  The second half is what the service owes its containers: who   *)
(* lives or may be started holds an address, a container is there           *)
(* altogether or not at all, and a published port leads to its container,   *)
(* under the faults each property names.                                    *)
(***************************************************************************)
EXTENDS ContainerService, IpamProofs

HostTypeOK ==
    /\ csm \in [Containers -> Status]
    /\ nameOf \in [Containers -> Names \cup {NoName}]
    /\ ports \in [Containers -> SUBSET Forwards]
    /\ dirs \in SUBSET Containers
    /\ cgroups \in SUBSET Containers
    /\ rules \in SUBSET (Forwards \X Subnets \X Hosts)
    /\ rt \in [Containers -> Status]
    /\ init \in [Containers -> {"none", "waiting", "running"}]
    /\ fifo \in SUBSET Containers
    /\ met \in SUBSET FaultKinds

\* A request that is not idle works on a container.
WorksOnContainer ==
    \A r \in Reqs : req[r].pc # "idle" => req[r].c \in Containers

\* A Create that has not called Allocate yet owns its id alone.
FreshUntilAllocated ==
    \A r \in Reqs : req[r].pc = "allocate" =>
        /\ csm[req[r].c] = "none"
        /\ ~HasAddress(req[r].c)
        /\ \A q \in Reqs : q # r => req[q].c # req[r].c

\* The inductive invariant of the container service
ContainerInv ==
    /\ IpamInv
    /\ req \in [Reqs -> Request]
    /\ HostTypeOK
    /\ WorksOnContainer
    /\ FreshUntilAllocated

-----------------------------------------------------------------------------
\* The ways a step changes its own request, and no other

\* r's record becomes q, which works on the same container or on none
Advances(r, q) ==
    /\ q \in Request
    /\ req' = [req EXCEPT ![r] = q]
    /\ q.pc # "allocate"
    /\ \/ q.c = req[r].c
       \/ q.pc = "idle" /\ q.c = NoContainer

\* Goto moves the request to another step.
LEMMA GotoAdvances ==
  ASSUME req \in [Reqs -> Request], NEW r \in Reqs,
         NEW pc \in CreatePcs \cup LifecyclePcs, pc # "allocate", Goto(r, pc)
  PROVE  \E q : Advances(r, q)
  <1> DEFINE q == [req[r] EXCEPT !.pc = pc]
  <1>1. q \in Request /\ q.pc = pc /\ q.c = req[r].c
    BY DEF Request
  <1>2. req' = [req EXCEPT ![r] = q]
    BY DEF Goto
  <1> QED BY <1>1, <1>2 DEF Advances

\* GotoFlag also records what was done.
LEMMA GotoFlagAdvances ==
  ASSUME req \in [Reqs -> Request], NEW r \in Reqs, NEW flag \in Flags,
         NEW pc \in CreatePcs \cup LifecyclePcs, pc # "allocate",
         GotoFlag(r, pc, flag)
  PROVE  \E q : Advances(r, q)
  <1> DEFINE q == [req[r] EXCEPT !.pc = pc, !.flags = @ \cup {flag}]
  <1>1. q \in Request /\ q.pc = pc /\ q.c = req[r].c
    BY DEF Request
  <1>2. req' = [req EXCEPT ![r] = q]
    BY DEF GotoFlag
  <1> QED BY <1>1, <1>2 DEF Advances

\* A request that has returned works on nothing.
LEMMA IdleIsRequest == Idle \in Request /\ Idle.pc = "idle" /\ Idle.c = NoContainer
  BY DEF Idle, Request

\* Return ends the request.
LEMMA ReturnAdvances ==
  ASSUME req \in [Reqs -> Request], NEW r \in Reqs, Return(r)
  PROVE  \E q : Advances(r, q)
  BY IdleIsRequest DEF Return, Advances

-----------------------------------------------------------------------------
\* What a step of a request that is under way does

\* The call of the IPAM store it makes for its own container, if any
IpamStep(r) ==
    \/ UNCHANGED ipamVars
    \/ req[r].pc = "allocate" /\ \E b \in Bridges : Allocate(req[r].c, b)
    \/ Release(req[r].c)
    \/ \E f \in Forwards : SetForwardInfo(req[r].c, f)

StepOK(r) ==
    /\ \E q : Advances(r, q)
    /\ HostTypeOK'
    /\ IpamStep(r)
    /\ \A c \in Containers :
           csm'[c] # "none" => csm[c] # "none" \/ c = req[r].c

\* No call of the IPAM store for one container gives another one an address.
LEMMA IpamStepLocal ==
  ASSUME ContainerInv, NEW r \in Reqs, req[r].c \in Containers, IpamStep(r),
         NEW c \in Containers, c # req[r].c, HasAddress(c)'
  PROVE  HasAddress(c)
  <1> USE IpamAssumption
  <1>0. IpamTypeOK
    BY DEF ContainerInv, IpamInv
  <1>1. PICK b \in Bridges, h \in Hosts : Holds(c, b, h)'
    BY DEF HasAddress
  <1>2. subnetOf' = subnetOf
    BY DEF IpamStep, ipamVars, Allocate, Release, SetForwardInfo
  <1>3. CASE alloc' = alloc
    BY <1>1, <1>2, <1>3 DEF HasAddress, Holds, Configured, HeldBy
  <1>4. CASE alloc' # alloc
    <2>1. PICK b1 \in Bridges, h1 \in Hosts, a \in Allocation :
            /\ alloc' = [alloc EXCEPT ![b1][h1] = a]
            /\ a.cid # c
      <3>1. CASE \E b2 \in Bridges : Allocate(req[r].c, b2)
        <4>1. PICK b2 \in Bridges, h2 \in Hosts :
                alloc' = [alloc EXCEPT ![b2][h2] = [cid |-> req[r].c, fwds |-> {}]]
          BY <3>1 DEF Allocate
        <4>2. [cid |-> req[r].c, fwds |-> {}] \in Allocation
          BY DEF Allocation
        <4> QED BY <4>1, <4>2
      <3>2. CASE Release(req[r].c)
        <4>1. PICK b2 \in Bridges, h2 \in Hosts :
                alloc' = [alloc EXCEPT ![b2][h2] = Free]
          BY <3>2, <1>4 DEF Release
        <4>2. Free \in Allocation /\ Free.cid # c
          BY DEF Allocation, Free
        <4> QED BY <4>1, <4>2
      <3>3. CASE \E f \in Forwards : SetForwardInfo(req[r].c, f)
        <4>1. PICK f \in Forwards, b2 \in Bridges, h2 \in Hosts :
                alloc' = [alloc EXCEPT ![b2][h2] =
                            [cid |-> req[r].c, fwds |-> @.fwds \cup {f}]]
          BY <3>3 DEF SetForwardInfo
        <4>2. [cid |-> req[r].c, fwds |-> alloc[b2][h2].fwds \cup {f}] \in Allocation
          BY <1>0 DEF IpamTypeOK, Allocation
        <4> QED BY <4>1, <4>2
      <3> QED BY <3>1, <3>2, <3>3, <1>4 DEF IpamStep, ipamVars
    <2>2. alloc[b][h] = alloc'[b][h]
      BY <1>0, <1>1, <2>1 DEF IpamTypeOK, Holds, HeldBy
    <2> QED BY <1>1, <1>2, <2>2 DEF HasAddress, Holds, Configured, HeldBy
  <1> QED BY <1>3, <1>4

\* The call is one that module Ipam allows: Allocate only for an id without
\* an address.
LEMMA IpamStepAllowed ==
  ASSUME ContainerInv, NEW r \in Reqs, req[r].c \in Containers, IpamStep(r)
  PROVE  [IpamNext]_ipamVars
  <1>1. CASE req[r].pc = "allocate" /\ \E b \in Bridges : Allocate(req[r].c, b)
    BY <1>1 DEF IpamNext, ContainerInv, FreshUntilAllocated
  <1> QED BY <1>1 DEF IpamStep, IpamNext

\* Such a step preserves the invariant.
LEMMA StepPreserves ==
  ASSUME ContainerInv, NEW r \in Reqs, req[r].pc # "idle", StepOK(r)
  PROVE  ContainerInv' /\ [IpamNext]_ipamVars
  <1> USE DEF ContainerInv
  <1>1. req[r].c \in Containers
    BY DEF WorksOnContainer
  <1>2. [IpamNext]_ipamVars
    BY <1>1, IpamStepAllowed DEF StepOK
  <1>3. IpamInv'
    BY <1>2, IpamNextInv
  <1>4. PICK q : Advances(r, q)
    BY DEF StepOK
  <1>5. req' \in [Reqs -> Request]
    BY <1>4 DEF Advances
  <1>6. WorksOnContainer'
    BY <1>1, <1>4 DEF Advances, WorksOnContainer
  <1>7. FreshUntilAllocated'
    <2> SUFFICES ASSUME NEW p \in Reqs, (req[p].pc = "allocate")'
                 PROVE  (/\ csm[req[p].c] = "none"
                         /\ ~HasAddress(req[p].c)
                         /\ \A s \in Reqs : s # p => req[s].c # req[p].c)'
      BY DEF FreshUntilAllocated
    <2>1. p # r /\ req'[p] = req[p]
      BY <1>4 DEF Advances
    <2>2. PICK d \in Containers : d = req[p].c
      BY <2>1 DEF WorksOnContainer
    <2>3. /\ csm[d] = "none"
          /\ ~HasAddress(d)
          /\ \A s \in Reqs : s # p => req[s].c # d
      BY <2>1, <2>2 DEF FreshUntilAllocated
    <2>4. d # req[r].c
      BY <2>1, <2>3
    <2>5. csm'[d] = "none"
      BY <2>3, <2>4 DEF StepOK
    <2>6. ~HasAddress(d)'
      BY <1>1, <2>3, <2>4, IpamStepLocal DEF StepOK
    <2>7. \A s \in Reqs : s # p => req'[s].c # d
      BY <1>4, <2>3, <2>4, IpamAssumption DEF Advances
    <2>8. req'[p].c = d
      BY <2>1, <2>2
    <2> QED BY <2>5, <2>6, <2>7, <2>8 DEF HasAddress, Holds, HeldBy
  <1> QED BY <1>2, <1>3, <1>5, <1>6, <1>7 DEF StepOK

-----------------------------------------------------------------------------
\* The actions, one by one

\* The rules of a container are rules.
LEMMA RulesOfType ==
  ASSUME NEW c, NEW F \in SUBSET Forwards
  PROVE  RulesOf(c, F) \in SUBSET (Forwards \X Subnets \X Hosts)
  BY DEF RulesOf

\* A failing step is of a known kind.
LEMMA FailType == ASSUME HostTypeOK, NEW kind, Fail(kind)
                  PROVE  met' \in SUBSET FaultKinds
  BY ContainerAssumption DEF HostTypeOK, Fail

\* What every step of a request under way starts from
LEMMA UnderWay ==
  ASSUME ContainerInv, NEW r \in Reqs, req[r].pc # "idle"
  PROVE  /\ req[r].c \in Containers
         /\ req[r].name \in Names \cup {NoName}
         /\ req[r].todo \in SUBSET Forwards
         /\ req[r].rec \in SUBSET Forwards
         /\ req \in [Reqs -> Request]
         /\ HostTypeOK
  BY DEF ContainerInv, WorksOnContainer, Request

\* Create, step 5: the only call of Allocate, for the request's own fresh id.
LEMMA CreateAllocateOK ==
  ASSUME ContainerInv, NEW r \in Reqs, CreateAllocate(r)
  PROVE  req[r].pc # "idle" /\ StepOK(r)
  <1>0. req[r].pc # "idle"
    BY DEF CreateAllocate, At
  <1> USE <1>0, UnderWay
  <1>1. \E q : Advances(r, q)
    BY GotoFlagAdvances, ReturnAdvances DEF CreateAllocate, CreatePcs, Flags
  <1>2. met' \in SUBSET FaultKinds
    BY FailType DEF CreateAllocate, NoFault, HostTypeOK
  <1>3. HostTypeOK'
    BY <1>2 DEF CreateAllocate, HostTypeOK, storeVars, hostVars, runtimeVars
  <1>4. IpamStep(r)
    BY DEF CreateAllocate, At, IpamStep
  <1> QED BY <1>1, <1>3, <1>4 DEF StepOK, CreateAllocate, storeVars

\* Create, step 6: the only step that makes a CSM entry.
LEMMA CreateStoreOK ==
  ASSUME ContainerInv, NEW r \in Reqs, CreateStore(r)
  PROVE  req[r].pc # "idle" /\ StepOK(r)
  <1>0. req[r].pc # "idle"
    BY DEF CreateStore, At
  <1> USE <1>0, UnderWay
  <1>1. \E q : Advances(r, q)
    BY GotoFlagAdvances, GotoAdvances DEF CreateStore, CreatePcs, Flags
  <1>2. met' \in SUBSET FaultKinds
    BY FailType DEF CreateStore, NoFault, HostTypeOK
  <1>3. HostTypeOK'
    BY <1>2 DEF CreateStore, HostTypeOK, Status, storeVars, hostVars, runtimeVars
  <1> QED BY <1>1, <1>3 DEF StepOK, IpamStep, CreateStore, storeVars, HostTypeOK

\* Create, steps 7 and 8.
LEMMA CreateDirectoryOK ==
  ASSUME ContainerInv, NEW r \in Reqs, CreateDirectory(r)
  PROVE  req[r].pc # "idle" /\ StepOK(r)
  <1>0. req[r].pc # "idle"
    BY DEF CreateDirectory, At
  <1> USE <1>0, UnderWay
  <1>1. \E q : Advances(r, q)
    BY GotoFlagAdvances, GotoAdvances DEF CreateDirectory, CreatePcs, Flags
  <1>2. met' \in SUBSET FaultKinds
    BY FailType DEF CreateDirectory, NoFault, HostTypeOK
  <1>3. HostTypeOK'
    BY <1>2 DEF CreateDirectory, HostTypeOK, storeVars, runtimeVars
  <1> QED BY <1>1, <1>3 DEF StepOK, IpamStep, CreateDirectory, storeVars

\* Create, step 9.
LEMMA CreateCgroupOK ==
  ASSUME ContainerInv, NEW r \in Reqs, CreateCgroup(r)
  PROVE  req[r].pc # "idle" /\ StepOK(r)
  <1>0. req[r].pc # "idle"
    BY DEF CreateCgroup, At
  <1> USE <1>0, UnderWay
  <1>1. \E q : Advances(r, q)
    BY GotoFlagAdvances, GotoAdvances DEF CreateCgroup, CreatePcs, Flags
  <1>2. met' \in SUBSET FaultKinds
    BY FailType DEF CreateCgroup, NoFault, HostTypeOK
  <1>3. HostTypeOK'
    BY <1>2 DEF CreateCgroup, HostTypeOK, storeVars, runtimeVars
  <1> QED BY <1>1, <1>3 DEF StepOK, IpamStep, CreateCgroup, storeVars

\* Create, step 10.
LEMMA CreateSpecOK ==
  ASSUME ContainerInv, NEW r \in Reqs, CreateSpec(r)
  PROVE  req[r].pc # "idle" /\ StepOK(r)
  <1>0. req[r].pc # "idle"
    BY DEF CreateSpec, At
  <1> USE <1>0, UnderWay
  <1>1. \E q : Advances(r, q)
    BY GotoAdvances DEF CreateSpec, CreatePcs
  <1>2. met' \in SUBSET FaultKinds
    BY FailType DEF CreateSpec, NoFault, HostTypeOK
  <1>3. HostTypeOK'
    BY <1>2 DEF CreateSpec, HostTypeOK, storeVars, hostVars, runtimeVars
  <1> QED BY <1>1, <1>3 DEF StepOK, IpamStep, CreateSpec, storeVars

\* Create, step 11: the iptables rules of one port.
LEMMA CreateRuleOK ==
  ASSUME ContainerInv, NEW r \in Reqs, CreateRule(r)
  PROVE  req[r].pc # "idle" /\ StepOK(r)
  <1>0. req[r].pc # "idle"
    BY DEF CreateRule, At
  <1> USE <1>0, UnderWay
  <1>1. \E q : Advances(r, q)
    <2>1. CASE Goto(r, "rb_release")
      BY <2>1, GotoAdvances DEF CreatePcs
    <2>2. CASE ~Goto(r, "rb_release")
      <3>1. PICK f \in req[r].todo :
              req' = [req EXCEPT ![r].pc = "record", ![r].rec = {f}]
        BY <2>2 DEF CreateRule
      <3> DEFINE q == [req[r] EXCEPT !.pc = "record", !.rec = {f}]
      <3>2. q \in Request /\ q.pc = "record" /\ q.c = req[r].c
        BY DEF Request, CreatePcs
      <3>3. req' = [req EXCEPT ![r] = q]
        BY <3>1
      <3> QED BY <3>2, <3>3 DEF Advances
    <2> QED BY <2>1, <2>2
  <1>6. rules' \in SUBSET (Forwards \X Subnets \X Hosts)
    BY RulesOfType DEF CreateRule, HostTypeOK
  <1>2. met' \in SUBSET FaultKinds
    BY FailType DEF CreateRule, NoFault, HostTypeOK
  <1>3. HostTypeOK'
    BY <1>2, <1>6 DEF CreateRule, HostTypeOK, storeVars, hostVars, runtimeVars
  <1> QED BY <1>1, <1>3 DEF StepOK, IpamStep, CreateRule, storeVars

\* Create, step 11: the IPAM record of one port.
LEMMA CreateRecordOK ==
  ASSUME ContainerInv, NEW r \in Reqs, CreateRecord(r)
  PROVE  req[r].pc # "idle" /\ StepOK(r)
  <1>0. req[r].pc # "idle"
    BY DEF CreateRecord, At
  <1> USE <1>0, UnderWay
  <1>1. \E q : Advances(r, q)
    <2>1. CASE Goto(r, "rb_release")
      BY <2>1, GotoAdvances DEF CreatePcs
    <2>2. CASE ~Goto(r, "rb_release")
      <3>1. PICK f \in req[r].rec :
              req' = [req EXCEPT ![r].pc = "rule", ![r].rec = {},
                                  ![r].todo = @ \ {f}]
        BY <2>2 DEF CreateRecord
      <3> DEFINE q == [req[r] EXCEPT !.pc = "rule", !.rec = {}, !.todo = @ \ {f}]
      <3>2. q \in Request /\ q.pc = "rule" /\ q.c = req[r].c
        BY DEF Request, CreatePcs
      <3>3. req' = [req EXCEPT ![r] = q]
        BY <3>1
      <3> QED BY <3>2, <3>3 DEF Advances
    <2> QED BY <2>1, <2>2
  <1>3. HostTypeOK'
    BY DEF CreateRecord, HostTypeOK, storeVars, hostVars, runtimeVars
  <1>4. IpamStep(r)
    BY DEF CreateRecord, IpamStep
  <1> QED BY <1>1, <1>3, <1>4 DEF StepOK, CreateRecord, storeVars

\* Create, step 11: all ports done.
LEMMA CreateForwardsDoneOK ==
  ASSUME ContainerInv, NEW r \in Reqs, CreateForwardsDone(r)
  PROVE  req[r].pc # "idle" /\ StepOK(r)
  <1>0. req[r].pc # "idle"
    BY DEF CreateForwardsDone, At
  <1> USE <1>0, UnderWay
  <1>1. \E q : Advances(r, q)
    BY GotoFlagAdvances DEF CreateForwardsDone, CreatePcs, Flags
  <1>3. HostTypeOK'
    BY DEF CreateForwardsDone, HostTypeOK, storeVars, hostVars, runtimeVars
  <1> QED BY <1>1, <1>3 DEF StepOK, IpamStep, CreateForwardsDone, storeVars

\* The four ends of droplet create
LEMMA DropletCreateType ==
  ASSUME HostTypeOK, NEW c \in Containers,
         \/ DropletCreated(c) \/ DropletCreateRefused(c)
         \/ DropletCreateFifoExists(c) \/ DropletCreateFailsLate(c),
         UNCHANGED <<nameOf, ports, dirs, rules>>
  PROVE  /\ HostTypeOK'
         /\ \A d \in Containers : csm'[d] # "none" => csm[d] # "none"
  <1>1. CASE DropletCreated(c)
    BY <1>1 DEF HostTypeOK, DropletCreated, NoFault, Status
  <1>2. CASE DropletCreateRefused(c)
    BY <1>2, FailType DEF HostTypeOK, DropletCreateRefused, runtimeVars
  <1>3. CASE DropletCreateFifoExists(c)
    BY <1>3 DEF HostTypeOK, DropletCreateFifoExists, Status
  <1>4. CASE DropletCreateFailsLate(c)
    <2>1. met' \in SUBSET FaultKinds
      BY <1>4, FailType DEF DropletCreateFailsLate
    <2> QED BY <1>4, <2>1 DEF HostTypeOK, DropletCreateFailsLate, Status
  <1> QED BY <1>1, <1>2, <1>3, <1>4

\* Create, step 12.
LEMMA CreateRuntimeOK ==
  ASSUME ContainerInv, NEW r \in Reqs, CreateRuntime(r)
  PROVE  req[r].pc # "idle" /\ StepOK(r)
  <1>0. req[r].pc # "idle"
    BY DEF CreateRuntime, At
  <1> USE <1>0, UnderWay
  <1>1. \E q : Advances(r, q)
    BY GotoAdvances, ReturnAdvances DEF CreateRuntime, CreatePcs
  <1>2. /\ HostTypeOK'
        /\ \A d \in Containers : csm'[d] # "none" => csm[d] # "none"
    BY DropletCreateType DEF CreateRuntime
  <1> QED BY <1>1, <1>2 DEF StepOK, IpamStep, CreateRuntime

\* Start of a stopped container: droplet create.
LEMMA StartCreateOK ==
  ASSUME ContainerInv, NEW r \in Reqs, StartCreate(r)
  PROVE  req[r].pc # "idle" /\ StepOK(r)
  <1>0. req[r].pc # "idle"
    BY DEF StartCreate, At
  <1> USE <1>0, UnderWay
  <1>1. \E q : Advances(r, q)
    BY GotoAdvances, ReturnAdvances DEF StartCreate, LifecyclePcs
  <1>2. /\ HostTypeOK'
        /\ \A d \in Containers : csm'[d] # "none" => csm[d] # "none"
    BY DropletCreateType DEF StartCreate
  <1> QED BY <1>1, <1>2 DEF StepOK, IpamStep, StartCreate

\* rollback: the address.
LEMMA RollbackReleaseOK ==
  ASSUME ContainerInv, NEW r \in Reqs, RollbackRelease(r)
  PROVE  req[r].pc # "idle" /\ StepOK(r)
  <1>0. req[r].pc # "idle"
    BY DEF RollbackRelease, At
  <1> USE <1>0, UnderWay
  <1>1. \E q : Advances(r, q)
    BY GotoAdvances DEF RollbackRelease, CreatePcs
  <1>3. HostTypeOK'
    BY DEF RollbackRelease, HostTypeOK, storeVars, hostVars, runtimeVars
  <1>4. IpamStep(r)
    BY DEF RollbackRelease, IpamStep
  <1> QED BY <1>1, <1>3, <1>4 DEF StepOK, RollbackRelease, storeVars

\* rollback: the CSM entry.
LEMMA RollbackCsmOK ==
  ASSUME ContainerInv, NEW r \in Reqs, RollbackCsm(r)
  PROVE  req[r].pc # "idle" /\ StepOK(r)
  <1>0. req[r].pc # "idle"
    BY DEF RollbackCsm, At
  <1> USE <1>0, UnderWay
  <1>1. \E q : Advances(r, q)
    BY GotoAdvances DEF RollbackCsm, CreatePcs
  <1>3. HostTypeOK'
    BY DEF RollbackCsm, HostTypeOK, Status, storeVars, hostVars, runtimeVars
  <1> QED BY <1>1, <1>3 DEF StepOK, IpamStep, RollbackCsm, storeVars, HostTypeOK

\* rollback: the directory.
LEMMA RollbackDirectoryOK ==
  ASSUME ContainerInv, NEW r \in Reqs, RollbackDirectory(r)
  PROVE  req[r].pc # "idle" /\ StepOK(r)
  <1>0. req[r].pc # "idle"
    BY DEF RollbackDirectory, At
  <1> USE <1>0, UnderWay
  <1>1. \E q : Advances(r, q)
    BY GotoAdvances DEF RollbackDirectory, CreatePcs
  <1>3. HostTypeOK'
    BY DEF RollbackDirectory, HostTypeOK, RemoveDirectory, Status, storeVars, runtimeVars
  <1> QED BY <1>1, <1>3 DEF StepOK, IpamStep, RollbackDirectory, storeVars

\* rollback: the cgroup.
LEMMA RollbackCgroupOK ==
  ASSUME ContainerInv, NEW r \in Reqs, RollbackCgroup(r)
  PROVE  req[r].pc # "idle" /\ StepOK(r)
  <1>0. req[r].pc # "idle"
    BY DEF RollbackCgroup, At
  <1> USE <1>0, UnderWay
  <1>1. \E q : Advances(r, q)
    BY GotoAdvances DEF RollbackCgroup, CreatePcs
  <1>3. HostTypeOK'
    BY DEF RollbackCgroup, HostTypeOK, storeVars, runtimeVars
  <1> QED BY <1>1, <1>3 DEF StepOK, IpamStep, RollbackCgroup, storeVars

\* rollback: the forwarding rules.
LEMMA RollbackForwardOK ==
  ASSUME ContainerInv, NEW r \in Reqs, RollbackForward(r)
  PROVE  req[r].pc # "idle" /\ StepOK(r)
  <1>0. req[r].pc # "idle"
    BY DEF RollbackForward, At
  <1> USE <1>0, UnderWay
  <1>1. \E q : Advances(r, q)
    BY ReturnAdvances DEF RollbackForward
  <1>3. HostTypeOK'
    BY DEF RollbackForward, HostTypeOK, CleanupForwardRules, storeVars, hostVars, runtimeVars
  <1> QED BY <1>1, <1>3 DEF StepOK, IpamStep, RollbackForward, storeVars

\* Start: restoreForwardRules.
LEMMA StartRestoreOK ==
  ASSUME ContainerInv, NEW r \in Reqs, StartRestore(r)
  PROVE  req[r].pc # "idle" /\ StepOK(r)
  <1>0. req[r].pc # "idle"
    BY DEF StartRestore, At
  <1> USE <1>0, UnderWay
  <1>1. \E q : Advances(r, q)
    BY GotoAdvances, ReturnAdvances DEF StartRestore, LifecyclePcs
  <1>6. rules' \in SUBSET (Forwards \X Subnets \X Hosts)
    <2>1. ForwardsOf(req[r].c) \in SUBSET Forwards
      BY DEF ForwardsOf
    <2> QED BY <2>1, RulesOfType DEF StartRestore, HostTypeOK
  <1>2. met' \in SUBSET FaultKinds
    BY FailType DEF StartRestore, NoFault, HostTypeOK
  <1>3. HostTypeOK'
    BY <1>2, <1>6 DEF StartRestore, HostTypeOK, storeVars, hostVars, runtimeVars
  <1> QED BY <1>1, <1>3 DEF StepOK, IpamStep, StartRestore, storeVars

\* Start: droplet start.
LEMMA StartStartOK ==
  ASSUME ContainerInv, NEW r \in Reqs, StartStart(r)
  PROVE  req[r].pc # "idle" /\ StepOK(r)
  <1>0. req[r].pc # "idle"
    BY DEF StartStart, At
  <1> USE <1>0, UnderWay
  <1>1. \E q : Advances(r, q)
    BY ReturnAdvances DEF StartStart
  <1>3. HostTypeOK'
    BY DEF StartStart, HostTypeOK, Status, hostVars, runtimeVars
  <1> QED BY <1>1, <1>3 DEF StepOK, IpamStep, StartStart, HostTypeOK

\* Stop: droplet kill.
LEMMA StopKillOK ==
  ASSUME ContainerInv, NEW r \in Reqs, StopKill(r)
  PROVE  req[r].pc # "idle" /\ StepOK(r)
  <1>0. req[r].pc # "idle"
    BY DEF StopKill, At
  <1> USE <1>0, UnderWay
  <1>1. \E q : Advances(r, q)
    BY ReturnAdvances DEF StopKill
  <1>3. HostTypeOK'
    BY DEF StopKill, HostTypeOK, Status, hostVars, runtimeVars
  <1> QED BY <1>1, <1>3 DEF StepOK, IpamStep, StopKill, HostTypeOK

\* Delete: droplet delete with its poststop hook.
LEMMA DeleteRuntimeOK ==
  ASSUME ContainerInv, NEW r \in Reqs, DeleteRuntime(r)
  PROVE  req[r].pc # "idle" /\ StepOK(r)
  <1>0. req[r].pc # "idle"
    BY DEF DeleteRuntime, At
  <1> USE <1>0, UnderWay
  <1>1. \E q : Advances(r, q)
    BY GotoAdvances, ReturnAdvances DEF DeleteRuntime, LifecyclePcs
  <1>2. met' \in SUBSET FaultKinds
    BY FailType DEF DeleteRuntime, NoFault, HostTypeOK
  <1>3. HostTypeOK'
    BY <1>2 DEF DeleteRuntime, HostTypeOK, Status, storeVars, hostVars, runtimeVars
  <1> QED BY <1>1, <1>3 DEF StepOK, IpamStep, DeleteRuntime, storeVars, HostTypeOK

\* Delete: cleanupForwardRules.
LEMMA DeleteRulesOK ==
  ASSUME ContainerInv, NEW r \in Reqs, DeleteRules(r)
  PROVE  req[r].pc # "idle" /\ StepOK(r)
  <1>0. req[r].pc # "idle"
    BY DEF DeleteRules, At
  <1> USE <1>0, UnderWay
  <1>1. \E q : Advances(r, q)
    BY GotoAdvances, ReturnAdvances DEF DeleteRules, LifecyclePcs
  <1>2. met' \in SUBSET FaultKinds
    BY FailType DEF DeleteRules, NoFault, HostTypeOK
  <1>3. HostTypeOK'
    BY <1>2 DEF DeleteRules, HostTypeOK, CleanupForwardRules, storeVars, hostVars, runtimeVars
  <1> QED BY <1>1, <1>3 DEF StepOK, IpamStep, DeleteRules, storeVars

\* Delete: the address goes back to IPAM.
LEMMA DeleteReleaseOK ==
  ASSUME ContainerInv, NEW r \in Reqs, DeleteRelease(r)
  PROVE  req[r].pc # "idle" /\ StepOK(r)
  <1>0. req[r].pc # "idle"
    BY DEF DeleteRelease, At
  <1> USE <1>0, UnderWay
  <1>1. \E q : Advances(r, q)
    BY GotoAdvances DEF DeleteRelease, LifecyclePcs
  <1>3. HostTypeOK'
    BY DEF DeleteRelease, HostTypeOK, storeVars, hostVars, runtimeVars
  <1>4. IpamStep(r)
    BY DEF DeleteRelease, IpamStep
  <1> QED BY <1>1, <1>3, <1>4 DEF StepOK, DeleteRelease, storeVars

\* Delete: directory, cgroup and CSM entry.
LEMMA DeleteFilesOK ==
  ASSUME ContainerInv, NEW r \in Reqs, DeleteFiles(r)
  PROVE  req[r].pc # "idle" /\ StepOK(r)
  <1>0. req[r].pc # "idle"
    BY DEF DeleteFiles, At
  <1> USE <1>0, UnderWay
  <1>1. \E q : Advances(r, q)
    BY ReturnAdvances DEF DeleteFiles
  <1>3. HostTypeOK'
    BY DEF DeleteFiles, HostTypeOK, RemoveDirectory, Status
  <1> QED BY <1>1, <1>3 DEF StepOK, IpamStep, DeleteFiles, HostTypeOK

\* A new Create owns a fresh id, which no other request works on.
LEMMA CreateBeginOK ==
  ASSUME ContainerInv, NEW r \in Reqs, CreateBegin(r)
  PROVE  ContainerInv' /\ UNCHANGED ipamVars
  <1> USE DEF ContainerInv
  <1>1. PICK c \in Containers, n \in Names, P \in SUBSET Forwards :
          /\ Fresh(c)
          /\ req' = [req EXCEPT ![r] = [Idle EXCEPT !.pc = "allocate", !.c = c,
                                                    !.name = n, !.todo = P]]
          /\ ports' = [ports EXCEPT ![c] = P]
          /\ dirs' = dirs \ {c}
    BY DEF CreateBegin
  <1> DEFINE q == [Idle EXCEPT !.pc = "allocate", !.c = c, !.name = n, !.todo = P]
  <1>2. q \in Request /\ q.pc = "allocate" /\ q.c = c
    BY DEF Request, Idle, CreatePcs
  <1>3. req' = [req EXCEPT ![r] = q]
    BY <1>1
  <1> HIDE DEF q
  <1>4. UNCHANGED <<subnetOf, alloc, csm>>
    BY DEF CreateBegin, ipamVars, storeVars
  <1>5. IpamInv'
    BY <1>4, IpamNextInv DEF ipamVars
  <1>6. req' \in [Reqs -> Request]
    BY <1>2, <1>3
  <1>7. HostTypeOK'
    BY <1>1 DEF CreateBegin, HostTypeOK, storeVars, runtimeVars
  <1>8. WorksOnContainer'
    BY <1>2, <1>3 DEF WorksOnContainer
  <1>9. FreshUntilAllocated'
    <2>1. csm[c] = "none" /\ ~HasAddress(c) /\ \A s \in Reqs : req[s].c # c
      BY <1>1 DEF Fresh, Busy
    <2> QED BY <1>2, <1>3, <1>4, <2>1 DEF FreshUntilAllocated, HasAddress,
            Holds, HeldBy, Configured
  <1> QED BY <1>4, <1>5, <1>6, <1>7, <1>8, <1>9 DEF ipamVars

\* Start, Stop and Delete begin with a container that has a CSM entry, so it
\* is not the fresh id of a Create.
LEMMA LifecycleBeginOK ==
  ASSUME ContainerInv, NEW r \in Reqs, NEW c \in Containers,
         NEW pc \in LifecyclePcs, NEW force \in BOOLEAN, csm[c] # "none",
         LifecycleBegin(r, c, pc, force)
  PROVE  ContainerInv' /\ UNCHANGED ipamVars
  <1> USE DEF ContainerInv
  <1> DEFINE q == [Idle EXCEPT !.pc = pc, !.c = c, !.force = force]
  <1>1. q \in Request /\ q.pc = pc /\ q.c = c
    BY DEF Request, Idle
  <1>2. req' = [req EXCEPT ![r] = q]
    BY DEF LifecycleBegin
  <1> HIDE DEF q
  <1>3. UNCHANGED <<subnetOf, alloc, csm>>
    BY DEF LifecycleBegin, ipamVars, storeVars
  <1>4. IpamInv'
    BY <1>3, IpamNextInv DEF ipamVars
  <1>5. req' \in [Reqs -> Request]
    BY <1>1, <1>2
  <1>6. HostTypeOK'
    BY DEF LifecycleBegin, HostTypeOK, storeVars, hostVars, runtimeVars
  <1>7. WorksOnContainer'
    BY <1>1, <1>2 DEF WorksOnContainer
  <1>8. FreshUntilAllocated'
    <2>1. pc # "allocate"
      BY DEF LifecyclePcs
    <2> QED BY <1>1, <1>2, <1>3, <2>1 DEF FreshUntilAllocated, HasAddress,
            Holds, HeldBy, Configured
  <1> QED BY <1>3, <1>4, <1>5, <1>6, <1>7, <1>8 DEF ipamVars

\* Processes that end, the monitor and a reboot leave the IPAM store alone.
LEMMA EnvironmentOK ==
  ASSUME ContainerInv,
         (\E c \in Containers : WorkloadExit(c) \/ MonitorDown(c)) \/ Reboot
  PROVE  ContainerInv' /\ UNCHANGED ipamVars
  <1> USE DEF ContainerInv
  <1>1. UNCHANGED <<subnetOf, alloc>>
    BY DEF WorkloadExit, MonitorDown, Reboot, ipamVars
  <1>2. IpamInv'
    BY <1>1, IpamNextInv DEF ipamVars
  <1>3. CASE \E c \in Containers : WorkloadExit(c) \/ MonitorDown(c)
    <2>1. PICK c \in Containers : WorkloadExit(c) \/ MonitorDown(c)
      BY <1>3
    <2>2. HostTypeOK'
      BY <2>1 DEF WorkloadExit, MonitorDown, HostTypeOK, Status, storeVars,
         hostVars, runtimeVars
    <2>3. /\ req' = req
          /\ \A d \in Containers : csm[d] = "none" => csm'[d] = "none"
      BY <2>1 DEF WorkloadExit, MonitorDown, storeVars, HostTypeOK
    <2>4. WorksOnContainer' /\ FreshUntilAllocated'
      BY <1>1, <2>3 DEF WorksOnContainer, FreshUntilAllocated, HasAddress,
         Holds, HeldBy, Configured
    <2> QED BY <1>1, <1>2, <2>2, <2>3, <2>4 DEF ipamVars
  <1>4. CASE Reboot
    <2>1. HostTypeOK'
      <3>1. met' \in SUBSET FaultKinds
        BY <1>4, FailType DEF Reboot
      <3> QED BY <1>4, <3>1 DEF Reboot, HostTypeOK, storeVars
    <2>2. req' = [r \in Reqs |-> Idle]
      BY <1>4 DEF Reboot
    <2>3. req' \in [Reqs -> Request] /\ WorksOnContainer' /\ FreshUntilAllocated'
      BY <2>2, IdleIsRequest DEF WorksOnContainer, FreshUntilAllocated
    <2> QED BY <1>1, <1>2, <2>1, <2>3 DEF ipamVars
  <1> QED BY <1>3, <1>4

-----------------------------------------------------------------------------
\* The service starts with an empty store and no requests.
LEMMA ContainerInitInv == ContainerInit => ContainerInv
  <1> SUFFICES ASSUME ContainerInit PROVE ContainerInv
    OBVIOUS
  <1>1. IpamInv
    BY IpamInitInv DEF ContainerInit
  <1>2. HostTypeOK
    BY DEF ContainerInit, HostTypeOK, Status
  <1>3. req \in [Reqs -> Request] /\ WorksOnContainer /\ FreshUntilAllocated
    BY IdleIsRequest DEF ContainerInit, WorksOnContainer, FreshUntilAllocated
  <1> QED BY <1>1, <1>2, <1>3 DEF ContainerInv

\* Every step of the service preserves the invariant and is, as far as the
\* IPAM store can tell, one of its operations or nothing.
LEMMA ContainerNextInv ==
  ContainerInv /\ [ContainerNext]_cvars => ContainerInv' /\ [IpamNext]_ipamVars
  <1> SUFFICES ASSUME ContainerInv, [ContainerNext]_cvars
               PROVE  ContainerInv' /\ [IpamNext]_ipamVars
    OBVIOUS
  <1>1. CASE UNCHANGED cvars
    <2>1. UNCHANGED ipamVars /\ req' = req /\ csm' = csm
      BY <1>1 DEF cvars, ipamVars
    <2>2. IpamInv'
      BY <2>1, IpamNextInv DEF ContainerInv
    <2>3. HostTypeOK'
      BY <1>1 DEF cvars, ContainerInv, HostTypeOK
    <2>4. WorksOnContainer' /\ FreshUntilAllocated'
      BY <2>1 DEF ipamVars, ContainerInv, WorksOnContainer,
         FreshUntilAllocated, HasAddress, Holds, HeldBy, Configured
    <2> QED BY <2>1, <2>2, <2>3, <2>4 DEF ContainerInv
  <1>2. ASSUME NEW r \in Reqs, CreateStep(r)
        PROVE  ContainerInv' /\ [IpamNext]_ipamVars
    <2>1. CASE CreateBegin(r)
      BY <2>1, CreateBeginOK
    <2>2. CASE ~CreateBegin(r)
      <3>1. req[r].pc # "idle" /\ StepOK(r)
        BY <1>2, <2>2, CreateAllocateOK, CreateStoreOK, CreateDirectoryOK,
           CreateCgroupOK, CreateSpecOK, CreateRuleOK, CreateRecordOK,
           CreateForwardsDoneOK, CreateRuntimeOK, RollbackReleaseOK,
           RollbackCsmOK, RollbackDirectoryOK, RollbackCgroupOK,
           RollbackForwardOK DEF CreateStep
      <3> QED BY <3>1, StepPreserves
    <2> QED BY <2>1, <2>2
  <1>3. ASSUME NEW r \in Reqs, LifecycleStep(r)
        PROVE  ContainerInv' /\ [IpamNext]_ipamVars
    <2>1. CASE StartBegin(r)
      BY <2>1, LifecycleBeginOK DEF StartBegin, LifecyclePcs
    <2>2. CASE StopBegin(r)
      BY <2>2, LifecycleBeginOK DEF StopBegin, LifecyclePcs
    <2>3. CASE DeleteBegin(r)
      <3>1. PICK c \in Containers :
              /\ csm[c] # "none"
              /\ LifecycleBegin(r, c, "del_runtime", csm[c] # "stopped")
        BY <2>3 DEF DeleteBegin
      <3>2. (csm[c] # "stopped") \in BOOLEAN /\ "del_runtime" \in LifecyclePcs
        BY DEF LifecyclePcs
      <3> QED BY <3>1, <3>2, LifecycleBeginOK
    <2>4. CASE ~(StartBegin(r) \/ StopBegin(r) \/ DeleteBegin(r))
      <3>1. req[r].pc # "idle" /\ StepOK(r)
        BY <1>3, <2>4, StartCreateOK, StartRestoreOK, StartStartOK, StopKillOK,
           DeleteRuntimeOK, DeleteRulesOK, DeleteReleaseOK, DeleteFilesOK
           DEF LifecycleStep
      <3> QED BY <3>1, StepPreserves
    <2> QED BY <2>1, <2>2, <2>3, <2>4
  <1>4. CASE (\E c \in Containers : WorkloadExit(c) \/ MonitorDown(c)) \/ Reboot
    BY <1>4, EnvironmentOK
  <1> QED BY <1>1, <1>2, <1>3, <1>4 DEF ContainerNext

\* Every step of every request, of the monitor and of a reboot keeps the
\* state of the stores and the host well-typed.
THEOREM ContainerTypeCorrect == ContainerSpec => []ContainerTypeOK
  <1>1. ContainerInv => ContainerTypeOK
    BY DEF ContainerInv, IpamInv, HostTypeOK, ContainerTypeOK
  <1> QED BY <1>1, ContainerInitInv, ContainerNextInv, PTL DEF ContainerSpec

\* However Create, its rollback and Delete are interleaved, cut short or
\* repeated, they use IPAM as module Ipam says: an id is given an address at
\* most once, and only calls of the store change what it holds.
THEOREM ContainerRefinesIpam == ContainerSpec => UsesIpamAsSpecified
  <1>1. ContainerInit => IpamInit
    BY DEF ContainerInit
  <1> QED BY <1>1, ContainerInitInv, ContainerNextInv, PTL
          DEF ContainerSpec, UsesIpamAsSpecified, IpamSpec

\* No two containers of the service ever hold the same address.
THEOREM ContainerNoSharedAddress == ContainerSpec => []NoSharedAddress
  BY ContainerRefinesIpam, IpamNoSharedAddress, PTL DEF UsesIpamAsSpecified

-----------------------------------------------------------------------------
(***************************************************************************)
(* What a container has at each step of the requests that work on it        *)
(***************************************************************************)
Creating(r) == req[r].pc \in CreatePcs
Removing(r) == req[r].pc \in {"del_rules", "del_release", "del_files"}
Making == {"store", "directory", "cgroup", "spec", "rule", "record", "runtime"}

\* The addresses a container holds
Addr(c) == {a \in Subnets \X Hosts : \E b \in Bridges : Holds(c, b, a[2]) /\ subnetOf[b] = a[1]}

\* IPAM has at most one allocation of a container: Release, which deletes the
\* first it finds, leaves none.
OneAddress ==
    \A b1, b2 \in Bridges, h1, h2 \in Hosts :
        HeldBy(b1, h1) = HeldBy(b2, h2) /\ HeldBy(b1, h1) # NoContainer => b1 = b2 /\ h1 = h2

\* One start, stop or delete of a container at a time
OneLifecycle ==
    \A q, r \in Reqs : req[q].pc \in LifecyclePcs /\ req[r].pc \in LifecyclePcs /\ req[q].c = req[r].c => q = r

\* A request that has returned works on nothing.
Resting == \A r \in Reqs : req[r].pc = "idle" => req[r] = Idle

-----------------------------------------------------------------------------
\* The inductive invariant is told container by container: what holds of
\* container c, and of the requests that work on it.

\* Nothing of it runs or may be started, in the store or in Droplet.
Gone(c) == rt[c] = "none" /\ ~Alive(c) /\ c \notin fifo
Unstarted(c) == Gone(c) /\ csm[c] \in {"none", "creating"}

\* A Create shares its container only with a Delete that finds nothing yet, and
\* holds the address until the rollback; a Delete that is past droplet delete,
\* and a Start, have their container for themselves.
HeldFor(r, c) ==
    /\ Creating(r) => /\ Unstarted(c)
                      /\ \A q \in Reqs \ {r} : req[q].c = c => req[q].pc = "del_runtime"
    /\ req[r].pc \in Making => HasAddress(c)
    /\ Removing(r) => Gone(c) /\ csm[c] = "none"
    /\ req[r].pc = "st_create" => ~Alive(c) /\ csm[c] \in {"created", "running", "stopped"}

HeldAt(c) ==
    "create" \notin met =>
        /\ ~HasAddress(c) => Unstarted(c)
        /\ Alive(c) => rt[c] \in {"created", "running"} /\ csm[c] # "stopped"
        /\ \A r \in Reqs : req[r].c = c => HeldFor(r, c)

-----------------------------------------------------------------------------
Owned(c) == \E r \in Reqs : req[r].c = c /\ (Creating(r) \/ Removing(r))

\* What a Create has made its flags say, for the rollback to undo; what a
\* Delete has undone.
KeptBy(r, c) ==
    /\ Creating(r) =>
         /\ req[r].pc \in Making \cup {"rb_release"} => "AllocateAddr" \in req[r].flags
         /\ req[r].pc \in {"allocate", "rb_csm", "rb_directory", "rb_cgroup", "rb_forward"} => ~HasAddress(c)
         /\ csm[c] # "none" => "CSMEntry" \in req[r].flags
         /\ req[r].pc \in {"directory", "cgroup", "spec", "rule", "record", "runtime"} => csm[c] # "none"
         /\ req[r].pc \in {"rb_directory", "rb_cgroup", "rb_forward"} => csm[c] = "none"
         /\ req[r].pc \in {"cgroup", "spec", "rule", "record", "runtime"} => c \in dirs
         /\ c \in cgroups => "CgroupEntry" \in req[r].flags
         /\ req[r].pc \in {"allocate", "rb_forward"} => c \notin cgroups
    /\ Removing(r) => c \notin cgroups /\ (req[r].pc = "del_files" => ~HasAddress(c))

KeptAt(c) ==
    met \cap {"create", "delete", "reboot"} = {} =>
        /\ ~Owned(c) => IF csm[c] = "none" THEN ("gateway" \notin met => ~HasAddress(c)) /\ c \notin cgroups /\ ~Alive(c)
                                           ELSE HasAddress(c) /\ c \in dirs
        /\ \A r \in Reqs : req[r].c = c => KeptBy(r, c)

-----------------------------------------------------------------------------
\* Forward f leads to address a.
Leads(f, a) == <<f, a[1], a[2]>> \in rules
Ruled(c, F) == \A f \in F, a \in Addr(c) : Leads(f, a)
Unruled(c) == \A f \in Forwards, a \in Addr(c) : ~Leads(f, a)
Recording(r, c, f) == req[r].pc = "record" /\ req[r].c = c /\ f \in req[r].rec
Restoring(c) == \E r \in Reqs : req[r].c = c /\ req[r].pc = "st_restore"

\* A Create has recorded the forwards it is done with, and their rules are
\* there; whoever is about to release the address has no rule left.
PublishedBy(r, c) ==
    /\ req[r].pc = "allocate" => req[r].todo = ports[c]
    /\ req[r].pc \in Making =>
            req[r].todo \subseteq ports[c] /\ ForwardsOf(c) = ports[c] \ req[r].todo /\ Ruled(c, ForwardsOf(c))
    /\ req[r].pc = "record" =>
            req[r].rec \subseteq req[r].todo /\ (\A f, g \in req[r].rec : f = g) /\ Ruled(c, req[r].rec)
    /\ req[r].pc = "runtime" => req[r].todo = {}
    /\ req[r].pc \in {"store", "directory", "cgroup", "spec", "rb_release", "del_release"} => Unruled(c)
    /\ req[r].pc = "st_restore" => init[c] # "running" /\ rt[c] # "none"

\* The rules that lead to an address of a container are those of forwards that
\* IPAM records for it, or of the one that Create is about to record.
PublishedAt(c) ==
    met \cap {"create", "forward"} = {} =>
        /\ \A f \in Forwards, a \in Addr(c) : Leads(f, a) => f \in ForwardsOf(c) \/ \E r \in Reqs : Recording(r, c, f)
        /\ ForwardsOf(c) \subseteq ports[c]
        /\ rt[c] # "none" => ForwardsOf(c) = ports[c]
        /\ csm[c] \in {"created", "running", "stopped"} => rt[c] # "none"
        /\ init[c] = "running" => Ruled(c, ports[c])
        /\ init[c] = "waiting" => Ruled(c, ports[c]) \/ Restoring(c)
        /\ \A r \in Reqs : req[r].c = c => PublishedBy(r, c)

\* Every rule leads to an address that a container holds.
RulesHeld ==
    met \cap {"create", "forward"} = {} =>
        \A f \in Forwards, a \in Subnets \X Hosts : Leads(f, a) => \E c \in Containers : a \in Addr(c)

SafetyInv ==
    /\ ContainerInv /\ OneAddress /\ OneLifecycle /\ Resting /\ RulesHeld
    /\ \A c \in Containers : HeldAt(c) /\ KeptAt(c) /\ PublishedAt(c)

-----------------------------------------------------------------------------
(***************************************************************************)
(* What the calls of the IPAM store do to addresses and forwards            *)
(***************************************************************************)
LEMMA AddrIs ==
    ASSUME IpamTypeOK, NEW c
    PROVE  /\ HasAddress(c) <=> Addr(c) # {}
           /\ \A F : RulesOf(c, F) = {x \in F \X Subnets \X Hosts : <<x[2], x[3]>> \in Addr(c)}
<1>1. HasAddress(c) <=> Addr(c) # {}
  <2>1. ASSUME HasAddress(c) PROVE Addr(c) # {}
    <3>1. PICK b \in Bridges, h \in Hosts : Holds(c, b, h)
      BY <2>1 DEF HasAddress
    <3>2. subnetOf[b] \in Subnets
      BY <3>1 DEF IpamTypeOK, Holds, Configured
    <3>3. <<subnetOf[b], h>> \in Addr(c)
      BY <3>1, <3>2 DEF Addr
    <3>4. QED
      BY <3>3
  <2>2. ASSUME Addr(c) # {} PROVE HasAddress(c)
    BY <2>2 DEF Addr, HasAddress
  <2>3. QED
    BY <2>1, <2>2
<1>2. ASSUME NEW F, NEW x \in F \X Subnets \X Hosts
      PROVE  (\E b \in Bridges : Holds(c, b, x[3]) /\ subnetOf[b] = x[2]) <=> <<x[2], x[3]>> \in Addr(c)
  BY DEF Addr
<1>3. QED
  BY <1>1, <1>2 DEF RulesOf

\* No two containers hold the same address.
LEMMA AddrApart ==
    ASSUME IpamInv, NEW c \in Containers, NEW d \in Containers, c # d
    PROVE  Addr(c) \cap Addr(d) = {}
<1>1. SUFFICES ASSUME NEW a \in Subnets \X Hosts, a \in Addr(c), a \in Addr(d) PROVE FALSE
  BY DEF Addr
<1>2. PICK b1 \in Bridges : Holds(c, b1, a[2]) /\ subnetOf[b1] = a[1]
  BY <1>1 DEF Addr
<1>3. PICK b2 \in Bridges : Holds(d, b2, a[2]) /\ subnetOf[b2] = a[1]
  BY <1>1 DEF Addr
<1>4. b1 = b2
  BY <1>2, <1>3 DEF IpamInv, SubnetsDisjoint, Holds
<1>5. QED
  BY <1>2, <1>3, <1>4 DEF Holds

Same(d) == Addr(d)' = Addr(d) /\ ForwardsOf(d)' = ForwardsOf(d) /\ (HasAddress(d)' <=> HasAddress(d))

\* A change of one allocation that is free or held by c, to one that is free
\* or held by c, concerns nobody else.
LEMMA OthersKeep ==
    ASSUME IpamTypeOK, NEW c \in Containers, NEW b \in Bridges, NEW h \in Hosts, NEW a \in Allocation,
           HeldBy(b, h) \in {c, NoContainer}, a.cid \in {c, NoContainer},
           alloc' = [alloc EXCEPT ![b][h] = a], subnetOf' = subnetOf
    PROVE  \A d \in Containers \ {c} : Same(d)
<1> SUFFICES ASSUME NEW d \in Containers, d # c PROVE Same(d)
  OBVIOUS
<1>1. \A b2 \in Bridges, h2 \in Hosts :
          (b2 = b /\ h2 = h /\ alloc'[b2][h2] = a) \/ alloc'[b2][h2] = alloc[b2][h2]
  BY DEF IpamTypeOK
<1>2. \A b2 \in Bridges, h2 \in Hosts :
          (Holds(d, b2, h2)' <=> Holds(d, b2, h2)) /\ (Holds(d, b2, h2) => alloc'[b2][h2] = alloc[b2][h2])
  BY <1>1, IpamAssumption DEF Holds, HeldBy, Configured
<1>3. HasAddress(d)' <=> HasAddress(d)
  BY <1>2 DEF HasAddress
<1>4. ForwardsOf(d)' = ForwardsOf(d)
  BY <1>2 DEF ForwardsOf
<1>5. Addr(d)' = Addr(d)
  BY <1>2 DEF Addr
<1>6. QED
  BY <1>3, <1>4, <1>5 DEF Same

\* Allocate gives a container without an address one that nobody holds.
LEMMA AllocateEffect ==
    ASSUME IpamInv, OneAddress, NEW c \in Containers, NEW b \in Bridges, ~HasAddress(c), Allocate(c, b)
    PROVE  /\ HasAddress(c)' /\ ForwardsOf(c)' = {} /\ OneAddress'
           /\ \A d \in Containers : Addr(c)' \cap Addr(d) = {}
           /\ \A d \in Containers \ {c} : Same(d)
<1> USE DEF IpamInv
<1> DEFINE a == [cid |-> c, fwds |-> {}]
<1>1. PICK h \in Hosts : h \in FreeHosts(b) /\ alloc' = [alloc EXCEPT ![b][h] = a]
  BY DEF Allocate, IsLowest
<1>2. a \in Allocation /\ HeldBy(b, h) = NoContainer /\ subnetOf' = subnetOf /\ Configured(b)
  BY <1>1 DEF Allocation, FreeHosts, Allocate
<1>3. \A b2 \in Bridges, h2 \in Hosts :
          alloc'[b2][h2] = IF b2 = b /\ h2 = h THEN a ELSE alloc[b2][h2]
  BY <1>1 DEF IpamTypeOK
<1>4. \A b2 \in Bridges, h2 \in Hosts : Holds(c, b2, h2)' <=> b2 = b /\ h2 = h
  BY <1>2, <1>3 DEF HasAddress, Holds, HeldBy, Configured
<1>5. HasAddress(c)'
  BY <1>4 DEF HasAddress
<1>6. ForwardsOf(c)' = {}
  BY <1>3, <1>4 DEF ForwardsOf
<1>7. ASSUME NEW d \in Containers, NEW z \in Subnets \X Hosts, z \in Addr(c)', z \in Addr(d) PROVE FALSE
  <2>1. z[2] = h /\ subnetOf[b] = z[1]
    BY <1>2, <1>4, <1>7 DEF Addr
  <2>2. PICK b2 \in Bridges : Holds(d, b2, h) /\ subnetOf[b2] = z[1]
    BY <1>7, <2>1 DEF Addr
  <2>3. b2 = b
    BY <1>2, <2>1, <2>2 DEF SubnetsDisjoint
  <2>4. QED
    BY <1>2, <2>2, <2>3, IpamAssumption DEF Holds
<1>8. \A d \in Containers : Addr(c)' \cap Addr(d) = {}
  BY <1>7 DEF Addr
<1>9. \A d \in Containers \ {c} : Same(d)
  BY <1>1, <1>2, OthersKeep
<1>10. OneAddress'
  <2>1. ASSUME NEW b1 \in Bridges, NEW h1 \in Hosts, HeldBy(b1, h1) = c PROVE FALSE
    BY <2>1, IpamAssumption DEF HasAddress, Holds, OrphanFree, Free, HeldBy
  <2>2. QED
    BY <1>3, <2>1, IpamAssumption DEF OneAddress, HeldBy
<1>11. QED
  BY <1>5, <1>6, <1>8, <1>9, <1>10

\* Release leaves a container without an address.
LEMMA ReleaseEffect ==
    ASSUME IpamInv, OneAddress, NEW c \in Containers, Release(c)
    PROVE  /\ ~HasAddress(c)' /\ ForwardsOf(c)' = {} /\ Addr(c)' = {} /\ OneAddress'
           /\ \A d \in Containers \ {c} : Same(d)
<1> USE DEF IpamInv
<1>1. CASE ~HasAddress(c)
  <2>1. alloc' = alloc /\ subnetOf' = subnetOf
    BY <1>1 DEF Release, HasAddress
  <2>2. QED
    BY <1>1, <2>1 DEF HasAddress, Holds, HeldBy, Configured, ForwardsOf, Addr, OneAddress, Same
<1>2. CASE HasAddress(c)
  <2>1. PICK b \in Bridges, h \in Hosts : Holds(c, b, h) /\ alloc' = [alloc EXCEPT ![b][h] = Free]
    BY <1>2 DEF Release
  <2>2. Free \in Allocation /\ Free.cid = NoContainer /\ HeldBy(b, h) = c /\ subnetOf' = subnetOf
    BY <2>1 DEF Free, Allocation, Holds, Release
  <2>3. \A b2 \in Bridges, h2 \in Hosts :
            alloc'[b2][h2] = IF b2 = b /\ h2 = h THEN Free ELSE alloc[b2][h2]
    BY <2>1 DEF IpamTypeOK
  <2>4. \A b2 \in Bridges, h2 \in Hosts : ~Holds(c, b2, h2)'
    BY <2>2, <2>3, IpamAssumption DEF Holds, HeldBy, OneAddress
  <2>5. OneAddress'
    BY <2>2, <2>3 DEF OneAddress, HeldBy
  <2>6. \A d \in Containers \ {c} : Same(d)
    BY <2>1, <2>2, OthersKeep
  <2>7. QED
    BY <2>4, <2>5, <2>6 DEF HasAddress, ForwardsOf, Addr
<1>3. QED
  BY <1>1, <1>2

\* SetForwardInfo adds one forward and moves no address.
LEMMA ForwardEffect ==
    ASSUME IpamInv, OneAddress, NEW c \in Containers, NEW f \in Forwards, SetForwardInfo(c, f)
    PROVE  /\ ForwardsOf(c)' = ForwardsOf(c) \cup {f} /\ OneAddress' /\ Addr(c)' = Addr(c)
           /\ HasAddress(c) /\ HasAddress(c)'
           /\ \A d \in Containers \ {c} : Same(d)
<1> USE DEF IpamInv
<1>1. PICK b \in Bridges, h \in Hosts :
          Holds(c, b, h) /\ alloc' = [alloc EXCEPT ![b][h] = [cid |-> c, fwds |-> alloc[b][h].fwds \cup {f}]]
  BY DEF SetForwardInfo
<1> DEFINE a == [cid |-> c, fwds |-> alloc[b][h].fwds \cup {f}]
<1>2. a \in Allocation /\ HeldBy(b, h) = c /\ subnetOf' = subnetOf
  BY <1>1 DEF Allocation, IpamTypeOK, Holds, SetForwardInfo
<1>3. \A b2 \in Bridges, h2 \in Hosts :
          alloc'[b2][h2] = IF b2 = b /\ h2 = h THEN a ELSE alloc[b2][h2]
  BY <1>1 DEF IpamTypeOK
<1>4. \A b2 \in Bridges, h2 \in Hosts : Holds(c, b2, h2)' <=> Holds(c, b2, h2)
  BY <1>2, <1>3 DEF Holds, HeldBy, Configured
<1>5. \A b2 \in Bridges, h2 \in Hosts : Holds(c, b2, h2) => b2 = b /\ h2 = h
  BY <1>1, IpamAssumption DEF Holds, OneAddress
<1>6. ForwardsOf(c)' = ForwardsOf(c) \cup {f}
  BY <1>1, <1>3, <1>4, <1>5 DEF ForwardsOf
<1>7. OneAddress'
  BY <1>2, <1>3 DEF OneAddress, HeldBy
<1>8. Addr(c)' = Addr(c) /\ HasAddress(c) /\ HasAddress(c)'
  BY <1>1, <1>2, <1>4 DEF Addr, HasAddress
<1>9. \A d \in Containers \ {c} : Same(d)
  BY <1>1, <1>2, OthersKeep
<1>10. QED
  BY <1>6, <1>7, <1>8, <1>9

\* Without a call of the store nothing of this changes.
LEMMA NoCallEffect ==
    ASSUME UNCHANGED ipamVars
    PROVE  (\A d : Same(d)) /\ (OneAddress => OneAddress')
BY DEF ipamVars, Same, HasAddress, Holds, HeldBy, Configured, ForwardsOf, Addr, OneAddress

\* What rules the rules of a container are.
LEMMA RulesOfLead ==
    ASSUME IpamTypeOK, NEW c, NEW F \in SUBSET Forwards, NEW f \in Forwards, NEW a \in Subnets \X Hosts
    PROVE  <<f, a[1], a[2]>> \in RulesOf(c, F) <=> f \in F /\ a \in Addr(c)
<1>1. a = <<a[1], a[2]>> /\ a[1] \in Subnets /\ a[2] \in Hosts
  OBVIOUS
<1>2. RulesOf(c, F) = {x \in F \X Subnets \X Hosts : <<x[2], x[3]>> \in Addr(c)}
  BY AddrIs
<1>3. QED
  BY <1>1, <1>2

\* Where the forwards lead after a container's rules are added.
LEMMA AddRules ==
    ASSUME IpamTypeOK, NEW c, NEW F \in SUBSET Forwards, rules' = rules \cup RulesOf(c, F)
    PROVE  \A f \in Forwards, a \in Subnets \X Hosts : Leads(f, a)' <=> Leads(f, a) \/ (f \in F /\ a \in Addr(c))
BY RulesOfLead DEF Leads

\* Where the forwards lead after a container's rules are taken out.
LEMMA DropRules ==
    ASSUME IpamTypeOK, NEW c, NEW F \in SUBSET Forwards, rules' = rules \ RulesOf(c, F)
    PROVE  \A f \in Forwards, a \in Subnets \X Hosts : Leads(f, a)' <=> Leads(f, a) /\ ~(f \in F /\ a \in Addr(c))
BY RulesOfLead DEF Leads

-----------------------------------------------------------------------------
(***************************************************************************)
(* A step concerns one container                                            *)
(***************************************************************************)
LocalTo(c0) ==
    /\ \A c \in Containers \ {c0} :
           /\ csm'[c] = csm[c] /\ rt'[c] = rt[c] /\ init'[c] = init[c] /\ ports'[c] = ports[c]
           /\ (c \in fifo' <=> c \in fifo) /\ (c \in dirs' <=> c \in dirs) /\ (c \in cgroups' <=> c \in cgroups)
           /\ Same(c)
    /\ \A q \in Reqs : req'[q] = req[q] \/ (req[q].c \in {c0, NoContainer} /\ req'[q].c \in {c0, NoContainer})
    /\ \A f \in Forwards, a \in Subnets \X Hosts : a \notin Addr(c0) => (Leads(f, a)' <=> Leads(f, a))
    /\ met \subseteq met'

\* No rule is left for an address the step gives back.
RulesLeft(c0) ==
    met' \cap {"create", "forward"} = {} =>
        \A f \in Forwards, a \in Addr(c0) : Leads(f, a)' => a \in Addr(c0)'

SafeAt(c) == HeldAt(c) /\ KeptAt(c) /\ PublishedAt(c)
SafeStep(c0) == LocalTo(c0) /\ RulesLeft(c0) /\ SafeAt(c0)' /\ OneAddress' /\ OneLifecycle' /\ Resting'

\* A step that keeps to one container leaves the others safe.
LEMMA LocalKeeps ==
    ASSUME SafetyInv, ContainerInv', NEW c0 \in Containers, LocalTo(c0), NEW c \in Containers, c # c0
    PROVE  SafeAt(c)'
<1>1. \A q \in Reqs : (req'[q].c = c <=> req[q].c = c) /\ (req[q].c = c => req'[q] = req[q])
  BY IpamAssumption DEF LocalTo
<1>2. /\ csm'[c] = csm[c] /\ rt'[c] = rt[c] /\ init'[c] = init[c] /\ ports'[c] = ports[c]
      /\ (c \in fifo' <=> c \in fifo) /\ (c \in dirs' <=> c \in dirs) /\ (c \in cgroups' <=> c \in cgroups)
      /\ Same(c) /\ met \subseteq met'
  BY DEF LocalTo
<1>3. HeldAt(c) /\ KeptAt(c) /\ PublishedAt(c)
  BY DEF SafetyInv
<1>4. HeldAt(c)'
  BY <1>1, <1>2, <1>3 DEF HeldAt, HeldFor, Creating, Removing, Unstarted, Gone, Alive, Same
<1>5. KeptAt(c)'
  BY <1>1, <1>2, <1>3 DEF KeptAt, KeptBy, Owned, Creating, Removing, Alive, Same
<1>6. \A f \in Forwards, a \in Addr(c) : Leads(f, a)' <=> Leads(f, a)
  <2>1. Addr(c) \subseteq Subnets \X Hosts /\ \A a \in Addr(c) : a \notin Addr(c0)
    BY AddrApart DEF Addr, SafetyInv, ContainerInv
  <2>2. QED
    BY <2>1 DEF LocalTo
<1>7. PublishedAt(c)'
  <2>1. ports[c] \subseteq Forwards /\ ForwardsOf(c) \subseteq Forwards /\ \A r \in Reqs : req[r].rec \subseteq Forwards
    BY DEF SafetyInv, ContainerInv, HostTypeOK, Request, ForwardsOf
  <2>2. \A F \in SUBSET Forwards : Ruled(c, F)' <=> Ruled(c, F)
    BY <1>2, <1>6 DEF Ruled, Same
  <2>3. Unruled(c)' <=> Unruled(c)
    BY <1>2, <1>6 DEF Unruled, Same
  <2>4. \A r \in Reqs : req[r].c = c => (PublishedBy(r, c) => PublishedBy(r, c)')
    BY <1>1, <1>2, <2>1, <2>2, <2>3 DEF PublishedBy, Same
  <2>5. Restoring(c) => Restoring(c)'
    BY <1>1 DEF Restoring
  <2>6. \A f \in Forwards, r \in Reqs : Recording(r, c, f) => Recording(r, c, f)'
    BY <1>1 DEF Recording
  <2>7. QED
    BY <1>1, <1>2, <1>3, <1>6, <2>1, <2>2, <2>4, <2>5, <2>6 DEF PublishedAt, Same
<1>8. QED
  BY <1>4, <1>5, <1>7 DEF SafeAt

-----------------------------------------------------------------------------
(***************************************************************************)
(* A step of one request.  Whoever else works on its container is a Delete  *)
(* at its first step, of which the invariant asks nothing; so it is enough   *)
(* to follow the container and that request.                                *)
(***************************************************************************)
HeldOne(r, c) ==
    /\ ~HasAddress(c) => Unstarted(c)
    /\ Alive(c) => rt[c] \in {"created", "running"} /\ csm[c] # "stopped"
    /\ req[r].c = c => HeldFor(r, c)

KeptOne(r, c) ==
    /\ ~(req[r].c = c /\ (Creating(r) \/ Removing(r))) =>
            IF csm[c] = "none" THEN ("gateway" \notin met => ~HasAddress(c)) /\ c \notin cgroups /\ ~Alive(c)
                               ELSE HasAddress(c) /\ c \in dirs
    /\ req[r].c = c => KeptBy(r, c)

PublishedOne(r, c) ==
    /\ \A f \in Forwards, a \in Addr(c) : Leads(f, a) => f \in ForwardsOf(c) \/ Recording(r, c, f)
    /\ ForwardsOf(c) \subseteq ports[c]
    /\ rt[c] # "none" => ForwardsOf(c) = ports[c]
    /\ csm[c] \in {"created", "running", "stopped"} => rt[c] # "none"
    /\ init[c] = "running" => Ruled(c, ports[c])
    /\ init[c] = "waiting" => Ruled(c, ports[c]) \/ (req[r].c = c /\ req[r].pc = "st_restore")
    /\ req[r].c = c => PublishedBy(r, c)

SafeOne(r, c) ==
    /\ "create" \notin met => HeldOne(r, c)
    /\ met \cap {"create", "delete", "reboot"} = {} => KeptOne(r, c)
    /\ met \cap {"create", "forward"} = {} => PublishedOne(r, c)

\* Only r moves: it returns, or goes on with the container it works on.
Moves(r) ==
    /\ \A q \in Reqs \ {r} : req'[q] = req[q]
    /\ \/ req'[r] = Idle
       \/ /\ req'[r].c = req[r].c /\ req'[r].pc # "idle"
          /\ req'[r].pc \in LifecyclePcs => req[r].pc \in LifecyclePcs

\* Beside a call that works on a container, the others there are only deletes in the runtime.
LEMMA OthersPassive ==
    ASSUME SafetyInv, NEW r \in Reqs, NEW c \in Containers, c = req[r].c, req[r].pc \notin {"idle", "del_runtime"},
           "create" \notin met
    PROVE  \A q \in Reqs \ {r} : req[q].c = c => req[q].pc = "del_runtime"
<1> SUFFICES ASSUME NEW q \in Reqs, q # r, req[q].c = c PROVE req[q].pc = "del_runtime"
  OBVIOUS
<1>1. HeldFor(r, c) /\ HeldFor(q, c)
  BY DEF SafetyInv, HeldAt
<1>2. req[q].pc # "idle"
  BY IpamAssumption DEF SafetyInv, Resting, Idle
<1>3. req[q].pc \in CreatePcs \cup LifecyclePcs /\ req[r].pc \in CreatePcs \cup LifecyclePcs
  BY <1>2 DEF SafetyInv, ContainerInv, HostTypeOK, Request
<1>4. CASE req[r].pc \in CreatePcs
  BY <1>1, <1>4 DEF HeldFor, Creating
<1>5. CASE req[r].pc \in LifecyclePcs
  <2>1. req[q].pc \notin LifecyclePcs
    BY <1>5 DEF SafetyInv, OneLifecycle
  <2>2. Creating(q)
    BY <1>3, <2>1 DEF Creating
  <2>3. QED
    BY <1>1, <2>2 DEF HeldFor
<1>6. QED
  BY <1>3, <1>4, <1>5

\* What the invariant says of the container a call works on.
LEMMA OneNow ==
    ASSUME SafetyInv, NEW r \in Reqs, NEW c \in Containers, c = req[r].c, req[r].pc \notin {"idle", "del_runtime"}
    PROVE  SafeOne(r, c)
<1>1. HeldAt(c) /\ KeptAt(c) /\ PublishedAt(c)
  BY DEF SafetyInv
<1>2. ASSUME "create" \notin met PROVE HeldOne(r, c)
  BY <1>1, <1>2 DEF HeldAt, HeldOne
<1>3. ASSUME met \cap {"create", "delete", "reboot"} = {} PROVE KeptOne(r, c)
  <2>1. Owned(c) <=> Creating(r) \/ Removing(r)
    BY <1>3, OthersPassive DEF Owned, Creating, Removing, CreatePcs
  <2>2. QED
    BY <1>1, <1>3, <2>1 DEF KeptAt, KeptOne
<1>4. ASSUME met \cap {"create", "forward"} = {} PROVE PublishedOne(r, c)
  <2>1. \A q \in Reqs, f \in Forwards : Recording(q, c, f) => q = r
    BY <1>4, OthersPassive DEF Recording
  <2>2. Restoring(c) => req[r].pc = "st_restore"
    BY <1>4, OthersPassive DEF Restoring
  <2>3. QED
    BY <1>1, <1>4, <2>1, <2>2 DEF PublishedAt, PublishedOne
<1>5. QED
  BY <1>2, <1>3, <1>4 DEF SafeOne

\* A step that keeps to its container is safe when it is safe there.
LEMMA OneStep ==
    ASSUME SafetyInv, NEW r \in Reqs, NEW c \in Containers, c = req[r].c, req[r].pc \notin {"idle", "del_runtime"},
           LocalTo(c), RulesLeft(c), OneAddress', Moves(r), SafeOne(r, c)'
    PROVE  SafeStep(c)
<1>1. OneLifecycle'
  <2>1. SUFFICES ASSUME NEW p \in Reqs, NEW q \in Reqs, req'[p].pc \in LifecyclePcs, req'[q].pc \in LifecyclePcs,
                        req'[p].c = req'[q].c
                 PROVE  p = q
    BY DEF OneLifecycle
  <2>2. \A p1 \in Reqs : req'[p1].pc \in LifecyclePcs => req[p1].pc \in LifecyclePcs /\ req[p1].c = req'[p1].c
    BY DEF Moves, Idle, LifecyclePcs
  <2>3. QED
    BY <2>1, <2>2 DEF SafetyInv, OneLifecycle
<1>2. Resting'
  BY DEF Moves, SafetyInv, Resting
<1>3. met \subseteq met'
  BY DEF LocalTo
<1>4. ASSUME "create" \notin met'
      PROVE  \A q \in Reqs \ {r} : req'[q].c = c => req'[q].pc = "del_runtime"
  BY <1>3, <1>4, OthersPassive DEF Moves
<1>5. ASSUME "create" \notin met', NEW q \in Reqs, q # r, req'[q].c = c
      PROVE  HeldFor(q, c)' /\ KeptBy(q, c)' /\ PublishedBy(q, c)' /\ ~Creating(q)' /\ ~Removing(q)'
  BY <1>4, <1>5 DEF HeldFor, KeptBy, PublishedBy, Creating, Removing, CreatePcs, Making
<1>6. HeldAt(c)'
  BY <1>5 DEF HeldAt, HeldOne, SafeOne
<1>7. KeptAt(c)'
  <2>1. SUFFICES ASSUME met' \cap {"create", "delete", "reboot"} = {} 
                 PROVE  /\ ~Owned(c)' => (IF csm[c] = "none" THEN ("gateway" \notin met => ~HasAddress(c)) /\ c \notin cgroups /\ ~Alive(c)
                                           ELSE HasAddress(c) /\ c \in dirs)'
                        /\ \A q \in Reqs : req'[q].c = c => KeptBy(q, c)'
    BY DEF KeptAt
  <2>2. KeptOne(r, c)'
    BY <2>1 DEF SafeOne
  <2>3. Owned(c)' <=> req'[r].c = c /\ (Creating(r)' \/ Removing(r)')
    BY <2>1, <1>5 DEF Owned
  <2>4. QED
    BY <1>5, <2>1, <2>2, <2>3 DEF KeptOne
<1>8. PublishedAt(c)'
  <2>1. CASE met' \cap {"create", "forward"} = {}
    <3>1. \A q \in Reqs \ {r} : req'[q].c = c => PublishedBy(q, c)'
      BY <1>5, <2>1
    <3>2. PublishedOne(r, c)'
      BY <2>1 DEF SafeOne
    <3>3. (req'[r].c = c /\ req'[r].pc = "st_restore") => Restoring(c)'
      BY DEF Restoring
    <3>4. QED
      BY <3>1, <3>2, <3>3 DEF PublishedAt, PublishedOne
  <2>2. QED
    BY <2>1 DEF PublishedAt
<1>9. QED
  BY <1>1, <1>2, <1>6, <1>7, <1>8 DEF SafeStep, SafeAt

\* Steps that neither call IPAM nor touch iptables
LEMMA Quiet ==
    ASSUME UNCHANGED ipamVars, rules' = rules, NEW c \in Containers
    PROVE  /\ (\A d : Same(d)) /\ (OneAddress => OneAddress') /\ RulesLeft(c)
           /\ (HasAddress(c)' <=> HasAddress(c)) /\ ForwardsOf(c)' = ForwardsOf(c) /\ Addr(c)' = Addr(c)
           /\ (\A F : Ruled(c, F)' <=> Ruled(c, F)) /\ (Unruled(c)' <=> Unruled(c))
           /\ \A f, a : Leads(f, a)' <=> Leads(f, a)
<1>1. (\A d : Same(d)) /\ (OneAddress => OneAddress')
  BY NoCallEffect
<1>2. Same(c)
  BY <1>1
<1>3. \A f, a : Leads(f, a)' <=> Leads(f, a)
  BY DEF Leads
<1>4. QED
  BY <1>1, <1>2, <1>3 DEF Same, Ruled, Unruled, RulesLeft

\* Create, step 6.
LEMMA CreateStoreSafe ==
    ASSUME SafetyInv, NEW r \in Reqs, CreateStore(r)
    PROVE  \E c \in Containers : SafeStep(c)
<1>1. PICK c \in Containers : c = req[r].c
  BY DEF CreateStore, At, SafetyInv, ContainerInv, WorksOnContainer
<1>2. SafeOne(r, c)
  BY <1>1, OneNow DEF CreateStore, At
<1>3. UNCHANGED ipamVars /\ rules' = rules
  BY DEF CreateStore
<1>4. LocalTo(c)
  BY <1>1, <1>3, Quiet DEF CreateStore, GotoFlag, Goto, Fail, NoFault, storeVars, hostVars, runtimeVars, LocalTo, SafetyInv, ContainerInv, HostTypeOK, Request, Idle
<1>5. Moves(r)
  BY <1>1 DEF CreateStore, GotoFlag, Goto, Fail, NoFault, storeVars, hostVars, runtimeVars, At, Moves, SafetyInv, ContainerInv, HostTypeOK, Request, LifecyclePcs
<1>6. /\ rt'[c] = rt[c] /\ init'[c] = init[c] /\ ports'[c] = ports[c] /\ fifo' = fifo /\ dirs' = dirs /\ cgroups' = cgroups
      /\ req[r].pc = "store" /\ met \subseteq met'
      /\ req'[r].c = c /\ req'[r].todo = req[r].todo
      /\ \/ csm'[c] = "creating" /\ req'[r].pc = "directory" /\ req'[r].flags = req[r].flags \cup {"CSMEntry"}
         \/ csm'[c] = csm[c] /\ req'[r].pc = "rb_release" /\ req'[r].flags = req[r].flags
  BY <1>1 DEF CreateStore, GotoFlag, Goto, Fail, NoFault, storeVars, hostVars, runtimeVars, At, SafetyInv, ContainerInv, HostTypeOK, Request
<1>7. ASSUME "create" \notin met', HeldOne(r, c) PROVE HeldOne(r, c)'
  BY <1>1, <1>3, <1>5, <1>6, <1>7, Quiet, IpamAssumption
     DEF Moves, HeldOne, HeldFor, Creating, Removing, Unstarted, Gone, Alive, Making, CreatePcs, Idle
<1>8. ASSUME "create" \notin met', HeldOne(r, c), KeptOne(r, c) PROVE KeptOne(r, c)'
  BY <1>1, <1>3, <1>6, <1>8, Quiet, IpamAssumption
     DEF HeldOne, HeldFor, KeptOne, KeptBy, Creating, Removing, Unstarted, Gone, Alive, Making, CreatePcs, Idle
<1>9. ASSUME "create" \notin met', HeldOne(r, c), PublishedOne(r, c) PROVE PublishedOne(r, c)'
  BY <1>1, <1>3, <1>6, <1>9, Quiet, IpamAssumption
     DEF HeldOne, HeldFor, Unstarted, Gone, Alive, Creating, CreatePcs, PublishedOne, PublishedBy, Recording, Making, Idle
<1>10. SafeOne(r, c)'
  BY <1>2, <1>6, <1>7, <1>8, <1>9 DEF SafeOne
<1>11. QED
  BY <1>1, <1>3, <1>4, <1>5, <1>10, Quiet, OneStep DEF CreateStore, At, SafetyInv

\* Create, steps 7 and 8.
LEMMA CreateDirectorySafe ==
    ASSUME SafetyInv, NEW r \in Reqs, CreateDirectory(r)
    PROVE  \E c \in Containers : SafeStep(c)
<1>1. PICK c \in Containers : c = req[r].c
  BY DEF CreateDirectory, At, SafetyInv, ContainerInv, WorksOnContainer
<1>2. SafeOne(r, c)
  BY <1>1, OneNow DEF CreateDirectory, At
<1>3. UNCHANGED ipamVars /\ rules' = rules
  BY DEF CreateDirectory
<1>4. LocalTo(c)
  BY <1>1, <1>3, Quiet DEF CreateDirectory, GotoFlag, Goto, Fail, NoFault, storeVars, hostVars, runtimeVars, LocalTo, SafetyInv, ContainerInv, HostTypeOK, Request, Idle
<1>5. Moves(r)
  BY <1>1 DEF CreateDirectory, GotoFlag, Goto, Fail, NoFault, storeVars, hostVars, runtimeVars, At, Moves, SafetyInv, ContainerInv, HostTypeOK, Request, LifecyclePcs
<1>6. /\ csm'[c] = csm[c] /\ rt'[c] = rt[c] /\ init'[c] = init[c] /\ ports'[c] = ports[c] /\ fifo' = fifo /\ cgroups' = cgroups
      /\ req[r].pc = "directory" /\ met \subseteq met'
      /\ req'[r].c = c /\ req'[r].todo = req[r].todo
      /\ \/ c \in dirs' /\ req'[r].pc = "cgroup"
         \/ req'[r].pc = "rb_release"
      /\ req[r].flags \subseteq req'[r].flags
  BY <1>1 DEF CreateDirectory, GotoFlag, Goto, Fail, NoFault, storeVars, hostVars, runtimeVars, At, SafetyInv, ContainerInv, HostTypeOK, Request
<1>7. ASSUME "create" \notin met', HeldOne(r, c) PROVE HeldOne(r, c)'
  BY <1>1, <1>3, <1>5, <1>6, <1>7, Quiet, IpamAssumption
     DEF Moves, HeldOne, HeldFor, Creating, Removing, Unstarted, Gone, Alive, Making, CreatePcs, Idle
<1>8. ASSUME "create" \notin met', HeldOne(r, c), KeptOne(r, c) PROVE KeptOne(r, c)'
  BY <1>1, <1>3, <1>6, <1>8, Quiet, IpamAssumption
     DEF HeldOne, HeldFor, KeptOne, KeptBy, Creating, Removing, Unstarted, Gone, Alive, Making, CreatePcs, Idle
<1>9. ASSUME "create" \notin met', HeldOne(r, c), PublishedOne(r, c) PROVE PublishedOne(r, c)'
  BY <1>1, <1>3, <1>6, <1>9, Quiet, IpamAssumption
     DEF HeldOne, HeldFor, Unstarted, Gone, Alive, Creating, CreatePcs, PublishedOne, PublishedBy, Recording, Making, Idle
<1>10. SafeOne(r, c)'
  BY <1>2, <1>6, <1>7, <1>8, <1>9 DEF SafeOne
<1>11. QED
  BY <1>1, <1>3, <1>4, <1>5, <1>10, Quiet, OneStep DEF CreateDirectory, At, SafetyInv

\* Create, step 9.
LEMMA CreateCgroupSafe ==
    ASSUME SafetyInv, NEW r \in Reqs, CreateCgroup(r)
    PROVE  \E c \in Containers : SafeStep(c)
<1>1. PICK c \in Containers : c = req[r].c
  BY DEF CreateCgroup, At, SafetyInv, ContainerInv, WorksOnContainer
<1>2. SafeOne(r, c)
  BY <1>1, OneNow DEF CreateCgroup, At
<1>3. UNCHANGED ipamVars /\ rules' = rules
  BY DEF CreateCgroup
<1>4. LocalTo(c)
  BY <1>1, <1>3, Quiet DEF CreateCgroup, GotoFlag, Goto, Fail, NoFault, storeVars, hostVars, runtimeVars, LocalTo, SafetyInv, ContainerInv, HostTypeOK, Request, Idle
<1>5. Moves(r)
  BY <1>1 DEF CreateCgroup, GotoFlag, Goto, Fail, NoFault, storeVars, hostVars, runtimeVars, At, Moves, SafetyInv, ContainerInv, HostTypeOK, Request, LifecyclePcs
<1>6. /\ csm'[c] = csm[c] /\ rt'[c] = rt[c] /\ init'[c] = init[c] /\ ports'[c] = ports[c] /\ fifo' = fifo /\ dirs' = dirs
      /\ req[r].pc = "cgroup" /\ met \subseteq met'
      /\ req'[r].c = c /\ req'[r].todo = req[r].todo
      /\ \/ c \in cgroups' /\ req'[r].pc = "spec" /\ req'[r].flags = req[r].flags \cup {"CgroupEntry"}
         \/ cgroups' = cgroups /\ req'[r].pc = "rb_release" /\ req'[r].flags = req[r].flags
  BY <1>1 DEF CreateCgroup, GotoFlag, Goto, Fail, NoFault, storeVars, hostVars, runtimeVars, At, SafetyInv, ContainerInv, HostTypeOK, Request
<1>7. ASSUME "create" \notin met', HeldOne(r, c) PROVE HeldOne(r, c)'
  BY <1>1, <1>3, <1>5, <1>6, <1>7, Quiet, IpamAssumption
     DEF Moves, HeldOne, HeldFor, Creating, Removing, Unstarted, Gone, Alive, Making, CreatePcs, Idle
<1>8. ASSUME "create" \notin met', HeldOne(r, c), KeptOne(r, c) PROVE KeptOne(r, c)'
  BY <1>1, <1>3, <1>6, <1>8, Quiet, IpamAssumption
     DEF HeldOne, HeldFor, KeptOne, KeptBy, Creating, Removing, Unstarted, Gone, Alive, Making, CreatePcs, Idle
<1>9. ASSUME "create" \notin met', HeldOne(r, c), PublishedOne(r, c) PROVE PublishedOne(r, c)'
  BY <1>1, <1>3, <1>6, <1>9, Quiet, IpamAssumption
     DEF HeldOne, HeldFor, Unstarted, Gone, Alive, Creating, CreatePcs, PublishedOne, PublishedBy, Recording, Making, Idle
<1>10. SafeOne(r, c)'
  BY <1>2, <1>6, <1>7, <1>8, <1>9 DEF SafeOne
<1>11. QED
  BY <1>1, <1>3, <1>4, <1>5, <1>10, Quiet, OneStep DEF CreateCgroup, At, SafetyInv

\* Create, step 10.
LEMMA CreateSpecSafe ==
    ASSUME SafetyInv, NEW r \in Reqs, CreateSpec(r)
    PROVE  \E c \in Containers : SafeStep(c)
<1>1. PICK c \in Containers : c = req[r].c
  BY DEF CreateSpec, At, SafetyInv, ContainerInv, WorksOnContainer
<1>2. SafeOne(r, c)
  BY <1>1, OneNow DEF CreateSpec, At
<1>3. UNCHANGED ipamVars /\ rules' = rules
  BY DEF CreateSpec
<1>4. LocalTo(c)
  BY <1>1, <1>3, Quiet DEF CreateSpec, GotoFlag, Goto, Fail, NoFault, storeVars, hostVars, runtimeVars, LocalTo, SafetyInv, ContainerInv, HostTypeOK, Request, Idle
<1>5. Moves(r)
  BY <1>1 DEF CreateSpec, GotoFlag, Goto, Fail, NoFault, storeVars, hostVars, runtimeVars, At, Moves, SafetyInv, ContainerInv, HostTypeOK, Request, LifecyclePcs
<1>6. /\ csm'[c] = csm[c] /\ rt'[c] = rt[c] /\ init'[c] = init[c] /\ ports'[c] = ports[c] /\ fifo' = fifo /\ dirs' = dirs /\ cgroups' = cgroups
      /\ req[r].pc = "spec" /\ met \subseteq met'
      /\ req'[r].c = c /\ req'[r].todo = req[r].todo
      /\ req'[r].pc \in {"rule", "rb_release"} /\ req'[r].flags = req[r].flags
  BY <1>1 DEF CreateSpec, GotoFlag, Goto, Fail, NoFault, storeVars, hostVars, runtimeVars, At, SafetyInv, ContainerInv, HostTypeOK, Request
<1>7. ASSUME "create" \notin met', HeldOne(r, c) PROVE HeldOne(r, c)'
  BY <1>1, <1>3, <1>5, <1>6, <1>7, Quiet, IpamAssumption
     DEF Moves, HeldOne, HeldFor, Creating, Removing, Unstarted, Gone, Alive, Making, CreatePcs, Idle
<1>8. ASSUME "create" \notin met', HeldOne(r, c), KeptOne(r, c) PROVE KeptOne(r, c)'
  BY <1>1, <1>3, <1>6, <1>8, Quiet, IpamAssumption
     DEF HeldOne, HeldFor, KeptOne, KeptBy, Creating, Removing, Unstarted, Gone, Alive, Making, CreatePcs, Idle
<1>9. ASSUME "create" \notin met', HeldOne(r, c), PublishedOne(r, c) PROVE PublishedOne(r, c)'
  BY <1>1, <1>3, <1>6, <1>9, Quiet, IpamAssumption
     DEF HeldOne, HeldFor, Unstarted, Gone, Alive, Creating, CreatePcs, PublishedOne, PublishedBy, Recording, Making, Idle
<1>10. SafeOne(r, c)'
  BY <1>2, <1>6, <1>7, <1>8, <1>9 DEF SafeOne
<1>11. QED
  BY <1>1, <1>3, <1>4, <1>5, <1>10, Quiet, OneStep DEF CreateSpec, At, SafetyInv

\* Create, step 11: all ports are done.
LEMMA CreateForwardsDoneSafe ==
    ASSUME SafetyInv, NEW r \in Reqs, CreateForwardsDone(r)
    PROVE  \E c \in Containers : SafeStep(c)
<1>1. PICK c \in Containers : c = req[r].c
  BY DEF CreateForwardsDone, At, SafetyInv, ContainerInv, WorksOnContainer
<1>2. SafeOne(r, c)
  BY <1>1, OneNow DEF CreateForwardsDone, At
<1>3. UNCHANGED ipamVars /\ rules' = rules
  BY DEF CreateForwardsDone
<1>4. LocalTo(c)
  BY <1>1, <1>3, Quiet DEF CreateForwardsDone, GotoFlag, Goto, Fail, NoFault, storeVars, hostVars, runtimeVars, LocalTo, SafetyInv, ContainerInv, HostTypeOK, Request, Idle
<1>5. Moves(r)
  BY <1>1 DEF CreateForwardsDone, GotoFlag, Goto, Fail, NoFault, storeVars, hostVars, runtimeVars, At, Moves, SafetyInv, ContainerInv, HostTypeOK, Request, LifecyclePcs
<1>6. /\ csm'[c] = csm[c] /\ rt'[c] = rt[c] /\ init'[c] = init[c] /\ ports'[c] = ports[c] /\ fifo' = fifo /\ dirs' = dirs /\ cgroups' = cgroups
      /\ req[r].pc = "rule" /\ met \subseteq met'
      /\ req'[r].c = c /\ req'[r].todo = req[r].todo
      /\ req'[r].pc = "runtime" /\ req'[r].flags = req[r].flags \cup {"ForwardRule"} /\ req[r].todo = {}
  BY <1>1 DEF CreateForwardsDone, GotoFlag, Goto, Fail, NoFault, storeVars, hostVars, runtimeVars, At, SafetyInv, ContainerInv, HostTypeOK, Request
<1>7. ASSUME "create" \notin met', HeldOne(r, c) PROVE HeldOne(r, c)'
  BY <1>1, <1>3, <1>5, <1>6, <1>7, Quiet, IpamAssumption
     DEF Moves, HeldOne, HeldFor, Creating, Removing, Unstarted, Gone, Alive, Making, CreatePcs, Idle
<1>8. ASSUME "create" \notin met', HeldOne(r, c), KeptOne(r, c) PROVE KeptOne(r, c)'
  BY <1>1, <1>3, <1>6, <1>8, Quiet, IpamAssumption
     DEF HeldOne, HeldFor, KeptOne, KeptBy, Creating, Removing, Unstarted, Gone, Alive, Making, CreatePcs, Idle
<1>9. ASSUME "create" \notin met', HeldOne(r, c), PublishedOne(r, c) PROVE PublishedOne(r, c)'
  BY <1>1, <1>3, <1>6, <1>9, Quiet, IpamAssumption
     DEF HeldOne, HeldFor, Unstarted, Gone, Alive, Creating, CreatePcs, PublishedOne, PublishedBy, Recording, Making, Idle
<1>10. SafeOne(r, c)'
  BY <1>2, <1>6, <1>7, <1>8, <1>9 DEF SafeOne
<1>11. QED
  BY <1>1, <1>3, <1>4, <1>5, <1>10, Quiet, OneStep DEF CreateForwardsDone, At, SafetyInv

\* Create, step 12: droplet create.
LEMMA CreateRuntimeSafe ==
    ASSUME SafetyInv, NEW r \in Reqs, CreateRuntime(r)
    PROVE  \E c \in Containers : SafeStep(c)
<1>1. PICK c \in Containers : c = req[r].c
  BY DEF CreateRuntime, At, SafetyInv, ContainerInv, WorksOnContainer
<1>2. SafeOne(r, c)
  BY <1>1, OneNow DEF CreateRuntime, At
<1>3. UNCHANGED ipamVars /\ rules' = rules
  BY DEF CreateRuntime
<1>4. LocalTo(c)
  BY <1>1, <1>3, Quiet DEF CreateRuntime, GotoFlag, Goto, Fail, NoFault, Return, DropletCreated, DropletCreateRefused, DropletCreateFifoExists, DropletCreateFailsLate, storeVars, hostVars, runtimeVars, LocalTo, SafetyInv, ContainerInv, HostTypeOK, Request, Idle
<1>5. Moves(r)
  BY <1>1 DEF CreateRuntime, GotoFlag, Goto, Fail, NoFault, Return, DropletCreated, DropletCreateRefused, DropletCreateFifoExists, DropletCreateFailsLate, storeVars, hostVars, runtimeVars, At, Moves, SafetyInv, ContainerInv, HostTypeOK, Request, LifecyclePcs
<1>6. /\ ports'[c] = ports[c] /\ dirs' = dirs
      /\ req[r].pc = "runtime" /\ met \subseteq met'
      /\ "create" \in met' \/ c \in fifo \/
            /\ c \in dirs /\ rt'[c] = "created" /\ init'[c] = "waiting" /\ c \in fifo' /\ csm'[c] = "created"
            /\ req'[r] = Idle
  BY <1>1 DEF CreateRuntime, GotoFlag, Goto, Fail, NoFault, Return, DropletCreated, DropletCreateRefused, DropletCreateFifoExists, DropletCreateFailsLate, storeVars, hostVars, runtimeVars, At, SafetyInv, ContainerInv, HostTypeOK, Request
<1>7. ASSUME "create" \notin met', HeldOne(r, c) PROVE HeldOne(r, c)'
  BY <1>1, <1>3, <1>5, <1>6, <1>7, Quiet, IpamAssumption
     DEF Moves, HeldOne, HeldFor, Creating, Removing, Unstarted, Gone, Alive, Making, CreatePcs, Idle
<1>8. ASSUME "create" \notin met', HeldOne(r, c), KeptOne(r, c) PROVE KeptOne(r, c)'
  BY <1>1, <1>3, <1>6, <1>8, Quiet, IpamAssumption
     DEF HeldOne, HeldFor, KeptOne, KeptBy, Creating, Removing, Unstarted, Gone, Alive, Making, CreatePcs, Idle
<1>9. ASSUME "create" \notin met', HeldOne(r, c), PublishedOne(r, c) PROVE PublishedOne(r, c)'
  <2>1. ForwardsOf(c) = ports[c] /\ Ruled(c, ports[c])
    BY <1>1, <1>6, <1>9 DEF PublishedOne, PublishedBy, Making
  <2> QED
    BY <1>1, <1>3, <1>6, <1>9, <2>1, Quiet, IpamAssumption
       DEF HeldOne, HeldFor, Unstarted, Gone, Alive, Creating, CreatePcs, PublishedOne, PublishedBy, Recording, Making, Idle
<1>10. SafeOne(r, c)'
  BY <1>2, <1>6, <1>7, <1>8, <1>9 DEF SafeOne
<1>11. QED
  BY <1>1, <1>3, <1>4, <1>5, <1>10, Quiet, OneStep DEF CreateRuntime, At, SafetyInv

\* The rollback takes the CSM entry back.
LEMMA RollbackCsmSafe ==
    ASSUME SafetyInv, NEW r \in Reqs, RollbackCsm(r)
    PROVE  \E c \in Containers : SafeStep(c)
<1>1. PICK c \in Containers : c = req[r].c
  BY DEF RollbackCsm, At, SafetyInv, ContainerInv, WorksOnContainer
<1>2. SafeOne(r, c)
  BY <1>1, OneNow DEF RollbackCsm, At
<1>3. UNCHANGED ipamVars /\ rules' = rules
  BY DEF RollbackCsm
<1>4. LocalTo(c)
  BY <1>1, <1>3, Quiet DEF RollbackCsm, GotoFlag, Goto, Fail, NoFault, storeVars, hostVars, runtimeVars, LocalTo, SafetyInv, ContainerInv, HostTypeOK, Request, Idle
<1>5. Moves(r)
  BY <1>1 DEF RollbackCsm, GotoFlag, Goto, Fail, NoFault, storeVars, hostVars, runtimeVars, At, Moves, SafetyInv, ContainerInv, HostTypeOK, Request, LifecyclePcs
<1>6. /\ rt'[c] = rt[c] /\ init'[c] = init[c] /\ ports'[c] = ports[c] /\ fifo' = fifo /\ dirs' = dirs /\ cgroups' = cgroups
      /\ req[r].pc = "rb_csm" /\ met \subseteq met'
      /\ req'[r].c = c /\ req'[r].todo = req[r].todo
      /\ csm'[c] = IF "CSMEntry" \in req[r].flags THEN "none" ELSE csm[c]
      /\ req'[r].pc = "rb_directory" /\ req'[r].flags = req[r].flags
  BY <1>1 DEF RollbackCsm, GotoFlag, Goto, Fail, NoFault, storeVars, hostVars, runtimeVars, At, SafetyInv, ContainerInv, HostTypeOK, Request
<1>7. ASSUME "create" \notin met', HeldOne(r, c) PROVE HeldOne(r, c)'
  BY <1>1, <1>3, <1>5, <1>6, <1>7, Quiet, IpamAssumption
     DEF Moves, HeldOne, HeldFor, Creating, Removing, Unstarted, Gone, Alive, Making, CreatePcs, Idle
<1>8. ASSUME "create" \notin met', HeldOne(r, c), KeptOne(r, c) PROVE KeptOne(r, c)'
  BY <1>1, <1>3, <1>6, <1>8, Quiet, IpamAssumption
     DEF HeldOne, HeldFor, KeptOne, KeptBy, Creating, Removing, Unstarted, Gone, Alive, Making, CreatePcs, Idle
<1>9. ASSUME "create" \notin met', HeldOne(r, c), PublishedOne(r, c) PROVE PublishedOne(r, c)'
  BY <1>1, <1>3, <1>6, <1>9, Quiet, IpamAssumption
     DEF HeldOne, HeldFor, Unstarted, Gone, Alive, Creating, CreatePcs, PublishedOne, PublishedBy, Recording, Making, Idle
<1>10. SafeOne(r, c)'
  BY <1>2, <1>6, <1>7, <1>8, <1>9 DEF SafeOne
<1>11. QED
  BY <1>1, <1>3, <1>4, <1>5, <1>10, Quiet, OneStep DEF RollbackCsm, At, SafetyInv

\* The rollback removes the directory.
LEMMA RollbackDirectorySafe ==
    ASSUME SafetyInv, NEW r \in Reqs, RollbackDirectory(r)
    PROVE  \E c \in Containers : SafeStep(c)
<1>1. PICK c \in Containers : c = req[r].c
  BY DEF RollbackDirectory, At, SafetyInv, ContainerInv, WorksOnContainer
<1>2. SafeOne(r, c)
  BY <1>1, OneNow DEF RollbackDirectory, At
<1>3. UNCHANGED ipamVars /\ rules' = rules
  BY DEF RollbackDirectory
<1>4. LocalTo(c)
  BY <1>1, <1>3, Quiet DEF RollbackDirectory, GotoFlag, Goto, Fail, NoFault, RemoveDirectory, storeVars, hostVars, runtimeVars, LocalTo, SafetyInv, ContainerInv, HostTypeOK, Request, Idle
<1>5. Moves(r)
  BY <1>1 DEF RollbackDirectory, GotoFlag, Goto, Fail, NoFault, RemoveDirectory, storeVars, hostVars, runtimeVars, At, Moves, SafetyInv, ContainerInv, HostTypeOK, Request, LifecyclePcs
<1>6. /\ csm'[c] = csm[c] /\ init'[c] = init[c] /\ ports'[c] = ports[c] /\ cgroups' = cgroups
      /\ req[r].pc = "rb_directory" /\ met \subseteq met'
      /\ req'[r].c = c /\ req'[r].todo = req[r].todo
      /\ (rt'[c] = rt[c] \/ rt'[c] = "none") /\ (c \in fifo' => c \in fifo)
      /\ req'[r].pc = "rb_cgroup" /\ req'[r].flags = req[r].flags
  BY <1>1 DEF RollbackDirectory, GotoFlag, Goto, Fail, NoFault, RemoveDirectory, storeVars, hostVars, runtimeVars, At, SafetyInv, ContainerInv, HostTypeOK, Request
<1>7. ASSUME "create" \notin met', HeldOne(r, c) PROVE HeldOne(r, c)'
  BY <1>1, <1>3, <1>5, <1>6, <1>7, Quiet, IpamAssumption
     DEF Moves, HeldOne, HeldFor, Creating, Removing, Unstarted, Gone, Alive, Making, CreatePcs, Idle
<1>8. ASSUME "create" \notin met', HeldOne(r, c), KeptOne(r, c) PROVE KeptOne(r, c)'
  BY <1>1, <1>3, <1>6, <1>8, Quiet, IpamAssumption
     DEF HeldOne, HeldFor, KeptOne, KeptBy, Creating, Removing, Unstarted, Gone, Alive, Making, CreatePcs, Idle
<1>9. ASSUME "create" \notin met', HeldOne(r, c), PublishedOne(r, c) PROVE PublishedOne(r, c)'
  BY <1>1, <1>3, <1>6, <1>9, Quiet, IpamAssumption
     DEF HeldOne, HeldFor, Unstarted, Gone, Alive, Creating, CreatePcs, PublishedOne, PublishedBy, Recording, Making, Idle
<1>10. SafeOne(r, c)'
  BY <1>2, <1>6, <1>7, <1>8, <1>9 DEF SafeOne
<1>11. QED
  BY <1>1, <1>3, <1>4, <1>5, <1>10, Quiet, OneStep DEF RollbackDirectory, At, SafetyInv

\* The rollback removes the cgroup.
LEMMA RollbackCgroupSafe ==
    ASSUME SafetyInv, NEW r \in Reqs, RollbackCgroup(r)
    PROVE  \E c \in Containers : SafeStep(c)
<1>1. PICK c \in Containers : c = req[r].c
  BY DEF RollbackCgroup, At, SafetyInv, ContainerInv, WorksOnContainer
<1>2. SafeOne(r, c)
  BY <1>1, OneNow DEF RollbackCgroup, At
<1>3. UNCHANGED ipamVars /\ rules' = rules
  BY DEF RollbackCgroup
<1>4. LocalTo(c)
  BY <1>1, <1>3, Quiet DEF RollbackCgroup, GotoFlag, Goto, Fail, NoFault, Alive, storeVars, hostVars, runtimeVars, LocalTo, SafetyInv, ContainerInv, HostTypeOK, Request, Idle
<1>5. Moves(r)
  BY <1>1 DEF RollbackCgroup, GotoFlag, Goto, Fail, NoFault, Alive, storeVars, hostVars, runtimeVars, At, Moves, SafetyInv, ContainerInv, HostTypeOK, Request, LifecyclePcs
<1>6. /\ csm'[c] = csm[c] /\ rt'[c] = rt[c] /\ init'[c] = init[c] /\ ports'[c] = ports[c] /\ fifo' = fifo /\ dirs' = dirs
      /\ req[r].pc = "rb_cgroup" /\ met \subseteq met'
      /\ req'[r].c = c /\ req'[r].todo = req[r].todo
      /\ (c \in cgroups' => c \in cgroups /\ ("CgroupEntry" \notin req[r].flags \/ init[c] # "none"))
      /\ req'[r].pc = "rb_forward" /\ req'[r].flags = req[r].flags
  BY <1>1 DEF RollbackCgroup, GotoFlag, Goto, Fail, NoFault, Alive, storeVars, hostVars, runtimeVars, At, SafetyInv, ContainerInv, HostTypeOK, Request
<1>7. ASSUME "create" \notin met', HeldOne(r, c) PROVE HeldOne(r, c)'
  BY <1>1, <1>3, <1>5, <1>6, <1>7, Quiet, IpamAssumption
     DEF Moves, HeldOne, HeldFor, Creating, Removing, Unstarted, Gone, Alive, Making, CreatePcs, Idle
<1>8. ASSUME "create" \notin met', HeldOne(r, c), KeptOne(r, c) PROVE KeptOne(r, c)'
  BY <1>1, <1>3, <1>6, <1>8, Quiet, IpamAssumption
     DEF HeldOne, HeldFor, KeptOne, KeptBy, Creating, Removing, Unstarted, Gone, Alive, Making, CreatePcs, Idle
<1>9. ASSUME "create" \notin met', HeldOne(r, c), PublishedOne(r, c) PROVE PublishedOne(r, c)'
  BY <1>1, <1>3, <1>6, <1>9, Quiet, IpamAssumption
     DEF HeldOne, HeldFor, Unstarted, Gone, Alive, Creating, CreatePcs, PublishedOne, PublishedBy, Recording, Making, Idle
<1>10. SafeOne(r, c)'
  BY <1>2, <1>6, <1>7, <1>8, <1>9 DEF SafeOne
<1>11. QED
  BY <1>1, <1>3, <1>4, <1>5, <1>10, Quiet, OneStep DEF RollbackCgroup, At, SafetyInv

\* Start of a stopped container: droplet create.
LEMMA StartCreateSafe ==
    ASSUME SafetyInv, NEW r \in Reqs, StartCreate(r)
    PROVE  \E c \in Containers : SafeStep(c)
<1>1. PICK c \in Containers : c = req[r].c
  BY DEF StartCreate, At, SafetyInv, ContainerInv, WorksOnContainer
<1>2. SafeOne(r, c)
  BY <1>1, OneNow DEF StartCreate, At
<1>3. UNCHANGED ipamVars /\ rules' = rules
  BY DEF StartCreate
<1>4. LocalTo(c)
  BY <1>1, <1>3, Quiet DEF StartCreate, GotoFlag, Goto, Fail, NoFault, Return, DropletCreated, DropletCreateRefused, DropletCreateFifoExists, DropletCreateFailsLate, storeVars, hostVars, runtimeVars, LocalTo, SafetyInv, ContainerInv, HostTypeOK, Request, Idle
<1>5. Moves(r)
  BY <1>1 DEF StartCreate, GotoFlag, Goto, Fail, NoFault, Return, DropletCreated, DropletCreateRefused, DropletCreateFifoExists, DropletCreateFailsLate, storeVars, hostVars, runtimeVars, At, Moves, SafetyInv, ContainerInv, HostTypeOK, Request, LifecyclePcs
<1>6. /\ ports'[c] = ports[c] /\ dirs' = dirs
      /\ req[r].pc = "st_create" /\ met \subseteq met'
      /\ "create" \in met' \/
            \/ /\ c \in dirs /\ rt'[c] = "created" /\ init'[c] = "waiting" /\ c \in fifo' /\ csm'[c] = "created"
               /\ csm[c] # "none" /\ req'[r].c = c /\ req'[r].pc = "st_restore"
            \/ /\ rt'[c] = "creating" /\ csm'[c] = (IF csm[c] = "none" THEN "none" ELSE "creating") /\ req'[r] = Idle
               /\ init'[c] = init[c] /\ fifo' = fifo /\ cgroups' = cgroups
  BY <1>1 DEF StartCreate, GotoFlag, Goto, Fail, NoFault, Return, DropletCreated, DropletCreateRefused, DropletCreateFifoExists, DropletCreateFailsLate, storeVars, hostVars, runtimeVars, At, SafetyInv, ContainerInv, HostTypeOK, Request
<1>7. ASSUME "create" \notin met', HeldOne(r, c) PROVE HeldOne(r, c)'
  BY <1>1, <1>3, <1>5, <1>6, <1>7, Quiet, IpamAssumption
     DEF Moves, HeldOne, HeldFor, Creating, Removing, Unstarted, Gone, Alive, Making, CreatePcs, Idle
<1>8. ASSUME "create" \notin met', HeldOne(r, c), KeptOne(r, c) PROVE KeptOne(r, c)'
  BY <1>1, <1>3, <1>6, <1>8, Quiet, IpamAssumption
     DEF HeldOne, HeldFor, KeptOne, KeptBy, Creating, Removing, Unstarted, Gone, Alive, Making, CreatePcs, Idle
<1>9. ASSUME "create" \notin met', HeldOne(r, c), PublishedOne(r, c) PROVE PublishedOne(r, c)'
  BY <1>1, <1>3, <1>6, <1>9, Quiet, IpamAssumption
     DEF HeldOne, HeldFor, Unstarted, Gone, Alive, Creating, CreatePcs, PublishedOne, PublishedBy, Recording, Making, Idle
<1>10. SafeOne(r, c)'
  BY <1>2, <1>6, <1>7, <1>8, <1>9 DEF SafeOne
<1>11. QED
  BY <1>1, <1>3, <1>4, <1>5, <1>10, Quiet, OneStep DEF StartCreate, At, SafetyInv

\* Start: droplet start.
LEMMA StartStartSafe ==
    ASSUME SafetyInv, NEW r \in Reqs, StartStart(r)
    PROVE  \E c \in Containers : SafeStep(c)
<1>1. PICK c \in Containers : c = req[r].c
  BY DEF StartStart, At, SafetyInv, ContainerInv, WorksOnContainer
<1>2. SafeOne(r, c)
  BY <1>1, OneNow DEF StartStart, At
<1>3. UNCHANGED ipamVars /\ rules' = rules
  BY DEF StartStart
<1>4. LocalTo(c)
  BY <1>1, <1>3, Quiet DEF StartStart, Return, RuntimeStatus, storeVars, hostVars, runtimeVars, LocalTo, SafetyInv, ContainerInv, HostTypeOK, Request, Idle
<1>5. Moves(r)
  BY <1>1 DEF StartStart, Return, RuntimeStatus, storeVars, hostVars, runtimeVars, At, Moves, SafetyInv, ContainerInv, HostTypeOK, Request, LifecyclePcs
<1>6. /\ ports'[c] = ports[c] /\ dirs' = dirs /\ cgroups' = cgroups
      /\ req[r].pc = "st_start" /\ met \subseteq met'
      /\ req'[r] = Idle
      /\ \/ /\ init[c] = "waiting" /\ rt[c] = "created"
            /\ init'[c] = "running" /\ rt'[c] = "running" /\ csm'[c] = (IF csm[c] = "none" THEN "none" ELSE "running")
         \/ csm'[c] = csm[c] /\ rt'[c] = rt[c] /\ init'[c] = init[c] /\ fifo' = fifo
  BY <1>1 DEF StartStart, Return, RuntimeStatus, storeVars, hostVars, runtimeVars, At, SafetyInv, ContainerInv, HostTypeOK, Request
<1>7. ASSUME "create" \notin met', HeldOne(r, c) PROVE HeldOne(r, c)'
  BY <1>1, <1>3, <1>5, <1>6, <1>7, Quiet, IpamAssumption
     DEF Moves, HeldOne, HeldFor, Creating, Removing, Unstarted, Gone, Alive, Making, CreatePcs, Idle
<1>8. ASSUME "create" \notin met', HeldOne(r, c), KeptOne(r, c) PROVE KeptOne(r, c)'
  BY <1>1, <1>3, <1>6, <1>8, Quiet, IpamAssumption
     DEF HeldOne, HeldFor, KeptOne, KeptBy, Creating, Removing, Unstarted, Gone, Alive, Making, CreatePcs, Idle
<1>9. ASSUME "create" \notin met', HeldOne(r, c), PublishedOne(r, c) PROVE PublishedOne(r, c)'
  BY <1>1, <1>3, <1>6, <1>9, Quiet, IpamAssumption
     DEF HeldOne, HeldFor, Unstarted, Gone, Alive, Creating, CreatePcs, PublishedOne, PublishedBy, Recording, Making, Idle
<1>10. SafeOne(r, c)'
  BY <1>2, <1>6, <1>7, <1>8, <1>9 DEF SafeOne
<1>11. QED
  BY <1>1, <1>3, <1>4, <1>5, <1>10, Quiet, OneStep DEF StartStart, At, SafetyInv

\* Stop: droplet kill.
LEMMA StopKillSafe ==
    ASSUME SafetyInv, NEW r \in Reqs, StopKill(r)
    PROVE  \E c \in Containers : SafeStep(c)
<1>1. PICK c \in Containers : c = req[r].c
  BY DEF StopKill, At, SafetyInv, ContainerInv, WorksOnContainer
<1>2. SafeOne(r, c)
  BY <1>1, OneNow DEF StopKill, At
<1>3. UNCHANGED ipamVars /\ rules' = rules
  BY DEF StopKill
<1>4. LocalTo(c)
  BY <1>1, <1>3, Quiet DEF StopKill, Return, RuntimeStatus, Alive, storeVars, hostVars, runtimeVars, LocalTo, SafetyInv, ContainerInv, HostTypeOK, Request, Idle
<1>5. Moves(r)
  BY <1>1 DEF StopKill, Return, RuntimeStatus, Alive, storeVars, hostVars, runtimeVars, At, Moves, SafetyInv, ContainerInv, HostTypeOK, Request, LifecyclePcs
<1>6. /\ ports'[c] = ports[c] /\ fifo' = fifo /\ dirs' = dirs /\ cgroups' = cgroups
      /\ req[r].pc = "stop" /\ met \subseteq met'
      /\ req'[r] = Idle
      /\ \/ /\ init[c] # "none" /\ rt[c] \in {"created", "running"}
            /\ init'[c] = "none" /\ rt'[c] = "stopped" /\ csm'[c] = (IF csm[c] = "none" THEN "none" ELSE "stopped")
         \/ csm'[c] = csm[c] /\ rt'[c] = rt[c] /\ init'[c] = init[c]
  BY <1>1 DEF StopKill, Return, RuntimeStatus, Alive, storeVars, hostVars, runtimeVars, At, SafetyInv, ContainerInv, HostTypeOK, Request
<1>7. ASSUME "create" \notin met', HeldOne(r, c) PROVE HeldOne(r, c)'
  BY <1>1, <1>3, <1>5, <1>6, <1>7, Quiet, IpamAssumption
     DEF Moves, HeldOne, HeldFor, Creating, Removing, Unstarted, Gone, Alive, Making, CreatePcs, Idle
<1>8. ASSUME "create" \notin met', HeldOne(r, c), KeptOne(r, c) PROVE KeptOne(r, c)'
  BY <1>1, <1>3, <1>6, <1>8, Quiet, IpamAssumption
     DEF HeldOne, HeldFor, KeptOne, KeptBy, Creating, Removing, Unstarted, Gone, Alive, Making, CreatePcs, Idle
<1>9. ASSUME "create" \notin met', HeldOne(r, c), PublishedOne(r, c) PROVE PublishedOne(r, c)'
  BY <1>1, <1>3, <1>6, <1>9, Quiet, IpamAssumption
     DEF HeldOne, HeldFor, Unstarted, Gone, Alive, Creating, CreatePcs, PublishedOne, PublishedBy, Recording, Making, Idle
<1>10. SafeOne(r, c)'
  BY <1>2, <1>6, <1>7, <1>8, <1>9 DEF SafeOne
<1>11. QED
  BY <1>1, <1>3, <1>4, <1>5, <1>10, Quiet, OneStep DEF StopKill, At, SafetyInv

\* Delete: directory, cgroup and CSM entry.
LEMMA DeleteFilesSafe ==
    ASSUME SafetyInv, NEW r \in Reqs, DeleteFiles(r)
    PROVE  \E c \in Containers : SafeStep(c)
<1>1. PICK c \in Containers : c = req[r].c
  BY DEF DeleteFiles, At, SafetyInv, ContainerInv, WorksOnContainer
<1>2. SafeOne(r, c)
  BY <1>1, OneNow DEF DeleteFiles, At
<1>3. UNCHANGED ipamVars /\ rules' = rules
  BY DEF DeleteFiles
<1>4. LocalTo(c)
  BY <1>1, <1>3, Quiet DEF DeleteFiles, Return, RemoveDirectory, Alive, storeVars, hostVars, runtimeVars, LocalTo, SafetyInv, ContainerInv, HostTypeOK, Request, Idle
<1>5. Moves(r)
  BY <1>1 DEF DeleteFiles, Return, RemoveDirectory, Alive, storeVars, hostVars, runtimeVars, At, Moves, SafetyInv, ContainerInv, HostTypeOK, Request, LifecyclePcs
<1>6. /\ init'[c] = init[c] /\ ports'[c] = ports[c]
      /\ req[r].pc = "del_files" /\ met \subseteq met'
      /\ req'[r] = Idle /\ csm'[c] = "none" /\ rt'[c] = "none" /\ c \notin fifo' /\ (c \in cgroups' => c \in cgroups)
  BY <1>1 DEF DeleteFiles, Return, RemoveDirectory, Alive, storeVars, hostVars, runtimeVars, At, SafetyInv, ContainerInv, HostTypeOK, Request
<1>7. ASSUME "create" \notin met', HeldOne(r, c) PROVE HeldOne(r, c)'
  BY <1>1, <1>3, <1>5, <1>6, <1>7, Quiet, IpamAssumption
     DEF Moves, HeldOne, HeldFor, Creating, Removing, Unstarted, Gone, Alive, Making, CreatePcs, Idle
<1>8. ASSUME "create" \notin met', HeldOne(r, c), KeptOne(r, c) PROVE KeptOne(r, c)'
  BY <1>1, <1>3, <1>6, <1>8, Quiet, IpamAssumption
     DEF HeldOne, HeldFor, KeptOne, KeptBy, Creating, Removing, Unstarted, Gone, Alive, Making, CreatePcs, Idle
<1>9. ASSUME "create" \notin met', HeldOne(r, c), PublishedOne(r, c) PROVE PublishedOne(r, c)'
  BY <1>1, <1>3, <1>6, <1>9, Quiet, IpamAssumption
     DEF HeldOne, HeldFor, Unstarted, Gone, Alive, Creating, CreatePcs, PublishedOne, PublishedBy, Recording, Making, Idle
<1>10. SafeOne(r, c)'
  BY <1>2, <1>6, <1>7, <1>8, <1>9 DEF SafeOne
<1>11. QED
  BY <1>1, <1>3, <1>4, <1>5, <1>10, Quiet, OneStep DEF DeleteFiles, At, SafetyInv

\* Create, step 11: the rules of a port.
LEMMA CreateRuleSafe ==
    ASSUME SafetyInv, NEW r \in Reqs, CreateRule(r)
    PROVE  \E c \in Containers : SafeStep(c)
<1>1. PICK c \in Containers : c = req[r].c
  BY DEF CreateRule, At, SafetyInv, ContainerInv, WorksOnContainer
<1>2. SafeOne(r, c) /\ IpamInv /\ IpamTypeOK /\ OneAddress
  BY <1>1, OneNow DEF CreateRule, At, SafetyInv, ContainerInv, IpamInv
<1>3. (\A d : Same(d)) /\ OneAddress' /\ Addr(c) \subseteq Subnets \X Hosts
  BY <1>2, NoCallEffect DEF CreateRule, Addr
<1>4. LocalTo(c)
  <2>1. PICK f \in Forwards : rules' \in {rules, rules \cup RulesOf(c, {f})}
    BY <1>1 DEF CreateRule, SafetyInv, ContainerInv, HostTypeOK, Request
  <2>2. \A g \in Forwards, a \in Subnets \X Hosts : a \notin Addr(c) => (Leads(g, a)' <=> Leads(g, a))
    BY <1>2, <2>1, AddRules DEF Leads
  <2>3. QED
    BY <1>1, <1>3, <2>2 DEF CreateRule, Goto, Fail, NoFault, storeVars, hostVars, runtimeVars, LocalTo, SafetyInv, ContainerInv, HostTypeOK, Request
<1>5. Moves(r)
  BY <1>1 DEF CreateRule, GotoFlag, Goto, Fail, NoFault, Return, storeVars, hostVars, runtimeVars, ipamVars, At, Moves, SafetyInv, ContainerInv, HostTypeOK, Request, LifecyclePcs
<1>6. /\ rt'[c] = rt[c] /\ init'[c] = init[c] /\ ports'[c] = ports[c] /\ fifo' = fifo /\ dirs' = dirs
      /\ cgroups' = cgroups /\ csm'[c] = csm[c] /\ req[r].pc = "rule" /\ met \subseteq met'
      /\ req'[r].c = c /\ req'[r].flags = req[r].flags
      /\ req'[r].todo = req[r].todo
      /\ \/ "forward" \in met' /\ req'[r].pc = "rb_release"
         \/ req'[r].pc = "record" /\ \E f \in req[r].todo : req'[r].rec = {f} /\ rules' = rules \cup RulesOf(c, {f})
  <2>1. PICK f \in req[r].todo :
            \/ /\ rules' = rules \cup RulesOf(c, {f}) /\ NoFault
               /\ req' = [req EXCEPT ![r].pc = "record", ![r].rec = {f}]
            \/ Fail("forward") /\ Goto(r, "rb_release")
    BY <1>1 DEF CreateRule
  <2>2. req'[r].c = req[r].c /\ req'[r].flags = req[r].flags /\ req'[r].todo = req[r].todo
    BY <2>1 DEF Goto, SafetyInv, ContainerInv, Request
  <2>3. req'[r].pc = "record" => req'[r].rec = {f} /\ rules' = rules \cup RulesOf(c, {f})
    BY <2>1 DEF Goto, SafetyInv, ContainerInv, Request
  <2>4. req'[r].pc = "record" \/ (req'[r].pc = "rb_release" /\ "forward" \in met')
    BY <2>1 DEF Goto, Fail, SafetyInv, ContainerInv, Request
  <2>5. QED
    BY <1>1, <2>1, <2>2, <2>3, <2>4 DEF CreateRule, At, Fail, NoFault, storeVars, hostVars, runtimeVars
<1>7. ASSUME "create" \notin met', HeldOne(r, c) PROVE HeldOne(r, c)'
  BY <1>1, <1>3, <1>5, <1>6, <1>7, IpamAssumption
     DEF Same, Moves, HeldOne, HeldFor, Creating, Removing, Unstarted, Gone, Alive, Making, CreatePcs, Idle
<1>8. ASSUME "create" \notin met', met' \cap {"create", "delete", "reboot"} = {}, HeldOne(r, c), KeptOne(r, c)
      PROVE  KeptOne(r, c)'
  BY <1>1, <1>3, <1>6, <1>8, IpamAssumption
     DEF Same, HeldOne, HeldFor, KeptOne, KeptBy, Creating, Removing, Unstarted, Gone, Alive, Making, CreatePcs, Idle
<1>9. ASSUME met' \cap {"create", "forward"} = {}, HeldOne(r, c), PublishedOne(r, c) PROVE PublishedOne(r, c)'
  <2>1. PICK f \in req[r].todo : req'[r].rec = {f} /\ rules' = rules \cup RulesOf(c, {f}) /\ req'[r].pc = "record"
    BY <1>6, <1>9
  <2>2. f \in Forwards
    BY <2>1 DEF SafetyInv, ContainerInv, Request
  <2>3. \A g \in Forwards, a \in Addr(c) : Leads(g, a)' <=> Leads(g, a) \/ g = f
    BY <1>2, <1>3, <2>1, <2>2, AddRules
  <2>4. ports[c] \subseteq Forwards /\ ForwardsOf(c) \subseteq Forwards
    BY DEF SafetyInv, ContainerInv, HostTypeOK, ForwardsOf
  <2>5. PublishedBy(r, c)'
    BY <1>1, <1>3, <1>6, <1>9, <2>1, <2>2, <2>3, <2>4 DEF Same, Ruled, PublishedOne, PublishedBy, Making
  <2> QED
    BY <1>1, <1>3, <1>6, <1>9, <2>1, <2>2, <2>3, <2>4, <2>5 DEF Same, Ruled, PublishedOne, Recording
<1>10. SafeOne(r, c)'
  BY <1>2, <1>6, <1>7, <1>8, <1>9 DEF SafeOne
<1>11. RulesLeft(c)
  BY <1>3 DEF Same, RulesLeft
<1>12. QED
  BY <1>1, <1>2, <1>3, <1>4, <1>5, <1>10, <1>11, OneStep DEF CreateRule, At

\* Start of a stopped container: restoreForwardRules.
LEMMA StartRestoreSafe ==
    ASSUME SafetyInv, NEW r \in Reqs, StartRestore(r)
    PROVE  \E c \in Containers : SafeStep(c)
<1>1. PICK c \in Containers : c = req[r].c
  BY DEF StartRestore, At, SafetyInv, ContainerInv, WorksOnContainer
<1>2. SafeOne(r, c) /\ IpamInv /\ IpamTypeOK /\ OneAddress
  BY <1>1, OneNow DEF StartRestore, At, SafetyInv, ContainerInv, IpamInv
<1>3. (\A d : Same(d)) /\ OneAddress' /\ Addr(c) \subseteq Subnets \X Hosts
  BY <1>2, NoCallEffect DEF StartRestore, Addr
<1>4. LocalTo(c)
  <2>1. ForwardsOf(c) \in SUBSET Forwards
    BY DEF ForwardsOf
  <2>2. \A g \in Forwards, a \in Subnets \X Hosts : a \notin Addr(c) => (Leads(g, a)' <=> Leads(g, a))
    BY <1>1, <1>2, <2>1, AddRules DEF Leads, StartRestore
  <2>3. QED
    BY <1>1, <1>3, <2>2 DEF StartRestore, Goto, Return, Fail, NoFault, storeVars, hostVars, runtimeVars, LocalTo, SafetyInv, ContainerInv, HostTypeOK, Request, Idle
<1>5. Moves(r)
  BY <1>1 DEF StartRestore, GotoFlag, Goto, Fail, NoFault, Return, storeVars, hostVars, runtimeVars, ipamVars, At, Moves, SafetyInv, ContainerInv, HostTypeOK, Request, LifecyclePcs
<1>6. /\ rt'[c] = rt[c] /\ init'[c] = init[c] /\ ports'[c] = ports[c] /\ fifo' = fifo /\ dirs' = dirs
      /\ cgroups' = cgroups /\ csm'[c] = csm[c] /\ req[r].pc = "st_restore" /\ met \subseteq met'
      /\ \/ "forward" \in met' /\ req'[r] = Idle
         \/ req'[r].c = c /\ req'[r].pc = "st_start" /\ rules' = rules \cup RulesOf(c, ForwardsOf(c))
  BY <1>1 DEF StartRestore, GotoFlag, Goto, Fail, NoFault, Return, storeVars, hostVars, runtimeVars, ipamVars, At, SafetyInv, ContainerInv, HostTypeOK, Request
<1>7. ASSUME "create" \notin met', HeldOne(r, c) PROVE HeldOne(r, c)'
  BY <1>1, <1>3, <1>5, <1>6, <1>7, IpamAssumption
     DEF Same, Moves, HeldOne, HeldFor, Creating, Removing, Unstarted, Gone, Alive, Making, CreatePcs, Idle
<1>8. ASSUME "create" \notin met', met' \cap {"create", "delete", "reboot"} = {}, HeldOne(r, c), KeptOne(r, c)
      PROVE  KeptOne(r, c)'
  BY <1>1, <1>3, <1>6, <1>8, IpamAssumption
     DEF Same, HeldOne, HeldFor, KeptOne, KeptBy, Creating, Removing, Unstarted, Gone, Alive, Making, CreatePcs, Idle
<1>9. ASSUME met' \cap {"create", "forward"} = {}, HeldOne(r, c), PublishedOne(r, c) PROVE PublishedOne(r, c)'
  <2>1. req'[r].c = c /\ req'[r].pc = "st_start" /\ rules' = rules \cup RulesOf(c, ForwardsOf(c))
    BY <1>6, <1>9
  <2>2. ForwardsOf(c) \in SUBSET Forwards
    BY DEF ForwardsOf
  <2>3. \A g \in Forwards, a \in Addr(c) : Leads(g, a)' <=> Leads(g, a) \/ g \in ForwardsOf(c)
    BY <1>2, <1>3, <2>1, <2>2, AddRules
  <2>4. ForwardsOf(c) = ports[c]
    BY <1>1, <1>6, <1>9 DEF PublishedOne, PublishedBy
  <2> QED
    BY <1>1, <1>3, <1>6, <1>9, <2>1, <2>2, <2>3, <2>4 DEF Same, Ruled, PublishedOne, PublishedBy, Recording, Making
<1>10. SafeOne(r, c)'
  BY <1>2, <1>6, <1>7, <1>8, <1>9 DEF SafeOne
<1>11. RulesLeft(c)
  BY <1>3 DEF Same, RulesLeft
<1>12. QED
  BY <1>1, <1>2, <1>3, <1>4, <1>5, <1>10, <1>11, OneStep DEF StartRestore, At

\* The rollback removes the forwarding rules.
LEMMA RollbackForwardSafe ==
    ASSUME SafetyInv, NEW r \in Reqs, RollbackForward(r)
    PROVE  \E c \in Containers : SafeStep(c)
<1>1. PICK c \in Containers : c = req[r].c
  BY DEF RollbackForward, At, SafetyInv, ContainerInv, WorksOnContainer
<1>2. SafeOne(r, c) /\ IpamInv /\ IpamTypeOK /\ OneAddress
  BY <1>1, OneNow DEF RollbackForward, At, SafetyInv, ContainerInv, IpamInv
<1>3. (\A d : Same(d)) /\ OneAddress' /\ Addr(c) \subseteq Subnets \X Hosts
  BY <1>2, NoCallEffect DEF RollbackForward, Addr
<1>4. LocalTo(c)
  <2>1. ForwardsOf(c) \in SUBSET Forwards
    BY DEF ForwardsOf
  <2>2. \A g \in Forwards, a \in Subnets \X Hosts : a \notin Addr(c) => (Leads(g, a)' <=> Leads(g, a))
    BY <1>1, <1>2, <2>1, DropRules DEF Leads, RollbackForward, CleanupForwardRules
  <2>3. QED
    BY <1>1, <1>3, <2>2 DEF RollbackForward, Goto, Return, Fail, NoFault, storeVars, hostVars, runtimeVars, LocalTo, SafetyInv, ContainerInv, HostTypeOK, Request, Idle
<1>5. Moves(r)
  BY <1>1 DEF RollbackForward, Return, CleanupForwardRules, storeVars, hostVars, runtimeVars, ipamVars, At, Moves, SafetyInv, ContainerInv, HostTypeOK, Request, LifecyclePcs
<1>6. /\ rt'[c] = rt[c] /\ init'[c] = init[c] /\ ports'[c] = ports[c] /\ fifo' = fifo /\ dirs' = dirs
      /\ cgroups' = cgroups /\ csm'[c] = csm[c] /\ req[r].pc = "rb_forward" /\ met \subseteq met'
      /\ req'[r] = Idle
      /\ rules' = rules \/ rules' = rules \ RulesOf(c, ForwardsOf(c))
  BY <1>1 DEF RollbackForward, Return, CleanupForwardRules, storeVars, hostVars, runtimeVars, ipamVars, At, SafetyInv, ContainerInv, HostTypeOK, Request
<1>7. ASSUME "create" \notin met', HeldOne(r, c) PROVE HeldOne(r, c)'
  BY <1>1, <1>3, <1>5, <1>6, <1>7, IpamAssumption
     DEF Same, Moves, HeldOne, HeldFor, Creating, Removing, Unstarted, Gone, Alive, Making, CreatePcs, Idle
<1>8. ASSUME "create" \notin met', met' \cap {"create", "delete", "reboot"} = {}, HeldOne(r, c), KeptOne(r, c)
      PROVE  KeptOne(r, c)'
  BY <1>1, <1>3, <1>6, <1>8, IpamAssumption
     DEF Same, HeldOne, HeldFor, KeptOne, KeptBy, Creating, Removing, Unstarted, Gone, Alive, Making, CreatePcs, Idle
<1>9. ASSUME met' \cap {"create", "forward"} = {}, HeldOne(r, c), PublishedOne(r, c) PROVE PublishedOne(r, c)'
  <2>1. \A g, a : Leads(g, a)' => Leads(g, a)
    BY <1>6 DEF Leads
  <2>2. Unstarted(c)
    BY <1>1, <1>6, <1>9 DEF HeldOne, HeldFor, Creating, CreatePcs
  <2> QED
    BY <1>1, <1>3, <1>6, <1>9, <2>1, <2>2, IpamAssumption DEF Same, Unstarted, Gone, Alive, PublishedOne, Recording, Idle
<1>10. SafeOne(r, c)'
  BY <1>2, <1>6, <1>7, <1>8, <1>9 DEF SafeOne
<1>11. RulesLeft(c)
  BY <1>3 DEF Same, RulesLeft
<1>12. QED
  BY <1>1, <1>2, <1>3, <1>4, <1>5, <1>10, <1>11, OneStep DEF RollbackForward, At

\* Delete: cleanupForwardRules.
LEMMA DeleteRulesSafe ==
    ASSUME SafetyInv, NEW r \in Reqs, DeleteRules(r)
    PROVE  \E c \in Containers : SafeStep(c)
<1>1. PICK c \in Containers : c = req[r].c
  BY DEF DeleteRules, At, SafetyInv, ContainerInv, WorksOnContainer
<1>2. SafeOne(r, c) /\ IpamInv /\ IpamTypeOK /\ OneAddress
  BY <1>1, OneNow DEF DeleteRules, At, SafetyInv, ContainerInv, IpamInv
<1>3. (\A d : Same(d)) /\ OneAddress' /\ Addr(c) \subseteq Subnets \X Hosts
  BY <1>2, NoCallEffect DEF DeleteRules, Addr
<1>4. LocalTo(c)
  <2>1. ForwardsOf(c) \in SUBSET Forwards
    BY DEF ForwardsOf
  <2>2. \A g \in Forwards, a \in Subnets \X Hosts : a \notin Addr(c) => (Leads(g, a)' <=> Leads(g, a))
    BY <1>1, <1>2, <2>1, DropRules DEF Leads, DeleteRules, CleanupForwardRules
  <2>3. QED
    BY <1>1, <1>3, <2>2 DEF DeleteRules, Goto, Return, Fail, NoFault, storeVars, hostVars, runtimeVars, LocalTo, SafetyInv, ContainerInv, HostTypeOK, Request, Idle
<1>5. Moves(r)
  BY <1>1 DEF DeleteRules, Return, Goto, Fail, NoFault, CleanupForwardRules, storeVars, hostVars, runtimeVars, ipamVars, At, Moves, SafetyInv, ContainerInv, HostTypeOK, Request, LifecyclePcs
<1>6. /\ rt'[c] = rt[c] /\ init'[c] = init[c] /\ ports'[c] = ports[c] /\ fifo' = fifo /\ dirs' = dirs
      /\ cgroups' = cgroups /\ csm'[c] = csm[c] /\ req[r].pc = "del_rules" /\ met \subseteq met'
      /\ \/ "delete" \in met' /\ rules' = rules /\ req'[r] = Idle
         \/ req'[r].c = c /\ req'[r].pc = "del_release" /\ rules' = rules \ RulesOf(c, ForwardsOf(c))
  BY <1>1 DEF DeleteRules, Return, Goto, Fail, NoFault, CleanupForwardRules, storeVars, hostVars, runtimeVars, ipamVars, At, SafetyInv, ContainerInv, HostTypeOK, Request
<1>7. ASSUME "create" \notin met', HeldOne(r, c) PROVE HeldOne(r, c)'
  BY <1>1, <1>3, <1>5, <1>6, <1>7, IpamAssumption
     DEF Same, Moves, HeldOne, HeldFor, Creating, Removing, Unstarted, Gone, Alive, Making, CreatePcs, Idle
<1>8. ASSUME "create" \notin met', met' \cap {"create", "delete", "reboot"} = {}, HeldOne(r, c), KeptOne(r, c)
      PROVE  KeptOne(r, c)'
  BY <1>1, <1>3, <1>6, <1>8, IpamAssumption
     DEF Same, HeldOne, HeldFor, KeptOne, KeptBy, Creating, Removing, Unstarted, Gone, Alive, Making, CreatePcs, Idle
<1>9. ASSUME met' \cap {"create", "forward"} = {}, HeldOne(r, c), PublishedOne(r, c) PROVE PublishedOne(r, c)'
  <2>1. \A g, a : Leads(g, a)' => Leads(g, a)
    BY <1>6 DEF Leads
  <2>2. Gone(c) /\ csm[c] = "none"
    BY <1>1, <1>6, <1>9 DEF HeldOne, HeldFor, Removing
  <2>3. ForwardsOf(c) \in SUBSET Forwards
    BY DEF ForwardsOf
  <2>4. req'[r].pc = "del_release" => Unruled(c)'
    <3>1. SUFFICES ASSUME rules' = rules \ RulesOf(c, ForwardsOf(c)) PROVE Unruled(c)'
      BY <1>6 DEF Idle
    <3>2. \A g \in Forwards, a \in Addr(c) : Leads(g, a)' <=> Leads(g, a) /\ g \notin ForwardsOf(c)
      BY <1>2, <1>3, <2>3, <3>1, DropRules
    <3>3. \A g \in Forwards, a \in Addr(c) : Leads(g, a) => g \in ForwardsOf(c)
      BY <1>6, <1>9 DEF PublishedOne, Recording
    <3>4. QED
      BY <1>3, <3>2, <3>3 DEF Same, Unruled
  <2> QED
    BY <1>1, <1>3, <1>6, <1>9, <2>1, <2>2, <2>4, IpamAssumption
       DEF Same, Gone, Alive, PublishedOne, PublishedBy, Recording, Making, Idle
<1>10. SafeOne(r, c)'
  BY <1>2, <1>6, <1>7, <1>8, <1>9 DEF SafeOne
<1>11. RulesLeft(c)
  BY <1>3 DEF Same, RulesLeft
<1>12. QED
  BY <1>1, <1>2, <1>3, <1>4, <1>5, <1>10, <1>11, OneStep DEF DeleteRules, At

\* The rollback releases the address.
LEMMA RollbackReleaseSafe ==
    ASSUME SafetyInv, NEW r \in Reqs, RollbackRelease(r)
    PROVE  \E c \in Containers : SafeStep(c)
<1>1. PICK c \in Containers : c = req[r].c
  BY DEF RollbackRelease, At, SafetyInv, ContainerInv, WorksOnContainer
<1>2. SafeOne(r, c) /\ IpamInv /\ IpamTypeOK /\ OneAddress
  BY <1>1, OneNow DEF RollbackRelease, At, SafetyInv, ContainerInv, IpamInv
<1>3. /\ \A d \in Containers \ {c} : Same(d)
      /\ OneAddress'
      /\ \/ "AllocateAddr" \in req[r].flags /\ ~HasAddress(c)' /\ ForwardsOf(c)' = {} /\ Addr(c)' = {}
         \/ "AllocateAddr" \notin req[r].flags /\ Same(c)
  BY <1>1, <1>2, NoCallEffect, ReleaseEffect DEF RollbackRelease
<1>4. LocalTo(c)
  <2>1. \A f \in Forwards, a \in Subnets \X Hosts : Leads(f, a)' <=> Leads(f, a)
    BY DEF Leads, RollbackRelease
  <2>2. QED
    BY <1>1, <1>3, <2>1 DEF RollbackRelease, Goto, GotoFlag, Return, Fail, NoFault, storeVars, hostVars, runtimeVars, LocalTo, SafetyInv, ContainerInv, HostTypeOK, Request, Idle
<1>5. Moves(r)
  BY <1>1 DEF RollbackRelease, Goto, storeVars, hostVars, runtimeVars, ipamVars, At, Moves, SafetyInv, ContainerInv, HostTypeOK, Request, LifecyclePcs
<1>6. /\ rt'[c] = rt[c] /\ init'[c] = init[c] /\ ports'[c] = ports[c] /\ fifo' = fifo /\ dirs' = dirs
      /\ cgroups' = cgroups /\ csm'[c] = csm[c] /\ req[r].pc = "rb_release" /\ met \subseteq met'
      /\ req'[r].c = c /\ req'[r].flags = req[r].flags
      /\ req'[r].pc = "rb_csm" /\ rules' = rules /\ met' = met
  BY <1>1 DEF RollbackRelease, Goto, storeVars, hostVars, runtimeVars, ipamVars, At, SafetyInv, ContainerInv, HostTypeOK, Request
<1>7. ASSUME "create" \notin met', HeldOne(r, c) PROVE HeldOne(r, c)'
  BY <1>1, <1>3, <1>5, <1>6, <1>7, IpamAssumption
     DEF Same, Moves, HeldOne, HeldFor, Creating, Removing, Unstarted, Gone, Alive, Making, CreatePcs, Idle
<1>8. ASSUME "create" \notin met', met' \cap {"create", "delete", "reboot"} = {}, HeldOne(r, c), KeptOne(r, c)
      PROVE  KeptOne(r, c)'
  BY <1>1, <1>3, <1>6, <1>8, IpamAssumption
     DEF Same, HeldOne, HeldFor, KeptOne, KeptBy, Creating, Removing, Unstarted, Gone, Alive, Making, CreatePcs, Idle
<1>9. ASSUME met' \cap {"create", "forward"} = {}, HeldOne(r, c), PublishedOne(r, c) PROVE PublishedOne(r, c)'
  <2>1. \A f \in Forwards : \A a : Leads(f, a)' <=> Leads(f, a)
    BY <1>6 DEF Leads
  <2>2. Unstarted(c)
    BY <1>1, <1>6, <1>9 DEF HeldOne, HeldFor, Creating, CreatePcs
  <2> QED
    BY <1>1, <1>3, <1>6, <1>9, <2>1, <2>2 DEF Same, Unstarted, Gone, Alive, PublishedOne, PublishedBy, Recording, Making
<1>10. SafeOne(r, c)'
  BY <1>2, <1>6, <1>7, <1>8, <1>9 DEF SafeOne
<1>11. RulesLeft(c)
  BY <1>1, <1>2, <1>3, <1>6 DEF Leads, Same, RulesLeft, SafeOne, PublishedOne, PublishedBy, Unruled
<1>12. QED
  BY <1>1, <1>2, <1>3, <1>4, <1>5, <1>10, <1>11, OneStep DEF RollbackRelease, At

\* Delete releases the address.
LEMMA DeleteReleaseSafe ==
    ASSUME SafetyInv, NEW r \in Reqs, DeleteRelease(r)
    PROVE  \E c \in Containers : SafeStep(c)
<1>1. PICK c \in Containers : c = req[r].c
  BY DEF DeleteRelease, At, SafetyInv, ContainerInv, WorksOnContainer
<1>2. SafeOne(r, c) /\ IpamInv /\ IpamTypeOK /\ OneAddress
  BY <1>1, OneNow DEF DeleteRelease, At, SafetyInv, ContainerInv, IpamInv
<1>3. /\ \A d \in Containers \ {c} : Same(d)
      /\ OneAddress' /\ ~HasAddress(c)' /\ ForwardsOf(c)' = {} /\ Addr(c)' = {}
  BY <1>1, <1>2, ReleaseEffect DEF DeleteRelease
<1>4. LocalTo(c)
  <2>1. \A f \in Forwards, a \in Subnets \X Hosts : Leads(f, a)' <=> Leads(f, a)
    BY DEF Leads, DeleteRelease
  <2>2. QED
    BY <1>1, <1>3, <2>1 DEF DeleteRelease, Goto, GotoFlag, Return, Fail, NoFault, storeVars, hostVars, runtimeVars, LocalTo, SafetyInv, ContainerInv, HostTypeOK, Request, Idle
<1>5. Moves(r)
  BY <1>1 DEF DeleteRelease, Goto, storeVars, hostVars, runtimeVars, ipamVars, At, Moves, SafetyInv, ContainerInv, HostTypeOK, Request, LifecyclePcs
<1>6. /\ rt'[c] = rt[c] /\ init'[c] = init[c] /\ ports'[c] = ports[c] /\ fifo' = fifo /\ dirs' = dirs
      /\ cgroups' = cgroups /\ csm'[c] = csm[c] /\ req[r].pc = "del_release" /\ met \subseteq met'
      /\ req'[r].c = c /\ req'[r].flags = req[r].flags
      /\ req'[r].pc = "del_files" /\ rules' = rules /\ met' = met
  BY <1>1 DEF DeleteRelease, Goto, storeVars, hostVars, runtimeVars, ipamVars, At, SafetyInv, ContainerInv, HostTypeOK, Request
<1>7. ASSUME "create" \notin met', HeldOne(r, c) PROVE HeldOne(r, c)'
  BY <1>1, <1>3, <1>5, <1>6, <1>7, IpamAssumption
     DEF Same, Moves, HeldOne, HeldFor, Creating, Removing, Unstarted, Gone, Alive, Making, CreatePcs, Idle
<1>8. ASSUME "create" \notin met', met' \cap {"create", "delete", "reboot"} = {}, HeldOne(r, c), KeptOne(r, c)
      PROVE  KeptOne(r, c)'
  BY <1>1, <1>3, <1>6, <1>8, IpamAssumption
     DEF Same, HeldOne, HeldFor, KeptOne, KeptBy, Creating, Removing, Unstarted, Gone, Alive, Making, CreatePcs, Idle
<1>9. ASSUME met' \cap {"create", "forward"} = {}, HeldOne(r, c), PublishedOne(r, c) PROVE PublishedOne(r, c)'
  <2>1. Gone(c) /\ csm[c] = "none"
    BY <1>1, <1>6, <1>9 DEF HeldOne, HeldFor, Removing
  <2> QED
    BY <1>1, <1>3, <1>6, <1>9, <2>1 DEF Gone, Alive, PublishedOne, PublishedBy, Recording, Making
<1>10. SafeOne(r, c)'
  BY <1>2, <1>6, <1>7, <1>8, <1>9 DEF SafeOne
<1>11. RulesLeft(c)
  BY <1>1, <1>2, <1>3, <1>6 DEF Leads, RulesLeft, SafeOne, PublishedOne, PublishedBy, Unruled
<1>12. QED
  BY <1>1, <1>2, <1>3, <1>4, <1>5, <1>10, <1>11, OneStep DEF DeleteRelease, At

\* Create, step 11: the record of a port.
LEMMA CreateRecordSafe ==
    ASSUME SafetyInv, NEW r \in Reqs, CreateRecord(r)
    PROVE  \E c \in Containers : SafeStep(c)
<1>1. PICK c \in Containers : c = req[r].c
  BY DEF CreateRecord, At, SafetyInv, ContainerInv, WorksOnContainer
<1>2. SafeOne(r, c) /\ IpamInv /\ IpamTypeOK /\ OneAddress
  BY <1>1, OneNow DEF CreateRecord, At, SafetyInv, ContainerInv, IpamInv
<1>3. /\ \A d \in Containers \ {c} : Same(d)
      /\ OneAddress'
      /\ \/ ~HasAddress(c) /\ Same(c) /\ Goto(r, "rb_release")
         \/ \E f \in req[r].rec :
               /\ f \in Forwards /\ HasAddress(c) /\ HasAddress(c)'
               /\ ForwardsOf(c)' = ForwardsOf(c) \cup {f} /\ Addr(c)' = Addr(c)
               /\ req' = [req EXCEPT ![r].pc = "rule", ![r].rec = {}, ![r].todo = @ \ {f}]
  <2>1. CASE ~HasAddress(c) /\ Goto(r, "rb_release") /\ UNCHANGED ipamVars
    BY <1>2, <2>1, NoCallEffect
  <2>2. ASSUME NEW f \in req[r].rec, SetForwardInfo(c, f),
               req' = [req EXCEPT ![r].pc = "rule", ![r].rec = {}, ![r].todo = @ \ {f}]
        PROVE  <1>3!1 /\ <1>3!2 /\ <1>3!3
    <3>1. f \in Forwards
      BY DEF SafetyInv, ContainerInv, Request
    <3>2. QED
      BY <1>2, <2>2, <3>1, ForwardEffect
  <2>3. QED
    BY <1>1, <2>1, <2>2 DEF CreateRecord
<1>4. LocalTo(c)
  <2>1. \A f \in Forwards, a \in Subnets \X Hosts : Leads(f, a)' <=> Leads(f, a)
    BY DEF Leads, CreateRecord
  <2>2. QED
    BY <1>1, <1>3, <2>1 DEF CreateRecord, Goto, GotoFlag, Return, Fail, NoFault, storeVars, hostVars, runtimeVars, LocalTo, SafetyInv, ContainerInv, HostTypeOK, Request, Idle
<1>5. Moves(r)
  BY <1>1 DEF CreateRecord, Goto, storeVars, hostVars, runtimeVars, ipamVars, At, Moves, SafetyInv, ContainerInv, HostTypeOK, Request, LifecyclePcs
<1>6. /\ rt'[c] = rt[c] /\ init'[c] = init[c] /\ ports'[c] = ports[c] /\ fifo' = fifo /\ dirs' = dirs
      /\ cgroups' = cgroups /\ csm'[c] = csm[c] /\ req[r].pc = "record" /\ met \subseteq met'
      /\ req'[r].c = c /\ req'[r].flags = req[r].flags
      /\ rules' = rules /\ met' = met
      /\ \/ ~HasAddress(c) /\ req'[r].pc = "rb_release" /\ req'[r].todo = req[r].todo /\ Same(c)
         \/ /\ HasAddress(c)' /\ Addr(c)' = Addr(c) /\ req'[r].pc = "rule"
            /\ \E f \in req[r].rec : ForwardsOf(c)' = ForwardsOf(c) \cup {f} /\ req'[r].todo = req[r].todo \ {f}
  BY <1>1, <1>3 DEF CreateRecord, Goto, storeVars, hostVars, runtimeVars, At, SafetyInv, ContainerInv, HostTypeOK, Request
<1>7. ASSUME "create" \notin met', HeldOne(r, c) PROVE HeldOne(r, c)'
  BY <1>1, <1>3, <1>5, <1>6, <1>7, IpamAssumption
     DEF Same, Moves, HeldOne, HeldFor, Creating, Removing, Unstarted, Gone, Alive, Making, CreatePcs, Idle
<1>8. ASSUME "create" \notin met', met' \cap {"create", "delete", "reboot"} = {}, HeldOne(r, c), KeptOne(r, c)
      PROVE  KeptOne(r, c)'
  BY <1>1, <1>3, <1>6, <1>8, IpamAssumption
     DEF Same, HeldOne, HeldFor, KeptOne, KeptBy, Creating, Removing, Unstarted, Gone, Alive, Making, CreatePcs, Idle
<1>9. ASSUME met' \cap {"create", "forward"} = {}, HeldOne(r, c), PublishedOne(r, c) PROVE PublishedOne(r, c)'
  <2>1. HasAddress(c)
    BY <1>1, <1>6, <1>9 DEF HeldOne, HeldFor, Making
  <2>2. PICK f \in req[r].rec : ForwardsOf(c)' = ForwardsOf(c) \cup {f} /\ req'[r].todo = req[r].todo \ {f}
    BY <1>6, <2>1
  <2>3. \A g, a : Leads(g, a)' <=> Leads(g, a)
    BY <1>6 DEF Leads
  <2>4. Unstarted(c)
    BY <1>1, <1>6, <1>9 DEF HeldOne, HeldFor, Creating, CreatePcs
  <2>5. /\ req[r].todo \subseteq ports[c] /\ ForwardsOf(c) = ports[c] \ req[r].todo /\ Ruled(c, ForwardsOf(c))
        /\ req[r].rec = {f} /\ f \in req[r].todo /\ Ruled(c, {f})
    <3>1. PublishedBy(r, c) /\ req[r].pc = "record"
      BY <1>1, <1>6, <1>9 DEF PublishedOne
    <3>2. req[r].rec \subseteq req[r].todo /\ (\A g, h \in req[r].rec : g = h) /\ Ruled(c, req[r].rec)
      BY <3>1 DEF PublishedBy
    <3>3. req[r].rec = {f}
      BY <2>2, <3>2
    <3>4. QED
      BY <3>1, <3>2, <3>3 DEF PublishedBy, Making
  <2>6. PublishedBy(r, c)'
    BY <1>1, <1>6, <2>1, <2>2, <2>3, <2>5 DEF Ruled, PublishedBy, Making
  <2> QED
    BY <1>1, <1>6, <1>9, <2>1, <2>2, <2>3, <2>4, <2>5, <2>6 DEF Unstarted, Gone, Alive, PublishedOne, Recording
<1>10. SafeOne(r, c)'
  BY <1>2, <1>6, <1>7, <1>8, <1>9 DEF SafeOne
<1>11. RulesLeft(c)
  BY <1>6 DEF Same, RulesLeft
<1>12. QED
  BY <1>1, <1>2, <1>3, <1>4, <1>5, <1>10, <1>11, OneStep DEF CreateRecord, At

\* Create, step 5: the address.
LEMMA CreateAllocateSafe ==
    ASSUME SafetyInv, NEW r \in Reqs, CreateAllocate(r)
    PROVE  \E c \in Containers : SafeStep(c)
<1>1. PICK c \in Containers : c = req[r].c
  BY DEF CreateAllocate, At, SafetyInv, ContainerInv, WorksOnContainer
<1>2. SafeOne(r, c) /\ IpamInv /\ IpamTypeOK /\ OneAddress
  BY <1>1, OneNow DEF CreateAllocate, At, SafetyInv, ContainerInv, IpamInv
<1>3. /\ \A d \in Containers \ {c} : Same(d)
      /\ OneAddress' /\ ~HasAddress(c) /\ csm[c] = "none"
      /\ \/ Same(c) /\ req' = [req EXCEPT ![r] = Idle]
         \/ /\ HasAddress(c)' /\ ForwardsOf(c)' = {} /\ (\A d \in Containers : Addr(c)' \cap Addr(d) = {})
            /\ req' = [req EXCEPT ![r] = Idle] /\ "gateway" \in met'
         \/ /\ HasAddress(c)' /\ ForwardsOf(c)' = {} /\ (\A d \in Containers : Addr(c)' \cap Addr(d) = {})
            /\ req' = [req EXCEPT ![r].pc = "store", ![r].flags = @ \cup {"AllocateAddr"}]
  <2>1. ~HasAddress(c) /\ csm[c] = "none"
    BY <1>1 DEF CreateAllocate, At, SafetyInv, ContainerInv, FreshUntilAllocated
  <2>2. CASE UNCHANGED ipamVars /\ req' = [req EXCEPT ![r] = Idle]
    BY <1>2, <2>1, <2>2, NoCallEffect
  <2>3. ASSUME NEW b \in Bridges, Allocate(c, b),
               \/ req' = [req EXCEPT ![r].pc = "store", ![r].flags = @ \cup {"AllocateAddr"}]
               \/ req' = [req EXCEPT ![r] = Idle] /\ "gateway" \in met'
        PROVE  <1>3!1 /\ <1>3!2 /\ <1>3!3
    BY <1>2, <2>1, <2>3, AllocateEffect
  <2>4. QED
    BY <1>1, <2>1, <2>2, <2>3 DEF CreateAllocate, GotoFlag, Return, Fail
<1>4. LocalTo(c)
  <2>1. \A f \in Forwards, a \in Subnets \X Hosts : Leads(f, a)' <=> Leads(f, a)
    BY DEF Leads, CreateAllocate
  <2>2. QED
    BY <1>1, <1>3, <2>1 DEF CreateAllocate, Goto, GotoFlag, Return, Fail, NoFault, storeVars, hostVars, runtimeVars, LocalTo, SafetyInv, ContainerInv, HostTypeOK, Request, Idle
<1>5. Moves(r)
  BY <1>1 DEF CreateAllocate, GotoFlag, Return, storeVars, hostVars, runtimeVars, ipamVars, At, Moves, SafetyInv, ContainerInv, HostTypeOK, Request, LifecyclePcs
<1>6. /\ rt'[c] = rt[c] /\ init'[c] = init[c] /\ ports'[c] = ports[c] /\ fifo' = fifo /\ dirs' = dirs
      /\ cgroups' = cgroups /\ csm'[c] = csm[c] /\ req[r].pc = "allocate" /\ met \subseteq met'
      /\ rules' = rules
      /\ \/ Same(c) /\ req'[r] = Idle
         \/ /\ HasAddress(c)' /\ ForwardsOf(c)' = {} /\ (\A d \in Containers : Addr(c)' \cap Addr(d) = {})
            /\ req'[r] = Idle /\ "gateway" \in met'
         \/ /\ HasAddress(c)' /\ ForwardsOf(c)' = {} /\ (\A d \in Containers : Addr(c)' \cap Addr(d) = {})
            /\ req'[r].c = c /\ req'[r].todo = req[r].todo /\ req'[r].pc = "store"
            /\ req'[r].flags = req[r].flags \cup {"AllocateAddr"}
  BY <1>1, <1>3 DEF CreateAllocate, Fail, NoFault, storeVars, hostVars, runtimeVars, At, SafetyInv, ContainerInv, HostTypeOK, Request
<1>7. ASSUME "create" \notin met', HeldOne(r, c) PROVE HeldOne(r, c)'
  BY <1>1, <1>3, <1>5, <1>6, <1>7, IpamAssumption
     DEF Same, Moves, HeldOne, HeldFor, Creating, Removing, Unstarted, Gone, Alive, Making, CreatePcs, Idle
<1>8. ASSUME "create" \notin met', met' \cap {"create", "delete", "reboot"} = {}, HeldOne(r, c), KeptOne(r, c)
      PROVE  KeptOne(r, c)'
  BY <1>1, <1>3, <1>6, <1>8, IpamAssumption
     DEF Same, HeldOne, HeldFor, KeptOne, KeptBy, Creating, Removing, Unstarted, Gone, Alive, Making, CreatePcs, Idle
<1>9. ASSUME met' \cap {"create", "forward"} = {}, HeldOne(r, c), PublishedOne(r, c) PROVE PublishedOne(r, c)'
  <2>1. \A g, a : Leads(g, a)' <=> Leads(g, a)
    BY <1>6 DEF Leads
  <2>2. Unstarted(c)
    BY <1>1, <1>6, <1>9 DEF HeldOne, HeldFor, Creating, CreatePcs
  <2>3. CASE Same(c) /\ req'[r] = Idle
    BY <1>6, <1>9, <2>1, <2>2, <2>3, IpamAssumption DEF Same, Unstarted, Gone, Alive, PublishedOne, Recording, Idle
  <2>4. CASE ~(Same(c) /\ req'[r] = Idle)
    <3>1. RulesHeld /\ met \cap {"create", "forward"} = {} /\ Addr(c)' \subseteq Subnets \X Hosts
      BY <1>6, <1>9 DEF SafetyInv, Addr
    <3>2. Unruled(c)'
      BY <1>6, <2>1, <2>4, <3>1 DEF Unruled, RulesHeld
    <3>3. req[r].todo = ports[c]
      BY <1>1, <1>6, <1>9 DEF PublishedOne, PublishedBy
    <3>4. ASSUME req'[r] # Idle PROVE PublishedBy(r, c)'
      BY <1>6, <2>4, <3>2, <3>3, <3>4 DEF PublishedBy, Ruled
    <3>5. CASE req'[r] = Idle
      BY <1>6, <2>2, <2>4, <3>2, <3>5, IpamAssumption DEF Unstarted, Gone, Alive, PublishedOne, Unruled, Idle
    <3>6. CASE req'[r] # Idle
      BY <1>6, <2>2, <2>4, <3>2, <3>4, <3>6 DEF Unstarted, Gone, Alive, PublishedOne, Unruled
    <3>7. QED
      BY <3>5, <3>6
  <2> QED
    BY <2>3, <2>4
<1>10. SafeOne(r, c)'
  BY <1>2, <1>6, <1>7, <1>8, <1>9 DEF SafeOne
<1>11. RulesLeft(c)
  BY <1>2, <1>3, AddrIs DEF RulesLeft
<1>12. QED
  BY <1>1, <1>2, <1>3, <1>4, <1>5, <1>10, <1>11, OneStep DEF CreateAllocate, At

\* Create, steps 1 to 4: the container is new, and r's alone.
LEMMA CreateBeginSafe ==
    ASSUME SafetyInv, NEW r \in Reqs, CreateBegin(r)
    PROVE  \E c \in Containers : SafeStep(c)
<1>1. PICK c \in Containers, n \in Names, P \in SUBSET Forwards :
          /\ Fresh(c)
          /\ req' = [req EXCEPT ![r] = [Idle EXCEPT !.pc = "allocate", !.c = c, !.name = n, !.todo = P]]
          /\ ports' = [ports EXCEPT ![c] = P]
          /\ dirs' = dirs \ {c}
  BY DEF CreateBegin
<1>2. UNCHANGED ipamVars /\ rules' = rules /\ met' = met
  BY DEF CreateBegin
<1>3. /\ csm'[c] = "none" /\ rt'[c] = "none" /\ init'[c] = "none" /\ c \notin cgroups' /\ ports'[c] = P /\ fifo' = fifo
      /\ csm[c] = "none" /\ rt[c] = "none" /\ init[c] = "none" /\ ~HasAddress(c) /\ \A q \in Reqs : req[q].c # c
  BY <1>1 DEF Fresh, Busy, Alive, CreateBegin, storeVars, runtimeVars, SafetyInv, ContainerInv, HostTypeOK
<1>4. /\ \A q \in Reqs \ {r} : req'[q] = req[q]
      /\ req'[r].pc = "allocate" /\ req'[r].c = c /\ req'[r].todo = P /\ req[r].c = NoContainer
  <2> DEFINE new == [Idle EXCEPT !.pc = "allocate", !.c = c, !.name = n, !.todo = P]
  <2>1. new.pc = "allocate" /\ new.c = c /\ new.todo = P
    BY DEF Idle
  <2>2. req'[r] = new /\ \A q \in Reqs \ {r} : req'[q] = req[q]
    BY <1>1 DEF SafetyInv, ContainerInv
  <2>3. req[r].c = NoContainer
    BY DEF CreateBegin, At, SafetyInv, Resting, Idle
  <2>4. QED
    BY <2>1, <2>2, <2>3
<1>5. Addr(c) = {} /\ ForwardsOf(c) = {}
  BY <1>3, AddrIs DEF SafetyInv, ContainerInv, IpamInv, HasAddress, ForwardsOf
<1>6. LocalTo(c)
  BY <1>1, <1>2, <1>4, Quiet DEF CreateBegin, storeVars, runtimeVars, LocalTo, SafetyInv, ContainerInv, HostTypeOK
<1>7. HeldAt(c)'
  <2>1. ASSUME "create" \notin met PROVE c \notin fifo
    BY <1>3, <2>1 DEF SafetyInv, HeldAt, Unstarted, Gone
  <2>2. QED
    BY <1>2, <1>3, <1>4, <2>1, Quiet DEF HeldAt, HeldFor, Creating, Removing, Unstarted, Gone, Alive, Making, CreatePcs
<1>8. KeptAt(c)'
  BY <1>2, <1>3, <1>4, Quiet DEF KeptAt, KeptBy, Owned, Creating, Removing, Alive, Making, CreatePcs
<1>9. PublishedAt(c)'
  BY <1>2, <1>3, <1>4, <1>5, Quiet DEF PublishedAt, PublishedBy, Making
<1>10. OneLifecycle' /\ Resting'
  BY <1>4 DEF SafetyInv, OneLifecycle, Resting, LifecyclePcs
<1>11. QED
  BY <1>2, <1>6, <1>7, <1>8, <1>9, <1>10, Quiet DEF SafeStep, SafeAt, SafetyInv

\* Start, Stop and Delete begin where no other lifecycle request works; a
\* Start and a Stop, where no Create does either.
LEMMA LifecycleBeginSafe ==
    ASSUME SafetyInv, NEW r \in Reqs, NEW c \in Containers, NEW pc, NEW force, LifecycleBegin(r, c, pc, force),
           \/ pc = "del_runtime"
           \/ pc \in {"st_start", "stop"} /\ csm[c] \in {"created", "running"}
           \/ pc = "st_create" /\ csm[c] = "stopped"
    PROVE  SafeStep(c)
<1>1. /\ UNCHANGED ipamVars /\ rules' = rules /\ met' = met /\ csm' = csm /\ rt' = rt /\ init' = init /\ fifo' = fifo
      /\ dirs' = dirs /\ cgroups' = cgroups /\ ports' = ports
  BY DEF LifecycleBegin, storeVars, hostVars, runtimeVars
<1>2. /\ \A q \in Reqs \ {r} : req'[q] = req[q]
      /\ req'[r].pc = pc /\ req'[r].c = c /\ req[r].c = NoContainer /\ req[r].pc = "idle"
      /\ \A q \in Reqs : req[q].c = c => req[q].pc \notin LifecyclePcs
  BY DEF LifecycleBegin, LifecycleBusy, At, SafetyInv, ContainerInv, Resting, Idle
<1>3. HeldAt(c) /\ KeptAt(c) /\ PublishedAt(c)
  BY DEF SafetyInv
<1>4. LocalTo(c)
  BY <1>1, <1>2, Quiet DEF LocalTo
<1>5. \A q \in Reqs \ {r} : req'[q].c = c <=> req[q].c = c
  BY <1>2
<1>6. HeldAt(c)'
  <2>1. SUFFICES ASSUME "create" \notin met PROVE \A q \in Reqs : req'[q].c = c => HeldFor(q, c)'
    BY <1>1, <1>3, Quiet DEF HeldAt, Unstarted, Gone, Alive
  <2>2. HeldFor(r, c)'
    BY <1>1, <1>2, <1>3, <2>1 DEF HeldAt, HeldFor, Creating, Removing, Making, CreatePcs, Alive
  <2>3. ASSUME NEW q \in Reqs, q # r, req[q].c = c PROVE HeldFor(q, c)'
    <3>1. HeldFor(q, c)
      BY <1>3, <2>1, <2>3 DEF HeldAt
    <3>2. Creating(q) => pc = "del_runtime"
      BY <3>1 DEF HeldFor, Unstarted
    <3>3. QED
      BY <1>1, <1>2, <2>3, <3>1, <3>2, Quiet DEF HeldFor, Creating, Removing, Unstarted, Gone, Alive
  <2>4. QED
    BY <1>5, <2>2, <2>3
<1>7. KeptAt(c)'
  BY <1>1, <1>2, <1>3, <1>5, IpamAssumption, Quiet DEF KeptAt, KeptBy, Owned, Creating, Removing, Alive, Making, CreatePcs
<1>8. PublishedAt(c)'
  <2>1. SUFFICES ASSUME met \cap {"create", "forward"} = {} PROVE PublishedAt(c)'
    BY <1>1 DEF PublishedAt
  <2>2. \A q \in Reqs : req'[q].c = c => PublishedBy(q, c)'
    BY <1>1, <1>2, <1>3, <1>5, <2>1, Quiet DEF PublishedAt, PublishedBy, Making
  <2>3. \A q \in Reqs, f \in Forwards : Recording(q, c, f) => Recording(q, c, f)'
    BY <1>2 DEF Recording
  <2>4. Restoring(c) => Restoring(c)'
    BY <1>2 DEF Restoring
  <2>5. QED
    BY <1>1, <1>3, <2>1, <2>2, <2>3, <2>4, Quiet DEF PublishedAt
<1>9. OneLifecycle' /\ Resting'
  BY <1>2 DEF SafetyInv, OneLifecycle, Resting
<1>10. QED
  BY <1>1, <1>4, <1>6, <1>7, <1>8, <1>9, Quiet DEF SafeStep, SafeAt, SafetyInv

\* Delete: droplet delete refuses a container that a Create still works on;
\* one that it deletes is r's alone.
LEMMA DeleteRuntimeSafe ==
    ASSUME SafetyInv, NEW r \in Reqs, DeleteRuntime(r)
    PROVE  \E c \in Containers : SafeStep(c)
<1>1. PICK c \in Containers : c = req[r].c
  BY DEF DeleteRuntime, At, SafetyInv, ContainerInv, WorksOnContainer
<1>2. UNCHANGED ipamVars /\ rules' = rules /\ ports' = ports /\ met \subseteq met' /\ req[r].pc = "del_runtime"
  BY DEF DeleteRuntime, At, Fail, NoFault
<1>3. HeldAt(c) /\ KeptAt(c) /\ PublishedAt(c)
  BY DEF SafetyInv
<1>4. LocalTo(c)
  BY <1>1, <1>2, Quiet DEF DeleteRuntime, Goto, Return, storeVars, hostVars, runtimeVars, LocalTo, SafetyInv, ContainerInv, HostTypeOK, Request, Idle
<1>5. Moves(r)
  BY <1>1, <1>2 DEF DeleteRuntime, Goto, Return, Moves, SafetyInv, ContainerInv, Request, LifecyclePcs
<1>6. OneLifecycle' /\ Resting'
  <2>1. \A p1 \in Reqs : req'[p1].pc \in LifecyclePcs => req[p1].pc \in LifecyclePcs /\ req[p1].c = req'[p1].c
    BY <1>5 DEF Moves, Idle, LifecyclePcs
  <2>2. QED
    BY <1>5, <2>1 DEF Moves, SafetyInv, OneLifecycle, Resting
<1>7. CASE DropletDeleteAllowed(c, req[r].force) /\ c \in dirs
  <2> DEFINE kill == ShouldKill(c, req[r].force)
  <2>1. /\ csm'[c] = "none"
        /\ init'[c] = IF kill THEN "none" ELSE init[c]
        /\ \/ /\ rt'[c] = "none" /\ c \notin fifo' /\ (c \in cgroups' => Alive(c) /\ ~kill)
              /\ req'[r].c = c /\ req'[r].pc = "del_rules"
           \/ /\ "delete" \in met' /\ req'[r] = Idle
              /\ rt'[c] \in {"none", "stopped"} \/ (rt'[c] = rt[c] /\ ~kill)
    BY <1>1, <1>7 DEF DeleteRuntime, Goto, Return, Fail, SafetyInv, ContainerInv, HostTypeOK, Request
  <2>2. RuntimeStatus(c) # "none"
    BY <1>7 DEF DropletDeleteAllowed
  <2>3. ASSUME "create" \notin met
        PROVE  /\ init'[c] = "none" /\ (Alive(c) => kill) /\ HasAddress(c) /\ rt[c] # "none"
               /\ \A q \in Reqs \ {r} : req'[q].c # c
    <3>1. rt[c] # "none" /\ HasAddress(c) /\ (Alive(c) => rt[c] \in {"created", "running"})
      BY <1>3, <2>2, <2>3 DEF RuntimeStatus, HeldAt, Unstarted, Gone
    <3>2. Alive(c) => kill
      BY <1>7, <3>1 DEF DropletDeleteAllowed, ShouldKill, RuntimeStatus
    <3>3. ASSUME NEW q \in Reqs, q # r, req[q].c = c PROVE FALSE
      <4>1. ~Creating(q)
        BY <1>3, <2>3, <3>1, <3>3 DEF HeldAt, HeldFor, Unstarted, Gone
      <4>2. req[q].pc \notin LifecyclePcs
        BY <1>1, <1>2, <3>3 DEF SafetyInv, OneLifecycle, LifecyclePcs
      <4>3. req[q].pc = "idle"
        BY <4>1, <4>2 DEF Creating, SafetyInv, ContainerInv, Request
      <4>4. QED
        BY <3>3, <4>3, IpamAssumption DEF SafetyInv, Resting, Idle
    <3>4. init'[c] = "none"
      BY <2>1, <3>2 DEF Alive
    <3>5. QED
      BY <1>5, <3>1, <3>2, <3>3, <3>4 DEF Moves
  <2>4. HeldAt(c)'
    <3>1. CASE "create" \notin met'
      <4>1. "create" \notin met
        BY <1>2, <3>1
      <4>2. req'[r].c = c => Removing(r)' /\ Gone(c)' /\ ~Creating(r)' /\ req'[r].pc \notin Making /\ req'[r].pc # "st_create"
        BY <2>1, <2>3, <4>1, IpamAssumption DEF Removing, Gone, Alive, Creating, CreatePcs, Making, Idle
      <4>3. QED
        BY <1>2, <2>1, <2>3, <4>1, <4>2, Quiet DEF HeldAt, HeldFor, Alive
    <3>2. QED
      BY <3>1 DEF HeldAt
  <2>5. KeptAt(c)'
    <3>1. CASE met' \cap {"create", "delete", "reboot"} = {}
      <4>1. Removing(r)' /\ ~Creating(r)' /\ req'[r].pc # "del_files" /\ req'[r].c = c
        BY <2>1, <3>1 DEF Removing, Creating, CreatePcs
      <4>2. c \notin cgroups'
        BY <1>2, <2>1, <2>3, <3>1
      <4>3. Owned(c)'
        BY <4>1 DEF Owned
      <4>4. \A q \in Reqs : req'[q].c = c => q = r
        BY <1>2, <2>3, <3>1
      <4>5. KeptBy(r, c)'
        BY <4>1, <4>2 DEF KeptBy
      <4>6. QED
        BY <4>3, <4>4, <4>5 DEF KeptAt
    <3>2. QED
      BY <3>1 DEF KeptAt
  <2>6. PublishedAt(c)'
    <3>1. CASE met' \cap {"create", "forward"} = {}
      <4>1. met \cap {"create", "forward"} = {} /\ "create" \notin met
        BY <1>2, <3>1
      <4>2. \A q \in Reqs : req'[q].c = c => PublishedBy(q, c)'
        BY <2>1, <2>3, <4>1, IpamAssumption DEF PublishedBy, Making, Idle
      <4>3. \A q \in Reqs : \A f : ~Recording(q, c, f)
        <5>1. \A q \in Reqs \ {r} : req[q].c # c
          BY <1>5, <2>3, <4>1 DEF Moves
        <5>2. QED
          BY <1>2, <5>1 DEF Recording
      <4>4. QED
        BY <1>2, <1>3, <2>1, <2>3, <4>1, <4>2, <4>3, Quiet DEF PublishedAt
    <3>2. QED
      BY <3>1 DEF PublishedAt
  <2>7. QED
    BY <1>2, <1>4, <1>6, <2>4, <2>5, <2>6, Quiet DEF SafeStep, SafeAt, SafetyInv
<1>8. CASE ~(DropletDeleteAllowed(c, req[r].force) /\ c \in dirs)
  <2>1. /\ csm' = csm /\ rt' = rt /\ init' = init /\ fifo' = fifo /\ dirs' = dirs /\ cgroups' = cgroups /\ met' = met
        /\ req'[r] = Idle
    BY <1>1, <1>8 DEF DeleteRuntime, Return, storeVars, hostVars, runtimeVars, SafetyInv, ContainerInv
  <2>2. \A q \in Reqs : req'[q].c = c => req[q].c = c /\ req'[q] = req[q]
    BY <1>5, <2>1, IpamAssumption DEF Moves, Idle
  <2>3. \A q \in Reqs : req[q].c = c => q = r \/ req'[q] = req[q]
    BY <1>5 DEF Moves
  <2>4. HeldAt(c)'
    BY <1>2, <1>3, <2>1, <2>2, <2>3, Quiet DEF HeldAt, HeldFor, Creating, Removing, Unstarted, Gone, Alive
  <2>5. Owned(c) => Owned(c)'
    BY <1>2, <2>2, <2>3 DEF Owned, Creating, Removing, CreatePcs
  <2>6. KeptAt(c)'
    BY <1>2, <1>3, <2>1, <2>2, <2>5, Quiet DEF KeptAt, KeptBy, Creating, Removing, Alive
  <2>7. PublishedAt(c)'
    <3>1. \A q \in Reqs, f \in Forwards : Recording(q, c, f) => Recording(q, c, f)'
      BY <1>2, <2>3 DEF Recording
    <3>2. Restoring(c) => Restoring(c)'
      BY <1>2, <2>3 DEF Restoring
    <3>3. \A q \in Reqs : req'[q].c = c => (PublishedBy(q, c) => PublishedBy(q, c)')
      BY <1>2, <2>1, <2>2, Quiet DEF PublishedBy
    <3>4. QED
      BY <1>2, <1>3, <2>1, <2>2, <3>1, <3>2, <3>3, Quiet DEF PublishedAt
  <2>8. QED
    BY <1>2, <1>4, <1>6, <2>4, <2>6, <2>7, Quiet DEF SafeStep, SafeAt, SafetyInv
<1>9. QED
  BY <1>7, <1>8

\* The init process ends.
LEMMA WorkloadExitSafe ==
    ASSUME SafetyInv, NEW c \in Containers, WorkloadExit(c)
    PROVE  SafeStep(c)
<1>1. /\ UNCHANGED ipamVars /\ rules' = rules /\ met' = met /\ csm' = csm /\ fifo' = fifo /\ req' = req
      /\ dirs' = dirs /\ cgroups' = cgroups /\ ports' = ports
      /\ init[c] # "none" /\ init'[c] = "none" /\ rt'[c] = (IF rt[c] = "none" THEN "none" ELSE "stopped")
  BY DEF WorkloadExit, Alive, storeVars, hostVars, SafetyInv, ContainerInv, HostTypeOK
<1>2. HeldAt(c) /\ KeptAt(c) /\ PublishedAt(c)
  BY DEF SafetyInv
<1>3. LocalTo(c)
  BY <1>1, Quiet DEF WorkloadExit, LocalTo, SafetyInv, ContainerInv, HostTypeOK
<1>4. HeldAt(c)'
  BY <1>1, <1>2, Quiet DEF HeldAt, HeldFor, Creating, Removing, Unstarted, Gone, Alive
<1>5. KeptAt(c)'
  BY <1>1, <1>2, Quiet DEF KeptAt, KeptBy, Owned, Creating, Removing, Alive
<1>6. PublishedAt(c)'
  BY <1>1, <1>2, Quiet DEF PublishedAt, PublishedBy, Recording, Restoring
<1>7. OneLifecycle' /\ Resting'
  BY <1>1 DEF SafetyInv, OneLifecycle, Resting
<1>8. QED
  BY <1>1, <1>3, <1>4, <1>5, <1>6, <1>7, Quiet DEF SafeStep, SafeAt, SafetyInv

\* The monitor records a dead container as stopped.
LEMMA MonitorDownSafe ==
    ASSUME SafetyInv, NEW c \in Containers, MonitorDown(c)
    PROVE  SafeStep(c)
<1>1. /\ UNCHANGED ipamVars /\ rules' = rules /\ met' = met /\ fifo' = fifo /\ req' = req
      /\ dirs' = dirs /\ cgroups' = cgroups /\ ports' = ports /\ rt' = rt /\ init' = init
      /\ init[c] = "none" /\ csm[c] \in {"created", "running"} /\ csm'[c] = "stopped"
  BY DEF MonitorDown, Alive, hostVars, runtimeVars, SafetyInv, ContainerInv, HostTypeOK
<1>2. HeldAt(c) /\ KeptAt(c) /\ PublishedAt(c)
  BY DEF SafetyInv
<1>3. LocalTo(c)
  BY <1>1, Quiet DEF MonitorDown, LocalTo, SafetyInv, ContainerInv, HostTypeOK
<1>4. HeldAt(c)'
  BY <1>1, <1>2, Quiet DEF HeldAt, HeldFor, Creating, Removing, Unstarted, Gone, Alive
<1>5. KeptAt(c)'
  BY <1>1, <1>2, Quiet DEF KeptAt, KeptBy, Owned, Creating, Removing, Alive
<1>6. PublishedAt(c)'
  BY <1>1, <1>2, Quiet DEF PublishedAt, PublishedBy, Recording, Restoring
<1>7. OneLifecycle' /\ Resting'
  BY <1>1 DEF SafetyInv, OneLifecycle, Resting
<1>8. QED
  BY <1>1, <1>3, <1>4, <1>5, <1>6, <1>7, Quiet DEF SafeStep, SafeAt, SafetyInv

\* The host reboots: of every container there is only what is on disk.
LEMMA RebootSafe ==
    ASSUME SafetyInv, ContainerInv', Reboot
    PROVE  SafetyInv'
<1>1. /\ UNCHANGED ipamVars /\ csm' = csm /\ ports' = ports /\ rt' = rt /\ fifo' = fifo /\ rules' = {}
      /\ "reboot" \in met' /\ met \subseteq met'
      /\ \A r \in Reqs : req'[r] = Idle
      /\ \A c \in Containers : init'[c] = "none"
  BY DEF Reboot, Fail, storeVars
<1>2. (\A d : Same(d)) /\ OneAddress'
  BY <1>1, NoCallEffect DEF SafetyInv
<1>3. Idle.pc = "idle" /\ Idle.c = NoContainer
  BY DEF Idle
<1>4. OneLifecycle' /\ Resting'
  BY <1>1, <1>3 DEF OneLifecycle, Resting, LifecyclePcs
<1>5. \A f, a : ~Leads(f, a)'
  BY <1>1 DEF Leads
<1>6. RulesHeld'
  BY <1>5 DEF RulesHeld
<1>7. ASSUME NEW c \in Containers PROVE HeldAt(c)' /\ KeptAt(c)' /\ PublishedAt(c)'
  <2>1. HeldAt(c) /\ PublishedAt(c) /\ Same(c)
    BY <1>2 DEF SafetyInv
  <2>2. \A r \in Reqs : req'[r].c # c
    BY <1>1, <1>3, IpamAssumption
  <2>3. HeldAt(c)'
    BY <1>1, <2>1, <2>2 DEF HeldAt, Unstarted, Gone, Alive, Same
  <2>4. KeptAt(c)'
    BY <1>1 DEF KeptAt
  <2>5. PublishedAt(c)'
    BY <1>1, <1>5, <2>1, <2>2 DEF PublishedAt, Same
  <2>6. QED
    BY <2>3, <2>4, <2>5
<1>8. QED
  BY <1>2, <1>4, <1>6, <1>7 DEF SafetyInv

\* A step that changes nothing keeps the invariant.
LEMMA StutterSafe ==
    ASSUME SafetyInv, ContainerInv', UNCHANGED cvars
    PROVE  SafetyInv'
<1>1. /\ UNCHANGED ipamVars /\ rules' = rules /\ met' = met /\ csm' = csm /\ rt' = rt /\ init' = init /\ fifo' = fifo
      /\ dirs' = dirs /\ cgroups' = cgroups /\ ports' = ports /\ req' = req
  BY DEF cvars, ipamVars
<1>2. (\A d : Same(d)) /\ OneAddress'
  BY <1>1, NoCallEffect DEF SafetyInv
<1>3. OneLifecycle' /\ Resting'
  BY <1>1 DEF SafetyInv, OneLifecycle, Resting
<1>4. \A f, a : Leads(f, a)' <=> Leads(f, a)
  BY <1>1 DEF Leads
<1>5. RulesHeld'
  BY <1>1, <1>2, <1>4 DEF SafetyInv, RulesHeld, Same
<1>6. ASSUME NEW c \in Containers PROVE HeldAt(c)' /\ KeptAt(c)' /\ PublishedAt(c)'
  <2>1. HeldAt(c) /\ KeptAt(c) /\ PublishedAt(c)
    BY DEF SafetyInv
  <2>2. HeldAt(c)'
    BY <1>1, <2>1, Quiet DEF HeldAt, HeldFor, Creating, Removing, Unstarted, Gone, Alive
  <2>3. KeptAt(c)'
    BY <1>1, <2>1, Quiet DEF KeptAt, KeptBy, Owned, Creating, Removing, Alive
  <2>4. PublishedAt(c)'
    BY <1>1, <2>1, Quiet DEF PublishedAt, PublishedBy, Recording, Restoring
  <2>5. QED
    BY <2>2, <2>3, <2>4
<1>7. QED
  BY <1>2, <1>3, <1>5, <1>6 DEF SafetyInv

-----------------------------------------------------------------------------
(***************************************************************************)
(* The invariant and the theorems                                           *)
(***************************************************************************)
LEMMA SafeStepKeeps ==
    ASSUME SafetyInv, ContainerInv', NEW c0 \in Containers, SafeStep(c0)
    PROVE  SafetyInv'
<1>1. ASSUME NEW c \in Containers PROVE HeldAt(c)' /\ KeptAt(c)' /\ PublishedAt(c)'
  BY <1>1, LocalKeeps DEF SafeStep, SafeAt
<1>2. RulesHeld'
  <2>1. SUFFICES ASSUME met' \cap {"create", "forward"} = {},
                        NEW f \in Forwards, NEW a \in Subnets \X Hosts, Leads(f, a)'
                 PROVE  \E c \in Containers : a \in Addr(c)'
    BY DEF RulesHeld
  <2>2. CASE a \in Addr(c0)
    BY <2>1, <2>2 DEF SafeStep, RulesLeft
  <2>3. CASE a \notin Addr(c0)
    <3>1. Leads(f, a) /\ met \cap {"create", "forward"} = {}
      BY <2>1, <2>3 DEF SafeStep, LocalTo
    <3>2. PICK c \in Containers : a \in Addr(c)
      BY <3>1 DEF SafetyInv, RulesHeld
    <3>3. Same(c)
      BY <2>3, <3>2 DEF SafeStep, LocalTo
    <3>4. QED
      BY <3>2, <3>3 DEF Same
  <2>4. QED
    BY <2>2, <2>3
<1>3. QED
  BY <1>1, <1>2 DEF SafetyInv, SafeStep

\* The invariant holds at the start.
LEMMA SafetyInitInv == ContainerInit => SafetyInv
<1> SUFFICES ASSUME ContainerInit PROVE SafetyInv
  OBVIOUS
<1>1. ContainerInv
  BY ContainerInitInv
<1>2. \A r \in Reqs : req[r] = Idle /\ req[r].pc = "idle" /\ req[r].c = NoContainer
  BY DEF ContainerInit, Idle
<1>3. \A b \in Bridges, h \in Hosts : HeldBy(b, h) = NoContainer
  BY DEF ContainerInit, IpamInit, HeldBy, Free
<1>4. OneAddress /\ \A c \in Containers : ~HasAddress(c) /\ ForwardsOf(c) = {} /\ Addr(c) = {}
  BY <1>3, IpamAssumption DEF OneAddress, HasAddress, ForwardsOf, Addr, Holds
<1>5. OneLifecycle /\ Resting
  BY <1>2 DEF OneLifecycle, Resting, LifecyclePcs
<1>6. RulesHeld
  BY DEF ContainerInit, RulesHeld, Leads
<1>7. ASSUME NEW c \in Containers PROVE HeldAt(c) /\ KeptAt(c) /\ PublishedAt(c)
  <2>1. /\ csm[c] = "none" /\ rt[c] = "none" /\ init[c] = "none" /\ c \notin fifo /\ c \notin cgroups
        /\ \A r \in Reqs : req[r].c # c
    BY <1>2, IpamAssumption DEF ContainerInit
  <2>2. QED
    BY <1>4, <2>1 DEF HeldAt, KeptAt, PublishedAt, Unstarted, Gone, Alive
<1>8. QED
  BY <1>1, <1>4, <1>5, <1>6, <1>7 DEF SafetyInv

\* Every step keeps the invariant.
LEMMA SafetyNextInv == SafetyInv /\ [ContainerNext]_cvars => SafetyInv'
<1> SUFFICES ASSUME SafetyInv, [ContainerNext]_cvars PROVE SafetyInv'
  OBVIOUS
<1>1. ContainerInv'
  BY ContainerNextInv DEF SafetyInv
<1>2. ASSUME NEW r \in Reqs, CreateStep(r) PROVE \E c \in Containers : SafeStep(c)
  BY <1>2, CreateBeginSafe, CreateAllocateSafe, CreateStoreSafe, CreateDirectorySafe, CreateCgroupSafe, CreateSpecSafe,
     CreateRuleSafe, CreateRecordSafe, CreateForwardsDoneSafe, CreateRuntimeSafe, RollbackReleaseSafe, RollbackCsmSafe,
     RollbackDirectorySafe, RollbackCgroupSafe, RollbackForwardSafe
     DEF CreateStep
<1>3. ASSUME NEW r \in Reqs, LifecycleStep(r) PROVE \E c \in Containers : SafeStep(c)
  <2>1. CASE StartBegin(r) \/ StopBegin(r) \/ DeleteBegin(r)
    BY <2>1, LifecycleBeginSafe DEF StartBegin, StopBegin, DeleteBegin
  <2>2. CASE ~(StartBegin(r) \/ StopBegin(r) \/ DeleteBegin(r))
    BY <1>3, <2>2, StartCreateSafe, StartRestoreSafe, StartStartSafe, StopKillSafe, DeleteRuntimeSafe, DeleteRulesSafe,
       DeleteReleaseSafe, DeleteFilesSafe
       DEF LifecycleStep
  <2>3. QED
    BY <2>1, <2>2
<1>4. ASSUME NEW c \in Containers, WorkloadExit(c) \/ MonitorDown(c) PROVE SafeStep(c)
  BY <1>4, WorkloadExitSafe, MonitorDownSafe
<1>5. CASE \E c \in Containers : SafeStep(c)
  BY <1>1, <1>5, SafeStepKeeps
<1>6. QED
  BY <1>1, <1>2, <1>3, <1>4, <1>5, RebootSafe, StutterSafe DEF ContainerNext

\* Hence it holds in every state.
LEMMA SafetyInvariant == ContainerSpec => []SafetyInv
BY SafetyInitInv, SafetyNextInv, PTL DEF ContainerSpec

\* Whatever requests, rollbacks, the monitor and reboots do, a container that
\* lives or may be started holds an address in IPAM, unless droplet create
\* failed half-way (Create, Start, Stop, Delete of container/service.go).
THEOREM ContainerHoldersSound == ContainerSpec => []HoldersSound
<1>1. SafetyInv => HoldersSound
  <2>1. SUFFICES ASSUME SafetyInv, "create" \notin met, NEW c \in Containers
                 PROVE  /\ Alive(c) => HasAddress(c)
                        /\ csm[c] \in {"created", "running", "stopped"} => HasAddress(c)
    BY DEF HoldersSound, LiveHoldsAddress, StartableHoldsAddress
  <2>2. HeldAt(c)
    BY <2>1 DEF SafetyInv
  <2>3. QED
    BY <2>1, <2>2 DEF HeldAt, Unstarted, Gone
<1>2. QED
  BY <1>1, SafetyInvariant, PTL

\* A container no request works on is in the store with its address and its
\* directory, or has given everything back: Create's rollback and Delete undo
\* exactly what was done, wherever they are interleaved or cut short.
THEOREM ContainerAllOrNothing == ContainerSpec => []AllOrNothing
<1>1. SafetyInv => AllOrNothing
  <2>1. SUFFICES ASSUME SafetyInv, met \cap {"create", "delete", "reboot"} = {}, NEW c \in Containers, ~Busy(c)
                 PROVE  IF csm[c] = "none" THEN ("gateway" \notin met => ~HasAddress(c)) /\ c \notin cgroups /\ ~Alive(c)
                                           ELSE HasAddress(c) /\ c \in dirs
    BY DEF AllOrNothing
  <2>2. ~Owned(c)
    BY <2>1 DEF Owned, Busy
  <2>3. QED
    BY <2>1, <2>2 DEF SafetyInv, KeptAt
<1>2. QED
  BY <1>1, SafetyInvariant, PTL

\* Every forwarding rule leads to a container that published the port, and a
\* running container has the rules of all its ports: no rule outlives the
\* address it leads to (setupForwardRule, restoreForwardRules,
\* cleanupForwardRules and their order with the calls of IPAM).
THEOREM ContainerRulesSound == ContainerSpec => []RulesSound
<1>1. SafetyInv => RulesSound
  <2> SUFFICES ASSUME SafetyInv, met \cap {"create", "forward"} = {}
               PROVE  StaleRules = {} /\ \A c \in Containers : init[c] = "running" => RulesOf(c, ports[c]) \subseteq rules
    BY DEF RulesSound, RulesServeHolder, PublishedWhileRunning
  <2>1. IpamTypeOK /\ rules \subseteq Forwards \X Subnets \X Hosts /\ \A c \in Containers : ports[c] \in SUBSET Forwards
    BY DEF SafetyInv, ContainerInv, IpamInv, HostTypeOK
  <2>2. ASSUME NEW x \in StaleRules PROVE FALSE
    <3>1. PICK f \in Forwards, s \in Subnets, h \in Hosts : x = <<f, s, h>>
      BY <2>1, <2>2 DEF StaleRules
    <3>2. Leads(f, <<s, h>>) /\ <<s, h>> \in Subnets \X Hosts
      BY <2>2, <3>1 DEF StaleRules, Leads
    <3>3. PICK c \in Containers : <<s, h>> \in Addr(c)
      BY <3>2 DEF SafetyInv, RulesHeld
    <3>4. PublishedAt(c)
      BY DEF SafetyInv
    <3>5. f \in ports[c]
      <4>1. f \in ForwardsOf(c) \/ \E r \in Reqs : Recording(r, c, f)
        BY <3>2, <3>3, <3>4 DEF PublishedAt
      <4>2. ASSUME NEW r \in Reqs, Recording(r, c, f) PROVE f \in ports[c]
        BY <3>4, <4>2 DEF PublishedAt, PublishedBy, Recording, Making
      <4>3. QED
        BY <3>4, <4>1, <4>2 DEF PublishedAt
    <3>6. <<f, s, h>> \in RulesOf(c, {f})
      BY <2>1, <3>2, <3>3, RulesOfLead
    <3>7. QED
      BY <2>2, <3>1, <3>5, <3>6 DEF StaleRules
  <2>3. ASSUME NEW c \in Containers, init[c] = "running", NEW x \in RulesOf(c, ports[c]) PROVE x \in rules
    <3>1. PICK f \in ports[c], s \in Subnets, h \in Hosts : x = <<f, s, h>>
      BY <2>3 DEF RulesOf
    <3>2. <<s, h>> \in Addr(c)
      BY <2>1, <2>3, <3>1, RulesOfLead
    <3>3. Leads(f, <<s, h>>)
      BY <2>3, <3>2 DEF SafetyInv, PublishedAt, Ruled
    <3>4. QED
      BY <3>1, <3>3 DEF Leads
  <2>4. QED
    BY <2>2, <2>3
<1>2. QED
  BY <1>1, SafetyInvariant, PTL
=============================================================================
