-------------------------- MODULE ContainerService --------------------------
(***************************************************************************)
(* ContainerService of Condenser (internal/condenser/core/container) for    *)
(* standalone containers: Create with its rollback, Start, Stop and Delete, *)
(* each a sequence of steps over separately locked stores and host          *)
(* resources: IPAM (module Ipam), the container store CSM, the container    *)
(* directory, the cgroup, the iptables forwarding rules and the Droplet     *)
(* runtime.  API requests run concurrently and no lock spans the steps.     *)
(*                                                                          *)
(* A Droplet command is one step here, with its hooks; module               *)
(* DropletRuntime opens it up.  Two lifecycle requests (start, stop,        *)
(* delete) for the same container at the same time are left to that module. *)
(***************************************************************************)
EXTENDS Ipam

CONSTANTS
    Reqs,       \* API requests being served (goroutines)
    Names,      \* container names
    NoName,
    Faults,     \* which steps may fail: a subset of FaultKinds
    MaxFaults   \* bound on the kinds of faults one behaviour meets

FaultKinds ==
    {"prepare",     \* Create, steps 2 to 10: image, profile, files, cgroup, spec
     "gateway",     \* Create, step 5: GetBridgeAddr, after Allocate
     "forward",     \* iptables while forwarding rules are installed
     "create",      \* droplet create, before or after its init process runs
     "delete",      \* a hook or an iptables command during Delete
     "reboot"}      \* the host reboots

ASSUME ContainerAssumption ==
    /\ Faults \subseteq FaultKinds
    /\ MaxFaults \in Nat
    /\ NoName \notin Names

VARIABLES
    req,        \* request |-> what it is doing
    csm,        \* container |-> its state in the CSM store, or "none"
    nameOf,     \* container |-> its name in the CSM store
    ports,      \* container |-> the forwards its creator asked for
    dirs,       \* containers with a directory under /etc/raind/container
    cgroups,    \* containers with a cgroup subtree
    rules,      \* forwarding rules installed in iptables
    rt,         \* container |-> status in Droplet's state.json, or "none"
    init,       \* container |-> its init process
    fifo,       \* containers whose exec.fifo exists
    met         \* kinds of faults met so far

storeVars == <<csm, nameOf>>
hostVars == <<dirs, cgroups>>
runtimeVars == <<rt, init, fifo>>
cvars == <<subnetOf, alloc, req, csm, nameOf, ports, dirs, cgroups,
           rules, rt, init, fifo, met>>

Status == {"none", "creating", "created", "running", "stopped"}
Flags == {"AllocateAddr", "CSMEntry", "DirectoryEnv", "CgroupEntry", "ForwardRule"}
CreatePcs == {"allocate", "store", "directory", "cgroup", "spec", "rule",
              "record", "runtime", "rb_release", "rb_csm", "rb_directory",
              "rb_cgroup", "rb_forward"}
LifecyclePcs == {"st_create", "st_restore", "st_start", "stop",
                 "del_runtime", "del_rules", "del_release", "del_files"}

Request == [pc : {"idle"} \cup CreatePcs \cup LifecyclePcs,
            c : Containers \cup {NoContainer}, name : Names \cup {NoName},
            todo : SUBSET Forwards, rec : SUBSET Forwards,
            flags : SUBSET Flags, force : BOOLEAN]
Idle == [pc |-> "idle", c |-> NoContainer, name |-> NoName, todo |-> {},
         rec |-> {}, flags |-> {}, force |-> FALSE]

ContainerTypeOK ==
    /\ IpamTypeOK
    /\ req \in [Reqs -> Request]
    /\ csm \in [Containers -> Status]
    /\ nameOf \in [Containers -> Names \cup {NoName}]
    /\ ports \in [Containers -> SUBSET Forwards]
    /\ dirs \in SUBSET Containers
    /\ cgroups \in SUBSET Containers
    /\ rules \in SUBSET (Forwards \X Subnets \X Hosts)
    /\ rt \in [Containers -> Status]
    /\ init \in [Containers -> {"none", "waiting", "running"}]
    /\ fifo \in SUBSET Containers
    /\ met \in SUBSET FaultKinds

ContainerInit ==
    /\ IpamInit
    /\ req = [r \in Reqs |-> Idle]
    /\ csm = [c \in Containers |-> "none"]
    /\ nameOf = [c \in Containers |-> NoName]
    /\ ports = [c \in Containers |-> {}]
    /\ dirs = {} /\ cgroups = {} /\ rules = {} /\ fifo = {} /\ met = {}
    /\ rt = [c \in Containers |-> "none"]
    /\ init = [c \in Containers |-> "none"]

-----------------------------------------------------------------------------
\* What the steps are made of

Alive(c) == init[c] # "none"

\* GetStatusFromId: RUNNING with a dead process reads as STOPPED
RuntimeStatus(c) ==
    IF rt[c] = "running" /\ ~Alive(c) THEN "stopped" ELSE rt[c]

\* The rules of CreateForwardingRule: keyed by the forward and the address
RulesOf(c, F) ==
    {x \in F \X Subnets \X Hosts :
        \E b \in Bridges : Holds(c, b, x[3]) /\ subnetOf[b] = x[2]}

At(r, pc) == req[r].pc = pc
Goto(r, pc) == req' = [req EXCEPT ![r].pc = pc]
GotoFlag(r, pc, flag) ==
    req' = [req EXCEPT ![r].pc = pc, ![r].flags = @ \cup {flag}]
Return(r) == req' = [req EXCEPT ![r] = Idle]

\* A step fails, or it does not
Fail(kind) ==
    /\ kind \in Faults
    /\ met' = met \cup {kind}
    /\ Cardinality(met') <= MaxFaults
NoFault == UNCHANGED met

\* Requests that are still working on a container
Busy(c) == \E r \in Reqs : req[r].c = c
LifecycleBusy(c) == \E r \in Reqs : req[r].c = c /\ req[r].pc \in LifecyclePcs

-----------------------------------------------------------------------------
\* Create

\* utils.NewUlid()[:12]: an id nothing refers to.  An id is taken again once
\* nothing but a leftover directory is known under it, and stands for a new one.
Fresh(c) ==
    /\ csm[c] = "none" /\ rt[c] = "none" /\ c \notin cgroups
    /\ ~HasAddress(c) /\ ~Alive(c) /\ ~Busy(c)

\* Steps 1 to 4: a fresh id, and a name no CSM entry has at this moment
CreateBegin(r) ==
    /\ At(r, "idle")
    /\ \E c \in Containers, n \in Names, P \in SUBSET Forwards :
        /\ Fresh(c)
        /\ \A d \in Containers : csm[d] # "none" => nameOf[d] # n
        /\ req' = [req EXCEPT ![r] = [Idle EXCEPT !.pc = "allocate", !.c = c,
                                                  !.name = n, !.todo = P]]
        /\ ports' = [ports EXCEPT ![c] = P]
        /\ dirs' = dirs \ {c}
    /\ UNCHANGED <<ipamVars, storeVars, cgroups, rules, runtimeVars, met>>

\* Step 5, allocateAddress: Allocate, then the bridge's own address.  The flag
\* is set once both have returned: an error of the second one leaves the
\* address allocated, and the rollback does not know of it.
CreateAllocate(r) ==
    /\ At(r, "allocate")
    /\ \/ \E b \in Bridges :
            Allocate(req[r].c, b) /\ GotoFlag(r, "store", "AllocateAddr") /\ NoFault
       \/ \E b \in Bridges :
            Allocate(req[r].c, b) /\ Return(r) /\ Fail("gateway")
       \/ (\E b \in Bridges : ~CanAllocate(b)) /\ Return(r) /\ NoFault /\ UNCHANGED ipamVars
       \/ Fail("prepare") /\ Return(r) /\ UNCHANGED ipamVars
    /\ UNCHANGED <<storeVars, ports, hostVars, rules, runtimeVars>>

\* Step 6: the CSM entry, state creating
CreateStore(r) ==
    /\ At(r, "store")
    /\ \/ /\ csm' = [csm EXCEPT ![req[r].c] = "creating"]
          /\ nameOf' = [nameOf EXCEPT ![req[r].c] = req[r].name]
          /\ GotoFlag(r, "directory", "CSMEntry")
          /\ NoFault
       \/ /\ Fail("prepare")
          /\ Goto(r, "rb_release")
          /\ UNCHANGED storeVars
    /\ UNCHANGED <<ipamVars, ports, hostVars, rules, runtimeVars>>

\* Steps 7 and 8: directory and /etc files; a failure may leave it half made
CreateDirectory(r) ==
    /\ At(r, "directory")
    /\ \/ /\ dirs' = dirs \cup {req[r].c}
          /\ GotoFlag(r, "cgroup", "DirectoryEnv")
          /\ NoFault
       \/ /\ Fail("prepare")
          /\ \/ /\ dirs' \in {dirs, dirs \cup {req[r].c}}
                /\ Goto(r, "rb_release")
             \/ /\ dirs' = dirs \cup {req[r].c}
                /\ GotoFlag(r, "rb_release", "DirectoryEnv")
    /\ UNCHANGED <<ipamVars, storeVars, ports, cgroups, rules, runtimeVars>>

\* Step 9
CreateCgroup(r) ==
    /\ At(r, "cgroup")
    /\ \/ /\ cgroups' = cgroups \cup {req[r].c}
          /\ GotoFlag(r, "spec", "CgroupEntry")
          /\ NoFault
       \/ /\ Fail("prepare")
          /\ Goto(r, "rb_release")
          /\ UNCHANGED cgroups
    /\ UNCHANGED <<ipamVars, storeVars, ports, dirs, rules, runtimeVars>>

\* Mutant: a failed spec starts over at the address instead of rolling back.
CreateSpecStartsOver(r) ==
    /\ At(r, "spec")
    /\ \/ Goto(r, "rule") /\ NoFault
       \/ Goto(r, "allocate") /\ Fail("prepare")
    /\ UNCHANGED <<ipamVars, storeVars, ports, hostVars, rules, runtimeVars>>

\* Step 10: droplet spec writes config.json
CreateSpec(r) ==
    /\ At(r, "spec")
    /\ \/ Goto(r, "rule") /\ NoFault
       \/ Goto(r, "rb_release") /\ Fail("prepare")
    /\ UNCHANGED <<ipamVars, storeVars, ports, hostVars, rules, runtimeVars>>

\* Step 11, setupForwardRule: per port the iptables rules, then the IPAM
\* record.  The flag is set when all ports are done.
CreateRule(r) ==
    /\ At(r, "rule")
    /\ req[r].todo # {}
    /\ \E f \in req[r].todo :
        \/ /\ HasAddress(req[r].c)
           /\ rules' = rules \cup RulesOf(req[r].c, {f})
           /\ req' = [req EXCEPT ![r].pc = "record", ![r].rec = {f}]
           /\ NoFault
        \/ /\ Fail("forward")
           /\ rules' \in {rules, rules \cup RulesOf(req[r].c, {f})}
           /\ Goto(r, "rb_release")
    /\ UNCHANGED <<ipamVars, storeVars, ports, hostVars, runtimeVars>>

CreateRecord(r) ==
    /\ At(r, "record")
    /\ \/ \E f \in req[r].rec :
            /\ SetForwardInfo(req[r].c, f)
            /\ req' = [req EXCEPT ![r].pc = "rule", ![r].rec = {},
                                   ![r].todo = @ \ {f}]
       \/ /\ ~HasAddress(req[r].c)
          /\ Goto(r, "rb_release")
          /\ UNCHANGED ipamVars
    /\ UNCHANGED <<storeVars, ports, hostVars, rules, runtimeVars, met>>

CreateForwardsDone(r) ==
    /\ At(r, "rule")
    /\ req[r].todo = {}
    /\ GotoFlag(r, "runtime", "ForwardRule")
    /\ UNCHANGED <<ipamVars, storeVars, ports, hostVars, rules, runtimeVars, met>>

\* droplet create, run to its end: state.json, the exec.fifo, the init process
\* waiting on it in its cgroup, and the createRuntime and createContainer hooks, which are
\* refused for a container that has no CSM entry.
DropletCreated(c) ==
    /\ c \in dirs /\ c \notin fifo /\ csm[c] # "none"
    /\ rt' = [rt EXCEPT ![c] = "created"]
    /\ init' = [init EXCEPT ![c] = "waiting"]
    /\ fifo' = fifo \cup {c}
    /\ cgroups' = cgroups \cup {c}
    /\ csm' = [csm EXCEPT ![c] = "created"]
    /\ NoFault

\* droplet create failing before anything is written (bundle, spec)
DropletCreateRefused(c) ==
    /\ Fail("create")
    /\ UNCHANGED <<runtimeVars, cgroups, csm>>

\* droplet create failing at mkfifo: state.json and the createRuntime hook
\* are done already
DropletCreateFifoExists(c) ==
    /\ c \in dirs /\ c \in fifo
    /\ rt' = [rt EXCEPT ![c] = "creating"]
    /\ csm' = IF csm[c] = "none" THEN csm ELSE [csm EXCEPT ![c] = "creating"]
    /\ UNCHANGED <<init, fifo, cgroups, met>>

\* droplet create failing after the shim has started the init process:
\* cgroup or network setup, or the createContainer hook (CommitPolicy)
DropletCreateFailsLate(c) ==
    /\ Fail("create") /\ c \in dirs /\ c \notin fifo /\ csm[c] # "none"
    /\ init' = [init EXCEPT ![c] = "waiting"]
    /\ fifo' = fifo \cup {c}
    /\ cgroups' \in {cgroups, cgroups \cup {c}}
    /\ \E s \in {"creating", "created"} :
        rt' = [rt EXCEPT ![c] = s] /\ csm' = [csm EXCEPT ![c] = s]

\* Step 12
CreateRuntime(r) ==
    /\ At(r, "runtime")
    /\ \/ DropletCreated(req[r].c) /\ Return(r)
       \/ /\ \/ DropletCreateRefused(req[r].c)
             \/ DropletCreateFifoExists(req[r].c)
             \/ DropletCreateFailsLate(req[r].c)
          /\ Goto(r, "rb_release")
    /\ UNCHANGED <<ipamVars, nameOf, ports, dirs, rules>>

-----------------------------------------------------------------------------
\* rollback: each resource whose flag is set, in this order

\* Mutant: the address is released only with a CSM entry.
RollbackReleaseWithEntry(r) ==
    /\ At(r, "rb_release")
    /\ Goto(r, "rb_csm")
    /\ IF "CSMEntry" \in req[r].flags
         THEN Release(req[r].c)
         ELSE UNCHANGED ipamVars
    /\ UNCHANGED <<storeVars, ports, hostVars, rules, runtimeVars, met>>

RollbackRelease(r) ==
    /\ At(r, "rb_release")
    /\ Goto(r, "rb_csm")
    /\ IF "AllocateAddr" \in req[r].flags
         THEN Release(req[r].c)
         ELSE UNCHANGED ipamVars
    /\ UNCHANGED <<storeVars, ports, hostVars, rules, runtimeVars, met>>

RollbackCsm(r) ==
    /\ At(r, "rb_csm")
    /\ Goto(r, "rb_directory")
    /\ IF "CSMEntry" \in req[r].flags
         THEN /\ csm' = [csm EXCEPT ![req[r].c] = "none"]
              /\ nameOf' = [nameOf EXCEPT ![req[r].c] = NoName]
         ELSE UNCHANGED storeVars
    /\ UNCHANGED <<ipamVars, ports, hostVars, rules, runtimeVars, met>>

\* deleteContainerDirectory takes state.json and the fifo along
RemoveDirectory(c) ==
    /\ dirs' = dirs \ {c}
    /\ fifo' = fifo \ {c}
    /\ rt' = [rt EXCEPT ![c] = "none"]
    /\ UNCHANGED init

RollbackDirectory(r) ==
    /\ At(r, "rb_directory")
    /\ Goto(r, "rb_cgroup")
    /\ IF "DirectoryEnv" \in req[r].flags
         THEN RemoveDirectory(req[r].c)
         ELSE UNCHANGED <<dirs, runtimeVars>>
    /\ UNCHANGED <<ipamVars, storeVars, ports, cgroups, rules, met>>

\* rmdir fails with EBUSY, which is ignored, while a process is inside
RollbackCgroup(r) ==
    /\ At(r, "rb_cgroup")
    /\ Goto(r, "rb_forward")
    /\ cgroups' = IF "CgroupEntry" \in req[r].flags /\ ~Alive(req[r].c)
                    THEN cgroups \ {req[r].c}
                    ELSE cgroups
    /\ UNCHANGED <<ipamVars, storeVars, ports, dirs, rules, runtimeVars, met>>

\* cleanupForwardRules: what IPAM records for the container now
CleanupForwardRules(c) == rules' = rules \ RulesOf(c, ForwardsOf(c))

RollbackForward(r) ==
    /\ At(r, "rb_forward")
    /\ Return(r)
    /\ IF "ForwardRule" \in req[r].flags
         THEN CleanupForwardRules(req[r].c)
         ELSE UNCHANGED rules
    /\ UNCHANGED <<ipamVars, storeVars, ports, hostVars, runtimeVars, met>>

-----------------------------------------------------------------------------
\* Start

LifecycleBegin(r, c, pc, force) ==
    /\ At(r, "idle")
    /\ ~LifecycleBusy(c)
    /\ req' = [req EXCEPT ![r] = [Idle EXCEPT !.pc = pc, !.c = c, !.force = force]]
    /\ UNCHANGED <<ipamVars, storeVars, ports, hostVars, rules, runtimeVars, met>>

StartBegin(r) ==
    \E c \in Containers :
        \/ csm[c] = "created" /\ LifecycleBegin(r, c, "st_start", FALSE)
        \/ csm[c] = "stopped" /\ LifecycleBegin(r, c, "st_create", FALSE)

\* A stopped container is created again in Droplet
StartCreate(r) ==
    /\ At(r, "st_create")
    /\ \/ DropletCreated(req[r].c) /\ Goto(r, "st_restore")
       \/ /\ \/ DropletCreateRefused(req[r].c)
             \/ DropletCreateFifoExists(req[r].c)
             \/ DropletCreateFailsLate(req[r].c)
          /\ Return(r)
    /\ UNCHANGED <<ipamVars, nameOf, ports, dirs, rules>>

\* restoreForwardRules
StartRestore(r) ==
    /\ At(r, "st_restore")
    /\ \/ /\ rules' = rules \cup RulesOf(req[r].c, ForwardsOf(req[r].c))
          /\ Goto(r, "st_start")
          /\ NoFault
       \/ /\ Fail("forward")
          /\ Return(r)
          /\ UNCHANGED rules
    /\ UNCHANGED <<ipamVars, storeVars, ports, hostVars, runtimeVars>>

\* droplet start: needs status created and a reader on the fifo
StartStart(r) ==
    LET c == req[r].c IN
    /\ At(r, "st_start")
    /\ Return(r)
    /\ IF RuntimeStatus(c) = "created" /\ init[c] = "waiting" /\ c \in fifo
         THEN /\ init' = [init EXCEPT ![c] = "running"]
              /\ fifo' = fifo \ {c}
              /\ rt' = [rt EXCEPT ![c] = "running"]
              /\ csm' = IF csm[c] = "none" THEN csm
                                           ELSE [csm EXCEPT ![c] = "running"]
         ELSE UNCHANGED <<runtimeVars, csm>>
    /\ UNCHANGED <<ipamVars, nameOf, ports, hostVars, rules, met>>

-----------------------------------------------------------------------------
\* Stop: droplet kill with its default TERM, then KILL

StopBegin(r) ==
    \E c \in Containers : csm[c] = "running" /\ LifecycleBegin(r, c, "stop", FALSE)

StopKill(r) ==
    LET c == req[r].c IN
    /\ At(r, "stop")
    /\ Return(r)
    /\ IF RuntimeStatus(c) \in {"running", "created"} /\ Alive(c)
         THEN /\ init' = [init EXCEPT ![c] = "none"]
              /\ rt' = [rt EXCEPT ![c] = "stopped"]
              /\ csm' = IF csm[c] = "none" THEN csm
                                           ELSE [csm EXCEPT ![c] = "stopped"]
              /\ UNCHANGED fifo
         ELSE UNCHANGED <<runtimeVars, csm>>
    /\ UNCHANGED <<ipamVars, nameOf, ports, hostVars, rules, met>>

-----------------------------------------------------------------------------
\* Delete

DeleteBegin(r) ==
    \E c \in Containers :
        /\ csm[c] \in {"creating", "created", "stopped"}
        /\ LifecycleBegin(r, c, "del_runtime", csm[c] # "stopped")

\* Mutant: a created container has no process to kill.
ShouldKillOnlyRunning(c, force) == RuntimeStatus(c) = "running" /\ force

\* ShouldKillBeforeDelete
ShouldKill(c, force) ==
    \/ RuntimeStatus(c) = "created"
    \/ RuntimeStatus(c) = "running" /\ force

\* CanDelete, and the kill itself
DropletDeleteAllowed(c, force) ==
    /\ \/ RuntimeStatus(c) = "stopped"
       \/ RuntimeStatus(c) # "none" /\ force
    /\ ShouldKill(c, force) => Alive(c)     \* otherwise kill(pid) fails

\* droplet delete: kill the init process if it must, run the poststop hook,
\* which removes the CSM entry, then remove state, cgroup and directory.  It
\* may fail in the hook after the CSM removal (CommitPolicy), or at the cgroup
\* (EBUSY while the killed process is not reaped) with state.json gone.
DeleteRuntime(r) ==
    LET c == req[r].c
        kill == ShouldKill(c, req[r].force)
    IN
    /\ At(r, "del_runtime")
    /\ \/ /\ DropletDeleteAllowed(c, req[r].force)
          /\ c \in dirs
          /\ init' = IF kill THEN [init EXCEPT ![c] = "none"] ELSE init
          /\ csm' = [csm EXCEPT ![c] = "none"]
          /\ nameOf' = [nameOf EXCEPT ![c] = NoName]
          /\ \/ /\ rt' = [rt EXCEPT ![c] = "none"]
                /\ fifo' = fifo \ {c}
                /\ dirs' = dirs \ {c}
                /\ cgroups' = IF Alive(c) /\ ~kill THEN cgroups ELSE cgroups \ {c}
                /\ Goto(r, "del_rules")
                /\ NoFault
             \/ /\ Fail("delete")
                /\ \/ rt' = IF kill THEN [rt EXCEPT ![c] = "stopped"] ELSE rt
                   \/ rt' = [rt EXCEPT ![c] = "none"]
                /\ UNCHANGED <<fifo, hostVars>>
                /\ Return(r)
       \/ /\ ~DropletDeleteAllowed(c, req[r].force) \/ c \notin dirs
          /\ Return(r)
          /\ UNCHANGED <<storeVars, hostVars, runtimeVars, met>>
    /\ UNCHANGED <<ipamVars, ports, rules>>

\* Mutant: no CSM entry is taken to mean nothing to clean up.
DeleteRulesOfEntry(r) ==
    /\ At(r, "del_rules")
    /\ IF csm[req[r].c] = "none"
         THEN UNCHANGED rules
         ELSE CleanupForwardRules(req[r].c)
    /\ Goto(r, "del_release")
    /\ UNCHANGED <<ipamVars, storeVars, ports, hostVars, runtimeVars, met>>

DeleteRules(r) ==
    /\ At(r, "del_rules")
    /\ \/ CleanupForwardRules(req[r].c) /\ Goto(r, "del_release") /\ NoFault
       \/ Fail("delete") /\ Return(r) /\ UNCHANGED rules
    /\ UNCHANGED <<ipamVars, storeVars, ports, hostVars, runtimeVars>>

DeleteRelease(r) ==
    /\ At(r, "del_release")
    /\ Release(req[r].c)
    /\ Goto(r, "del_files")
    /\ UNCHANGED <<storeVars, ports, hostVars, rules, runtimeVars, met>>

\* Directory, cgroup and CSM entry: usually gone already
DeleteFiles(r) ==
    /\ At(r, "del_files")
    /\ RemoveDirectory(req[r].c)
    /\ cgroups' = IF Alive(req[r].c) THEN cgroups ELSE cgroups \ {req[r].c}
    /\ csm' = [csm EXCEPT ![req[r].c] = "none"]
    /\ nameOf' = [nameOf EXCEPT ![req[r].c] = NoName]
    /\ Return(r)
    /\ UNCHANGED <<ipamVars, ports, rules, met>>

-----------------------------------------------------------------------------
\* The rest of the system

\* The init process ends; the shim records it in state.json
WorkloadExit(c) ==
    /\ Alive(c)
    /\ init' = [init EXCEPT ![c] = "none"]
    /\ rt' = IF rt[c] = "none" THEN rt ELSE [rt EXCEPT ![c] = "stopped"]
    /\ UNCHANGED <<ipamVars, req, storeVars, ports, hostVars, rules, fifo, met>>

\* Mutant: a state the store does not know.
MonitorDownExited(c) ==
    /\ csm[c] \in {"running", "created"}
    /\ ~Alive(c)
    /\ csm' = [csm EXCEPT ![c] = "exited"]
    /\ UNCHANGED <<ipamVars, req, nameOf, ports, hostVars, rules, runtimeVars, met>>

\* handleProcessDown of the container monitor
MonitorDown(c) ==
    /\ csm[c] \in {"running", "created"}
    /\ ~Alive(c)
    /\ csm' = [csm EXCEPT ![c] = "stopped"]
    /\ UNCHANGED <<ipamVars, req, nameOf, ports, hostVars, rules, runtimeVars, met>>

\* The host reboots: processes, cgroups, iptables rules and requests are gone;
\* the stores and the container directories are on disk.
Reboot ==
    /\ Fail("reboot")
    /\ req' = [r \in Reqs |-> Idle]
    /\ rules' = {}
    /\ cgroups' = {}
    /\ init' = [c \in Containers |-> "none"]
    /\ UNCHANGED <<ipamVars, storeVars, ports, dirs, rt, fifo>>

CreateStep(r) ==
    \/ CreateBegin(r) \/ CreateAllocate(r) \/ CreateStore(r)
    \/ CreateDirectory(r) \/ CreateCgroup(r) \/ CreateSpec(r)
    \/ CreateRule(r) \/ CreateRecord(r) \/ CreateForwardsDone(r)
    \/ CreateRuntime(r)
    \/ RollbackRelease(r) \/ RollbackCsm(r) \/ RollbackDirectory(r)
    \/ RollbackCgroup(r) \/ RollbackForward(r)

LifecycleStep(r) ==
    \/ StartBegin(r) \/ StartCreate(r) \/ StartRestore(r) \/ StartStart(r)
    \/ StopBegin(r) \/ StopKill(r)
    \/ DeleteBegin(r) \/ DeleteRuntime(r) \/ DeleteRules(r)
    \/ DeleteRelease(r) \/ DeleteFiles(r)

ContainerNext ==
    \/ \E r \in Reqs : CreateStep(r) \/ LifecycleStep(r)
    \/ \E c \in Containers : WorkloadExit(c) \/ MonitorDown(c)
    \/ Reboot

ContainerSpec == ContainerInit /\ [][ContainerNext]_cvars

-----------------------------------------------------------------------------
\* Each invariant names the faults it does not survive; under all the others
\* it holds.  Why these are not survived is in README.md, section 4.

\* When no request works on a container, it is either known to the store, with
\* its address and directory, or Create's rollback or Delete has given
\* everything back: address, cgroup and process.  Create's deferred rollback
\* and Delete must agree on this wherever they are interleaved or cut short.
\* Only an address is left, and for good, when allocateAddress could not read
\* the gateway after it had allocated ("gateway").
AllOrNothing ==
    met \cap {"create", "delete", "reboot"} = {} =>
    \A c \in Containers : ~Busy(c) =>
        IF csm[c] = "none"
          THEN ("gateway" \notin met => ~HasAddress(c)) /\ c \notin cgroups /\ ~Alive(c)
          ELSE HasAddress(c) /\ c \in dirs

\* A live init process always holds its address: an address goes back to IPAM
\* only after the process that answers on it is dead, whatever Delete, Stop,
\* the monitor and the rollback of other requests do.
LiveHoldsAddress ==
    "create" \notin met => \A c \in Containers : Alive(c) => HasAddress(c)

StaleRules ==
    {x \in rules : \A c \in Containers :
        x[1] \in ports[c] => x \notin RulesOf(c, {x[1]})}

\* Every DNAT rule leads to an address whose holder published that port: a
\* rule never survives its container and forwards to the next holder of the
\* address (Delete cleans up rules before it releases the address).
RulesServeHolder == met \cap {"create", "forward"} = {} => StaleRules = {}

\* A running container is reachable on every port it published, also when it
\* was started again after a host reboot emptied iptables (restoreForwardRules).
PublishedWhileRunning ==
    met \cap {"forward", "create"} = {} =>
    \A c \in Containers :
        init[c] = "running" => RulesOf(c, ports[c]) \subseteq rules

\* A container Start may act on has its address: no sequence of failed
\* requests and reboots leaves an entry behind that DNS, services and policies
\* resolve to an address of somebody else.
StartableHoldsAddress ==
    "create" \notin met =>
    \A c \in Containers :
        csm[c] \in {"created", "running", "stopped"} => HasAddress(c)

\* The service uses the IPAM store as module Ipam specifies: whatever Create,
\* its rollback and Delete do to one another, Allocate is called only for an
\* id that holds no address, and each step makes at most one call of the store.
UsesIpamAsSpecified == IpamSpec

\* Whatever lives or may be started holds the address the others resolve.
HoldersSound == LiveHoldsAddress /\ StartableHoldsAddress

\* A published port leads to the container that holds its address, and is
\* there while the container runs.
RulesSound == RulesServeHolder /\ PublishedWhileRunning
=============================================================================
