--------------------------- MODULE PodController ----------------------------
(***************************************************************************)
(* PodController and PodService of Condenser (internal/condenser/core/pod)  *)
(* over the pod store PSM: one ReplicaSet, one standalone pod template, and *)
(* API requests served while the controller's tick runs.  The tick decides  *)
(* on lists it read at its start; PSM is locked per call only, so requests  *)
(* and the controller meet between any two calls.                           *)
(*                                                                          *)
(* A pod has an infra container, which owns its namespaces, and one member  *)
(* container.  A container operation is one step here (module               *)
(* ContainerService opens it up).  Pod ids are numbers, the lowest one that *)
(* nothing refers to stands for a new ULID.                                 *)
(***************************************************************************)
EXTENDS Naturals, FiniteSets

CONSTANTS
    NumPods,        \* pod ids
    Reqs,           \* API requests served at the same time
    Events,         \* what happens to the pods: a subset of EventKinds
    MaxReplicas,    \* bound on the replicas asked for
    MaxEvents       \* bound on the number of events

EventKinds ==
    {"apply", "start", "stop", "remove",    \* requests for pods
     "scale", "delete_rs",                  \* requests for the ReplicaSet
     "container",                           \* a container cannot be created or started
     "infra", "member"}                     \* a container's process ends

ASSUME PodAssumption ==
    /\ NumPods \in Nat \ {0}
    /\ MaxReplicas \in Nat /\ MaxEvents \in Nat
    /\ Events \subseteq EventKinds
    /\ "ctl" \notin Reqs

VARIABLES
    pod,        \* PSM: pod id |-> PodInfo
    tpls,       \* PSM: pod templates
    rs,         \* PSM: the ReplicaSet
    ctr,        \* CSM: pod id |-> state of its infra and member container
    joined,     \* pods whose member container joined the present infra
    th,         \* thread |-> where its PodService call is
    ctl,        \* the controller's lists and loop
    asked,      \* kinds of events so far
    events      \* how many

psmVars == <<pod, tpls, rs>>
ctrVars == <<ctr, joined>>
eventVars == <<asked, events>>
pvars == <<pod, tpls, rs, ctr, joined, th, ctl, asked, events>>

Pods == 1 .. NumPods
NoPod == 0
Templates == {"solo", "web"}        \* of the standalone pod, of the ReplicaSet
Threads == Reqs \cup {"ctl"}

\* base: the pod has its template's name, not a generated one
PodInfo == [tpl : Templates, base : BOOLEAN, owned : BOOLEAN, stopped : BOOLEAN,
            state : {"none", "created", "running", "stopped", "degraded"}]
NoInfo == [tpl |-> "web", base |-> FALSE, owned |-> FALSE, stopped |-> FALSE,
           state |-> "none"]
Kinds == {"infra", "member"}
NoContainers == [infra |-> "none", member |-> "none"]

Idle == [pc |-> "idle", job |-> "none", p |-> NoPod, q |-> NoPod, t |-> "web",
         own |-> FALSE, found |-> {}, todo |-> {}]
CtlIdle == [pods |-> [p \in Pods |-> NoInfo], tpls |-> {}, listed |-> FALSE,
            skip |-> FALSE, replicas |-> 0, todo |-> {}, n |-> 0,
            failed |-> FALSE, cand |-> NoPod]

ServicePcs ==
    {"c_template", "c_name", "c_store", "c_owner",
     "s_read", "s_infra", "s_member", "s_list", "s_start", "s_flag",
     "t_stop", "t_degraded", "t_state", "t_flag",
     "r_mark", "r_list", "r_member", "r_infra", "r_pod", "r_template", "r_drop",
     "d_template", "d_drop", "d_list", "d_next"}
ControllerPcs ==
    {"l_templates", "l_pods", "rs_clean", "rs_more", "rs_less",
     "rs_pods", "rs_end", "solo", "solo_pods",
     "x_mark", "x_containers", "x_pod", "re_containers", "re_pod"}
RsJobs == {"recreate", "restart", "first_start"}
SoloJobs == {"solo_new", "solo_recreate", "solo_restart"}
Jobs == {"none", "apply", "start", "stop", "remove", "delete_rs",
         "clean", "excess", "new"} \cup RsJobs \cup SoloJobs

PodTypeOK ==
    /\ pod \in [Pods -> PodInfo]
    /\ tpls \in SUBSET Templates
    /\ rs \in [exists : BOOLEAN, replicas : 0 .. MaxReplicas, waiting : BOOLEAN]
    /\ ctr \in [Pods -> [Kinds -> {"none", "created", "running", "stopped"}]]
    /\ joined \in SUBSET Pods
    /\ th \in [Threads -> [pc : {"idle"} \cup ServicePcs \cup ControllerPcs,
                           job : Jobs, own : BOOLEAN,
                           p : Pods \cup {NoPod}, q : Pods \cup {NoPod}, t : Templates,
                           found : SUBSET Kinds, todo : SUBSET Pods]]
    /\ ctl \in [pods : [Pods -> PodInfo], tpls : SUBSET Templates,
                listed : BOOLEAN, skip : BOOLEAN, replicas : 0 .. MaxReplicas, todo : SUBSET Pods,
                n : Nat, failed : BOOLEAN, cand : Pods \cup {NoPod}]
    /\ asked \in SUBSET EventKinds
    /\ events \in 0 .. MaxEvents

\* A ReplicaSet has just been applied
PodInit ==
    /\ pod = [p \in Pods |-> NoInfo]
    /\ tpls = {"web"}
    /\ rs = [exists |-> TRUE, replicas |-> MaxReplicas, waiting |-> FALSE]
    /\ ctr = [p \in Pods |-> NoContainers]
    /\ joined = {}
    /\ th = [x \in Threads |-> Idle]
    /\ ctl = CtlIdle
    /\ asked = {} /\ events = 0

-----------------------------------------------------------------------------
Exists(p) == p \in Pods /\ pod[p].state # "none"
Referenced(t) == t = "web" /\ rs.exists          \* IsTemplateReferenced

At(x, pc) == th[x].pc = pc
Goto(x, pc) == th' = [th EXCEPT ![x].pc = pc]
Return(x) == th' = [th EXCEPT ![x] = Idle]

\* The controller's own loops keep nothing of the calls they made
Loop(pc) == th' = [th EXCEPT !["ctl"] = [Idle EXCEPT !.pc = pc, !.todo = th["ctl"].todo]]

Event(kind) ==
    /\ kind \in Events
    /\ events < MaxEvents
    /\ events' = events + 1
    /\ asked' = asked \cup {kind}

\* An id nothing refers to
Unused(p) ==
    /\ ~Exists(p) /\ ctr[p] = NoContainers
    /\ ctl.pods[p].state = "none"
    /\ \A x \in Threads : th[x].p # p /\ th[x].q # p /\ p \notin th[x].todo

SetState(p, state) == pod' = [pod EXCEPT ![p].state = state]
Drop(p) == pod' = [pod EXCEPT ![p] = NoInfo]

\* ContainerService.Stop and Delete of a member degrade the pod
DeleteMember(p) ==
    /\ ctr' = [ctr EXCEPT ![p].member = "none"]
    /\ joined' = joined \ {p}
    /\ IF ctr[p].member = "running" /\ Exists(p)
         THEN SetState(p, "degraded")
         ELSE UNCHANGED pod
DeleteInfra(p) ==
    /\ ctr' = [ctr EXCEPT ![p].infra = "none"]
    /\ joined' = joined \ {p}

-----------------------------------------------------------------------------
\* Where a call of PodService returns to

Failed(x) == ctl' = IF x = "ctl" THEN [ctl EXCEPT !.failed = TRUE] ELSE ctl

StartDone(x) ==
    /\ UNCHANGED ctl
    /\ CASE th[x].job = "new" -> Loop("rs_more")
         [] th[x].job \in RsJobs -> Loop("rs_pods")
         [] th[x].job \in SoloJobs -> Loop("solo")
         [] OTHER -> Return(x)

StartFailed(x) ==
    LET p == th[x].p
        go(pc, job) == th' = [th EXCEPT ![x] = [Idle EXCEPT
                                !.pc = pc, !.job = job, !.q = p, !.todo = th[x].todo]]
    IN
    /\ Failed(x)
    /\ CASE th[x].job = "new" -> go("x_mark", "new")
         [] th[x].job = "first_start" -> go("re_containers", "recreate")
         [] th[x].job \in {"recreate", "restart"} -> Loop("rs_pods")
         [] th[x].job \in SoloJobs -> Loop("solo")
         [] th[x].job = "apply" -> go("r_mark", "remove")
         [] OTHER -> Return(x)

CreateFailed(x) ==
    /\ Failed(x)
    /\ CASE th[x].job = "new" -> Loop("rs_end")
         [] th[x].job \in RsJobs -> Loop("rs_pods")
         [] th[x].job \in SoloJobs -> Loop("solo")
         [] OTHER -> Return(x)

\* Remove is called by a client, for each pod of a deleted ReplicaSet, and by
\* createWithTemplate for the pod that has the name already
RemoveDone(x) ==
    CASE th[x].job = "remove" -> Return(x)
      [] th[x].job = "delete_rs" -> Goto(x, "d_next")
      [] OTHER -> Goto(x, "c_store")

-----------------------------------------------------------------------------
\* PodService.CreateFromTemplate, createWithTemplate

CreateTemplate(x) ==
    /\ At(x, "c_template")
    /\ IF th[x].t \in tpls
         THEN Goto(x, IF th[x].job = "new" THEN "c_store" ELSE "c_name") /\ UNCHANGED ctl
         ELSE CreateFailed(x)
    /\ UNCHANGED <<psmVars, ctrVars, eventVars>>

\* The UID is a new ULID: a pod with the same name has another one
CreateName(x) ==
    LET same == {q \in Pods : Exists(q) /\ pod[q].base /\ pod[q].tpl = th[x].t} IN
    /\ At(x, "c_name")
    /\ \/ same = {} /\ Goto(x, "c_store")
       \/ \E q \in same : th' = [th EXCEPT ![x].pc = "r_mark", ![x].q = q]
    /\ UNCHANGED <<psmVars, ctrVars, ctl, eventVars>>

\* StorePod
CreateStore(x) ==
    /\ At(x, "c_store")
    /\ \E p \in Pods :
        /\ Unused(p) /\ \A q \in Pods : Unused(q) => p <= q
        /\ pod' = [pod EXCEPT ![p] = [NoInfo EXCEPT !.tpl = th[x].t, !.state = "created",
                                                    !.base = th[x].job # "new"]]
        /\ IF th[x].job = "solo_new"
             THEN Loop("solo")
             ELSE th' = [th EXCEPT ![x].p = p, ![x].q = NoPod,
                           ![x].pc = IF th[x].own THEN "c_owner" ELSE "s_read"]
    /\ UNCHANGED <<tpls, rs, ctrVars, ctl, eventVars>>

\* UpdatePodOwner, by the controller
CreateOwner(x) ==
    /\ At(x, "c_owner")
    /\ IF Exists(th[x].p)
         THEN pod' = [pod EXCEPT ![th[x].p].owned = TRUE] /\ Goto(x, "s_read") /\ UNCHANGED ctl
         ELSE CreateFailed(x) /\ UNCHANGED pod
    /\ UNCHANGED <<tpls, rs, ctrVars, eventVars>>

-----------------------------------------------------------------------------
\* PodService.Start

\* ensurePodTemplateConsistency
StartRead(x) ==
    LET p == th[x].p IN
    /\ At(x, "s_read")
    /\ IF /\ Exists(p) /\ pod[p].tpl \in tpls
          /\ pod[p].base \/ Referenced(pod[p].tpl)
         THEN th' = [th EXCEPT ![x].pc = "s_infra", ![x].t = pod[p].tpl] /\ UNCHANGED ctl
         ELSE StartFailed(x)
    /\ UNCHANGED <<psmVars, ctrVars, eventVars>>

\* ensurePodTemplateContainers, ensurePodInfra: the infra container is made
\* anew unless its namespaces exist
StartInfra(x) ==
    LET p == th[x].p IN
    /\ At(x, "s_infra")
    /\ IF ctr[p].member # "none" /\ th[x].t \in tpls
         THEN Goto(x, "s_list") /\ UNCHANGED <<ctrVars, ctl, eventVars>>
         ELSE \/ /\ Exists(p) /\ th[x].t \in tpls
                 /\ ctr' = [ctr EXCEPT ![p].infra = "running"]
                 /\ joined' = IF ctr[p].infra = "running" THEN joined ELSE joined \ {p}
                 /\ Goto(x, "s_member") /\ UNCHANGED <<ctl, eventVars>>
              \/ /\ ~Exists(p) \/ th[x].t \notin tpls
                 /\ StartFailed(x) /\ UNCHANGED <<ctrVars, eventVars>>
              \/ /\ Event("container")
                 /\ ctr' \in {ctr, [ctr EXCEPT ![p].infra = IF @ = "running" THEN @ ELSE "none"]}
                 /\ StartFailed(x) /\ UNCHANGED joined
    /\ UNCHANGED psmVars

\* ContainerService.Create of the member, which joins the infra's namespaces
StartMember(x) ==
    LET p == th[x].p IN
    /\ At(x, "s_member")
    /\ \/ /\ Exists(p) /\ ctr[p].member = "none"
          /\ ctr' = [ctr EXCEPT ![p].member = "created"]
          /\ joined' = IF ctr[p].infra = "running" THEN joined \cup {p} ELSE joined
          /\ Goto(x, "s_list") /\ UNCHANGED <<ctl, eventVars>>
       \/ /\ ~Exists(p) \/ ctr[p].member # "none"
          /\ StartFailed(x) /\ UNCHANGED <<ctrVars, eventVars>>
       \/ Event("container") /\ StartFailed(x) /\ UNCHANGED ctrVars
    /\ UNCHANGED psmVars

StartList(x) ==
    /\ At(x, "s_list")
    /\ th' = [th EXCEPT ![x].pc = "s_start",
                ![x].found = {k \in Kinds : ctr[th[x].p][k] \in {"created", "stopped"}}]
    /\ UNCHANGED <<psmVars, ctrVars, ctl, eventVars>>

\* A stopped member is created again in the namespaces of its config.json
CanStart(p, k) ==
    \/ k = "infra" /\ ctr[p].infra # "none"
    \/ k = "member" /\ \/ ctr[p].member \in {"created", "running"}
                       \/ ctr[p].member = "stopped" /\ p \in joined

StartContainer(x) ==
    LET p == th[x].p
        k == IF "infra" \in th[x].found THEN "infra" ELSE "member"
    IN
    /\ At(x, "s_start")
    /\ th[x].found # {}
    /\ \/ /\ CanStart(p, k)
          /\ ctr' = [ctr EXCEPT ![p][k] = "running"]
          /\ th' = [th EXCEPT ![x].found = @ \ {k}]
          /\ UNCHANGED <<ctl, eventVars>>
       \/ ~CanStart(p, k) /\ StartFailed(x) /\ UNCHANGED <<ctr, eventVars>>
       \/ Event("container") /\ StartFailed(x) /\ UNCHANGED ctr
    /\ UNCHANGED <<psmVars, joined>>

StartState(x) ==
    /\ At(x, "s_start") /\ th[x].found = {}
    /\ IF Exists(th[x].p)
         THEN SetState(th[x].p, "running") /\ Goto(x, "s_flag") /\ UNCHANGED ctl
         ELSE StartFailed(x) /\ UNCHANGED pod
    /\ UNCHANGED <<tpls, rs, ctrVars, eventVars>>

StartFlag(x) ==
    /\ At(x, "s_flag")
    /\ pod' = IF Exists(th[x].p) THEN [pod EXCEPT ![th[x].p].stopped = FALSE] ELSE pod
    /\ StartDone(x)
    /\ UNCHANGED <<tpls, rs, ctrVars, eventVars>>

-----------------------------------------------------------------------------
\* PodService.Stop: the infra container keeps running

StopMember(x) ==
    LET p == th[x].p IN
    /\ At(x, "t_stop")
    /\ CASE ctr[p].member = "none" -> Goto(x, "t_state") /\ UNCHANGED ctr
         [] ctr[p].member = "running" -> /\ ctr' = [ctr EXCEPT ![p].member = "stopped"]
                                         /\ Goto(x, "t_degraded")
         [] OTHER -> Return(x) /\ UNCHANGED ctr
    /\ UNCHANGED <<psmVars, joined, ctl, eventVars>>

StopWrite(x) ==
    LET p == th[x].p IN
    \/ /\ At(x, "t_degraded")
       /\ IF Exists(p) THEN SetState(p, "degraded") ELSE UNCHANGED pod
       /\ Goto(x, "t_state")
       /\ UNCHANGED <<tpls, rs, ctrVars, ctl, eventVars>>
    \/ /\ At(x, "t_state")
       /\ IF Exists(p) THEN SetState(p, "stopped") /\ Goto(x, "t_flag")
                       ELSE Return(x) /\ UNCHANGED pod
       /\ UNCHANGED <<tpls, rs, ctrVars, ctl, eventVars>>
    \/ /\ At(x, "t_flag")
       /\ pod' = IF Exists(p) THEN [pod EXCEPT ![p].stopped = TRUE] ELSE pod
       /\ Return(x)
       /\ UNCHANGED <<tpls, rs, ctrVars, ctl, eventVars>>

-----------------------------------------------------------------------------
\* PodService.Remove

RemoveMark(x) ==
    LET q == th[x].q IN
    /\ At(x, "r_mark")
    /\ IF Exists(q)
         THEN /\ pod' = [pod EXCEPT ![q].stopped = TRUE]
              /\ th' = [th EXCEPT ![x].pc = "r_list", ![x].t = pod[q].tpl]
         ELSE RemoveDone(x) /\ UNCHANGED pod
    /\ UNCHANGED <<tpls, rs, ctrVars, ctl, eventVars>>

RemoveList(x) ==
    /\ At(x, "r_list")
    /\ th' = [th EXCEPT ![x].pc = "r_member",
                        ![x].found = {k \in Kinds : ctr[th[x].q][k] # "none"}]
    /\ UNCHANGED <<psmVars, ctrVars, ctl, eventVars>>

RemoveMember(x) ==
    /\ At(x, "r_member")
    /\ IF "member" \in th[x].found THEN DeleteMember(th[x].q) ELSE UNCHANGED <<pod, ctrVars>>
    /\ Goto(x, "r_infra")
    /\ UNCHANGED <<tpls, rs, ctl, eventVars>>

RemoveInfra(x) ==
    /\ At(x, "r_infra")
    /\ IF "infra" \in th[x].found THEN DeleteInfra(th[x].q) ELSE UNCHANGED ctrVars
    /\ th' = [th EXCEPT ![x].pc = "r_pod", ![x].found = {}]
    /\ UNCHANGED <<psmVars, ctl, eventVars>>

RemovePod(x) ==
    /\ At(x, "r_pod")
    /\ IF Exists(th[x].q)
         THEN Drop(th[x].q) /\ Goto(x, "r_template")
         ELSE RemoveDone(x) /\ UNCHANGED pod
    /\ UNCHANGED <<tpls, rs, ctrVars, ctl, eventVars>>

\* Fault for TemplateKept: nobody asks whether the template is referenced
RemoveTemplateAlways(x) ==
    /\ At(x, "r_template")
    /\ Goto(x, "r_drop")
    /\ UNCHANGED <<psmVars, ctrVars, ctl, eventVars>>

\* IsTemplateReferenced, and after its unlock RemovePodTemplate
RemoveTemplate(x) ==
    /\ At(x, "r_template")
    /\ IF Referenced(th[x].t) THEN RemoveDone(x) ELSE Goto(x, "r_drop")
    /\ UNCHANGED <<psmVars, ctrVars, ctl, eventVars>>

DropTemplate(x) ==
    /\ At(x, "r_drop")
    /\ tpls' = tpls \ {th[x].t}
    /\ RemoveDone(x)
    /\ UNCHANGED <<pod, rs, ctrVars, ctl, eventVars>>

-----------------------------------------------------------------------------
\* PodController.deletePod

DeleteDone ==
    /\ UNCHANGED ctl
    /\ Loop(CASE th["ctl"].job = "clean" -> "rs_clean"
              [] th["ctl"].job = "excess" -> "rs_less"
              [] OTHER -> "rs_more")

DeleteFailed ==
    IF th["ctl"].job = "new"
      THEN Loop("rs_more") /\ UNCHANGED ctl
      ELSE Loop("rs_end") /\ Failed("ctl")

DeleteMark ==
    LET q == th["ctl"].q IN
    /\ At("ctl", "x_mark")
    /\ IF Exists(q)
         THEN /\ pod' = [pod EXCEPT ![q].stopped = TRUE]
              /\ Goto("ctl", "x_containers") /\ UNCHANGED ctl
         ELSE DeleteFailed /\ UNCHANGED pod
    /\ UNCHANGED <<tpls, rs, ctrVars, eventVars>>

\* Stop what runs and delete it, whatever comes of it
DeleteContainers(from, to) ==
    LET q == th["ctl"].q IN
    /\ At("ctl", from)
    /\ ctr' = [ctr EXCEPT ![q] = NoContainers]
    /\ joined' = joined \ {q}
    /\ IF ctr[q].member = "running" /\ Exists(q) THEN SetState(q, "degraded") ELSE UNCHANGED pod
    /\ Goto("ctl", to)
    /\ UNCHANGED <<tpls, rs, ctl, eventVars>>

DeletePod ==
    /\ At("ctl", "x_pod")
    /\ IF Exists(th["ctl"].q)
         THEN Drop(th["ctl"].q) /\ DeleteDone
         ELSE DeleteFailed /\ UNCHANGED pod
    /\ UNCHANGED <<tpls, rs, ctrVars, eventVars>>

\* Fault for NeverOvershoots: the old pod stays in the store
RecreateKeepsPod ==
    LET q == th["ctl"].q IN
    /\ At("ctl", "re_pod")
    /\ th' = [th EXCEPT !["ctl"].pc = "c_template", !["ctl"].q = NoPod,
                        !["ctl"].t = ctl.pods[q].tpl, !["ctl"].own = ctl.pods[q].owned]
    /\ UNCHANGED <<psmVars, ctrVars, ctl, eventVars>>

\* recreatePod: the containers, the pod, and a new one from the template
RecreatePod ==
    LET q == th["ctl"].q IN
    /\ At("ctl", "re_pod")
    /\ pod' = IF Exists(q) THEN [pod EXCEPT ![q] = NoInfo] ELSE pod
    /\ th' = [th EXCEPT !["ctl"].pc = "c_template", !["ctl"].q = NoPod,
                        !["ctl"].t = ctl.pods[q].tpl, !["ctl"].own = ctl.pods[q].owned]
    /\ UNCHANGED <<tpls, rs, ctrVars, ctl, eventVars>>

-----------------------------------------------------------------------------
\* PodController.reconcileOnce

CtlCall(pc, job, p, q) ==
    th' = [th EXCEPT !["ctl"] = [Idle EXCEPT !.pc = pc, !.job = job, !.p = p, !.q = q,
                                             !.todo = th["ctl"].todo]]

TickBegin ==
    /\ At("ctl", "idle")
    /\ ctl' = [CtlIdle EXCEPT !.listed = rs.exists, !.skip = rs.waiting,
                              !.replicas = IF rs.exists THEN rs.replicas ELSE 0]
    /\ Goto("ctl", "l_templates")
    /\ UNCHANGED <<psmVars, ctrVars, eventVars>>

TickTemplates ==
    /\ At("ctl", "l_templates")
    /\ ctl' = [ctl EXCEPT !.tpls = tpls]
    /\ IF tpls = {} /\ ~ctl.listed THEN Return("ctl") ELSE Goto("ctl", "l_pods")
    /\ UNCHANGED <<psmVars, ctrVars, eventVars>>

\* filterReplicaSetPods
Managed(info) ==
    /\ info.state # "none"
    /\ info.owned \/ (info.tpl = "web" /\ ~info.base)

TickPods ==
    LET mine == {p \in Pods : Managed(pod[p])} IN
    /\ At("ctl", "l_pods")
    /\ ctl' = [ctl EXCEPT !.pods = pod, !.todo = IF ctl.listed /\ ~ctl.skip THEN mine ELSE {}]
    /\ Goto("ctl", IF ctl.listed /\ ~ctl.skip THEN "rs_clean" ELSE "solo")
    /\ UNCHANGED <<psmVars, ctrVars, eventVars>>

StoppedByUser == {p \in ctl.todo : ctl.pods[p].stopped}

\* Fault for ReplicasRecover: one pod too few is created
RsCleanOneShort ==
    LET current == Cardinality(ctl.todo) IN
    /\ At("ctl", "rs_clean")
    /\ \/ \E p \in StoppedByUser :
            /\ ctl' = [ctl EXCEPT !.todo = @ \ {p}]
            /\ CtlCall("x_mark", "clean", NoPod, p)
       \/ /\ StoppedByUser = {}
          /\ current < ctl.replicas
          /\ ctl' = [ctl EXCEPT !.n = ctl.replicas - current - 1]
          /\ Goto("ctl", "rs_more")
       \/ /\ StoppedByUser = {}
          /\ current >= ctl.replicas
          /\ ctl' = [ctl EXCEPT !.n = current - ctl.replicas]
          /\ th' = [th EXCEPT !["ctl"].pc = "rs_less", !["ctl"].todo = ctl.todo]
    /\ UNCHANGED <<psmVars, ctrVars, eventVars>>

\* cleanupStoppedManagedPods, then the number of pods that are missing or too many
RsClean ==
    LET current == Cardinality(ctl.todo) IN
    /\ At("ctl", "rs_clean")
    /\ \/ \E p \in StoppedByUser :
            /\ ctl' = [ctl EXCEPT !.todo = @ \ {p}]
            /\ CtlCall("x_mark", "clean", NoPod, p)
       \/ /\ StoppedByUser = {}
          /\ current < ctl.replicas
          /\ ctl' = [ctl EXCEPT !.n = ctl.replicas - current]
          /\ Goto("ctl", "rs_more")
       \/ /\ StoppedByUser = {}
          /\ current >= ctl.replicas
          /\ ctl' = [ctl EXCEPT !.n = current - ctl.replicas]
          /\ th' = [th EXCEPT !["ctl"].pc = "rs_less", !["ctl"].todo = ctl.todo]
    /\ UNCHANGED <<psmVars, ctrVars, eventVars>>

\* Missing pods: CreateFromTemplate, UpdatePodOwner, Start
RsMore ==
    /\ At("ctl", "rs_more")
    /\ IF ctl.n = 0
         THEN Goto("ctl", IF ctl.failed THEN "rs_end" ELSE "rs_pods") /\ UNCHANGED ctl
         ELSE /\ ctl' = [ctl EXCEPT !.n = @ - 1]
              /\ th' = [th EXCEPT !["ctl"] = [Idle EXCEPT !.pc = "c_template", !.job = "new",
                                                          !.own = TRUE]]
    /\ UNCHANGED <<psmVars, ctrVars, eventVars>>

\* Excess pods, the first of the list: any of them
RsLess ==
    /\ At("ctl", "rs_less")
    /\ \/ /\ ctl.n = 0
          /\ th' = [th EXCEPT !["ctl"] = [Idle EXCEPT !.pc = "rs_pods"]]
          /\ UNCHANGED ctl
       \/ /\ ctl.n > 0
          /\ ctl' = [ctl EXCEPT !.n = @ - 1]
          /\ \E p \in th["ctl"].todo :
               th' = [th EXCEPT !["ctl"] = [Idle EXCEPT !.pc = "x_mark", !.job = "excess",
                                               !.q = p, !.todo = th["ctl"].todo \ {p}]]
    /\ UNCHANGED <<psmVars, ctrVars, eventVars>>

\* Fault for ReplicasConverge: any infra container will do
InfraPresent(p) == ctr[p].infra # "none"

InfraRunning(p) == ctr[p].infra = "running"      \* getPodInfraState

\* Each pod of the list, by what the list says of it
RsPods ==
    /\ At("ctl", "rs_pods")
    /\ \/ /\ ctl.todo = {}
          /\ Loop("rs_end")
          /\ UNCHANGED ctl
       \/ \E p \in ctl.todo :
            /\ ctl' = [ctl EXCEPT !.todo = @ \ {p}]
            /\ CASE ~InfraRunning(p) -> CtlCall("re_containers", "recreate", NoPod, p)
                 [] InfraRunning(p) /\ ctl.pods[p].state \in {"degraded", "stopped"} ->
                        CtlCall("s_read", "restart", p, NoPod)
                 [] InfraRunning(p) /\ ctl.pods[p].state = "created" ->
                        CtlCall("s_read", "first_start", p, NoPod)
                 [] OTHER -> Loop("rs_pods")
    /\ UNCHANGED <<psmVars, ctrVars, eventVars>>

\* recordReplicaSetReconcileError, clearReplicaSetReconcileStatus
RsEnd ==
    /\ At("ctl", "rs_end")
    /\ rs' = IF rs.exists THEN [rs EXCEPT !.waiting = ctl.failed] ELSE rs
    /\ ctl' = [ctl EXCEPT !.failed = FALSE, !.todo = {}, !.n = 0, !.replicas = 0]
    /\ th' = [th EXCEPT !["ctl"] = [Idle EXCEPT !.pc = "solo"]]
    /\ UNCHANGED <<pod, tpls, ctrVars, eventVars>>

\* Templates that no ReplicaSet refers to: one pod each
Solo ==
    /\ At("ctl", "solo")
    /\ \/ /\ ctl.tpls = {}
          /\ ctl' = CtlIdle
          /\ Return("ctl")
       \/ \E t \in ctl.tpls :
            LET list == {p \in Pods : ctl.pods[p].state # "none" /\ ctl.pods[p].tpl = t} IN
            IF Referenced(t)
              THEN ctl' = [ctl EXCEPT !.tpls = @ \ {t}] /\ UNCHANGED th
              ELSE /\ ctl' = [ctl EXCEPT !.tpls = @ \ {t}, !.todo = list, !.cand = NoPod]
                   /\ IF list = {}
                        THEN th' = [th EXCEPT !["ctl"] = [Idle EXCEPT
                                      !.pc = "c_template", !.job = "solo_new", !.t = t]]
                        ELSE Goto("ctl", "solo_pods")
    /\ UNCHANGED <<psmVars, ctrVars, eventVars>>

\* The first pod of the list that is not stopped decides
SoloPods ==
    /\ At("ctl", "solo_pods")
    /\ \/ /\ ctl.todo = {}
          /\ IF ctl.cand = NoPod THEN Loop("solo")
                                 ELSE CtlCall("s_read", "solo_restart", ctl.cand, NoPod)
          /\ ctl' = [ctl EXCEPT !.cand = NoPod]
       \/ \E p \in ctl.todo :
            LET info == ctl.pods[p]
                over == ctl' = [ctl EXCEPT !.todo = {}, !.cand = NoPod]
            IN
            CASE info.state = "created" -> over /\ Loop("solo")
              [] info.state # "created" /\ ~info.stopped /\ ~InfraRunning(p) ->
                    over /\ CtlCall("re_containers", "solo_recreate", NoPod, p)
              [] info.state = "degraded" /\ ~info.stopped /\ InfraRunning(p) ->
                    over /\ CtlCall("s_read", "solo_restart", p, NoPod)
              [] info.state = "stopped" /\ (info.stopped \/ InfraRunning(p)) ->
                    /\ ctl' = [ctl EXCEPT !.todo = @ \ {p},
                                !.cand = IF info.stopped \/ @ # NoPod THEN @ ELSE p]
                    /\ UNCHANGED th
              [] OTHER -> over /\ Loop("solo")
    /\ UNCHANGED <<psmVars, ctrVars, eventVars>>

\* NextReconcileAt passes
BackoffEnds ==
    /\ rs.waiting
    /\ rs' = [rs EXCEPT !.waiting = FALSE]
    /\ UNCHANGED <<pod, tpls, ctrVars, th, ctl, eventVars>>

-----------------------------------------------------------------------------
\* API requests

Begin(x, kind, frame) ==
    /\ At(x, "idle")
    /\ Event(kind)
    /\ th' = [th EXCEPT ![x] = frame]
    /\ UNCHANGED <<ctrVars, ctl>>

\* applyPodManifest: Create, then Start, then Remove if that failed
RequestApply(x) ==
    /\ "solo" \notin tpls \cup ctl.tpls
    /\ \A p \in Pods : Exists(p) => pod[p].tpl # "solo"
    /\ \A y \in Threads : At(y, "idle") \/ th[y].t # "solo"
    /\ Begin(x, "apply", [Idle EXCEPT !.pc = "c_name", !.job = "apply", !.t = "solo"])
    /\ tpls' = tpls \cup {"solo"}
    /\ UNCHANGED <<pod, rs>>

RequestPod(x) ==
    /\ At(x, "idle")
    /\ \E p \in Pods :
        /\ Exists(p)
        /\ \/ Begin(x, "start", [Idle EXCEPT !.pc = "s_read", !.job = "start", !.p = p])
           \/ Begin(x, "stop", [Idle EXCEPT !.pc = "t_stop", !.job = "stop", !.p = p])
           \/ Begin(x, "remove", [Idle EXCEPT !.pc = "r_mark", !.job = "remove", !.q = p])
    /\ UNCHANGED psmVars

RequestScale(x) ==
    /\ rs.exists
    /\ Begin(x, "scale", Idle)
    /\ \E n \in 0 .. MaxReplicas : n # rs.replicas /\ rs' = [rs EXCEPT !.replicas = n]
    /\ UNCHANGED <<pod, tpls>>

\* RemoveReplicaSetById: the ReplicaSet, its template, then the pods
RequestDeleteRs(x) ==
    /\ rs.exists
    /\ Begin(x, "delete_rs", [Idle EXCEPT !.pc = "d_template", !.job = "delete_rs"])
    /\ rs' = [exists |-> FALSE, replicas |-> 0, waiting |-> FALSE]
    /\ UNCHANGED <<pod, tpls>>

DeleteRsTemplate(x) ==
    /\ At(x, "d_template")
    /\ Goto(x, IF Referenced("web") THEN "d_list" ELSE "d_drop")
    /\ UNCHANGED <<psmVars, ctrVars, ctl, eventVars>>

DeleteRsDrop(x) ==
    /\ At(x, "d_drop")
    /\ tpls' = tpls \ {"web"}
    /\ Goto(x, "d_list")
    /\ UNCHANGED <<pod, rs, ctrVars, ctl, eventVars>>

DeleteRsList(x) ==
    /\ At(x, "d_list")
    /\ th' = [th EXCEPT ![x].pc = "d_next",
                        ![x].todo = {p \in Pods : Exists(p) /\ pod[p].tpl = "web"}]
    /\ UNCHANGED <<psmVars, ctrVars, ctl, eventVars>>

DeleteRsNext(x) ==
    /\ At(x, "d_next")
    /\ \/ th[x].todo = {} /\ Return(x)
       \/ \E p \in th[x].todo :
            th' = [th EXCEPT ![x].pc = "r_mark", ![x].q = p, ![x].todo = @ \ {p}]
    /\ UNCHANGED <<psmVars, ctrVars, ctl, eventVars>>

-----------------------------------------------------------------------------
\* A container's process ends, and the container monitor records it
ContainerDies(p, k) ==
    /\ ctr[p][k] = "running"
    /\ Event(k)
    /\ ctr' = [ctr EXCEPT ![p][k] = "stopped"]
    /\ joined' = IF k = "infra" THEN joined \ {p} ELSE joined
    /\ IF k = "member" /\ Exists(p) THEN SetState(p, "degraded") ELSE UNCHANGED pod
    /\ UNCHANGED <<tpls, rs, th, ctl>>

ServiceStep(x) ==
    \/ CreateTemplate(x) \/ CreateName(x) \/ CreateStore(x) \/ CreateOwner(x)
    \/ StartRead(x) \/ StartInfra(x) \/ StartMember(x) \/ StartList(x)
    \/ StartContainer(x) \/ StartState(x) \/ StartFlag(x)
    \/ RemoveMark(x) \/ RemoveList(x) \/ RemoveMember(x) \/ RemoveInfra(x)
    \/ RemovePod(x) \/ RemoveTemplate(x) \/ DropTemplate(x)

RequestStep(x) ==
    \/ ServiceStep(x) \/ StopMember(x) \/ StopWrite(x)
    \/ DeleteRsTemplate(x) \/ DeleteRsDrop(x) \/ DeleteRsList(x) \/ DeleteRsNext(x)

ControllerStep ==
    \/ TickBegin \/ TickTemplates \/ TickPods
    \/ RsClean \/ RsMore \/ RsLess \/ RsPods \/ RsEnd
    \/ Solo \/ SoloPods
    \/ DeleteMark \/ DeleteContainers("x_containers", "x_pod") \/ DeletePod
    \/ DeleteContainers("re_containers", "re_pod") \/ RecreatePod
    \/ ServiceStep("ctl")

PodNext ==
    \/ \E x \in Reqs :
        \/ RequestStep(x)
        \/ RequestApply(x) \/ RequestPod(x) \/ RequestScale(x) \/ RequestDeleteRs(x)
    \/ \E p \in Pods, k \in Kinds : ContainerDies(p, k)
    \/ ControllerStep
    \/ BackoffEnds

\* The ticker keeps firing, requests that were accepted are served, and time
\* passes.  Nobody has to send a request.
PodFairness ==
    /\ WF_pvars(ControllerStep)
    /\ \A x \in Reqs : WF_pvars(RequestStep(x))
    /\ WF_pvars(BackoffEnds)

PodSpec == PodInit /\ [][PodNext]_pvars
FairPodSpec == PodSpec /\ PodFairness

-----------------------------------------------------------------------------
RsPodsNow == {p \in Pods : Exists(p) /\ pod[p].tpl = "web"}
Serves(p) == ctr[p].infra = "running" /\ ctr[p].member = "running"
Serving == {p \in RsPodsNow : Serves(p)}

\* The ReplicaSet never has more pods than were ever asked for: reconcileOnce
\* counts pods in a list that is stale when it creates the missing ones, and
\* recreatePod, Start's failure path and createWithTemplate replace pods while
\* requests remove, stop and start them.
NeverOvershoots ==
    rs.exists => Cardinality(RsPodsNow) <=
                    IF "scale" \in asked THEN MaxReplicas ELSE rs.replicas

\* Whoever removes pods, a client, the controller or createWithTemplate making
\* room for a name, the template of a ReplicaSet that exists stays: without it
\* CreateFromTemplate could never make a pod again.
TemplateKept == rs.exists => "web" \in tpls

\* Once the events are over, a ReplicaSet has all its replicas serving for
\* good: after removed pods, infra containers that died, containers that could
\* not be created, and starts by clients racing the controller's repair.  Stops
\* by users, scaling and members that die are excluded (README.md, section 4).
ReplicasConverge ==
    <>[](rs.exists /\ asked \cap {"member", "stop", "scale"} = {}
            => Cardinality(Serving) = rs.replicas)

\* With scaling too, the controller always gets back to at least as many
\* serving pods as are asked for, whatever it deleted in between.
ReplicasRecover ==
    []<>(rs.exists /\ asked \cap {"member", "stop"} = {}
            => Cardinality(Serving) >= rs.replicas)

\* The stores of pods are well-formed and a ReplicaSet is never overshot.
PodsSound == PodTypeOK /\ NeverOvershoots
=============================================================================
