--------------------------- MODULE ResourceApply ----------------------------
(***************************************************************************)
(* Apply and Delete of a manifest with several documents.  A request reads   *)
(* what is there for a document and then makes its store calls one by one,  *)
(* so the reads may be stale by then; the deployment controller and other   *)
(* requests go on in between.  Apply keeps a stack of undo functions.       *)
(*                                                                         *)
(* What a request still has to do is a sequence of calls.  Everything has   *)
(* one name, in one namespace; a resource's content is a revision.          *)
(***************************************************************************)
EXTENDS Integers, Sequences, FiniteSetsExt, SequencesExt

CONSTANTS
    Users,          \* requests at the same time
    MaxDocs,        \* documents in a manifest
    MaxRequests,    \* requests in a behaviour
    MaxTrouble      \* calls that fail

VARIABLES
    st,         \* the stores
    user,       \* request -> what it does
    ctl,        \* the deployment controller's round
    next,       \* the next fresh id
    requests, trouble
resVars == <<st, user, ctl, next, requests, trouble>>

None == "none"
Simple == {"Namespace", "Service", "Ingress", "NetworkPolicy", "ConfigMap", "Secret", "PersistentVolumeClaim"}
Workloads == {"Deployment", "ReplicaSet", "Pod"}
Kinds == Simple \cup Workloads \cup {"Unknown"}
Refs == {"ConfigMap", "Secret", "PersistentVolumeClaim"}

NoDeploy == [id |-> 0, tmpl |-> 0, rs |-> 0, size |-> 0]
Deploy(d, t, r, n) == [id |-> d, tmpl |-> t, rs |-> r, size |-> n]
There(s) == s.deploy # NoDeploy
Rs(t, n) == [tmpl |-> t, size |-> n]
\* A template keeps what its references were resolved to: the data of config
\* map and secret, and the path of the claim.
Template(s, doc) == [rev |-> doc.rev, env |-> IF doc.refs # {} THEN <<s.simple["ConfigMap"], s.simple["Secret"]>> ELSE <<>>,
                     claim |-> IF "PersistentVolumeClaim" \in doc.refs THEN s.claim ELSE 0]
\* A pod: its template, and the replica set that owns it (0: a manifest's own).
Pod(t, r) == [tmpl |-> t, owner |-> r]

-----------------------------------------------------------------------------
(* The calls and what they do to the stores *)
\* must: which errors end the operation: "all", "found" (all but not found), "none";
\* "doc": all, but not found only ends the document.
Call(op, arg, val) == [op |-> op, arg |-> arg, val |-> val, must |-> "all", cleanup |-> <<>>]
Try(call) == [call EXCEPT !.must = "none"]
OrSkip(call) == [call EXCEPT !.must = "doc"]
Found(call) == [call EXCEPT !.must = "found"]
OrElse(call, calls) == [call EXCEPT !.cleanup = calls]

\* IsTemplateReferenced looks at replica sets and deployments, not at pods.
IsTemplateReferenced(s, t) == s.deploy.tmpl = t \/ \E r \in DOMAIN s.rsets : s.rsets[r].tmpl = t
\* Resources.isEmpty of a namespace counts these only.
NamespaceEmpty(s) == s.pods = {} /\ s.simple["Service"] = None /\ s.rsets = <<>> /\ ~There(s)
\* ensureNoRunningPodReference: through the pod's template, if it is still there.
UsesClaim(s, p) == p.tmpl \in DOMAIN s.tmpl /\ s.tmpl[p.tmpl].claim = s.claim

Set(f, x, v) == [y \in DOMAIN f \cup {x} |-> IF y = x THEN v ELSE f[y]]
Unset(f, x) == [y \in DOMAIN f \ {x} |-> f[y]]
Ok(s, more) == [ok |-> TRUE, why |-> "", s |-> s, more |-> more]
Err(s, why) == [ok |-> FALSE, why |-> why, s |-> s, more |-> <<>>]
Need(here, s, then) == IF here THEN then ELSE Err(s, "missing")

FreeTemplate(t) == Call("tfree", t, None)
RemovePods(pods, must) == [i \in 1..Cardinality(pods) |-> [Call("pdrop", SetToSeq(pods)[i], None) EXCEPT !.must = must]]

\* Templates
PutTemplate(s, t, v) == Ok([s EXCEPT !.tmpl = Set(s.tmpl, t, v)], <<>>)
DropTemplate(s, t) == Need(t \in DOMAIN s.tmpl, s, Ok([s EXCEPT !.tmpl = Unset(s.tmpl, t)], <<>>))
TestTemplate(s, t) == Ok(s, IF IsTemplateReferenced(s, t) THEN <<>> ELSE <<Try(Call("tdrop", t, None))>>)

\* RemoveReplicaSetById: the entry, its template unless it is in use, then
\* every pod of that template.
RemoveReplicaSetById(s, r) ==
    Need(r \in DOMAIN s.rsets, s,
         LET t == s.rsets[r].tmpl
         IN Ok([s EXCEPT !.rsets = Unset(s.rsets, r)], <<Try(FreeTemplate(t)), Call("podsof", t, None)>>))
\* RemoveDeploymentById: it reads the deployment, and removes the entry, then
\* the replica set and the template it has read there.
RemoveDeploymentById(s, d) ==
    Need(s.deploy.id = d, s,
         Ok(s, <<OrSkip(Call("derase", d, s.deploy.rs))>>
               \o (IF s.deploy.rs # 0 THEN <<Found(Call("rdrop", s.deploy.rs, None))>> ELSE <<>>)
               \o <<Try(FreeTemplate(s.deploy.tmpl))>>))

\* podHandler.Remove; a pod that is gone is no error.
RemovePod(s, p) == Ok([s EXCEPT !.pods = s.pods \ {p}], IF p \in s.pods THEN <<Try(FreeTemplate(p.tmpl))>> ELSE <<>>)
\* podHandler.CreateFromTemplate and Start.
CreateFromTemplate(s, t) == Need(t \in DOMAIN s.tmpl, s, Ok([s EXCEPT !.pods = s.pods \cup {Pod(t, 0)}], <<>>))

\* namespaceHandler.Remove and pvc Remove look at the pods before they remove;
\* an ingress takes its certificates with it.
RemoveSimple(s, k) ==
    IF s.simple[k] = None THEN Err(s, "missing")
    ELSE IF k = "Namespace" THEN IF NamespaceEmpty(s) THEN Ok(s, <<Call("erase", k, None)>>) ELSE Err(s, "refused")
    ELSE IF k = "PersistentVolumeClaim" THEN IF \E p \in s.pods : UsesClaim(s, p) THEN Err(s, "refused") ELSE Ok(s, <<Call("erase", k, None)>>)
    ELSE IF k = "Ingress" THEN Ok([s EXCEPT !.simple[k] = None], <<Call("uncert", None, None)>>)
    ELSE Ok([s EXCEPT !.simple[k] = None], <<>>)

Do(s, c) ==
    CASE c.op = "put" -> Ok([s EXCEPT !.simple[c.arg] = c.val, !.claim = IF c.arg = "PersistentVolumeClaim" THEN @ + 1 ELSE @], <<>>)
      [] c.op = "drop" -> RemoveSimple(s, c.arg)
      [] c.op = "erase" -> Ok([s EXCEPT !.simple[c.arg] = None], <<>>)
      [] c.op = "refuse" -> Err(s, "refused")
      [] c.op = "cert" -> Ok([s EXCEPT !.cert = TRUE], <<>>)
      [] c.op = "uncert" -> Ok([s EXCEPT !.cert = FALSE], <<>>)
      [] c.op = "tput" -> PutTemplate(s, c.arg, c.val)
      [] c.op = "tdrop" -> DropTemplate(s, c.arg)
      [] c.op = "tfree" -> TestTemplate(s, c.arg)
      [] c.op = "dput" -> Ok([s EXCEPT !.deploy = c.val], <<>>)
      [] c.op = "dset" -> Need(s.deploy.id = c.val.id, s, Ok([s EXCEPT !.deploy = c.val], <<>>))
      [] c.op = "ddrop" -> RemoveDeploymentById(s, c.arg)
      [] c.op = "derase" -> Need(s.deploy.id = c.arg, s, Ok([s EXCEPT !.deploy = NoDeploy], <<>>))
      [] c.op = "rput" -> Ok([s EXCEPT !.rsets = Set(s.rsets, c.arg, c.val)], <<>>)
      [] c.op = "rset" -> Need(c.arg \in DOMAIN s.rsets, s, Ok([s EXCEPT !.rsets = Set(s.rsets, c.arg, c.val)], <<>>))
      [] c.op = "rdrop" -> RemoveReplicaSetById(s, c.arg)
      [] c.op = "padd" -> Ok([s EXCEPT !.pods = s.pods \cup {c.arg}], <<>>)
      [] c.op = "pdrop" -> RemovePod(s, c.arg)
      [] c.op = "pagain" -> CreateFromTemplate(s, c.arg)
      [] c.op = "podsof" -> Ok(s, RemovePods({p \in s.pods : p.tmpl = c.arg}, "all"))
      [] c.op = "podsowned" -> Ok(s, RemovePods({p \in s.pods : p.owner = c.arg}, "all"))
      [] c.op = "get" -> Need(c.arg = "Namespace" \/ s.simple[c.arg] # None, s, Ok(s, <<>>))
      [] OTHER -> Ok(s, <<>>)     \* "start", "reconcile", "push"

-----------------------------------------------------------------------------
(* Apply: the calls for one document, from what was read *)
Refuse == <<Call("refuse", None, None)>>
Push(calls) == [Call("push", None, calls) EXCEPT !.must = "none"]
\* Created: store it, and undo by removing it.  Updated: put the old one back.
Store(k, rev) == <<Call("put", k, rev), Push(<<Try(Call("drop", k, None))>>)>>
\* Created with an answer read back from the stores: an error of the read leaves
\* the entry without an undo.
Create(k, rev) == <<Call("put", k, rev), Call("get", k, None), Push(<<Try(Call("drop", k, None))>>)>>
Overwrite(k, was, rev) == <<Call("put", k, rev), Push(<<Try(Call("put", k, was))>>)>>

ApplyNamespace(was, rev) == IF was = None THEN Create("Namespace", rev) ELSE IF was = rev THEN <<>> ELSE Refuse
ApplySecret(was, rev) == IF was = None THEN Store("Secret", rev) ELSE IF was = rev THEN <<>> ELSE Overwrite("Secret", was, rev)
ApplyConfigMap(was, rev) == IF was = None THEN Store("ConfigMap", rev) ELSE IF was = rev THEN <<>> ELSE Overwrite("ConfigMap", was, rev)
\* A name that is there is refused, even with the same content.  An error of
\* ReconcileAll, which generates the rules, removes the entry again.
ApplyNetworkPolicy(was, rev) ==
    IF was # None THEN Refuse
    ELSE LET calls == Create("NetworkPolicy", rev)
             reconcile == OrElse(Call("reconcile", None, None), <<Try(Call("drop", "NetworkPolicy", None))>>)
         IN <<Head(calls), reconcile>> \o Tail(calls)
ApplyPVC(was, rev) == IF was = None THEN Create("PersistentVolumeClaim", rev) ELSE IF was = rev THEN <<>> ELSE Refuse
\* A service is removed and stored again, under its id.
ApplyService(was, rev) ==
    IF was = None THEN Store("Service", rev) ELSE IF was = rev THEN <<>>
    ELSE <<Call("drop", "Service", None), OrElse(Call("put", "Service", rev), <<Try(Call("put", "Service", was))>>),
           Push(<<Try(Call("drop", "Service", None)), Try(Call("put", "Service", was))>>)>>
\* Certificates for the hosts come first; the undo keeps them.
ApplyIngress(was, rev) ==
    LET cert == <<Call("cert", None, None)>>
    IN IF was = None THEN cert \o Store("Ingress", rev) ELSE IF was = rev THEN <<>> ELSE cert \o Overwrite("Ingress", was, rev)
ApplySimple(k, was, rev) ==
    CASE k = "Namespace" -> ApplyNamespace(was, rev) [] k = "Service" -> ApplyService(was, rev)
      [] k = "Ingress" -> ApplyIngress(was, rev) [] k = "ConfigMap" -> ApplyConfigMap(was, rev)
      [] k = "Secret" -> ApplySecret(was, rev) [] k = "NetworkPolicy" -> ApplyNetworkPolicy(was, rev)
      [] OTHER -> ApplyPVC(was, rev)

\* What the document refers to must be there, and its namespace.
ResolveConfigMapEnv(s, doc) == "ConfigMap" \in doc.refs => s.simple["ConfigMap"] # None
ResolveSecretEnv(s, doc) == "Secret" \in doc.refs => s.simple["Secret"] # None
ResolvePVCMounts(s, doc) == "PersistentVolumeClaim" \in doc.refs => s.simple["PersistentVolumeClaim"] # None
ResolveManifestNetworks(s) == s.simple["Namespace"] # None
EnsureResourceNameAvailable(s) == s.rsets = <<>> /\ ~There(s) /\ ~\E p \in s.pods : p.owner = 0

StoreTemplate(s, t, doc) == Call("tput", t, Template(s, doc))
Same(s, t, doc) == s.tmpl[t] = Template(s, doc)

RolloutDeployment(s, doc, t) ==
    LET was == s.deploy
        same == Same(s, was.tmpl, doc)
        nt == IF same THEN was.tmpl ELSE t
        hasRs == was.rs \in DOMAIN s.rsets
        undoT == IF same THEN <<>> ELSE <<Try(Call("tdrop", nt, None))>>
        oldT == Try(Call("tput", was.tmpl, s.tmpl[was.tmpl]))
        oldD == Try(Call("dset", None, was))
    IN IF was.tmpl \notin DOMAIN s.tmpl THEN Refuse
       ELSE IF same /\ was.size = doc.size THEN <<>>
       ELSE
              (IF same THEN <<>> ELSE <<StoreTemplate(s, nt, doc)>>)
              \o <<OrElse(Call("dset", None, Deploy(was.id, nt, was.rs, doc.size)), undoT)>>
              \o (IF hasRs THEN <<OrElse(Call("rset", was.rs, Rs(nt, doc.size)), <<oldD>> \o undoT)>> ELSE <<>>)
              \o (IF hasRs /\ ~same THEN <<Call("podsowned", was.rs, None)>> ELSE <<>>)
              \o <<Push(<<oldT, oldD>> \o (IF hasRs THEN <<Try(Call("rset", was.rs, s.rsets[was.rs]))>> ELSE <<>>) \o undoT)>>
              \o (IF same THEN <<>> ELSE <<Try(FreeTemplate(was.tmpl))>>)

ApplyDeployment(s, doc, t) ==
    IF There(s) THEN RolloutDeployment(s, doc, t)
    ELSE IF ~EnsureResourceNameAvailable(s) THEN Refuse
    ELSE <<StoreTemplate(s, t, doc), Push(<<Try(Call("tdrop", t, None))>>),
                    Call("dput", None, Deploy(t, t, 0, doc.size)), Push(<<Try(Call("ddrop", t, None))>>)>>

RolloutReplicaSet(s, doc, t, r) ==
    LET was == s.rsets[r]
        same == Same(s, was.tmpl, doc)
        nt == IF same THEN was.tmpl ELSE t
        undoT == IF same THEN <<>> ELSE <<Try(Call("tdrop", nt, None))>>
    IN IF was.tmpl \notin DOMAIN s.tmpl THEN Refuse
       ELSE IF same /\ was.size = doc.size THEN <<>>
       ELSE
              (IF same THEN <<>> ELSE <<StoreTemplate(s, nt, doc)>>)
              \o <<OrElse(Call("rset", r, Rs(nt, doc.size)), undoT)>>
              \o (IF same THEN <<>> ELSE <<Call("podsowned", r, None)>>)
              \o <<Push(<<Try(Call("tput", was.tmpl, s.tmpl[was.tmpl])), Try(Call("rset", r, was))>> \o undoT)>>
              \o (IF same THEN <<>> ELSE <<Try(FreeTemplate(was.tmpl))>>)

\* A deployment's replica set has the deployment's name, and is found by it.
ApplyReplicaSet(s, doc, t) ==
    IF s.rsets # <<>> THEN RolloutReplicaSet(s, doc, t, CHOOSE r \in DOMAIN s.rsets : TRUE)
    ELSE IF ~EnsureResourceNameAvailable(s) THEN Refuse
    ELSE <<StoreTemplate(s, t, doc), Push(<<Try(Call("tdrop", t, None))>>),
                    Call("rput", t, Rs(t, doc.size)), Push(<<Try(Call("rdrop", t, None))>>)>>

\* podHandler.Create stores a template and the pod, then the pod is started.
CreatePod(s, doc, t) ==
    <<StoreTemplate(s, t, doc), Call("padd", Pod(t, 0), None), Push(<<Try(Call("pdrop", Pod(t, 0), None))>>),
      OrElse(Call("start", None, None), <<Try(Call("pdrop", Pod(t, 0), None))>>)>>
\* The old pod goes first; it is made again from its template on undo.
RolloutPod(s, doc, t, p) ==
    IF p.tmpl \in DOMAIN s.tmpl /\ Same(s, p.tmpl, doc) THEN <<>>
    ELSE <<Call("pdrop", p, None), Push(<<Try(Call("pagain", p.tmpl, None))>>)>> \o CreatePod(s, doc, t)
ApplyPod(s, doc, t) ==
    LET own == {p \in s.pods : p.owner = 0}
    IN IF own = {} THEN CreatePod(s, doc, t) ELSE RolloutPod(s, doc, t, CHOOSE p \in own : TRUE)

ApplyPodResource(s, doc, t) ==
    IF ~(ResolveConfigMapEnv(s, doc) /\ ResolveSecretEnv(s, doc) /\ ResolvePVCMounts(s, doc) /\ ResolveManifestNetworks(s)) THEN Refuse
    ELSE IF doc.kind = "Deployment" THEN ApplyDeployment(s, doc, t)
    ELSE IF doc.kind = "ReplicaSet" THEN ApplyReplicaSet(s, doc, t)
    ELSE ApplyPod(s, doc, t)

Program(s, doc, t) ==
    IF doc.kind \in Simple THEN ApplySimple(doc.kind, s.simple[doc.kind], doc.rev) ELSE ApplyPodResource(s, doc, t)

-----------------------------------------------------------------------------
(* Delete: what was found for one document *)
DeleteKindPriority ==
    [Deployment |-> 10, ReplicaSet |-> 20, Pod |-> 30, Ingress |-> 40, NetworkPolicy |-> 50, Service |-> 60,
     ConfigMap |-> 70, Secret |-> 80, PersistentVolumeClaim |-> 90, Unknown |-> 500, Namespace |-> 1000]
DeleteDeployment(s) == IF There(s) THEN <<OrSkip(Call("ddrop", s.deploy.id, None))>> ELSE <<>>
DeleteReplicaSet(s) == [i \in 1..Cardinality(DOMAIN s.rsets) |-> OrSkip(Call("rdrop", SetToSeq(DOMAIN s.rsets)[i], None))]
DeletePod(s) == RemovePods({p \in s.pods : p.owner = 0}, "doc")
DeleteSimple(k) == <<OrSkip(Call("drop", k, None))>>
DeleteCalls(s, k) ==
    CASE k = "Deployment" -> DeleteDeployment(s) [] k = "ReplicaSet" -> DeleteReplicaSet(s)
      [] k = "Pod" -> DeletePod(s) [] k = "Unknown" -> Refuse [] OTHER -> DeleteSimple(k)

-----------------------------------------------------------------------------
(* Requests *)
\* What a caller sees of the stores, ids left out.
Rev(s, t) == IF t \in DOMAIN s.tmpl THEN s.tmpl[t] ELSE [rev |-> None, env |-> <<>>, claim |-> 0]
View(s) ==
    [simple |-> s.simple,
     deploy |-> IF There(s) THEN <<Rev(s, s.deploy.tmpl), s.deploy.size>> ELSE <<>>,
     rsets |-> {<<Rev(s, s.rsets[r].tmpl), s.rsets[r].size>> : r \in DOMAIN s.rsets},
     own |-> {Rev(s, p.tmpl) : p \in {q \in s.pods : q.owner = 0}}]
Idle == [pc |-> "idle", op |-> None, left |-> 0, docs |-> {}, rest |-> {}, todo |-> <<>>, undo |-> <<>>, before |-> None, solo |-> TRUE, hurt |-> FALSE]

\* Doc: kind, revision, size of a set, and the simple resources it refers to.
Doc(k, rev, n, refs) == [kind |-> k, rev |-> rev, size |-> n, refs |-> refs]
Docs ==
    {Doc(k, rev, 1, {}) : k \in Simple \cup Workloads, rev \in {"a", "b"}}
    \cup {Doc(k, "a", 1, Refs) : k \in Workloads} \cup {Doc(k, "a", 2, {}) : k \in Workloads \ {"Pod"}}

Deletable == UNION {kSubset(n, Kinds) : n \in 1..MaxDocs}

\* The stores a host may have: a namespace at least, everything else, or a
\* deployment with its replica set and its pod, or a pod of its own.
Bare == [simple |-> [k \in Simple |-> IF k = "Namespace" THEN "a" ELSE None], cert |-> FALSE, claim |-> 0,
         tmpl |-> <<>>, deploy |-> NoDeploy, rsets |-> <<>>, pods |-> {}]
Full == [Bare EXCEPT !.simple = [k \in Simple |-> "a"], !.cert = TRUE, !.claim = 1]
TemplateA == <<Template(Full, Doc("Pod", "a", 1, Refs))>>
Deployed == [Full EXCEPT !.tmpl = TemplateA, !.deploy = Deploy(1, 1, 2, 1), !.rsets = [r \in {2} |-> Rs(1, 1)], !.pods = {Pod(1, 2)}]
Podded == [Full EXCEPT !.tmpl = TemplateA, !.pods = {Pod(1, 0)}]
\* An overtaken apply leaves its pod in a namespace that is gone.
Stranded == [Podded EXCEPT !.simple["Namespace"] = None]
\* A rollout that stopped halfway leaves the replica set its old template.
HalfRolled == [Deployed EXCEPT !.tmpl = TemplateA \o TemplateA, !.deploy.tmpl = 2]
Torn(s) == s.deploy.rs \in DOMAIN s.rsets /\ s.rsets[s.deploy.rs].tmpl # s.deploy.tmpl
ResInit ==
    /\ st \in {Bare, Full, Deployed, Podded, Stranded, HalfRolled}
    /\ user = [u \in Users |-> Idle]
    /\ ctl = [pc |-> "idle", seen |-> NoDeploy, rs |-> 0]
    /\ next = 3 /\ requests = 0 /\ trouble = 0

Overtaken(u) == [v \in Users |-> IF v # u /\ user[v].pc # "idle" /\ st' # st THEN [user[v] EXCEPT !.solo = FALSE] ELSE user[v]]
BeginRequest(u, op, docs) ==
    /\ user[u].pc = "idle" /\ requests < MaxRequests /\ requests' = requests + 1
    /\ user' = [user EXCEPT ![u] = [Idle EXCEPT !.pc = "next", !.op = op, !.left = MaxDocs, !.docs = docs, !.rest = docs, !.before = View(st),
                                    !.hurt = Torn(st)]]
    /\ UNCHANGED <<st, ctl, next, trouble>>
BeginApply(u) == BeginRequest(u, "apply", {})
\* Delete decodes all documents before it touches anything.
BeginDelete(u, kinds) == BeginRequest(u, "delete", kinds)

Waiting(u, op) == user[u].pc = "next" /\ user[u].op = op
NextDoc(u, doc) ==
    /\ Waiting(u, "apply") /\ user[u].left > 0
    /\ user' = [user EXCEPT ![u] = [@ EXCEPT !.pc = "run", !.left = @ - 1, !.docs = @ \cup {doc.kind}, !.todo = Program(st, doc, next)]]
    /\ next' = next + (IF doc.kind \in Workloads THEN 1 ELSE 0)
    /\ UNCHANGED <<st, ctl, requests, trouble>>
\* A document that does not parse, or of an unknown kind.
BadDoc(u) ==
    /\ Waiting(u, "apply")
    /\ user' = [user EXCEPT ![u].pc = "rollback"]
    /\ UNCHANGED <<st, ctl, next, requests, trouble>>
NextDelete(u, k) ==
    /\ Waiting(u, "delete") /\ \A j \in user[u].rest : DeleteKindPriority[k] <= DeleteKindPriority[j]
    /\ user' = [user EXCEPT ![u] = [@ EXCEPT !.pc = "run", !.rest = @ \ {k}, !.todo = DeleteCalls(st, k)]]
    /\ UNCHANGED <<st, ctl, next, requests, trouble>>
EndOfDocs(u) ==
    /\ user[u].pc = "next" /\ (user[u].rest = {})
    /\ user' = [user EXCEPT ![u].pc = "ok"]
    /\ UNCHANGED <<st, ctl, next, requests, trouble>>

\* Error: apply cleans up and rolls back, delete stops where it is.
Failed(q, c) == IF q.op = "apply" THEN [q EXCEPT !.pc = "rollback", !.todo = c.cleanup] ELSE [q EXCEPT !.pc = "failed", !.todo = <<>>]
AfterCall(q, c, out) ==
    LET rest == Tail(q.todo)
    IN IF out.ok /\ c.op = "push" THEN [q EXCEPT !.todo = rest, !.undo = Append(@, c.val)]
       ELSE IF out.ok THEN [q EXCEPT !.todo = out.more \o rest]
       ELSE IF c.must = "none" \/ (c.must = "found" /\ out.why = "missing") THEN [q EXCEPT !.todo = rest]
       ELSE IF c.must = "doc" /\ out.why = "missing" THEN [q EXCEPT !.todo = <<>>]
       ELSE Failed(q, c)

\* History: what the undo functions cannot bring back.  A pod that was replaced
\* took its template with it, an error while a rollout removes the old pods
\* comes before its undo is there, as does one of reading back what was
\* created, and an undo call may fail itself, or be refused: what an overtaken
\* request left in a namespace keeps it there.
Hurts(q, c, out) ==
    /\ q.op = "apply"
    /\ \/ q.pc = "rollback" /\ out.why \in {"fault", "refused"}
       \/ out.why = "fault" /\ c.op \in {"podsowned", "pdrop", "get"}
       \/ q.pc = "run" /\ c.op = "pdrop" /\ c.arg.owner = 0
\* History: the call, of a request that read the deployment before it had the
\* controller's replica set, takes the link to it away, or fails to remove it.
\* (Two applies may also store two deployments of the name; there is one here.)
Forsakes(c, out) ==
    /\ ctl.rs # 0
    /\ \/ out.ok /\ c.op \in {"dset", "dput"} /\ st.deploy.rs = ctl.rs /\ c.val.rs # ctl.rs
       \/ out.ok /\ c.op = "derase" /\ st.deploy.rs = ctl.rs /\ c.val # ctl.rs
       \/ out.why = "fault" /\ c.op = "rdrop" /\ c.arg = ctl.rs
RunCall(u) ==
    LET q == user[u]
        c == Head(q.todo)
    IN /\ q.pc \in {"run", "rollback"} /\ q.todo # <<>>
       /\ \E fault \in {FALSE} \cup (IF trouble < MaxTrouble /\ c.op \notin {"push", "refuse"} THEN {TRUE} ELSE {}) :
             LET out == IF fault THEN Err(st, "fault") ELSE Do(st, c)
             IN /\ trouble' = trouble + (IF fault THEN 1 ELSE 0)
                /\ st' = out.s
                /\ user' = [Overtaken(u) EXCEPT ![u] = [AfterCall(q, c, out) EXCEPT !.hurt = @ \/ Hurts(q, c, out)]]
                /\ ctl' = IF Forsakes(c, out) THEN [ctl EXCEPT !.rs = 0] ELSE ctl
       /\ UNCHANGED <<next, requests>>

DocDone(u) ==
    /\ user[u].pc = "run" /\ user[u].todo = <<>>
    /\ user' = [user EXCEPT ![u].pc = "next"]
    /\ UNCHANGED <<st, ctl, next, requests, trouble>>

\* Mutant: the undo functions run in the order they were pushed.
RollbackFirst(u) ==
    /\ user[u].pc = "rollback" /\ user[u].todo = <<>> /\ user[u].undo # <<>>
    /\ user' = [user EXCEPT ![u] = [@ EXCEPT !.todo = Head(user[u].undo), !.undo = Tail(@)]]
    /\ UNCHANGED <<st, ctl, next, requests, trouble>>

\* rollbackApplied: the undo functions, the last one first.
RollbackApplied(u) ==
    /\ user[u].pc = "rollback" /\ user[u].todo = <<>> /\ user[u].undo # <<>>
    /\ user' = [user EXCEPT ![u] = [@ EXCEPT !.todo = Last(user[u].undo), !.undo = Front(@)]]
    /\ UNCHANGED <<st, ctl, next, requests, trouble>>

RolledBack(u) ==
    /\ user[u].pc = "rollback" /\ user[u].todo = <<>> /\ user[u].undo = <<>>
    /\ user' = [user EXCEPT ![u].pc = "failed"]
    /\ UNCHANGED <<st, ctl, next, requests, trouble>>

Respond(u) ==
    /\ user[u].pc \in {"ok", "failed"}
    /\ user' = [user EXCEPT ![u] = Idle]
    /\ UNCHANGED <<st, ctl, next, requests, trouble>>

-----------------------------------------------------------------------------
(* The controllers meanwhile *)
Meanwhile == user' = [v \in Users |-> IF user[v].pc # "idle" /\ st' # st THEN [user[v] EXCEPT !.solo = FALSE] ELSE user[v]]

\* reconcileDeployments, from what it listed: a deployment without a replica
\* set gets one, a lost one is unlinked, a size is passed on.
CtlList ==
    /\ ctl.pc = "idle" /\ There(st)
    /\ \/ /\ st.deploy.rs = 0
          /\ ctl' = [pc |-> "store", seen |-> st.deploy, rs |-> next] /\ next' = next + 1
       \/ /\ st.deploy.rs # 0 /\ st.deploy.rs \notin DOMAIN st.rsets
          /\ ctl' = [ctl EXCEPT !.pc = "unlink", !.seen = st.deploy] /\ next' = next
       \/ /\ st.deploy.rs \in DOMAIN st.rsets /\ st.rsets[st.deploy.rs].size # st.deploy.size
          /\ ctl' = [ctl EXCEPT !.pc = "sync", !.seen = st.deploy] /\ next' = next
    /\ UNCHANGED <<st, user, requests, trouble>>
CtlStore ==
    /\ ctl.pc = "store"
    /\ st' = [st EXCEPT !.rsets = Set(st.rsets, ctl.rs, Rs(ctl.seen.tmpl, ctl.seen.size))]
    /\ ctl' = [ctl EXCEPT !.pc = "link"]
    /\ Meanwhile /\ UNCHANGED <<next, requests, trouble>>
\* Mutant: the set is kept when the link fails.
CtlLinkKeeps ==
    /\ ctl.pc = "link" /\ trouble' = trouble
    /\ st' = IF st.deploy.id = ctl.seen.id THEN [st EXCEPT !.deploy.rs = ctl.rs] ELSE st
    /\ ctl' = [ctl EXCEPT !.pc = "idle"]
    /\ Meanwhile /\ UNCHANGED <<next, requests>>
\* UpdateDeploymentReplicaSet; if it fails, as it does for a deployment
\* that is gone, the set is taken back.
CtlLink ==
    /\ ctl.pc = "link"
    /\ \/ /\ st.deploy.id = ctl.seen.id /\ st' = [st EXCEPT !.deploy.rs = ctl.rs] /\ trouble' = trouble
          /\ ctl' = [ctl EXCEPT !.pc = "idle"]
       \/ /\ st.deploy.id # ctl.seen.id /\ trouble' = trouble
          /\ ctl' = [ctl EXCEPT !.pc = "takeback"] /\ UNCHANGED st
       \/ /\ trouble < MaxTrouble /\ trouble' = trouble + 1
          /\ ctl' = [ctl EXCEPT !.pc = "takeback"] /\ UNCHANGED st
    /\ Meanwhile /\ UNCHANGED <<next, requests>>
\* An error here is logged, and the set stays.
CtlTakeBack ==
    /\ ctl.pc = "takeback"
    /\ \/ st' = [st EXCEPT !.rsets = Unset(st.rsets, ctl.rs)] /\ trouble' = trouble /\ ctl' = [ctl EXCEPT !.pc = "idle"]
       \/ trouble < MaxTrouble /\ trouble' = trouble + 1 /\ ctl' = [ctl EXCEPT !.pc = "idle", !.rs = 0] /\ UNCHANGED st
    /\ Meanwhile /\ UNCHANGED <<next, requests>>
CtlUnlink ==
    /\ ctl.pc = "unlink"
    /\ st' = IF st.deploy.id = ctl.seen.id THEN [st EXCEPT !.deploy.rs = 0] ELSE st
    /\ ctl' = [ctl EXCEPT !.pc = "idle"]
    /\ Meanwhile /\ UNCHANGED <<next, requests, trouble>>
CtlSync ==
    /\ ctl.pc = "sync"
    /\ st' = IF ctl.seen.rs \in DOMAIN st.rsets THEN [st EXCEPT !.rsets[ctl.seen.rs].size = ctl.seen.size] ELSE st
    /\ ctl' = [ctl EXCEPT !.pc = "idle"]
    /\ Meanwhile /\ UNCHANGED <<next, requests, trouble>>

\* A replica set's pod is made from its template (PodController has the details).
CtlPod(r) ==
    /\ r \in DOMAIN st.rsets /\ st.rsets[r].tmpl \in DOMAIN st.tmpl /\ ~\E p \in st.pods : p.owner = r
    /\ st' = [st EXCEPT !.pods = @ \cup {Pod(st.rsets[r].tmpl, r)}]
    /\ Meanwhile /\ UNCHANGED <<ctl, next, requests, trouble>>

ResNext ==
    \/ \E u \in Users :
          \/ BeginApply(u) \/ EndOfDocs(u) \/ BadDoc(u) \/ RunCall(u) \/ DocDone(u)
          \/ RollbackApplied(u) \/ RolledBack(u) \/ Respond(u)
          \/ user[u].pc = "idle" /\ \E kinds \in Deletable : BeginDelete(u, kinds)
          \/ Waiting(u, "apply") /\ \E doc \in Docs : NextDoc(u, doc)
          \/ Waiting(u, "delete") /\ \E k \in user[u].rest : NextDelete(u, k)
    \/ CtlList \/ CtlStore \/ CtlLink \/ CtlTakeBack \/ CtlUnlink \/ CtlSync
    \/ \E r \in DOMAIN st.rsets : CtlPod(r)

ResSpec == ResInit /\ [][ResNext]_resVars

-----------------------------------------------------------------------------
ResTypeOK ==
    /\ \A k \in Simple : st.simple[k] \in {None, "a", "b"}
    /\ \A p \in st.pods : p.tmpl < next /\ p.owner < next
    /\ \A u \in Users : user[u].pc \in {"idle", "next", "run", "rollback", "ok", "failed"}

\* A failed apply leaves every resource with the content it had before, as far
\* as nobody else worked on them and an undo function could do it.
FailedApplyRestores ==
    \A u \in Users : user[u].pc = "failed" /\ user[u].op = "apply" /\ user[u].solo /\ ~user[u].hurt => View(st) = user[u].before

\* A delete that reports success left nothing of the kinds it was given.
DeleteComplete ==
    \A u \in Users : user[u].pc = "ok" /\ user[u].op = "delete" /\ user[u].solo =>
        /\ \A k \in user[u].docs \cap Simple : st.simple[k] = None
        /\ "Deployment" \in user[u].docs => ~There(st)
        /\ "ReplicaSet" \in user[u].docs => st.rsets = <<>>
        /\ "Pod" \in user[u].docs => \A p \in st.pods : p.owner # 0

\* A delete stops at a namespace or a claim only because of something it was
\* not asked to delete, or a pod whose replica set the controller took back:
\* the order of its documents never stands in its way.
DeleteInOrder ==
    \A u \in Users : user[u].pc = "failed" /\ user[u].op = "delete" /\ user[u].solo /\ trouble = 0 =>
        \/ "Unknown" \in user[u].docs
        \/ "Pod" \notin user[u].docs /\ \E p \in st.pods : p.owner = 0
        \/ "Deployment" \notin user[u].docs /\ There(st)
        \/ "ReplicaSet" \notin user[u].docs /\ st.rsets # <<>>
        \/ "Service" \notin user[u].docs /\ st.simple["Service"] # None
        \/ \E p \in st.pods : p.owner # 0 /\ p.owner \notin DOMAIN st.rsets

\* Delete removes what it was given, and only what it was not given stops it.
DeleteSound == DeleteComplete /\ DeleteInOrder

\* A replica set the controller stores for a deployment is linked to it, or
\* about to be removed, whatever requests do between the two calls; only a
\* failing call, or a request that read the deployment before it was linked,
\* can leave one that nobody owns.
ReplicaSetOwned ==
    ctl.pc \notin {"link", "takeback"} /\ ctl.rs \in DOMAIN st.rsets =>
        \/ st.deploy.rs = ctl.rs
        \/ \E u \in Users : \E i \in DOMAIN user[u].todo : user[u].todo[i].op = "rdrop" /\ user[u].todo[i].arg = ctl.rs

\* Apply and Delete: the invariants above.
ApplySound == ResTypeOK /\ FailedApplyRestores /\ DeleteSound /\ ReplicaSetOwned
=============================================================================
