----------------------------- MODULE InitProcess -----------------------------
(***************************************************************************)
(* From the options of a container to its first process: droplet spec       *)
(* writes config.json, droplet create (or droplet run) seals it, prepares   *)
(* the host and starts shim and init, and init, released through the fifo,  *)
(* builds its environment step by step and executes the entrypoint.         *)
(*                                                                          *)
(* The create command, the shim, the init process, the start command and    *)
(* another writer of config.json interleave.  Any step may fail; a failed   *)
(* command undoes nothing.                                                  *)
(***************************************************************************)
EXTENDS Naturals, Sequences, FiniteSets

CONSTANTS
    Options,       \* what the command line may ask for
    AllCaps,       \* capabilities
    DefaultCaps,   \* those of the default profile
    MaxEdits, MaxFailures   \* bounds

Types == {"mount", "network", "uts", "pid", "user"}
Profiles == {"default", "dev", "deploy", "restricted", "privileged", "unconfined"}

ASSUME InitAssumption ==
    /\ {"setuid", "resource", "admin", "raw"} \subseteq AllCaps /\ DefaultCaps \subseteq AllCaps
    /\ Options \subseteq [profile : Profiles, add : SUBSET AllCaps, drop : SUBSET AllCaps, new : SUBSET Types,
                          paths : SUBSET Types, rootless : BOOLEAN, uid : Nat, ro : BOOLEAN, raise : BOOLEAN]
    /\ MaxEdits \in Nat

VARIABLES
    opt,       \* the options in force
    mode,      \* "create" or "run"
    cfg,       \* config.json: how often it was edited, whether its layers are shifted
    hash,      \* the sealed hash: a value of cfg, or NoHash
    got,       \* what create ("c"), shim ("s") and init ("i") loaded
    torn,      \* history: config.json was edited between a check and its use
    creator, shimAt, initAt,  \* where create, shim and init are
    pidfile,   \* whose pid init.pid holds: "none", "old" or "new"
    execFifo, status,
    hostSetup, \* pid -> host-side set-up done for it
    initProc,  \* what the kernel holds for the init process
    failures   \* what is left of the bound

initVars == <<opt, mode, cfg, hash, got, torn, creator, shimAt, initAt, pidfile, execFifo, status, hostSetup,
              initProc, failures>>
files == <<cfg, hash, torn, pidfile, execFifo>>

\* Differs from every config.json.
NoHash == [edits |-> MaxEdits + 1, shifted |-> FALSE]

-----------------------------------------------------------------------------
(***************************************************************************)
(* droplet spec                                                             *)
(***************************************************************************)
BaseCaps(profile) ==
    CASE profile = "deploy" -> DefaultCaps \ {"raw"}
      [] profile = "restricted" -> {}
      [] profile = "privileged" -> AllCaps
      [] OTHER -> DefaultCaps

\* Mutant: an added capability wins over a dropped one.
MergeAddWins(base, add, drop) == (base \ drop) \cup add
MergeCapabilities(base, add, drop) == (base \ drop) \cup (add \ drop)

\* A namespace path overrides a request for a new one; rootless adds "user".
MergeNamespaces(o) ==
    [t \in Types |-> IF t \in o.paths THEN "path"
                     ELSE IF t \in o.new \/ (t = "user" /\ o.rootless) THEN "new" ELSE "host"]

Confining(profile) == profile \notin {"privileged", "unconfined"}
BuildSpec(o) ==
    [caps |-> MergeCapabilities(BaseCaps(o.profile), o.add, o.drop),
     ns |-> MergeNamespaces(o),
     nnp |-> o.profile \in {"dev", "deploy", "restricted"},
     seccomp |-> Confining(o.profile),
     uid |-> o.uid, ro |-> o.ro, raise |-> o.raise, rootless |-> o.rootless]

spec == BuildSpec(opt)

-----------------------------------------------------------------------------
NoProc == [ns |-> [t \in Types |-> "host"], uid |-> 0, caps |-> AllCaps, mnt |-> "host", ro |-> FALSE,
           nnp |-> FALSE, seccomp |-> FALSE, aa |-> FALSE, named |-> "none", prejoined |-> FALSE]

InitTypeOK ==
    /\ cfg \in [edits : 0 .. MaxEdits, shifted : BOOLEAN]
    /\ hash \in [edits : 0 .. MaxEdits, shifted : BOOLEAN] \cup {NoHash}
    /\ creator \in {"seal", "check", "load", "rewrite", "rehash", "state", "fifo", "shim", "wait", "cgroup", "network",
              "created", "done", "failed"}
    /\ shimAt \in {"none", "verify", "load", "start", "pid", "wait", "failed"}
    /\ initAt \in {"none", "verify", "load", "consume", "fifo", "prepare", "exec", "failed"}
    /\ pidfile \in {"none", "old", "new"} /\ execFifo \in {"none", "made", "written"}
    /\ status \in {"creating", "created", "running", "none"}
    /\ initProc.caps \subseteq AllCaps

\* createConfigOptions: what the command line asks for.
CreateConfigOptions == opt \in Options

InitInit ==
    /\ CreateConfigOptions /\ mode \in {"create", "run"}
    /\ cfg = [edits |-> 0, shifted |-> FALSE] /\ hash = NoHash
    /\ got = [x \in {"c", "s", "i"} |-> NoHash]
    /\ torn = FALSE
    /\ creator = "seal" /\ shimAt = "none" /\ initAt = "none"
    /\ pidfile \in {"none", "old"} /\ execFifo = "none" /\ status = "none"
    /\ hostSetup = [p \in {"old", "new"} |-> {}]
    /\ initProc = [NoProc EXCEPT !.mnt = "host"]
    /\ failures = MaxFailures

MayFail == failures > 0 /\ failures' = failures - 1
CreateFails ==
    /\ creator \notin {"done", "failed"} /\ MayFail
    /\ creator' = "failed"
    /\ UNCHANGED <<opt, mode, files, got, shimAt, initAt, status, hostSetup, initProc>>

\* Another program writes config.json.
EditConfig ==
    /\ cfg.edits < MaxEdits
    /\ cfg' = [cfg EXCEPT !.edits = @ + 1]
    /\ torn' = (torn \/ shimAt = "load" \/ initAt = "load" \/ creator = "rehash" \/ (mode = "run" /\ creator = "check"))
    /\ UNCHANGED <<opt, mode, hash, got, creator, shimAt, initAt, pidfile, execFifo, status, hostSetup, initProc, failures>>

-----------------------------------------------------------------------------
(***************************************************************************)
(* droplet create.  SealAndLoad hashes and writes the hash, loads, and      *)
(* hashes again; droplet run loads first and hashes afterwards.             *)
(***************************************************************************)
Seal ==
    /\ creator = "seal"
    /\ IF mode = "create" THEN hash' = cfg /\ UNCHANGED got
       ELSE got' = [got EXCEPT !["c"] = cfg] /\ UNCHANGED hash
    /\ creator' = "check"
    /\ UNCHANGED <<opt, mode, cfg, torn, pidfile, execFifo, shimAt, initAt, status, hostSetup, initProc, failures>>

\* Load, then hash again: an edit on either side of the load is noticed.
LoadSealed ==
    /\ creator = "check"
    /\ IF mode = "create" THEN got' = [got EXCEPT !["c"] = cfg] /\ UNCHANGED hash
       ELSE hash' = cfg /\ UNCHANGED got
    /\ creator' = IF mode = "create" THEN "load" ELSE "state"
    /\ UNCHANGED <<opt, mode, cfg, torn, pidfile, execFifo, shimAt, initAt, status, hostSetup, initProc, failures>>

CompareSeal ==
    /\ creator = "load"
    /\ creator' = IF hash # cfg THEN "failed" ELSE IF spec.rootless THEN "rewrite" ELSE "state"
    /\ UNCHANGED <<opt, mode, files, got, shimAt, initAt, status, hostSetup, initProc, failures>>

\* The layers are replaced by their shifted caches and config.json is
\* written from what was loaded; the hash follows.
RewriteSpec ==
    /\ creator = "rewrite"
    /\ cfg' = [got["c"] EXCEPT !.shifted = TRUE]
    /\ got' = [got EXCEPT !["c"].shifted = TRUE]
    /\ creator' = "rehash"
    /\ UNCHANGED <<opt, mode, hash, torn, pidfile, execFifo, shimAt, initAt, status, hostSetup, initProc, failures>>

RewriteHash ==
    /\ creator = "rehash"
    /\ hash' = cfg
    /\ creator' = "state"
    /\ UNCHANGED <<opt, mode, cfg, torn, pidfile, execFifo, got, shimAt, initAt, status, hostSetup, initProc, failures>>

SaveCreating ==
    /\ creator = "state"
    /\ status' = "creating" /\ creator' = "fifo"
    /\ UNCHANGED <<opt, mode, files, got, shimAt, initAt, hostSetup, initProc, failures>>

MakeExecFifo ==
    /\ creator = "fifo"
    /\ execFifo' = "made" /\ creator' = "shim"
    /\ UNCHANGED <<opt, mode, cfg, hash, torn, pidfile, got, shimAt, initAt, status, hostSetup, initProc, failures>>

\* cleanup_shim_file and execute_shim; droplet run starts init itself.
ExecuteShim ==
    /\ creator = "shim" /\ mode = "create"
    /\ pidfile' = "none"
    /\ shimAt' = "verify" /\ creator' = "wait"
    /\ UNCHANGED <<opt, mode, cfg, hash, torn, execFifo, got, initAt, status, hostSetup, initProc, failures>>

\* clone flags and, for the shim, the namespaces given by path: nsenter joins
\* all of them; a rootless container's are joined by the shim before, the pid
\* and user namespaces excepted.
HasPath == \E t \in Types : spec.ns[t] = "path"
Prejoin == spec.rootless /\ \E t \in {"mount", "network", "uts"} : spec.ns[t] = "path"
Cloned(joined) ==
    [NoProc EXCEPT !.ns = [t \in Types |-> IF spec.ns[t] = "new" THEN "new" ELSE IF t \in joined THEN "path" ELSE "host"],
                   !.prejoined = joined # {}]

RunInit ==
    /\ creator = "shim" /\ mode = "run"
    /\ initProc' = Cloned({}) /\ initAt' = "verify"
    /\ pidfile' = "new" /\ creator' = "cgroup"
    /\ UNCHANGED <<opt, mode, cfg, hash, torn, execFifo, got, shimAt, status, hostSetup, failures>>

\* The wait for init.pid; it times out when the shim failed.
WaitInitPid ==
    /\ creator = "wait" /\ (pidfile # "none" \/ shimAt = "failed")
    /\ creator' = IF pidfile # "none" THEN "cgroup" ELSE "failed"
    /\ UNCHANGED <<opt, mode, files, got, shimAt, initAt, status, hostSetup, initProc, failures>>

PrepareCgroup ==
    /\ creator = "cgroup"
    /\ hostSetup' = [hostSetup EXCEPT ![pidfile] = @ \cup {"cgroup"}]
    /\ creator' = "network"
    /\ UNCHANGED <<opt, mode, files, got, shimAt, initAt, status, initProc, failures>>

\* The veth pair, its move into the namespace and the address.  A pod member
\* joins the network of its pod and has none of its own to set up.
PrepareNetwork ==
    /\ creator = "network"
    /\ hostSetup' = IF spec.ns["network"] = "new" THEN [hostSetup EXCEPT ![pidfile] = @ \cup {"network"}] ELSE hostSetup
    /\ creator' = "created"
    /\ UNCHANGED <<opt, mode, files, got, shimAt, initAt, status, initProc, failures>>

UpdateState ==
    /\ creator = "created"
    /\ status' = "created" /\ creator' = "done"
    /\ UNCHANGED <<opt, mode, files, got, shimAt, initAt, hostSetup, initProc, failures>>

\* droplet start: the container must be created, and init must be reading.
StartContainer ==
    /\ status = "created" /\ execFifo = "made" /\ initAt = "fifo"
    /\ execFifo' = "written" /\ status' = "running"
    /\ UNCHANGED <<opt, mode, cfg, hash, torn, pidfile, got, creator, shimAt, initAt, hostSetup, initProc, failures>>

-----------------------------------------------------------------------------
(***************************************************************************)
(* The shim                                                                 *)
(***************************************************************************)
ShimVerify ==
    /\ shimAt = "verify"
    /\ shimAt' = IF hash = cfg THEN "load" ELSE "failed"
    /\ UNCHANGED <<opt, mode, files, got, creator, initAt, status, hostSetup, initProc, failures>>

ShimLoad ==
    /\ shimAt = "load"
    /\ got' = [got EXCEPT !["s"] = cfg] /\ shimAt' = "start"
    /\ UNCHANGED <<opt, mode, files, creator, initAt, status, hostSetup, initProc, failures>>

\* With a pid namespace given by path the shim waits for the child of nsenter;
\* a prejoined container has none and the wait times out.
ShimStart ==
    /\ shimAt = "start"
    /\ initProc' = Cloned(IF Prejoin THEN {t \in {"mount", "network", "uts"} : spec.ns[t] = "path"}
                      ELSE {t \in Types : spec.ns[t] = "path"})
    /\ initAt' = "verify"
    /\ shimAt' = IF Prejoin /\ spec.ns["pid"] = "path" THEN "failed" ELSE "pid"
    /\ UNCHANGED <<opt, mode, files, got, creator, status, hostSetup, failures>>

WriteInitPid ==
    /\ shimAt = "pid"
    /\ pidfile' = "new" /\ shimAt' = "wait"
    /\ UNCHANGED <<opt, mode, cfg, hash, torn, execFifo, got, creator, initAt, status, hostSetup, initProc, failures>>

ShimFails ==
    /\ shimAt \in {"verify", "load", "start", "pid"} /\ MayFail
    /\ shimAt' = "failed"
    /\ UNCHANGED <<opt, mode, files, got, creator, initAt, status, hostSetup, initProc>>

-----------------------------------------------------------------------------
(***************************************************************************)
(* The init process                                                         *)
(***************************************************************************)
InitVerify ==
    /\ initAt = "verify"
    /\ initAt' = IF hash = cfg THEN "load" ELSE "failed"
    /\ UNCHANGED <<opt, mode, files, got, creator, shimAt, status, hostSetup, initProc, failures>>

InitLoad ==
    /\ initAt = "load"
    /\ got' = [got EXCEPT !["i"] = cfg] /\ initAt' = "consume"
    /\ UNCHANGED <<opt, mode, files, creator, shimAt, status, hostSetup, initProc, failures>>

\* The hash is removed; a rootless init may not be allowed to.
Consume ==
    /\ initAt = "consume"
    /\ \/ hash' = NoHash /\ initAt' = "fifo"
       \/ spec.rootless /\ UNCHANGED hash /\ initAt' = "fifo"
    /\ UNCHANGED <<opt, mode, cfg, torn, pidfile, execFifo, got, creator, shimAt, status, hostSetup, initProc, failures>>

InitFails ==
    /\ initAt \in {"verify", "load", "consume", "prepare"} /\ MayFail
    /\ initAt' = "failed"
    /\ UNCHANGED <<opt, mode, files, got, creator, shimAt, status, hostSetup, initProc>>

\* Each stage maps the process to the processes it may become; none when the
\* kernel refuses.
Mounts(p) == "admin" \in p.caps /\ ~p.seccomp

JoinExisting(p) ==
    IF p.prejoined THEN {p}
    ELSE {[p EXCEPT !.ns = [t \in Types |-> IF t \in {"mount", "network", "uts"} /\ spec.ns[t] = "path" THEN "path" ELSE @[t]]]}

SwitchToUserNamespaceRoot(p) == {[p EXCEPT !.uid = 0]}

\* Left out for a UTS namespace given by path and for prejoined rootless ones.
SetHostname(p) ==
    IF spec.ns["uts"] = "path" \/ (p.prejoined /\ spec.rootless) THEN {p} ELSE {[p EXCEPT !.named = p.ns["uts"]]}

\* Propagation private, overlay, base and user mounts, devices, links.
MountRootfs(p) == IF Mounts(p) THEN {[p EXCEPT !.mnt = "mounted"]} ELSE {}
ApplyPathMasks(p) == IF Mounts(p) /\ p.mnt = "mounted" THEN {[p EXCEPT !.mnt = "masked"]} ELSE {}
\* put_old is made in the new root, which must still be writable.
Pivot(p) == IF Mounts(p) /\ p.mnt = "masked" /\ ~p.ro THEN {[p EXCEPT !.mnt = "pivoted"]} ELSE {}
MakeReadonly(p) == IF ~spec.ro THEN {p} ELSE IF Mounts(p) THEN {[p EXCEPT !.ro = TRUE]} ELSE {}
SetNoNewPrivileges(p) == {[p EXCEPT !.nnp = spec.nnp]}
InstallSeccomp(p) ==
    IF ~spec.seccomp THEN {p} ELSE IF p.nnp \/ "admin" \in p.caps THEN {[p EXCEPT !.seccomp = TRUE]} ELSE {}
SetCapability(p) == {[p EXCEPT !.caps = spec.caps]}
SetRlimits(p) == IF ~spec.raise \/ "resource" \in p.caps THEN {p} ELSE {}
SetProcessUser(p) == IF spec.uid = p.uid \/ "setuid" \in p.caps THEN {[p EXCEPT !.uid = spec.uid]} ELSE {}
\* A profile that is not loaded, or not permitted, is passed over.
ApplyAppArmor(p) == {p, [p EXCEPT !.aa = TRUE]}

\* Mutant: the filter goes in before the mounts are made.
SeccompFirst(p) ==
    UNION {UNION {UNION {UNION {MakeReadonly(r) : r \in Pivot(m)} : m \in ApplyPathMasks(q)} : q \in MountRootfs(n)}
           : n \in UNION {InstallSeccomp(x) : x \in SetHostname(p)}}

Root(p) ==
    UNION {UNION {UNION {UNION {MakeReadonly(r) : r \in Pivot(m)} : m \in ApplyPathMasks(q)} : q \in MountRootfs(n)}
           : n \in SetHostname(p)}
Privileges(p) ==
    UNION {UNION {UNION {UNION {SetProcessUser(x) : x \in SetRlimits(r)} : r \in SetCapability(m)}
           : m \in InstallSeccomp(q)} : q \in SetNoNewPrivileges(p)}

\* The byte in the fifo releases init.
ReadFifo ==
    /\ initAt = "fifo" /\ execFifo = "written"
    /\ initAt' = "prepare"
    /\ UNCHANGED <<opt, mode, files, got, creator, shimAt, status, hostSetup, initProc, failures>>

\* prepare and exec: no other process sees the stages in between, and a stage
\* the kernel refuses ends init before the entrypoint.
Prepare ==
    /\ initAt = "prepare"
    /\ LET ready == UNION {UNION {UNION {UNION {ApplyAppArmor(x) : x \in Privileges(q)} : q \in Root(r)}
                           : r \in SwitchToUserNamespaceRoot(j)} : j \in JoinExisting(initProc)}
       IN IF ready = {} THEN initAt' = "failed" /\ UNCHANGED initProc ELSE initProc' \in ready /\ initAt' = "exec"
    /\ UNCHANGED <<opt, mode, files, got, creator, shimAt, status, hostSetup, failures>>

CreateStep ==
    \/ Seal \/ LoadSealed \/ CompareSeal \/ RewriteSpec \/ RewriteHash \/ SaveCreating \/ MakeExecFifo
    \/ ExecuteShim \/ RunInit \/ WaitInitPid \/ PrepareCgroup \/ PrepareNetwork \/ UpdateState
ShimSetup == ShimVerify \/ ShimLoad \/ ShimStart \/ WriteInitPid
InitStep == InitVerify \/ InitLoad \/ Consume \/ ReadFifo \/ Prepare

InitNext ==
    \/ CreateStep \/ ShimSetup \/ InitStep \/ StartContainer
    \/ EditConfig \/ CreateFails \/ ShimFails \/ InitFails

InitSpec == InitInit /\ [][InitNext]_initVars

-----------------------------------------------------------------------------
Executed == initAt = "exec"

\* The entrypoint of a created container runs what create sealed: config.json
\* as create read it and as it rewrote it, unless it was edited between a
\* check of its hash and the read that follows.
SealedSpecRuns == Executed /\ mode = "create" /\ ~torn => got["i"] = got["c"]

\* The entrypoint runs with exactly the restrictions the options ask for, in
\* its own root, and with its cgroup and network set up for its own pid.
ConfinedAtExec ==
    Executed =>
        /\ initProc.caps = spec.caps /\ initProc.uid = spec.uid /\ initProc.ro = spec.ro
        /\ initProc.nnp = spec.nnp /\ initProc.seccomp = spec.seccomp /\ initProc.mnt = "pivoted"
        /\ "cgroup" \in hostSetup["new"]
        /\ spec.ns["network"] = "new" => "network" \in hostSetup["new"]

\* No capability the options drop is ever held by the entrypoint.
DroppedCapsGone == Executed => initProc.caps \cap opt.drop = {}

\* A namespace that is given by path keeps its host name.
JoinedHostnameKept == initProc.named # "path"

\* The entrypoint runs in the namespaces the options name; droplet run joins
\* neither pid nor user namespaces, and a rootless shim that joins others by
\* path passes over a user namespace given by path.
NamespacesAsAsked ==
    Executed => \A t \in Types : \/ initProc.ns[t] = spec.ns[t]
                                 \/ mode = "run" /\ t \in {"pid", "user"}
                                 \/ mode = "create" /\ Prejoin /\ t = "user" /\ spec.ns[t] = "path"

\* What the order of the stages needs: the user is set after the capabilities
\* are dropped, and limits are raised after that too.
Feasible ==
    /\ spec.uid # 0 => "setuid" \in spec.caps
    /\ spec.raise => "resource" \in spec.caps
    /\ ~(mode = "create" /\ Prejoin /\ spec.ns["pid"] = "path")

\* A container whose options the stages can satisfy runs its entrypoint when
\* no step fails and nobody edits its configuration.
FeasibleStarts == [](failures = MaxFailures /\ cfg.edits = 0) /\ Feasible => <>Executed

\* A workload that runs was set up as its sealed specification says, whatever
\* was edited on the way and whichever stage failed: the invariants above.
StartedAsSealed ==
    InitTypeOK /\ SealedSpecRuns /\ ConfinedAtExec /\ DroppedCapsGone /\ JoinedHostnameKept /\ NamespacesAsAsked
=============================================================================
