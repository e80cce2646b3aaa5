----------------------------- MODULE ImageBuild -----------------------------
(***************************************************************************)
(* ImageService.Build: the instructions of a build file one by one, each    *)
(* RUN in a container of its own, beside the shim and the monitor that      *)
(* report how that container ended.                                         *)
(*                                                                         *)
(* A root file system is the set of names of its files; a RUN or COPY       *)
(* instruction brings the file its argument names.  An argument is Nothing  *)
(* where its parser refuses what is written.                                *)
(***************************************************************************)
EXTENDS Integers, Sequences, SequencesExt

CONSTANTS
    Programs,       \* build files: sequences of [op, arg, val, from, alias]
    BaseFiles,      \* what the base image holds
    ContextFiles,   \* what the build context holds
    MaxBuildFaults  \* steps that fail for a reason of their own

\* A build file is a sequence of instructions.
ASSUME BuildAssumption == \A p \in Programs : p \in Seq(Range(p))

VARIABLES prog, bpc, pos, st, stages, roots, cleanup, run, mon, image, bfaults, exits, hist
buildVars == <<prog, bpc, pos, st, stages, roots, cleanup, run, mon, image, bfaults, exits, hist>>

Nothing == "none"
\* The empty path: joined with a name it means the daemon's working directory.
NoRoot == 0
NewBuildState == [root |-> NoRoot, alias |-> Nothing, env |-> <<>>, cmd |-> Nothing, user |-> Nothing, script |-> Nothing, workdir |-> "/"]
NoRun == [addr |-> FALSE, dir |-> FALSE, cgroup |-> FALSE, csm |-> "none", code |-> 0, final |-> FALSE, proc |-> "none", own |-> 0,
          rt |-> "none", rtcode |-> 0, applied |-> FALSE]
NoImage == [files |-> {}, env |-> <<>>, cmd |-> Nothing, user |-> Nothing, workdir |-> "/"]

BuildInit ==
    /\ prog \in Programs
    /\ bpc = "ins" /\ pos = 1
    /\ st = NewBuildState /\ stages = <<>>
    /\ roots = [d \in {NoRoot} |-> {}]       \* the files of the temporary root file systems
    /\ cleanup = {} /\ run = NoRun /\ mon = "idle" /\ image = NoImage
    /\ bfaults = 0 /\ exits = {} /\ hist = {}

Ins == prog[pos]
AtIns(op) == bpc = "ins" /\ pos <= Len(prog) /\ Ins.op \in op
Preceded(i, op) == \E j \in 1 .. i - 1 : prog[j].op = op
Advance == pos' = pos + 1 /\ bpc' = "ins"
Fails == bpc' = "failing" /\ UNCHANGED pos
BuildFault == bfaults < MaxBuildFaults /\ bfaults' = bfaults + 1
\* MkdirTemp: a directory nobody has used, named here after the instruction
\* that makes it (none makes two).
MkdirTemp(files) == [d \in DOMAIN roots \cup {pos} |-> IF d = pos THEN files ELSE roots[d]]
NoContainerChange == UNCHANGED <<run, mon, exits>>

\* setEnvVar: replace the value in place or append the pair.
SetEnvVar(env, k, v) ==
    LET i == SelectInSeq(env, LAMBDA p : p[1] = k)
    IN IF i # 0 THEN [env EXCEPT ![i] = <<k, v>>] ELSE Append(env, <<k, v>>)

\* parseFromSpec, and parseCopySpec with the word splitting below it.
ParseFromSpec == Ins.arg # Nothing
ParseCopySpec == Ins.arg # Nothing

\* The files and the config of a new stage.
FilesOf(name) == IF name = "scratch" THEN {} ELSE BaseFiles
StateFrom(name, alias) ==
    [NewBuildState EXCEPT !.root = pos, !.alias = alias, !.env = IF name = "scratch" THEN <<>> ELSE <<<<"E", "image">>>>,
                          !.cmd = IF name = "scratch" THEN Nothing ELSE "image"]

\* FROM: the stage so far is remembered, the new one starts from the image or
\* from nothing; its directory is registered for removal.
ApplyFrom ==
    /\ AtIns({"FROM"})
    /\ stages' = IF st.root # NoRoot THEN Append(stages, [name |-> st.alias, root |-> st.root]) ELSE stages
    /\ \/ /\ ParseFromSpec
          /\ roots' = MkdirTemp(FilesOf(Ins.arg)) /\ st' = StateFrom(Ins.arg, Ins.alias)
          /\ cleanup' = cleanup \cup {pos} /\ Advance /\ UNCHANGED <<bfaults, hist>>
       \* parseFromSpec, the pull or the read of the config fails
       \/ /\ IF ParseFromSpec THEN BuildFault ELSE UNCHANGED bfaults
          /\ Fails /\ UNCHANGED <<roots, st, cleanup, hist>>
       \* copyDir fails: the directory is not registered yet
       \/ /\ Ins.arg \notin {Nothing, "scratch"} /\ BuildFault
          /\ roots' = MkdirTemp({})
          /\ hist' = hist \cup {"rootfsLeft"} /\ Fails /\ UNCHANGED <<st, cleanup>>
    /\ NoContainerChange /\ UNCHANGED <<prog, image>>

\* CMD, ENTRYPOINT, USER and SHELL set one field of the image's config.
Configured == IF Ins.op = "CMD" THEN [st EXCEPT !.cmd = Ins.arg] ELSE [st EXCEPT !.user = Ins.arg]

\* ENV, the instructions above, and those that are accepted and ignored.
ApplySimple ==
    /\ \/ AtIns({"ENV", "CMD", "USER"}) /\ Ins.arg = Nothing /\ Fails /\ UNCHANGED st
       \/ AtIns({"ENV"}) /\ Ins.arg # Nothing /\ Advance /\ st' = [st EXCEPT !.env = SetEnvVar(st.env, Ins.arg, Ins.val)]
       \/ AtIns({"CMD", "USER"}) /\ Ins.arg # Nothing /\ Advance /\ st' = Configured
       \/ AtIns({"LABEL"}) /\ Advance /\ UNCHANGED st
    /\ NoContainerChange /\ UNCHANGED <<prog, stages, roots, cleanup, image, bfaults, hist>>

\* resolveCopyStage: a number is the stage's index (here from 1), a name that
\* of the last stage called so; NoRoot where there is no such stage.
CopyStage(from) ==
    LET named == IF from.by = "index" THEN {i \in DOMAIN stages : i = from.n}
                 ELSE {i \in DOMAIN stages : from.by = "name" /\ stages[i].name = from.to}
    IN IF named = {} THEN NoRoot ELSE stages[CHOOSE i \in named : \A j \in named : j <= i].root

\* The names a COPY may take: the context's, another stage's or another
\* image's, never a path outside of them.
CopySource(from) ==
    CASE from.by = "context" -> ContextFiles
      [] from.by # "context" /\ CopyStage(from) # NoRoot -> roots[CopyStage(from)]
      [] OTHER -> IF from.by = "name" THEN FilesOf(from.to) ELSE {}
OtherImage(from) == from.by = "name" /\ CopyStage(from) = NoRoot

\* COPY and ADD, from the context, an earlier stage or another image.  Before
\* the first FROM the target is a path below the daemon's working directory.
ApplyCopy ==
    /\ AtIns({"COPY"})
    /\ \/ /\ ParseCopySpec /\ Ins.arg \in CopySource(Ins.from)
          /\ roots' = [roots EXCEPT ![st.root] = roots[st.root] \cup {Ins.arg}] /\ Advance /\ UNCHANGED <<bfaults, hist>>
       \/ /\ IF ParseCopySpec /\ Ins.arg \in CopySource(Ins.from) THEN BuildFault ELSE UNCHANGED bfaults
          /\ Fails /\ UNCHANGED <<roots, hist>>
       \* the copy of another image fails before it is registered
       \/ /\ ParseCopySpec /\ OtherImage(Ins.from) /\ Ins.from.to # "scratch" /\ BuildFault
          /\ roots' = MkdirTemp({}) /\ hist' = hist \cup {"rootfsLeft"} /\ Fails
    /\ NoContainerChange /\ UNCHANGED <<prog, st, stages, cleanup, image>>

\* WORKDIR: its directory is made in the stage's root, before the first FROM
\* below the daemon's working directory.
ApplyWorkdir ==
    /\ AtIns({"WORKDIR"})
    /\ \/ /\ Ins.arg # Nothing /\ Advance /\ UNCHANGED bfaults
          /\ st' = [st EXCEPT !.workdir = Ins.arg]
          /\ roots' = [roots EXCEPT ![st.root] = roots[st.root] \cup {Ins.arg}]
       \/ /\ IF Ins.arg # Nothing THEN BuildFault ELSE UNCHANGED bfaults
          /\ Fails /\ UNCHANGED <<st, roots>>
    /\ NoContainerChange /\ UNCHANGED <<prog, stages, cleanup, image, hist>>

\* runLineFromArg and renderRunBlock; an empty command is refused.
RunLineFromArg == Ins.arg # Nothing

\* RUN: applyRun makes the working directory and the script, flushRunScript
\* runs it at once.  Without a root and without a WORKDIR there is no directory
\* to make: the empty path is refused.
ApplyRun ==
    /\ AtIns({"RUN"})
    /\ \/ (RunLineFromArg => st.root = NoRoot /\ st.workdir = "/") /\ Fails /\ UNCHANGED <<st, bfaults>>
       \/ /\ RunLineFromArg /\ (st.root = NoRoot => st.workdir # "/")
          /\ \/ bpc' = "alloc" /\ st' = [st EXCEPT !.script = Ins.arg] /\ UNCHANGED <<pos, bfaults>>
             \/ BuildFault /\ Fails /\ UNCHANGED st
    /\ NoContainerChange /\ UNCHANGED <<prog, stages, roots, cleanup, image, hist>>

Unsupported ==
    /\ bpc = "ins" /\ pos <= Len(prog) /\ Ins.op \notin {"FROM", "ENV", "CMD", "USER", "LABEL", "COPY", "RUN", "WORKDIR"} /\ Fails
    /\ NoContainerChange /\ UNCHANGED <<prog, st, stages, roots, cleanup, image, bfaults, hist>>

-----------------------------------------------------------------------------
(* runCommandInContainer *)
Goes(pc, next) == bpc = pc /\ bpc' = next
Keeps == UNCHANGED <<prog, pos, st, stages, cleanup, image>>
\* What a step that fails on its own leaves of the container: a create may have
\* started the init process, a start may have released it.
LeftBy(pc) ==
    CASE pc = "dirs" -> {[run EXCEPT !.dir = TRUE]}
      [] pc = "create" -> {run} \cup {[run EXCEPT !.csm = s, !.rt = s, !.proc = "waiting"] : s \in {"creating", "created"}}
      [] pc = "start" -> {run} \cup {[run EXCEPT !.proc = "running", !.rt = s] : s \in {"created", "running"}}
      [] OTHER -> {run}
\* The deferred rollback runs, whatever was done.
RunFails(pc) ==
    /\ Goes(pc, "rollback") /\ BuildFault
    /\ run' \in LeftBy(pc)
    /\ hist' = hist \cup CASE pc = "dirs" -> {"dirLeft"} [] pc = "gateway" -> {"addressLeft"} [] pc = "start" -> {"gaveUp"}
                            [] pc = "create" /\ run' # run -> {"halfCreated"} [] OTHER -> {}
    /\ UNCHANGED <<roots, mon, exits>> /\ Keeps

AllocateBuildAddress ==
    \/ Goes("alloc", "gateway") /\ run' = [NoRun EXCEPT !.addr = TRUE] /\ UNCHANGED <<roots, mon, bfaults, exits, hist>> /\ Keeps
    \/ Goes("gateway", "dirs") /\ UNCHANGED <<run, roots, mon, bfaults, exits, hist>> /\ Keeps

\* setupBuildContainerDirectory, setupBuildEtcFiles and setupBuildCgroup.
SetupBuild ==
    \/ Goes("dirs", "cgroup") /\ run' = [run EXCEPT !.dir = TRUE] /\ UNCHANGED <<roots, mon, bfaults, exits, hist>> /\ Keeps
    \/ Goes("cgroup", "entry") /\ run' = [run EXCEPT !.cgroup = TRUE] /\ UNCHANGED <<roots, mon, bfaults, exits, hist>> /\ Keeps

\* writeBuildRunScript and StoreContainer.
StoreBuildEntry ==
    Goes("entry", "create") /\ run' = [run EXCEPT !.csm = "creating"] /\ UNCHANGED <<roots, mon, bfaults, exits, hist>> /\ Keeps

\* Spec, copyBuildConfig, Create and Start of the runtime; the poststart hook
\* reports the container as running.
StartBuildContainer ==
    \/ Goes("create", "start") /\ run' = [run EXCEPT !.csm = "created", !.proc = "waiting", !.rt = "created"]
       /\ UNCHANGED <<roots, mon, bfaults, exits, hist>> /\ Keeps
    \/ Goes("start", "wait") /\ run' = [run EXCEPT !.csm = "running", !.proc = "running", !.rt = "running"]
       /\ UNCHANGED <<roots, mon, bfaults, exits, hist>> /\ Keeps

\* isBuildExitStatusFinal: a zero counts only with a reason.
IsBuildExitStatusFinal == run.csm = "stopped" /\ run.code >= 0 /\ (run.code # 0 \/ run.final)

\* waitBuildContainerStopped: a final status, or one of its two deadlines.
WaitBuildContainerStopped ==
    \/ bpc = "wait" /\ IsBuildExitStatusFinal
       /\ bpc' = (IF run.code = 0 THEN "delete" ELSE "rollback") /\ UNCHANGED <<run, roots, mon, bfaults, exits, hist>> /\ Keeps
    \/ bpc = "wait" /\ ~IsBuildExitStatusFinal /\ (run.csm = "stopped" \/ bfaults < MaxBuildFaults)
       /\ bpc' = "rollback" /\ hist' = hist \cup {"gaveUp"}
       /\ bfaults' = (IF run.csm = "stopped" THEN bfaults ELSE bfaults + 1)
       /\ UNCHANGED <<run, roots, mon, exits>> /\ Keeps

\* What the command wrote: nothing where there was no root to mount.
Written == IF st.root = NoRoot THEN {} ELSE {st.script}

\* The runtime's Delete, then applyOverlayUpper brings what the command wrote.
DeleteBuildContainer ==
    \/ Goes("delete", "upper") /\ run' = [run EXCEPT !.rt = "none", !.proc = "none"]
       /\ UNCHANGED <<roots, mon, bfaults, exits, hist>> /\ Keeps
    \/ Goes("upper", "rollback") /\ roots' = [roots EXCEPT ![st.root] = roots[st.root] \cup Written]
       /\ run' = [run EXCEPT !.applied = TRUE] /\ UNCHANGED <<mon, bfaults, exits, hist>> /\ Keeps

\* Mutant: the rollback runs only when the RUN failed.
RollbackFailedOnly ==
    /\ bpc = "rollback"
    /\ IF run.applied THEN run' = [run EXCEPT !.applied = FALSE] /\ Advance ELSE run' = NoRun /\ Fails
    /\ st' = [st EXCEPT !.script = Nothing]
    /\ UNCHANGED <<prog, stages, roots, cleanup, mon, image, bfaults, exits, hist>>

\* A cgroup with a process inside cannot be removed, and the error is ignored;
\* the process of a failed create may not be inside yet.
CgroupLeft == run.cgroup /\ run.proc \in {"waiting", "running"}

\* The deferred function gives back what was registered, also after success.
RollbackBuild ==
    /\ bpc = "rollback"
    /\ \E left \in {CgroupLeft} \cup (IF "halfCreated" \in hist THEN {FALSE} ELSE {}) :
        run' = [run EXCEPT !.addr = IF "addressLeft" \in hist THEN run.addr ELSE FALSE, !.dir = IF "dirLeft" \in hist THEN run.dir ELSE FALSE,
                            !.cgroup = left, !.csm = "none", !.rt = IF "dirLeft" \in hist THEN run.rt ELSE "none", !.applied = FALSE]
    /\ IF run.applied THEN Advance ELSE Fails
    /\ st' = [st EXCEPT !.script = Nothing]
    /\ UNCHANGED <<prog, stages, roots, cleanup, mon, image, bfaults, exits, hist>>

-----------------------------------------------------------------------------
(* How a RUN ends, as the runtime and the monitor report it *)
Apart == UNCHANGED <<prog, bpc, pos, st, stages, roots, cleanup, image, bfaults>>

\* Without a root the init process cannot mount it and fails.
ProcExits(c) ==
    /\ run.proc = "running" /\ (st.root = NoRoot => c = 1)
    /\ run' = [run EXCEPT !.proc = "exited", !.own = c]
    /\ exits' = exits \cup {c}
    /\ Apart /\ UNCHANGED <<mon, hist>>

\* The shim writes the status and then the exit code into state.json.
ShimReports ==
    /\ run.proc = "exited" /\ run.rt # "none"
    /\ IF run.rt # "stopped" THEN run' = [run EXCEPT !.rt = "stopped"] ELSE run' = [run EXCEPT !.rtcode = run.own]
    /\ run # run'
    /\ Apart /\ UNCHANGED <<mon, exits, hist>>

\* handleProcessDown: stopped first, the exit status when state.json has it.
MonitorSees ==
    /\ mon = "idle" /\ run.csm = "running" /\ run.proc \in {"exited", "none"}
    /\ run' = [run EXCEPT !.csm = "stopped"] /\ mon' = "resolve"
    /\ Apart /\ UNCHANGED <<exits, hist>>

MonitorResolves ==
    /\ mon = "resolve"
    /\ mon' = "idle"
    /\ IF run.csm = "none" THEN UNCHANGED <<run, hist>>
       ELSE IF run.rt = "stopped"
            THEN /\ run' = [run EXCEPT !.code = run.rtcode, !.final = TRUE]
                 /\ hist' = IF run.rtcode # run.own THEN hist \cup {"misread"} ELSE hist
            ELSE run' = [run EXCEPT !.code = -1, !.final = TRUE] /\ UNCHANGED hist
    /\ Apart /\ UNCHANGED exits

-----------------------------------------------------------------------------
\* All instructions done: storeBuiltImage takes the last stage, or fails.
StoreBuild ==
    /\ bpc = "ins" /\ pos > Len(prog)
    /\ \/ /\ IF st.root = NoRoot THEN UNCHANGED bfaults ELSE BuildFault
          /\ bpc' = "failing" /\ UNCHANGED image
       \/ /\ st.root # NoRoot
          /\ bpc' = "closing"
          /\ image' = [files |-> roots[st.root], env |-> st.env, cmd |-> st.cmd, user |-> st.user, workdir |-> st.workdir]
          /\ UNCHANGED bfaults
    /\ NoContainerChange /\ UNCHANGED <<prog, pos, st, stages, roots, cleanup, hist>>

\* The deferred removal of every stage's root file system.
CleanupRootfs ==
    /\ bpc \in {"failing", "closing"}
    /\ roots' = [d \in DOMAIN roots \ cleanup |-> roots[d]]
    /\ bpc' = (IF bpc = "closing" THEN "done" ELSE "failed")
    /\ NoContainerChange /\ UNCHANGED <<prog, pos, st, stages, cleanup, image, bfaults, hist>>

BuildStep == ApplyFrom \/ ApplySimple \/ ApplyWorkdir \/ ApplyCopy \/ ApplyRun \/ Unsupported \/ AllocateBuildAddress \/ SetupBuild \/ StoreBuildEntry
             \/ StartBuildContainer \/ WaitBuildContainerStopped \/ DeleteBuildContainer \/ RollbackBuild \/ StoreBuild \/ CleanupRootfs
             \/ \E pc \in {"alloc", "gateway", "dirs", "cgroup", "entry", "create", "start", "delete", "upper"} : RunFails(pc)
BuildNext == BuildStep \/ (\E c \in {0, 1} : ProcExits(c)) \/ ShimReports \/ MonitorSees \/ MonitorResolves
BuildSpec == BuildInit /\ [][BuildNext]_buildVars

-----------------------------------------------------------------------------
\* A build that is over has left nothing on the host, whichever step failed:
\* no address, store entry, directory or temporary tree, except the steps that
\* fail before they are registered for undoing; no cgroup, except that of a
\* process left by a RUN that was given up or by a create that failed half way;
\* and it has written nothing elsewhere, unless its file has a COPY or a
\* WORKDIR before it has named an image.
BuildLeavesNothing ==
    bpc \in {"done", "failed"} =>
        /\ run.addr => "addressLeft" \in hist
        /\ run.dir => "dirLeft" \in hist
        /\ run.cgroup => {"gaveUp", "halfCreated"} \cap hist # {}
        /\ DOMAIN roots # {NoRoot} => "rootfsLeft" \in hist
        /\ roots[NoRoot] # {} => \E i \in DOMAIN prog : prog[i].op \in {"COPY", "WORKDIR"} /\ ~Preceded(i, "FROM")
        /\ run.csm = "none"

\* A RUN's process keeps its address as long as it lives; only a RUN that is
\* given up at its start or by a deadline, and one whose create failed after
\* the init process was there, leaves one without.
RunKeepsAddress == run.proc \in {"waiting", "running"} /\ {"gaveUp", "halfCreated"} \cap hist = {} => run.addr

\* What is stored is what the last stage of the build file says: the base and
\* the files of its instructions, each variable with its last value; a build
\* in which a command failed is not stored unless its exit code was misread.
LastFrom == CHOOSE i \in DOMAIN prog : prog[i].op = "FROM" /\ \A j \in i + 1 .. Len(prog) : prog[j].op # "FROM"
Asked(op) == {i \in LastFrom .. Len(prog) : prog[i].op \in op}
BuiltAsWritten ==
    bpc = "done" =>
        /\ image.files = {prog[i].arg : i \in Asked({"RUN", "COPY", "WORKDIR"})} \cup FilesOf(prog[LastFrom].arg)
        /\ \A i \in Asked({"ENV"}) : (\A j \in Asked({"ENV"}) : j > i => prog[j].arg # prog[i].arg)
              => \E n \in DOMAIN image.env : image.env[n] = <<prog[i].arg, prog[i].val>>
                                             /\ \A k \in DOMAIN image.env \ {n} : image.env[k][1] # prog[i].arg
        /\ 1 \in exits => "misread" \in hist

BuildTypeOK ==
    /\ prog \in Programs /\ pos \in 1 .. Len(prog) + 1
    /\ NoRoot \in DOMAIN roots /\ NoRoot \notin cleanup
    /\ bpc \in {"done", "failed"} \/ {st.root} \cup cleanup \cup {stages[i].root : i \in DOMAIN stages} \subseteq DOMAIN roots
    /\ run.csm \in {"none", "creating", "created", "running", "stopped"}

\* A build stores what is written, and leaves nothing behind.
BuildSound == BuildTypeOK /\ BuildLeavesNothing /\ RunKeepsAddress /\ BuiltAsWritten
=============================================================================
