--------------------------- MODULE DropletRuntime ---------------------------
(***************************************************************************)
(* The life of ONE container in Droplet (internal/droplet) and what         *)
(* Condenser knows of it.  Droplet has no daemon: every command is a        *)
(* process of its own, a shim process supervises each init process, and     *)
(* they share the container's state.json, which each of them reads,         *)
(* changes and writes back without a lock (the write itself is a rename).   *)
(* Commands report to Condenser's container store CSM through hooks; the    *)
(* container monitor watches a cached copy of CSM for dead processes.       *)
(*                                                                          *)
(* The n-th init process of the container has pid n; 0 is "no process".     *)
(* The instance starts when Create has returned: created and not started.   *)
(***************************************************************************)
EXTENDS Naturals, FiniteSets

CONSTANTS
    Reqs,       \* API requests being served at the same time
    MaxInst     \* bound on the init processes ever started

ASSUME DropletAssumption == MaxInst \in Nat \ {0}

VARIABLES
    state,      \* state.json: status and pid
    fifo,       \* exec.fifo: the instance it was made for, or 0
    proc,       \* pid |-> its init process
    shim,       \* pid |-> its shim: where it is and the state.json it read
    cmd,        \* request |-> its Droplet command
    csm,        \* Condenser's store entry: state and pid
    event,      \* an fsnotify event for csm.json is queued
    watch,      \* Resolver.Watch's pending flag and refresh goroutine
    resolved,   \* Resolver.ResolveMap
    mon         \* where the monitor's loop is

vars == <<state, fifo, proc, shim, cmd, csm, event, watch, resolved, mon>>
condenserVars == <<csm, event, watch, resolved, mon>>

Pids == 1 .. MaxInst
Status == {"none", "creating", "created", "running", "stopped"}
File == [status : Status, pid : 0 .. MaxInst]
Absent == [status |-> "none", pid |-> 0]
Stopped == [status |-> "stopped", pid |-> 0]

CmdPcs == {"idle",
    "c_state", "c_hook1", "c_post1", "c_fifo", "c_shim", "c_read", "c_write",
    "c_hook2", "c_post2",
    "s_check", "s_fifo", "s_remove", "s_read", "s_write", "s_hook", "s_post",
    "k_status", "k_pid", "k_signal", "k_read", "k_write", "k_hook", "k_post",
    "d_status", "d_pid", "d_kill", "d_read", "d_write", "d_hook", "d_post",
    "d_remove"}
ShimPcs == {"none", "wait", "stop_w", "exit_r", "exit_w", "reason_r",
            "reason_w", "done"}

Idle == [pc |-> "idle", pid |-> 0, force |-> FALSE, buf |-> Absent]

DropletTypeOK ==
    /\ state \in File
    /\ fifo \in 0 .. MaxInst
    /\ proc \in [Pids -> {"unborn", "starting", "waiting", "running", "dead"}]
    /\ shim \in [Pids -> [pc : ShimPcs, buf : File]]
    /\ cmd \in [Reqs -> [pc : CmdPcs, pid : 0 .. MaxInst, force : BOOLEAN,
                         buf : File]]
    /\ csm \in File
    /\ event \in BOOLEAN
    /\ watch \in {"idle", "armed", "refreshed"}
    /\ resolved \in File
    /\ mon \in {"idle", "down", "write"}

DropletInit ==
    /\ state = [status |-> "created", pid |-> 1]
    /\ fifo = 1
    /\ proc = [p \in Pids |-> IF p = 1 THEN "waiting" ELSE "unborn"]
    /\ shim = [p \in Pids |-> [pc |-> IF p = 1 THEN "wait" ELSE "none",
                               buf |-> Absent]]
    /\ cmd = [r \in Reqs |-> Idle]
    /\ csm = state /\ resolved = state
    /\ event = FALSE /\ watch = "idle" /\ mon = "idle"

-----------------------------------------------------------------------------
\* What the commands are made of

PidAlive(p) == p \in Pids /\ proc[p] \in {"waiting", "running"}

\* recomputeStatus, which every read of the status runs first
Recomputed ==
    IF state.status = "running" /\ ~PidAlive(state.pid) THEN Stopped ELSE state

At(r, pc) == cmd[r].pc = pc
Goto(r, pc) == cmd' = [cmd EXCEPT ![r].pc = pc]
Return(r) == cmd' = [cmd EXCEPT ![r] = Idle]
CsmWrite(entry) == csm' = entry /\ event' = TRUE

\* GetStatusFromId and a decision on what it returned; no state.json, no command
Check(r, from, allowed, to) ==
    /\ At(r, from)
    /\ state' = Recomputed
    /\ IF Recomputed.status \in allowed
         THEN Goto(r, to)
         ELSE Return(r)
    /\ UNCHANGED <<fifo, proc, shim, condenserVars>>

\* UpdateStatus, its two halves
ReadState(r, from, to) ==
    /\ At(r, from)
    /\ IF state.status = "none"
         THEN Return(r)
         ELSE cmd' = [cmd EXCEPT ![r].pc = to, ![r].buf = state]
    /\ UNCHANGED <<state, fifo, proc, shim, condenserVars>>

WriteState(r, from, file, to) ==
    /\ At(r, from)
    /\ IF state.status = "none"     \* the directory is gone
         THEN Return(r) /\ UNCHANGED state
         ELSE Goto(r, to) /\ state' = file
    /\ UNCHANGED <<fifo, proc, shim, condenserVars>>

\* runHookList reads state.json once, then the hook posts it to Condenser
HookRead(r, from, to) ==
    /\ At(r, from)
    /\ state' = Recomputed
    /\ IF state.status = "none"
         THEN Return(r)
         ELSE cmd' = [cmd EXCEPT ![r].pc = to, ![r].buf = Recomputed]
    /\ UNCHANGED <<fifo, proc, shim, condenserVars>>

\* HookAction: UpdateContainer, refused when there is no entry
HookPost(r, from, to) ==
    /\ At(r, from)
    /\ IF csm.status = "none"
         THEN Return(r) /\ UNCHANGED <<csm, event>>
         ELSE /\ CsmWrite(cmd[r].buf)
              /\ IF to = "idle" THEN Return(r) ELSE Goto(r, to)
    /\ UNCHANGED <<state, fifo, proc, shim, watch, resolved, mon>>

-----------------------------------------------------------------------------
\* droplet create, for a container that is started again

\* Without the directory there is no config.json
CreateState(r) ==
    /\ At(r, "c_state")
    /\ IF state.status = "none"
         THEN Return(r) /\ UNCHANGED state
         ELSE Goto(r, "c_hook1") /\ state' = [status |-> "creating", pid |-> 0]
    /\ UNCHANGED <<fifo, proc, shim, condenserVars>>

\* mkfifo fails when the path exists
CreateFifo(r) ==
    /\ At(r, "c_fifo")
    /\ \/ \E p \in Pids :
            /\ fifo = 0
            /\ proc[p] = "unborn" /\ \A q \in Pids : proc[q] = "unborn" => p <= q
            /\ fifo' = p
            /\ proc' = [proc EXCEPT ![p] = "starting"]
            /\ cmd' = [cmd EXCEPT ![r].pc = "c_shim", ![r].pid = p]
       \/ /\ fifo # 0
          /\ Return(r)
          /\ UNCHANGED <<fifo, proc>>
    /\ UNCHANGED <<state, shim, condenserVars>>

\* StartAndWait and Prepare: the init process opens the fifo; without the
\* fifo it exits and the network setup fails
CreateShim(r) ==
    LET p == cmd[r].pid IN
    /\ At(r, "c_shim")
    /\ shim' = [shim EXCEPT ![p].pc = "wait"]
    /\ IF fifo = p
         THEN proc' = [proc EXCEPT ![p] = "waiting"] /\ Goto(r, "c_read")
         ELSE proc' = [proc EXCEPT ![p] = "dead"] /\ Return(r)
    /\ UNCHANGED <<state, fifo, condenserVars>>

DropletCreate(r) ==
    \/ CreateState(r)
    \/ HookRead(r, "c_hook1", "c_post1") \/ HookPost(r, "c_post1", "c_fifo")
    \/ CreateFifo(r) \/ CreateShim(r)
    \/ ReadState(r, "c_read", "c_write")
    \/ WriteState(r, "c_write", [status |-> "created", pid |-> cmd[r].pid], "c_hook2")
    \/ HookRead(r, "c_hook2", "c_post2") \/ HookPost(r, "c_post2", "s_check")

-----------------------------------------------------------------------------
\* droplet start

EnsureCreated == {"created"}

\* Mutant: the state is updated before the process is released.
StartFifoLater(r) ==
    /\ At(r, "s_fifo")
    /\ IF fifo # 0 /\ proc[fifo] = "waiting"
         THEN UNCHANGED proc /\ Goto(r, "s_read")
         ELSE UNCHANGED proc /\ Return(r)
    /\ UNCHANGED <<state, fifo, shim, condenserVars>>

\* WriteFifo wakes the process that waits on the fifo; it gives up after a while
StartFifo(r) ==
    /\ At(r, "s_fifo")
    /\ IF fifo # 0 /\ proc[fifo] = "waiting"
         THEN proc' = [proc EXCEPT ![fifo] = "running"] /\ Goto(r, "s_remove")
         ELSE UNCHANGED proc /\ Return(r)
    /\ UNCHANGED <<state, fifo, shim, condenserVars>>

RemoveFifo(r) ==
    /\ At(r, "s_remove")
    /\ IF fifo = 0 THEN Return(r) ELSE Goto(r, "s_read")
    /\ fifo' = 0
    /\ UNCHANGED <<state, proc, shim, condenserVars>>

DropletStart(r) ==
    \/ Check(r, "s_check", EnsureCreated, "s_fifo")
    \/ StartFifo(r) \/ RemoveFifo(r)
    \/ ReadState(r, "s_read", "s_write")
    \/ WriteState(r, "s_write", [cmd[r].buf EXCEPT !.status = "running"], "s_hook")
    \/ HookRead(r, "s_hook", "s_post") \/ HookPost(r, "s_post", "idle")

-----------------------------------------------------------------------------
\* droplet kill: TERM, after three seconds KILL

IsAllowed == {"running", "created"}

\* GetPidFromId, a second read of state.json
ReadPid(r, from, to) ==
    /\ At(r, from)
    /\ IF state.status = "none"
         THEN Return(r)
         ELSE cmd' = [cmd EXCEPT ![r].pc = to, ![r].pid = state.pid]
    /\ UNCHANGED <<state, fifo, proc, shim, condenserVars>>

\* ReadProcStartTime fails for a pid without a process, 0 included
KillSignal(r) ==
    /\ At(r, "k_signal")
    /\ IF PidAlive(cmd[r].pid)
         THEN /\ proc' = [proc EXCEPT ![cmd[r].pid] = "dead"]
              /\ Goto(r, "k_read")
         ELSE UNCHANGED proc /\ Return(r)
    /\ UNCHANGED <<state, fifo, shim, condenserVars>>

DropletKill(r) ==
    \/ Check(r, "k_status", IsAllowed, "k_pid")
    \/ ReadPid(r, "k_pid", "k_signal") \/ KillSignal(r)
    \/ ReadState(r, "k_read", "k_write")
    \/ WriteState(r, "k_write", Stopped, "k_hook")
    \/ HookRead(r, "k_hook", "k_post") \/ HookPost(r, "k_post", "idle")

-----------------------------------------------------------------------------
\* droplet delete

CanDelete(s, force) == s = "stopped" \/ force

\* Mutant: only a running container has a process worth killing.
KillOnlyRunning(s, force) == s = "running" /\ force

ShouldKillBeforeDelete(s, force) ==
    \/ s = "created"
    \/ s = "running" /\ force

DeleteStatus(r) ==
    LET s == Recomputed.status IN
    /\ At(r, "d_status")
    /\ state' = Recomputed
    /\ IF s = "none" \/ ~CanDelete(s, cmd[r].force)
         THEN Return(r)
         ELSE Goto(r, IF ShouldKillBeforeDelete(s, cmd[r].force)
                        THEN "d_pid" ELSE "d_hook")
    /\ UNCHANGED <<fifo, proc, shim, condenserVars>>

\* KillInitProcess: kill(2) fails for a dead process, and for pid 0 signals
\* the caller's process group, the command itself included
DeleteKill(r) ==
    /\ At(r, "d_kill")
    /\ IF PidAlive(cmd[r].pid)
         THEN /\ proc' = [proc EXCEPT ![cmd[r].pid] = "dead"]
              /\ Goto(r, "d_read")
         ELSE UNCHANGED proc /\ Return(r)
    /\ UNCHANGED <<state, fifo, shim, condenserVars>>

\* The poststop hook removes the CSM entry, if it is still there
DeletePost(r) ==
    /\ At(r, "d_post")
    /\ CsmWrite(Absent)
    /\ Goto(r, "d_remove")
    /\ UNCHANGED <<state, fifo, proc, shim, watch, resolved, mon>>

\* State, fifo, cgroup and directory
DeleteRemove(r) ==
    /\ At(r, "d_remove")
    /\ state' = Absent
    /\ fifo' = 0
    /\ Return(r)
    /\ UNCHANGED <<proc, shim, condenserVars>>

DropletDelete(r) ==
    \/ DeleteStatus(r)
    \/ ReadPid(r, "d_pid", "d_kill") \/ DeleteKill(r)
    \/ ReadState(r, "d_read", "d_write")
    \/ WriteState(r, "d_write", Stopped, "d_hook")
    \/ HookRead(r, "d_hook", "d_post") \/ DeletePost(r) \/ DeleteRemove(r)

-----------------------------------------------------------------------------
\* ContainerService: the state CSM shows decides which commands are run

Begin(r, pc, force) ==
    /\ At(r, "idle")
    /\ cmd' = [cmd EXCEPT ![r] = [Idle EXCEPT !.pc = pc, !.force = force]]
    /\ UNCHANGED <<state, fifo, proc, shim, condenserVars>>

\* The bound: an init process is left for every create on its way to mkfifo
InstLeft ==
    Cardinality({p \in Pids : proc[p] = "unborn"}) >
    Cardinality({r \in Reqs : cmd[r].pc \in {"c_state", "c_hook1", "c_post1", "c_fifo"}})

ServiceStart(r) ==
    \/ csm.status = "created" /\ Begin(r, "s_check", FALSE)
    \/ csm.status = "stopped" /\ InstLeft /\ Begin(r, "c_state", FALSE)

ServiceStop(r) == csm.status = "running" /\ Begin(r, "k_status", FALSE)

ServiceDelete(r) ==
    /\ csm.status \in {"creating", "created", "stopped"}
    /\ Begin(r, "d_status", csm.status # "stopped")

-----------------------------------------------------------------------------
\* Init processes and their shims

ProcExit(p) ==
    /\ proc[p] \in {"waiting", "running"}
    /\ proc' = [proc EXCEPT ![p] = "dead"]
    /\ UNCHANGED <<state, fifo, shim, cmd, condenserVars>>

\* The shim updates state.json three times, each a read and a write: status
\* and pid, exit code, reason.  The last two write the status back they read.
ShimRead(p, from, to) ==
    /\ shim[p].pc = from
    /\ shim' = [shim EXCEPT ![p] =
                  IF state.status = "none" THEN [pc |-> "done", buf |-> Absent]
                                           ELSE [pc |-> to, buf |-> state]]
    /\ UNCHANGED <<state, fifo, proc, cmd, condenserVars>>

ShimWrite(p, from, file, to) ==
    /\ shim[p].pc = from
    /\ state' = IF state.status = "none" THEN state ELSE file
    /\ shim' = [shim EXCEPT ![p] =
                  [pc |-> IF state.status = "none" THEN "done" ELSE to, buf |-> Absent]]
    /\ UNCHANGED <<fifo, proc, cmd, condenserVars>>

ShimStep(p) ==
    \/ proc[p] = "dead" /\ ShimRead(p, "wait", "stop_w")
    \/ ShimWrite(p, "stop_w", Stopped, "exit_r")
    \/ ShimRead(p, "exit_r", "exit_w")
    \/ ShimWrite(p, "exit_w", shim[p].buf, "reason_r")
    \/ ShimRead(p, "reason_r", "reason_w")
    \/ ShimWrite(p, "reason_w", shim[p].buf, "done")

-----------------------------------------------------------------------------
\* The container monitor

\* Resolver.Watch: an event arms a refresh unless one is pending; the pending
\* flag is cleared after the refresh has read the store
WatchEvent ==
    /\ event
    /\ event' = FALSE
    /\ watch' = IF watch = "idle" THEN "armed" ELSE watch
    /\ UNCHANGED <<state, fifo, proc, shim, cmd, csm, resolved, mon>>

WatchRefresh ==
    /\ watch = "armed"
    /\ resolved' = csm
    /\ watch' = "refreshed"
    /\ UNCHANGED <<state, fifo, proc, shim, cmd, csm, event, mon>>

WatchDone ==
    /\ watch = "refreshed"
    /\ watch' = "idle"
    /\ UNCHANGED <<state, fifo, proc, shim, cmd, csm, event, resolved, mon>>

\* One tick: the cached entry is watched and its process is gone
MonitorTick ==
    /\ mon = "idle"
    /\ resolved.status \in {"running", "created"}
    /\ ~PidAlive(resolved.pid)
    /\ mon' = "down"
    /\ UNCHANGED <<state, fifo, proc, shim, cmd, csm, event, watch, resolved>>

\* handleProcessDown: the entry may be final already.  An entry the monitor
\* marked itself (exit code -1) is written again in the code, to the same effect.
MonitorCheck ==
    /\ mon = "down"
    /\ mon' = IF csm.status \in {"stopped", "none"} THEN "idle" ELSE "write"
    /\ UNCHANGED <<state, fifo, proc, shim, cmd, csm, event, watch, resolved>>

\* Mutant: the cached entry is written back.
MonitorWriteCached ==
    /\ mon = "write"
    /\ mon' = "idle"
    /\ IF csm.status = "none" THEN UNCHANGED <<csm, event>> ELSE CsmWrite(resolved)
    /\ UNCHANGED <<state, fifo, proc, shim, cmd, watch, resolved>>

MonitorWrite ==
    /\ mon = "write"
    /\ mon' = "idle"
    /\ IF csm.status = "none" THEN UNCHANGED <<csm, event>> ELSE CsmWrite(Stopped)
    /\ UNCHANGED <<state, fifo, proc, shim, cmd, watch, resolved>>

-----------------------------------------------------------------------------
CommandStep(r) ==
    DropletCreate(r) \/ DropletStart(r) \/ DropletKill(r) \/ DropletDelete(r)

WatchStep == WatchEvent \/ WatchRefresh \/ WatchDone
MonitorStep == MonitorTick \/ MonitorCheck \/ MonitorWrite

DropletNext ==
    \/ \E r \in Reqs :
        \/ ServiceStart(r) \/ ServiceStop(r) \/ ServiceDelete(r)
        \/ CommandStep(r)
    \/ \E p \in Pids : ProcExit(p) \/ ShimStep(p)
    \/ WatchStep \/ MonitorStep

DropletSpec == DropletInit /\ [][DropletNext]_vars

\* A command that runs goes on running, shims return from Wait, and the watcher
\* and the monitor are goroutines with nothing to block them.  Nobody has to
\* send requests, and no workload has to exit.
DropletFairness ==
    /\ \A r \in Reqs : WF_vars(CommandStep(r))
    /\ \A p \in Pids : WF_vars(ShimStep(p))
    /\ WF_vars(WatchStep) /\ WF_vars(MonitorStep)

FairDropletSpec == DropletSpec /\ DropletFairness

-----------------------------------------------------------------------------
\* A container that is gone from Droplet has left no process behind, whichever
\* of start, kill, delete and the shim wrote state.json last before Delete
\* decided whether there was anything to kill.
NoOrphanInit == state.status = "none" => \A p \in Pids : ~PidAlive(p)

\* Nothing is reported running that has not been told to start: a running
\* state.json names no process, or one that has passed its fifo.
RunningWasStarted ==
    state.status = "running" /\ state.pid # 0 => proc[state.pid] # "waiting"

\* A death the monitor can see is reported: when its cache is current and the
\* process of a running container is dead, CSM stops saying so, whatever the
\* commands and hooks write in between.
CachedDeathReported ==
    \A p \in Pids :
        LET entry == [status |-> "running", pid |-> p]
        IN  (csm = entry /\ resolved = entry /\ ~PidAlive(p)) ~> (csm # entry)

\* The runtime's state is well-formed, Delete leaves no process behind and
\* nothing runs that was not started.
DropletSound == DropletTypeOK /\ NoOrphanInit /\ RunningWasStarted
=============================================================================
