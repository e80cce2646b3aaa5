---------------------------- MODULE DropletProofs ----------------------------
(***************************************************************************)
(* Proofs about Droplet: the life of a container under concurrent commands, *)
(* the cache of shifted layers that concurrent creates of rootless          *)
(* containers share, attached terminals, and what the entrypoint of a       *)
(* container starts with.                                                   *)
(***************************************************************************)
EXTENDS DropletRuntime, ShiftedLayers, Attach, InitProcess, FiniteSetTheorems, SequenceTheorems, TLAPS

-----------------------------------------------------------------------------
(***************************************************************************)
(* The life of a container                                                  *)
(***************************************************************************)
Cmds == [pc : CmdPcs, pid : 0 .. MaxInst, force : BOOLEAN, buf : File]
Supervisors == [pc : ShimPcs, buf : File]
Procs == {"unborn", "starting", "waiting", "running", "dead"}

\* The records a command starts from, and the process ids, have the shapes the type invariant asks.
LEMMA DropletConstants ==
    /\ Absent \in File /\ Stopped \in File /\ Absent.status = "none" /\ Absent.pid = 0
    /\ Stopped.status = "stopped" /\ Stopped.pid = 0
    /\ Idle \in Cmds /\ Idle.pc = "idle" /\ Idle.pid = 0 /\ Idle.buf = Absent
    /\ 1 \in Pids /\ 0 \notin Pids /\ Pids \subseteq 0 .. MaxInst
  BY DropletAssumption DEF Absent, Stopped, Idle, File, Status, Cmds, CmdPcs, Pids

\* recomputeStatus changes nothing, or reports a running container whose
\* process is gone as stopped.
LEMMA RecomputedIs ==
    ASSUME DropletTypeOK
    PROVE  /\ Recomputed \in File
           /\ \/ Recomputed = state
              \/ Recomputed = Stopped /\ state.status = "running" /\ ~PidAlive(state.pid)
           /\ Recomputed.status = "none" <=> state.status = "none"
           /\ Recomputed.status = "running" => PidAlive(state.pid)
  BY DropletConstants DEF Recomputed, DropletTypeOK

\* A command's own record after each kind of step.
LEMMA CommandGoes ==
    ASSUME DropletTypeOK, NEW r \in Reqs, NEW pc \in CmdPcs, cmd' = [cmd EXCEPT ![r].pc = pc]
    PROVE  \E c \in Cmds : cmd' = [cmd EXCEPT ![r] = c] /\ c.pc = pc /\ c.pid = cmd[r].pid /\ c.buf = cmd[r].buf
  <1>1. PICK d \in Cmds : d = cmd[r]
    BY DEF DropletTypeOK, Cmds
  <1>2. PICK c : c = [d EXCEPT !.pc = pc]
    OBVIOUS
  <1>3. c \in Cmds /\ c.pc = pc /\ c.pid = d.pid /\ c.buf = d.buf
    BY <1>2 DEF Cmds
  <1>4. cmd' = [cmd EXCEPT ![r] = c]
    BY <1>1, <1>2 DEF DropletTypeOK
  <1> QED
    BY <1>1, <1>3, <1>4

TakesPid(r, pc, p) == cmd' = [cmd EXCEPT ![r].pc = pc, ![r].pid = p]
TakesFile(r, pc, f) == cmd' = [cmd EXCEPT ![r].pc = pc, ![r].buf = f]

\* A command that takes over a pid keeps the rest of its record.
LEMMA CommandTakesPid ==
    ASSUME DropletTypeOK, NEW r \in Reqs, NEW pc \in CmdPcs, NEW p \in 0 .. MaxInst, TakesPid(r, pc, p)
    PROVE  \E c \in Cmds : cmd' = [cmd EXCEPT ![r] = c] /\ c.pc = pc /\ c.pid = p /\ c.buf = cmd[r].buf
  <1>1. PICK d \in Cmds : d = cmd[r]
    BY DEF DropletTypeOK, Cmds
  <1>2. PICK c : c = [d EXCEPT !.pc = pc, !.pid = p]
    OBVIOUS
  <1>3. c \in Cmds /\ c.pc = pc /\ c.pid = p /\ c.buf = d.buf
    BY <1>2 DEF Cmds
  <1>4. cmd' = [cmd EXCEPT ![r] = c]
    BY <1>1, <1>2 DEF DropletTypeOK, TakesPid
  <1> QED
    BY <1>1, <1>3, <1>4

\* A command that takes over a state file keeps the rest of its record.
LEMMA CommandTakesFile ==
    ASSUME DropletTypeOK, NEW r \in Reqs, NEW pc \in CmdPcs, NEW f \in File, TakesFile(r, pc, f)
    PROVE  \E c \in Cmds : cmd' = [cmd EXCEPT ![r] = c] /\ c.pc = pc /\ c.pid = cmd[r].pid /\ c.buf = f
  <1>1. PICK d \in Cmds : d = cmd[r]
    BY DEF DropletTypeOK, Cmds
  <1>2. PICK c : c = [d EXCEPT !.pc = pc, !.buf = f]
    OBVIOUS
  <1>3. c \in Cmds /\ c.pc = pc /\ c.pid = d.pid /\ c.buf = f
    BY <1>2 DEF Cmds
  <1>4. cmd' = [cmd EXCEPT ![r] = c]
    BY <1>1, <1>2 DEF DropletTypeOK, TakesFile
  <1> QED
    BY <1>1, <1>3, <1>4

\* A step of command r that leaves its record as c and what it does to the
\* state, the fifo and the processes.
Moves(r, c) ==
    /\ cmd' = [cmd EXCEPT ![r] = c]
    /\ csm' \in File /\ event' \in BOOLEAN /\ UNCHANGED <<watch, resolved, mon>>

\* A command that moves and leaves well-typed effects keeps the type invariant.
LEMMA MovesTyped ==
    ASSUME DropletTypeOK, NEW r \in Reqs, NEW c \in Cmds, Moves(r, c),
           state' \in File, fifo' \in 0 .. MaxInst, proc' \in [Pids -> Procs], shim' \in [Pids -> Supervisors]
    PROVE  DropletTypeOK' /\ cmd'[r] = c /\ \A q \in Reqs \ {r} : cmd'[q] = cmd[q]
  BY DEF DropletTypeOK, Moves, Cmds, Procs, Supervisors

Still == UNCHANGED <<fifo, proc, shim>>

\* The primitives the commands are made of.
LEMMA CheckDoes ==
    ASSUME DropletTypeOK, NEW r \in Reqs, NEW from, NEW to \in CmdPcs, NEW allowed, Check(r, from, allowed, to)
    PROVE  \E c \in Cmds : /\ Moves(r, c) /\ Still /\ state' = Recomputed /\ cmd[r].pc = from
                           /\ c.pc = "idle" \/ (c.pc = to /\ Recomputed.status \in allowed)
                           /\ c = Idle \/ (c.pid = cmd[r].pid /\ c.buf = cmd[r].buf)
  <1>1. state' = Recomputed /\ cmd[r].pc = from /\ Still /\ UNCHANGED condenserVars
    BY DEF Check, At, Still
  <1>2. csm' \in File /\ event' \in BOOLEAN /\ UNCHANGED <<watch, resolved, mon>>
    BY <1>1 DEF condenserVars, DropletTypeOK
  <1>3. CASE Recomputed.status \in allowed /\ cmd' = [cmd EXCEPT ![r].pc = to]
    <2>1. PICK c \in Cmds : cmd' = [cmd EXCEPT ![r] = c] /\ c.pc = to /\ c.pid = cmd[r].pid /\ c.buf = cmd[r].buf
      BY <1>3, CommandGoes
    <2> QED
      BY <1>1, <1>2, <1>3, <2>1 DEF Moves
  <1>4. CASE cmd' = [cmd EXCEPT ![r] = Idle]
    BY <1>1, <1>2, <1>4, DropletConstants DEF Moves
  <1> QED
    BY <1>3, <1>4 DEF Check, Goto, Return

\* What reading the state file does: the command ends without one, or holds a copy of it.
LEMMA ReadStateDoes ==
    ASSUME DropletTypeOK, NEW r \in Reqs, NEW from, NEW to \in CmdPcs, ReadState(r, from, to)
    PROVE  \E c \in Cmds : /\ Moves(r, c) /\ Still /\ state' = state /\ cmd[r].pc = from
                           /\ \/ c = Idle /\ state.status = "none"
                              \/ c.pc = to /\ c.pid = cmd[r].pid /\ c.buf = state /\ state.status # "none"
  <1>1. state' = state /\ cmd[r].pc = from /\ Still /\ UNCHANGED condenserVars
    BY DEF ReadState, At, Still
  <1>2. csm' \in File /\ event' \in BOOLEAN /\ UNCHANGED <<watch, resolved, mon>> /\ state \in File
    BY <1>1 DEF condenserVars, DropletTypeOK
  <1>3. CASE state.status # "none" /\ cmd' = [cmd EXCEPT ![r].pc = to, ![r].buf = state]
    <2>1. PICK f \in File : f = state
      BY <1>2
    <2>2. TakesFile(r, to, f)
      BY <1>3, <2>1 DEF TakesFile
    <2>3. PICK c \in Cmds : cmd' = [cmd EXCEPT ![r] = c] /\ c.pc = to /\ c.pid = cmd[r].pid /\ c.buf = f
      BY <2>2, CommandTakesFile
    <2> QED
      BY <1>1, <1>2, <1>3, <2>1, <2>3 DEF Moves
  <1>4. CASE state.status = "none" /\ cmd' = [cmd EXCEPT ![r] = Idle]
    BY <1>1, <1>2, <1>4, DropletConstants DEF Moves
  <1> QED
    BY <1>3, <1>4 DEF ReadState, Return

\* What writing the state file does: the command ends without one, or the file holds what it wrote.
LEMMA WriteStateDoes ==
    ASSUME DropletTypeOK, NEW r \in Reqs, NEW from, NEW to \in CmdPcs, NEW file \in File, WriteState(r, from, file, to)
    PROVE  \E c \in Cmds : /\ Moves(r, c) /\ Still /\ cmd[r].pc = from
                           /\ \/ c = Idle /\ state.status = "none" /\ state' = state
                              \/ /\ c.pc = to /\ c.pid = cmd[r].pid /\ c.buf = cmd[r].buf /\ state.status # "none"
                                 /\ state' = file
  <1>1. cmd[r].pc = from /\ Still /\ UNCHANGED condenserVars
    BY DEF WriteState, At, Still
  <1>2. csm' \in File /\ event' \in BOOLEAN /\ UNCHANGED <<watch, resolved, mon>>
    BY <1>1 DEF condenserVars, DropletTypeOK
  <1>3. CASE state.status # "none" /\ cmd' = [cmd EXCEPT ![r].pc = to] /\ state' = file
    <2>1. PICK c \in Cmds : cmd' = [cmd EXCEPT ![r] = c] /\ c.pc = to /\ c.pid = cmd[r].pid /\ c.buf = cmd[r].buf
      BY <1>3, CommandGoes
    <2> QED
      BY <1>1, <1>2, <1>3, <2>1 DEF Moves
  <1>4. CASE state.status = "none" /\ cmd' = [cmd EXCEPT ![r] = Idle] /\ state' = state
    BY <1>1, <1>2, <1>4, DropletConstants DEF Moves
  <1> QED
    BY <1>3, <1>4 DEF WriteState, Goto, Return

\* What the hook's status call does: the state file is recomputed and then read.
LEMMA HookReadDoes ==
    ASSUME DropletTypeOK, NEW r \in Reqs, NEW from, NEW to \in CmdPcs, HookRead(r, from, to)
    PROVE  \E c \in Cmds : /\ Moves(r, c) /\ Still /\ state' = Recomputed /\ cmd[r].pc = from
                           /\ \/ c = Idle /\ state.status = "none"
                              \/ c.pc = to /\ c.pid = cmd[r].pid /\ c.buf = Recomputed /\ state.status # "none"
  <1>1. state' = Recomputed /\ cmd[r].pc = from /\ Still /\ UNCHANGED condenserVars
    BY DEF HookRead, At, Still
  <1>2. csm' \in File /\ event' \in BOOLEAN /\ UNCHANGED <<watch, resolved, mon>>
    BY <1>1 DEF condenserVars, DropletTypeOK
  <1>3. CASE state.status # "none" /\ cmd' = [cmd EXCEPT ![r].pc = to, ![r].buf = Recomputed]
    <2>1. PICK f \in File : f = Recomputed
      BY RecomputedIs
    <2>2. TakesFile(r, to, f)
      BY <1>3, <2>1 DEF TakesFile
    <2>3. PICK c \in Cmds : cmd' = [cmd EXCEPT ![r] = c] /\ c.pc = to /\ c.pid = cmd[r].pid /\ c.buf = f
      BY <2>2, CommandTakesFile
    <2> QED
      BY <1>1, <1>2, <1>3, <2>1, <2>3 DEF Moves
  <1>4. CASE state.status = "none" /\ cmd' = [cmd EXCEPT ![r] = Idle]
    BY <1>1, <1>2, <1>4, DropletConstants DEF Moves
  <1> QED
    BY <1>3, <1>4 DEF HookRead, Return

\* What posting a hook does: the command goes on or gives up, and nothing else changes.
LEMMA HookPostDoes ==
    ASSUME DropletTypeOK, NEW r \in Reqs, NEW from, NEW to \in CmdPcs, HookPost(r, from, to)
    PROVE  \E c \in Cmds : /\ Moves(r, c) /\ Still /\ state' = state /\ cmd[r].pc = from
                           /\ c = Idle \/ (c.pc = to /\ c.pid = cmd[r].pid /\ c.buf = cmd[r].buf)
  <1>1. state' = state /\ cmd[r].pc = from /\ Still /\ UNCHANGED <<watch, resolved, mon>>
    BY DEF HookPost, At, Still
  <1>2. csm \in File /\ event \in BOOLEAN /\ cmd[r].buf \in File
    BY DEF DropletTypeOK
  <1>3. csm' \in File /\ event' \in BOOLEAN
    BY <1>2 DEF HookPost, CsmWrite
  <1>4. CASE cmd' = [cmd EXCEPT ![r].pc = to]
    BY <1>1, <1>3, <1>4, CommandGoes DEF Moves
  <1>5. CASE cmd' = [cmd EXCEPT ![r] = Idle]
    BY <1>1, <1>3, <1>5, DropletConstants DEF Moves
  <1> QED
    BY <1>4, <1>5 DEF HookPost, Goto, Return

\* What reading the pid does: the command takes the pid on file and goes on.
LEMMA ReadPidDoes ==
    ASSUME DropletTypeOK, NEW r \in Reqs, NEW from, NEW to \in CmdPcs, ReadPid(r, from, to)
    PROVE  \E c \in Cmds : /\ Moves(r, c) /\ Still /\ state' = state /\ cmd[r].pc = from
                           /\ \/ c = Idle /\ state.status = "none"
                              \/ c.pc = to /\ c.buf = cmd[r].buf /\ state.status # "none"
  <1>1. state' = state /\ cmd[r].pc = from /\ Still /\ UNCHANGED condenserVars
    BY DEF ReadPid, At, Still
  <1>2. csm' \in File /\ event' \in BOOLEAN /\ UNCHANGED <<watch, resolved, mon>>
    BY <1>1 DEF condenserVars, DropletTypeOK
  <1>3. CASE state.status # "none" /\ cmd' = [cmd EXCEPT ![r].pc = to, ![r].pid = state.pid]
    <2>1. PICK p \in 0 .. MaxInst : p = state.pid
      BY DEF DropletTypeOK, File
    <2>2. TakesPid(r, to, p)
      BY <1>3, <2>1 DEF TakesPid
    <2>3. PICK c \in Cmds : cmd' = [cmd EXCEPT ![r] = c] /\ c.pc = to /\ c.pid = p /\ c.buf = cmd[r].buf
      BY <2>2, CommandTakesPid
    <2> QED
      BY <1>1, <1>2, <1>3, <2>3 DEF Moves
  <1>4. CASE state.status = "none" /\ cmd' = [cmd EXCEPT ![r] = Idle]
    BY <1>1, <1>2, <1>4, DropletConstants DEF Moves
  <1> QED
    BY <1>3, <1>4 DEF ReadPid, Return

\* What beginning a command does: it starts idle, with nothing read.
LEMMA BeginDoes ==
    ASSUME DropletTypeOK, NEW r \in Reqs, NEW pc \in CmdPcs, NEW force \in BOOLEAN, Begin(r, pc, force)
    PROVE  \E c \in Cmds : /\ Moves(r, c) /\ Still /\ state' = state /\ cmd[r].pc = "idle"
                           /\ c.pc = pc /\ c.pid = 0 /\ c.buf = Absent
  <1>1. state' = state /\ cmd[r].pc = "idle" /\ Still /\ UNCHANGED condenserVars
    BY DEF Begin, At, Still
  <1>2. csm' \in File /\ event' \in BOOLEAN /\ UNCHANGED <<watch, resolved, mon>>
    BY <1>1 DEF condenserVars, DropletTypeOK
  <1>3. cmd' = [cmd EXCEPT ![r] = [Idle EXCEPT !.pc = pc, !.force = force]]
    BY DEF Begin
  <1>4. PICK c : c = [Idle EXCEPT !.pc = pc, !.force = force]
    OBVIOUS
  <1>5. c \in Cmds /\ c.pc = pc /\ c.pid = 0 /\ c.buf = Absent
    BY <1>4, DropletConstants DEF Cmds
  <1> QED
    BY <1>1, <1>2, <1>3, <1>4, <1>5 DEF Moves

\* What one step of request r does to the files and the processes: it only
\* reads them; it writes state.json; it makes the fifo, the process and the
\* shim; it releases the process; it kills it; it removes everything.
QuietPairs == {
    <<"idle", "c_state">>, <<"idle", "s_check">>, <<"idle", "k_status">>, <<"idle", "d_status">>,
    <<"c_hook1", "c_post1">>, <<"c_post1", "c_fifo">>, <<"c_read", "c_write">>, <<"c_hook2", "c_post2">>, <<"c_post2", "s_check">>,
    <<"s_check", "s_fifo">>, <<"s_read", "s_write">>, <<"s_hook", "s_post">>,
    <<"k_status", "k_pid">>, <<"k_pid", "k_signal">>, <<"k_read", "k_write">>, <<"k_hook", "k_post">>,
    <<"d_status", "d_pid">>, <<"d_status", "d_hook">>, <<"d_pid", "d_kill">>, <<"d_read", "d_write">>,
    <<"d_hook", "d_post">>, <<"d_post", "d_remove">>}
Posts == {"c_post1", "c_post2", "s_post", "k_post", "d_post"}

Quiet(r, c) ==
    /\ Still /\ (state' = state \/ state' = Recomputed) /\ cmd[r].pc # "c_shim"
    /\ \/ c.pc = "idle"
       \/ /\ <<cmd[r].pc, c.pc>> \in QuietPairs
          /\ state.status = "none" => cmd[r].pc = "idle" \/ cmd[r].pc \in Posts
          /\ c.pc = "c_write" => c.pid = cmd[r].pid
          /\ c.pc = "s_write" => c.buf = state
          /\ c.pc = "c_state" => InstLeft
          /\ cmd[r].pc = "d_status" /\ c.pc = "d_hook" => Recomputed.status \in {"stopped", "creating"}
Writes(r, c) ==
    /\ Still /\ state.status # "none"
    /\ \/ cmd[r].pc = "c_state" /\ c.pc = "c_hook1" /\ state' = [status |-> "creating", pid |-> 0]
       \/ cmd[r].pc = "c_write" /\ c.pc = "c_hook2" /\ state' = [status |-> "created", pid |-> cmd[r].pid]
       \/ cmd[r].pc = "s_write" /\ c.pc = "s_hook" /\ state' = [cmd[r].buf EXCEPT !.status = "running"]
       \/ cmd[r].pc \in {"k_write", "d_write"} /\ c.pc \in {"k_hook", "d_hook"} /\ state' = Stopped
Makes(r, c) ==
    /\ cmd[r].pc = "c_fifo" /\ c.pc = "c_shim" /\ c.pid \in Pids
    /\ fifo = 0 /\ proc[c.pid] = "unborn"
    /\ fifo' = c.pid /\ proc' = [proc EXCEPT ![c.pid] = "starting"] /\ UNCHANGED <<state, shim>>
Bears(r, c) ==
    /\ cmd[r].pc = "c_shim" /\ UNCHANGED <<state, fifo>> /\ shim' = [shim EXCEPT ![cmd[r].pid].pc = "wait"]
    /\ \/ /\ fifo = cmd[r].pid /\ proc' = [proc EXCEPT ![cmd[r].pid] = "waiting"]
          /\ c.pc = "c_read" /\ c.pid = cmd[r].pid
       \/ proc' = [proc EXCEPT ![cmd[r].pid] = "dead"] /\ c.pc = "idle"
Releases(r, c) ==
    /\ cmd[r].pc = "s_fifo" /\ c.pc = "s_remove" /\ fifo # 0 /\ proc[fifo] = "waiting"
    /\ proc' = [proc EXCEPT ![fifo] = "running"] /\ UNCHANGED <<state, fifo, shim>>
Unlinks(r, c) ==
    cmd[r].pc = "s_remove" /\ c.pc \in {"idle", "s_read"} /\ fifo' = 0 /\ UNCHANGED <<state, proc, shim>>
Kills(r, c) ==
    /\ cmd[r].pc \in {"k_signal", "d_kill"} /\ c.pc \in {"k_read", "d_read"} /\ PidAlive(cmd[r].pid)
    /\ proc' = [proc EXCEPT ![cmd[r].pid] = "dead"] /\ UNCHANGED <<state, fifo, shim>>
Removes(r, c) ==
    cmd[r].pc = "d_remove" /\ c.pc = "idle" /\ state' = Absent /\ fifo' = 0 /\ UNCHANGED <<proc, shim>>

Effect(r, c) ==
    \/ Quiet(r, c) \/ Writes(r, c) \/ Makes(r, c) \/ Bears(r, c)
    \/ Releases(r, c) \/ Unlinks(r, c) \/ Kills(r, c) \/ Removes(r, c)

\* A call of the service is one of the effects a command can have.
LEMMA ServiceDoes ==
    ASSUME DropletTypeOK, NEW r \in Reqs, ServiceStart(r) \/ ServiceStop(r) \/ ServiceDelete(r)
    PROVE  \E c \in Cmds : Moves(r, c) /\ Effect(r, c)
  <1>1. {"s_check", "c_state", "k_status", "d_status"} \subseteq CmdPcs
    BY DEF CmdPcs
  <1>2. ASSUME NEW pc \in {"s_check", "c_state", "k_status", "d_status"}, NEW force \in BOOLEAN,
               Begin(r, pc, force), pc = "c_state" => InstLeft
        PROVE  \E c \in Cmds : Moves(r, c) /\ Effect(r, c)
    <2>1. PICK c \in Cmds : /\ Moves(r, c) /\ Still /\ state' = state /\ cmd[r].pc = "idle"
                            /\ c.pc = pc
      BY <1>1, <1>2, BeginDoes
    <2>2. <<cmd[r].pc, c.pc>> \in QuietPairs
      BY <2>1 DEF QuietPairs
    <2>3. Quiet(r, c)
      BY <1>2, <2>1, <2>2 DEF Quiet
    <2> QED
      BY <2>1, <2>3 DEF Effect
  <1>3. \E pc \in {"s_check", "c_state", "k_status", "d_status"}, force \in BOOLEAN :
            Begin(r, pc, force) /\ (pc = "c_state" => InstLeft)
    <2>1. CASE ServiceStart(r)
      BY <2>1 DEF ServiceStart
    <2>2. CASE ServiceStop(r)
      BY <2>2 DEF ServiceStop
    <2>3. CASE ServiceDelete(r)
      <3>1. PICK force \in BOOLEAN : force = (csm.status # "stopped")
        OBVIOUS
      <3>2. Begin(r, "d_status", force)
        BY <2>3, <3>1 DEF ServiceDelete, Begin
      <3> QED
        BY <3>2
    <2> QED
      BY <2>1, <2>2, <2>3
  <1> QED
    BY <1>2, <1>3

\* Each step of a create is one of the effects a command can have.
LEMMA DropletCreateDoes ==
    ASSUME DropletTypeOK, NEW r \in Reqs, DropletCreate(r)
    PROVE  \E c \in Cmds : Moves(r, c) /\ Effect(r, c)
  <1>1. ASSUME HookRead(r, "c_hook1", "c_post1")
        PROVE  \E c \in Cmds : Moves(r, c) /\ Effect(r, c)
    <2>1. "c_post1" \in CmdPcs /\ <<"c_hook1", "c_post1">> \in QuietPairs
      BY DEF CmdPcs, QuietPairs
    <2>2. PICK c \in Cmds : /\ Moves(r, c) /\ Still /\ state' = Recomputed /\ cmd[r].pc = "c_hook1"
                            /\ \/ c = Idle /\ state.status = "none"
                               \/ c.pc = "c_post1" /\ state.status # "none"
      BY <1>1, <2>1, HookReadDoes
    <2>4. Quiet(r, c)
      BY <2>1, <2>2, DropletConstants DEF Quiet, Posts
    <2> QED
      BY <2>2, <2>4 DEF Effect
  <1>2. ASSUME HookPost(r, "c_post1", "c_fifo")
        PROVE  \E c \in Cmds : Moves(r, c) /\ Effect(r, c)
    <2>1. "c_fifo" \in CmdPcs /\ <<"c_post1", "c_fifo">> \in QuietPairs
      BY DEF CmdPcs, QuietPairs
    <2>2. PICK c \in Cmds : /\ Moves(r, c) /\ Still /\ state' = state /\ cmd[r].pc = "c_post1"
                            /\ c = Idle \/ c.pc = "c_fifo"
      BY <1>2, <2>1, HookPostDoes
    <2>4. Quiet(r, c)
      BY <2>1, <2>2, DropletConstants DEF Quiet, Posts
    <2> QED
      BY <2>2, <2>4 DEF Effect
  <1>3. ASSUME ReadState(r, "c_read", "c_write")
        PROVE  \E c \in Cmds : Moves(r, c) /\ Effect(r, c)
    <2>1. "c_write" \in CmdPcs /\ <<"c_read", "c_write">> \in QuietPairs
      BY DEF CmdPcs, QuietPairs
    <2>2. PICK c \in Cmds : /\ Moves(r, c) /\ Still /\ state' = state /\ cmd[r].pc = "c_read"
                            /\ \/ c = Idle /\ state.status = "none"
                               \/ c.pc = "c_write" /\ c.pid = cmd[r].pid /\ c.buf = state /\ state.status # "none"
      BY <1>3, <2>1, ReadStateDoes
    <2>4. Quiet(r, c)
      BY <2>1, <2>2, DropletConstants DEF Quiet, Posts
    <2> QED
      BY <2>2, <2>4 DEF Effect
  <1>4. ASSUME WriteState(r, "c_write", [status |-> "created", pid |-> cmd[r].pid], "c_hook2")
        PROVE  \E c \in Cmds : Moves(r, c) /\ Effect(r, c)
    <2>1. PICK file \in File : file = [status |-> "created", pid |-> cmd[r].pid]
      BY DropletConstants DEF DropletTypeOK, File, Status
    <2>2. WriteState(r, "c_write", file, "c_hook2")
      BY <1>4, <2>1 DEF WriteState
    <2>3. "c_hook2" \in CmdPcs
      BY DEF CmdPcs
    <2>4. PICK c \in Cmds : /\ Moves(r, c) /\ Still /\ cmd[r].pc = "c_write"
                            /\ \/ c = Idle /\ state.status = "none" /\ state' = state
                               \/ c.pc = "c_hook2" /\ state.status # "none" /\ state' = file
      BY <2>2, <2>3, WriteStateDoes
    <2>5. CASE c = Idle /\ state' = state
      BY <2>4, <2>5, DropletConstants DEF Effect, Quiet
    <2>6. CASE c.pc = "c_hook2" /\ state.status # "none" /\ state' = file
      BY <2>1, <2>4, <2>6 DEF Effect, Writes
    <2> QED
      BY <2>4, <2>5, <2>6
  <1>5. ASSUME HookRead(r, "c_hook2", "c_post2")
        PROVE  \E c \in Cmds : Moves(r, c) /\ Effect(r, c)
    <2>1. "c_post2" \in CmdPcs /\ <<"c_hook2", "c_post2">> \in QuietPairs
      BY DEF CmdPcs, QuietPairs
    <2>2. PICK c \in Cmds : /\ Moves(r, c) /\ Still /\ state' = Recomputed /\ cmd[r].pc = "c_hook2"
                            /\ \/ c = Idle /\ state.status = "none"
                               \/ c.pc = "c_post2" /\ state.status # "none"
      BY <1>5, <2>1, HookReadDoes
    <2>4. Quiet(r, c)
      BY <2>1, <2>2, DropletConstants DEF Quiet, Posts
    <2> QED
      BY <2>2, <2>4 DEF Effect
  <1>6. ASSUME HookPost(r, "c_post2", "s_check")
        PROVE  \E c \in Cmds : Moves(r, c) /\ Effect(r, c)
    <2>1. "s_check" \in CmdPcs /\ <<"c_post2", "s_check">> \in QuietPairs
      BY DEF CmdPcs, QuietPairs
    <2>2. PICK c \in Cmds : /\ Moves(r, c) /\ Still /\ state' = state /\ cmd[r].pc = "c_post2"
                            /\ c = Idle \/ c.pc = "s_check"
      BY <1>6, <2>1, HookPostDoes
    <2>4. Quiet(r, c)
      BY <2>1, <2>2, DropletConstants DEF Quiet, Posts
    <2> QED
      BY <2>2, <2>4 DEF Effect
  <1>7. ASSUME CreateState(r)
        PROVE  \E c \in Cmds : Moves(r, c) /\ Effect(r, c)
    <2>1. csm' \in File /\ event' \in BOOLEAN /\ UNCHANGED <<watch, resolved, mon>>
      BY <1>7 DEF DropletTypeOK, condenserVars, CreateState
    <2>2. CASE Return(r) /\ UNCHANGED <<state, fifo, proc, shim>>
      <3>1. cmd[r].pc # "c_shim" /\ Moves(r, Idle) /\ Still
        BY <1>7, <2>1, <2>2 DEF CreateState, At, Moves, Return, Still
      <3> QED
        BY <2>2, <3>1, DropletConstants DEF Quiet, Effect
    <2>3. CASE Goto(r, "c_hook1") /\ state.status # "none" /\ state' = [status |-> "creating", pid |-> 0] /\ UNCHANGED <<fifo, proc, shim>>
      <3>1. "c_hook1" \in CmdPcs /\ cmd' = [cmd EXCEPT ![r].pc = "c_hook1"]
        BY <2>3 DEF CmdPcs, Goto
      <3>2. PICK c \in Cmds : cmd' = [cmd EXCEPT ![r] = c] /\ c.pc = "c_hook1" /\ c.pid = cmd[r].pid /\ c.buf = cmd[r].buf
        BY <3>1, CommandGoes
      <3>3. Moves(r, c)
        BY <2>1, <3>2 DEF Moves
      <3>4. Effect(r, c)
        BY <1>7, <2>3, <3>2 DEF CreateState, At, Still, Effect, Writes
      <3> QED
        BY <3>3, <3>4
    <2> QED
      BY <1>7, <2>2, <2>3 DEF CreateState
  <1>8. ASSUME CreateFifo(r)
        PROVE  \E c \in Cmds : Moves(r, c) /\ Effect(r, c)
    <2>1. csm' \in File /\ event' \in BOOLEAN /\ UNCHANGED <<watch, resolved, mon>>
      BY <1>8 DEF DropletTypeOK, condenserVars, CreateFifo
    <2>2. CASE Return(r) /\ UNCHANGED <<state, fifo, proc, shim>>
      <3>1. cmd[r].pc # "c_shim" /\ Moves(r, Idle) /\ Still
        BY <1>8, <2>1, <2>2 DEF CreateFifo, At, Moves, Return, Still
      <3> QED
        BY <2>2, <3>1, DropletConstants DEF Quiet, Effect
    <2>3. ASSUME NEW p \in Pids, fifo = 0, proc[p] = "unborn", fifo' = p, proc' = [proc EXCEPT ![p] = "starting"],
                 cmd' = [cmd EXCEPT ![r].pc = "c_shim", ![r].pid = p], UNCHANGED <<state, shim>>
          PROVE  \E c \in Cmds : Moves(r, c) /\ Effect(r, c)
      <3>1. "c_shim" \in CmdPcs /\ p \in 0 .. MaxInst /\ TakesPid(r, "c_shim", p)
        BY <2>3, DropletConstants DEF CmdPcs, TakesPid
      <3>2. PICK c \in Cmds : cmd' = [cmd EXCEPT ![r] = c] /\ c.pc = "c_shim" /\ c.pid = p /\ c.buf = cmd[r].buf
        BY <3>1, CommandTakesPid
      <3>3. Moves(r, c)
        BY <2>1, <3>2 DEF Moves
      <3>4. cmd[r].pc = "c_fifo"
        BY <1>8 DEF CreateFifo, At
      <3>5. Makes(r, c)
        BY <2>3, <3>2, <3>4 DEF Makes
      <3> QED
        BY <3>3, <3>5 DEF Effect
    <2> QED
      BY <1>8, <2>2, <2>3 DEF CreateFifo
  <1>9. ASSUME CreateShim(r)
        PROVE  \E c \in Cmds : Moves(r, c) /\ Effect(r, c)
    <2>1. csm' \in File /\ event' \in BOOLEAN /\ UNCHANGED <<watch, resolved, mon>>
      BY <1>9 DEF DropletTypeOK, condenserVars, CreateShim
    <2>2. CASE Return(r) /\ proc' = [proc EXCEPT ![cmd[r].pid] = "dead"]
      <3>1. Moves(r, Idle)
        BY <2>1, <2>2 DEF Moves, Return
      <3>2. Bears(r, Idle)
        BY <1>9, <2>2, DropletConstants DEF CreateShim, At, Bears
      <3> QED
        BY <3>1, <3>2, DropletConstants DEF Effect
    <2>3. CASE Goto(r, "c_read") /\ fifo = cmd[r].pid /\ proc' = [proc EXCEPT ![cmd[r].pid] = "waiting"]
      <3>1. "c_read" \in CmdPcs /\ cmd' = [cmd EXCEPT ![r].pc = "c_read"]
        BY <2>3 DEF CmdPcs, Goto
      <3>2. PICK c \in Cmds : cmd' = [cmd EXCEPT ![r] = c] /\ c.pc = "c_read" /\ c.pid = cmd[r].pid /\ c.buf = cmd[r].buf
        BY <3>1, CommandGoes
      <3>3. Moves(r, c)
        BY <2>1, <3>2 DEF Moves
      <3>4. Effect(r, c)
        BY <1>9, <2>3, <3>2 DEF CreateShim, At, Still, Effect, Bears
      <3> QED
        BY <3>3, <3>4
    <2> QED
      BY <1>9, <2>2, <2>3 DEF CreateShim
  <1> QED
    BY <1>1, <1>2, <1>3, <1>4, <1>5, <1>6, <1>7, <1>8, <1>9 DEF DropletCreate

\* Each step of a start is one of the effects a command can have.
LEMMA DropletStartDoes ==
    ASSUME DropletTypeOK, NEW r \in Reqs, DropletStart(r)
    PROVE  \E c \in Cmds : Moves(r, c) /\ Effect(r, c)
  <1>1. ASSUME Check(r, "s_check", EnsureCreated, "s_fifo")
        PROVE  \E c \in Cmds : Moves(r, c) /\ Effect(r, c)
    <2>1. "s_fifo" \in CmdPcs /\ <<"s_check", "s_fifo">> \in QuietPairs
      BY DEF CmdPcs, QuietPairs
    <2>2. PICK c \in Cmds : /\ Moves(r, c) /\ Still /\ state' = Recomputed /\ cmd[r].pc = "s_check"
                            /\ c.pc = "idle" \/ (c.pc = "s_fifo" /\ Recomputed.status \in EnsureCreated)
      BY <1>1, <2>1, CheckDoes
    <2>3. c.pc = "idle" \/ (c.pc = "s_fifo" /\ state.status # "none")
      BY <2>2, RecomputedIs DEF EnsureCreated
    <2>4. Quiet(r, c)
      BY <2>1, <2>2, <2>3 DEF Quiet
    <2> QED
      BY <2>2, <2>4 DEF Effect
  <1>2. ASSUME ReadState(r, "s_read", "s_write")
        PROVE  \E c \in Cmds : Moves(r, c) /\ Effect(r, c)
    <2>1. "s_write" \in CmdPcs /\ <<"s_read", "s_write">> \in QuietPairs
      BY DEF CmdPcs, QuietPairs
    <2>2. PICK c \in Cmds : /\ Moves(r, c) /\ Still /\ state' = state /\ cmd[r].pc = "s_read"
                            /\ \/ c = Idle /\ state.status = "none"
                               \/ c.pc = "s_write" /\ c.pid = cmd[r].pid /\ c.buf = state /\ state.status # "none"
      BY <1>2, <2>1, ReadStateDoes
    <2>4. Quiet(r, c)
      BY <2>1, <2>2, DropletConstants DEF Quiet, Posts
    <2> QED
      BY <2>2, <2>4 DEF Effect
  <1>3. ASSUME WriteState(r, "s_write", [cmd[r].buf EXCEPT !.status = "running"], "s_hook")
        PROVE  \E c \in Cmds : Moves(r, c) /\ Effect(r, c)
    <2>1. PICK file \in File : file = [cmd[r].buf EXCEPT !.status = "running"]
      BY DropletConstants DEF DropletTypeOK, File, Status
    <2>2. WriteState(r, "s_write", file, "s_hook")
      BY <1>3, <2>1 DEF WriteState
    <2>3. "s_hook" \in CmdPcs
      BY DEF CmdPcs
    <2>4. PICK c \in Cmds : /\ Moves(r, c) /\ Still /\ cmd[r].pc = "s_write"
                            /\ \/ c = Idle /\ state.status = "none" /\ state' = state
                               \/ c.pc = "s_hook" /\ state.status # "none" /\ state' = file
      BY <2>2, <2>3, WriteStateDoes
    <2>5. CASE c = Idle /\ state' = state
      BY <2>4, <2>5, DropletConstants DEF Effect, Quiet
    <2>6. CASE c.pc = "s_hook" /\ state.status # "none" /\ state' = file
      BY <2>1, <2>4, <2>6 DEF Effect, Writes
    <2> QED
      BY <2>4, <2>5, <2>6
  <1>4. ASSUME HookRead(r, "s_hook", "s_post")
        PROVE  \E c \in Cmds : Moves(r, c) /\ Effect(r, c)
    <2>1. "s_post" \in CmdPcs /\ <<"s_hook", "s_post">> \in QuietPairs
      BY DEF CmdPcs, QuietPairs
    <2>2. PICK c \in Cmds : /\ Moves(r, c) /\ Still /\ state' = Recomputed /\ cmd[r].pc = "s_hook"
                            /\ \/ c = Idle /\ state.status = "none"
                               \/ c.pc = "s_post" /\ state.status # "none"
      BY <1>4, <2>1, HookReadDoes
    <2>4. Quiet(r, c)
      BY <2>1, <2>2, DropletConstants DEF Quiet, Posts
    <2> QED
      BY <2>2, <2>4 DEF Effect
  <1>5. ASSUME HookPost(r, "s_post", "idle")
        PROVE  \E c \in Cmds : Moves(r, c) /\ Effect(r, c)
    <2>1. "idle" \in CmdPcs 
      BY DEF CmdPcs, QuietPairs
    <2>2. PICK c \in Cmds : /\ Moves(r, c) /\ Still /\ state' = state /\ cmd[r].pc = "s_post"
                            /\ c = Idle \/ c.pc = "idle"
      BY <1>5, <2>1, HookPostDoes
    <2>4. Quiet(r, c)
      BY <2>1, <2>2, DropletConstants DEF Quiet, Posts
    <2> QED
      BY <2>2, <2>4 DEF Effect
  <1>6. ASSUME StartFifo(r)
        PROVE  \E c \in Cmds : Moves(r, c) /\ Effect(r, c)
    <2>1. csm' \in File /\ event' \in BOOLEAN /\ UNCHANGED <<watch, resolved, mon>>
      BY <1>6 DEF DropletTypeOK, condenserVars, StartFifo
    <2>4. UNCHANGED <<state, fifo, shim>>
      BY <1>6 DEF StartFifo
    <2>2. CASE Return(r) /\ UNCHANGED <<state, fifo, proc, shim>>
      <3>1. cmd[r].pc # "c_shim" /\ Moves(r, Idle) /\ Still
        BY <1>6, <2>1, <2>2 DEF StartFifo, At, Moves, Return, Still
      <3> QED
        BY <2>2, <3>1, DropletConstants DEF Quiet, Effect
    <2>3. CASE Goto(r, "s_remove") /\ fifo # 0 /\ proc[fifo] = "waiting" /\ proc' = [proc EXCEPT ![fifo] = "running"]
      <3>1. "s_remove" \in CmdPcs /\ cmd' = [cmd EXCEPT ![r].pc = "s_remove"]
        BY <2>3 DEF CmdPcs, Goto
      <3>2. PICK c \in Cmds : cmd' = [cmd EXCEPT ![r] = c] /\ c.pc = "s_remove" /\ c.pid = cmd[r].pid /\ c.buf = cmd[r].buf
        BY <3>1, CommandGoes
      <3>3. Moves(r, c)
        BY <2>1, <3>2 DEF Moves
      <3>4. Effect(r, c)
        BY <1>6, <2>3, <3>2 DEF StartFifo, At, Still, Effect, Releases
      <3> QED
        BY <3>3, <3>4
    <2> QED
      BY <1>6, <2>2, <2>3 DEF StartFifo
  <1>7. ASSUME RemoveFifo(r)
        PROVE  \E c \in Cmds : Moves(r, c) /\ Effect(r, c)
    <2>1. csm' \in File /\ event' \in BOOLEAN /\ UNCHANGED <<watch, resolved, mon>>
      BY <1>7 DEF DropletTypeOK, condenserVars, RemoveFifo
    <2>2. CASE Return(r)
      <3>1. Moves(r, Idle)
        BY <2>1, <2>2 DEF Moves, Return
      <3>2. Unlinks(r, Idle)
        BY <1>7, <2>2, DropletConstants DEF RemoveFifo, At, Unlinks
      <3> QED
        BY <3>1, <3>2, DropletConstants DEF Effect
    <2>3. CASE Goto(r, "s_read") /\ fifo' = 0
      <3>1. "s_read" \in CmdPcs /\ cmd' = [cmd EXCEPT ![r].pc = "s_read"]
        BY <2>3 DEF CmdPcs, Goto
      <3>2. PICK c \in Cmds : cmd' = [cmd EXCEPT ![r] = c] /\ c.pc = "s_read" /\ c.pid = cmd[r].pid /\ c.buf = cmd[r].buf
        BY <3>1, CommandGoes
      <3>3. Moves(r, c)
        BY <2>1, <3>2 DEF Moves
      <3>4. Effect(r, c)
        BY <1>7, <2>3, <3>2 DEF RemoveFifo, At, Still, Effect, Unlinks
      <3> QED
        BY <3>3, <3>4
    <2> QED
      BY <1>7, <2>2, <2>3 DEF RemoveFifo
  <1> QED
    BY <1>1, <1>2, <1>3, <1>4, <1>5, <1>6, <1>7 DEF DropletStart

\* Each step of a kill is one of the effects a command can have.
LEMMA DropletKillDoes ==
    ASSUME DropletTypeOK, NEW r \in Reqs, DropletKill(r)
    PROVE  \E c \in Cmds : Moves(r, c) /\ Effect(r, c)
  <1>1. ASSUME Check(r, "k_status", IsAllowed, "k_pid")
        PROVE  \E c \in Cmds : Moves(r, c) /\ Effect(r, c)
    <2>1. "k_pid" \in CmdPcs /\ <<"k_status", "k_pid">> \in QuietPairs
      BY DEF CmdPcs, QuietPairs
    <2>2. PICK c \in Cmds : /\ Moves(r, c) /\ Still /\ state' = Recomputed /\ cmd[r].pc = "k_status"
                            /\ c.pc = "idle" \/ (c.pc = "k_pid" /\ Recomputed.status \in IsAllowed)
      BY <1>1, <2>1, CheckDoes
    <2>3. c.pc = "idle" \/ (c.pc = "k_pid" /\ state.status # "none")
      BY <2>2, RecomputedIs DEF IsAllowed
    <2>4. Quiet(r, c)
      BY <2>1, <2>2, <2>3 DEF Quiet
    <2> QED
      BY <2>2, <2>4 DEF Effect
  <1>2. ASSUME ReadPid(r, "k_pid", "k_signal")
        PROVE  \E c \in Cmds : Moves(r, c) /\ Effect(r, c)
    <2>1. "k_signal" \in CmdPcs /\ <<"k_pid", "k_signal">> \in QuietPairs
      BY DEF CmdPcs, QuietPairs
    <2>2. PICK c \in Cmds : /\ Moves(r, c) /\ Still /\ state' = state /\ cmd[r].pc = "k_pid"
                            /\ \/ c = Idle /\ state.status = "none"
                               \/ c.pc = "k_signal" /\ state.status # "none"
      BY <1>2, <2>1, ReadPidDoes
    <2>4. Quiet(r, c)
      BY <2>1, <2>2, DropletConstants DEF Quiet, Posts
    <2> QED
      BY <2>2, <2>4 DEF Effect
  <1>3. ASSUME ReadState(r, "k_read", "k_write")
        PROVE  \E c \in Cmds : Moves(r, c) /\ Effect(r, c)
    <2>1. "k_write" \in CmdPcs /\ <<"k_read", "k_write">> \in QuietPairs
      BY DEF CmdPcs, QuietPairs
    <2>2. PICK c \in Cmds : /\ Moves(r, c) /\ Still /\ state' = state /\ cmd[r].pc = "k_read"
                            /\ \/ c = Idle /\ state.status = "none"
                               \/ c.pc = "k_write" /\ c.pid = cmd[r].pid /\ c.buf = state /\ state.status # "none"
      BY <1>3, <2>1, ReadStateDoes
    <2>4. Quiet(r, c)
      BY <2>1, <2>2, DropletConstants DEF Quiet, Posts
    <2> QED
      BY <2>2, <2>4 DEF Effect
  <1>4. ASSUME WriteState(r, "k_write", Stopped, "k_hook")
        PROVE  \E c \in Cmds : Moves(r, c) /\ Effect(r, c)
    <2>1. PICK file \in File : file = Stopped
      BY DropletConstants DEF DropletTypeOK, File, Status
    <2>2. WriteState(r, "k_write", file, "k_hook")
      BY <1>4, <2>1 DEF WriteState
    <2>3. "k_hook" \in CmdPcs
      BY DEF CmdPcs
    <2>4. PICK c \in Cmds : /\ Moves(r, c) /\ Still /\ cmd[r].pc = "k_write"
                            /\ \/ c = Idle /\ state.status = "none" /\ state' = state
                               \/ c.pc = "k_hook" /\ state.status # "none" /\ state' = file
      BY <2>2, <2>3, WriteStateDoes
    <2>5. CASE c = Idle /\ state' = state
      BY <2>4, <2>5, DropletConstants DEF Effect, Quiet
    <2>6. CASE c.pc = "k_hook" /\ state.status # "none" /\ state' = file
      BY <2>1, <2>4, <2>6 DEF Effect, Writes
    <2> QED
      BY <2>4, <2>5, <2>6
  <1>5. ASSUME HookRead(r, "k_hook", "k_post")
        PROVE  \E c \in Cmds : Moves(r, c) /\ Effect(r, c)
    <2>1. "k_post" \in CmdPcs /\ <<"k_hook", "k_post">> \in QuietPairs
      BY DEF CmdPcs, QuietPairs
    <2>2. PICK c \in Cmds : /\ Moves(r, c) /\ Still /\ state' = Recomputed /\ cmd[r].pc = "k_hook"
                            /\ \/ c = Idle /\ state.status = "none"
                               \/ c.pc = "k_post" /\ state.status # "none"
      BY <1>5, <2>1, HookReadDoes
    <2>4. Quiet(r, c)
      BY <2>1, <2>2, DropletConstants DEF Quiet, Posts
    <2> QED
      BY <2>2, <2>4 DEF Effect
  <1>6. ASSUME HookPost(r, "k_post", "idle")
        PROVE  \E c \in Cmds : Moves(r, c) /\ Effect(r, c)
    <2>1. "idle" \in CmdPcs 
      BY DEF CmdPcs, QuietPairs
    <2>2. PICK c \in Cmds : /\ Moves(r, c) /\ Still /\ state' = state /\ cmd[r].pc = "k_post"
                            /\ c = Idle \/ c.pc = "idle"
      BY <1>6, <2>1, HookPostDoes
    <2>4. Quiet(r, c)
      BY <2>1, <2>2, DropletConstants DEF Quiet, Posts
    <2> QED
      BY <2>2, <2>4 DEF Effect
  <1>7. ASSUME KillSignal(r)
        PROVE  \E c \in Cmds : Moves(r, c) /\ Effect(r, c)
    <2>1. csm' \in File /\ event' \in BOOLEAN /\ UNCHANGED <<watch, resolved, mon>>
      BY <1>7 DEF DropletTypeOK, condenserVars, KillSignal
    <2>4. UNCHANGED <<state, fifo, shim>>
      BY <1>7 DEF KillSignal
    <2>2. CASE Return(r) /\ UNCHANGED <<state, fifo, proc, shim>>
      <3>1. cmd[r].pc # "c_shim" /\ Moves(r, Idle) /\ Still
        BY <1>7, <2>1, <2>2 DEF KillSignal, At, Moves, Return, Still
      <3> QED
        BY <2>2, <3>1, DropletConstants DEF Quiet, Effect
    <2>3. CASE Goto(r, "k_read") /\ PidAlive(cmd[r].pid) /\ proc' = [proc EXCEPT ![cmd[r].pid] = "dead"]
      <3>1. "k_read" \in CmdPcs /\ cmd' = [cmd EXCEPT ![r].pc = "k_read"]
        BY <2>3 DEF CmdPcs, Goto
      <3>2. PICK c \in Cmds : cmd' = [cmd EXCEPT ![r] = c] /\ c.pc = "k_read" /\ c.pid = cmd[r].pid /\ c.buf = cmd[r].buf
        BY <3>1, CommandGoes
      <3>3. Moves(r, c)
        BY <2>1, <3>2 DEF Moves
      <3>4. Effect(r, c)
        BY <1>7, <2>3, <3>2 DEF KillSignal, At, Still, Effect, Kills
      <3> QED
        BY <3>3, <3>4
    <2> QED
      BY <1>7, <2>2, <2>3 DEF KillSignal
  <1> QED
    BY <1>1, <1>2, <1>3, <1>4, <1>5, <1>6, <1>7 DEF DropletKill

\* Each step of a delete is one of the effects a command can have.
LEMMA DropletDeleteDoes ==
    ASSUME DropletTypeOK, NEW r \in Reqs, DropletDelete(r)
    PROVE  \E c \in Cmds : Moves(r, c) /\ Effect(r, c)
  <1>1. ASSUME ReadPid(r, "d_pid", "d_kill")
        PROVE  \E c \in Cmds : Moves(r, c) /\ Effect(r, c)
    <2>1. "d_kill" \in CmdPcs /\ <<"d_pid", "d_kill">> \in QuietPairs
      BY DEF CmdPcs, QuietPairs
    <2>2. PICK c \in Cmds : /\ Moves(r, c) /\ Still /\ state' = state /\ cmd[r].pc = "d_pid"
                            /\ \/ c = Idle /\ state.status = "none"
                               \/ c.pc = "d_kill" /\ state.status # "none"
      BY <1>1, <2>1, ReadPidDoes
    <2>4. Quiet(r, c)
      BY <2>1, <2>2, DropletConstants DEF Quiet, Posts
    <2> QED
      BY <2>2, <2>4 DEF Effect
  <1>2. ASSUME ReadState(r, "d_read", "d_write")
        PROVE  \E c \in Cmds : Moves(r, c) /\ Effect(r, c)
    <2>1. "d_write" \in CmdPcs /\ <<"d_read", "d_write">> \in QuietPairs
      BY DEF CmdPcs, QuietPairs
    <2>2. PICK c \in Cmds : /\ Moves(r, c) /\ Still /\ state' = state /\ cmd[r].pc = "d_read"
                            /\ \/ c = Idle /\ state.status = "none"
                               \/ c.pc = "d_write" /\ c.pid = cmd[r].pid /\ c.buf = state /\ state.status # "none"
      BY <1>2, <2>1, ReadStateDoes
    <2>4. Quiet(r, c)
      BY <2>1, <2>2, DropletConstants DEF Quiet, Posts
    <2> QED
      BY <2>2, <2>4 DEF Effect
  <1>3. ASSUME WriteState(r, "d_write", Stopped, "d_hook")
        PROVE  \E c \in Cmds : Moves(r, c) /\ Effect(r, c)
    <2>1. PICK file \in File : file = Stopped
      BY DropletConstants DEF DropletTypeOK, File, Status
    <2>2. WriteState(r, "d_write", file, "d_hook")
      BY <1>3, <2>1 DEF WriteState
    <2>3. "d_hook" \in CmdPcs
      BY DEF CmdPcs
    <2>4. PICK c \in Cmds : /\ Moves(r, c) /\ Still /\ cmd[r].pc = "d_write"
                            /\ \/ c = Idle /\ state.status = "none" /\ state' = state
                               \/ c.pc = "d_hook" /\ state.status # "none" /\ state' = file
      BY <2>2, <2>3, WriteStateDoes
    <2>5. CASE c = Idle /\ state' = state
      BY <2>4, <2>5, DropletConstants DEF Effect, Quiet
    <2>6. CASE c.pc = "d_hook" /\ state.status # "none" /\ state' = file
      BY <2>1, <2>4, <2>6 DEF Effect, Writes
    <2> QED
      BY <2>4, <2>5, <2>6
  <1>4. ASSUME HookRead(r, "d_hook", "d_post")
        PROVE  \E c \in Cmds : Moves(r, c) /\ Effect(r, c)
    <2>1. "d_post" \in CmdPcs /\ <<"d_hook", "d_post">> \in QuietPairs
      BY DEF CmdPcs, QuietPairs
    <2>2. PICK c \in Cmds : /\ Moves(r, c) /\ Still /\ state' = Recomputed /\ cmd[r].pc = "d_hook"
                            /\ \/ c = Idle /\ state.status = "none"
                               \/ c.pc = "d_post" /\ state.status # "none"
      BY <1>4, <2>1, HookReadDoes
    <2>4. Quiet(r, c)
      BY <2>1, <2>2, DropletConstants DEF Quiet, Posts
    <2> QED
      BY <2>2, <2>4 DEF Effect
  <1>5. ASSUME DeleteStatus(r)
        PROVE  \E c \in Cmds : Moves(r, c) /\ Effect(r, c)
    <2>1. csm' \in File /\ event' \in BOOLEAN /\ UNCHANGED <<watch, resolved, mon>>
      BY <1>5 DEF DropletTypeOK, condenserVars, DeleteStatus
    <2>2. Still /\ state' = Recomputed /\ cmd[r].pc = "d_status" /\ cmd[r].force \in BOOLEAN
      BY <1>5 DEF DeleteStatus, At, Still, DropletTypeOK
    <2>3. CASE Return(r)
      BY <2>1, <2>2, <2>3, DropletConstants DEF Return, Moves, Quiet, Effect
    <2>4. ASSUME NEW to \in {"d_pid", "d_hook"}, Goto(r, to), Recomputed.status # "none",
                 to = "d_hook" => Recomputed.status \in {"stopped", "creating"}
          PROVE  \E c \in Cmds : Moves(r, c) /\ Effect(r, c)
      <3>1. <<"d_status", to>> \in QuietPairs
        BY <2>4 DEF QuietPairs
      <3>2. PICK pc \in CmdPcs : pc = to
        BY <2>4 DEF CmdPcs
      <3>3. cmd' = [cmd EXCEPT ![r].pc = pc]
        BY <2>4, <3>2 DEF Goto
      <3>4. PICK c \in Cmds : cmd' = [cmd EXCEPT ![r] = c] /\ c.pc = pc
        BY <3>3, CommandGoes
      <3>5. Moves(r, c)
        BY <2>1, <3>4 DEF Moves
      <3>6. Quiet(r, c)
        BY <2>2, <2>4, <3>1, <3>2, <3>4, RecomputedIs DEF Quiet
      <3> QED
        BY <3>5, <3>6 DEF Effect
    <2>5. CASE ~(Recomputed.status = "none" \/ ~CanDelete(Recomputed.status, cmd[r].force))
      <3>1. PICK s \in Status : s = Recomputed.status
        BY RecomputedIs DEF File
      <3>2. CASE ShouldKillBeforeDelete(s, cmd[r].force)
        BY <1>5, <2>4, <2>5, <3>1, <3>2 DEF DeleteStatus
      <3>3. CASE ~ShouldKillBeforeDelete(s, cmd[r].force)
        <4>1. s \in {"stopped", "creating"}
          BY <2>5, <3>1, <3>3 DEF CanDelete, ShouldKillBeforeDelete, Status
        <4> QED
          BY <1>5, <2>4, <2>5, <3>1, <3>3, <4>1 DEF DeleteStatus
      <3> QED
        BY <3>2, <3>3
    <2> QED
      BY <1>5, <2>3, <2>5 DEF DeleteStatus
  <1>6. ASSUME DeleteKill(r)
        PROVE  \E c \in Cmds : Moves(r, c) /\ Effect(r, c)
    <2>1. csm' \in File /\ event' \in BOOLEAN /\ UNCHANGED <<watch, resolved, mon>>
      BY <1>6 DEF DropletTypeOK, condenserVars, DeleteKill
    <2>4. UNCHANGED <<state, fifo, shim>>
      BY <1>6 DEF DeleteKill
    <2>2. CASE Return(r) /\ UNCHANGED <<state, fifo, proc, shim>>
      <3>1. cmd[r].pc # "c_shim" /\ Moves(r, Idle) /\ Still
        BY <1>6, <2>1, <2>2 DEF DeleteKill, At, Moves, Return, Still
      <3> QED
        BY <2>2, <3>1, DropletConstants DEF Quiet, Effect
    <2>3. CASE Goto(r, "d_read") /\ PidAlive(cmd[r].pid) /\ proc' = [proc EXCEPT ![cmd[r].pid] = "dead"]
      <3>1. "d_read" \in CmdPcs /\ cmd' = [cmd EXCEPT ![r].pc = "d_read"]
        BY <2>3 DEF CmdPcs, Goto
      <3>2. PICK c \in Cmds : cmd' = [cmd EXCEPT ![r] = c] /\ c.pc = "d_read" /\ c.pid = cmd[r].pid /\ c.buf = cmd[r].buf
        BY <3>1, CommandGoes
      <3>3. Moves(r, c)
        BY <2>1, <3>2 DEF Moves
      <3>4. Effect(r, c)
        BY <1>6, <2>3, <3>2 DEF DeleteKill, At, Still, Effect, Kills
      <3> QED
        BY <3>3, <3>4
    <2> QED
      BY <1>6, <2>2, <2>3 DEF DeleteKill
  <1>7. ASSUME DeletePost(r)
        PROVE  \E c \in Cmds : Moves(r, c) /\ Effect(r, c)
    <2>1. csm' \in File /\ event' \in BOOLEAN /\ UNCHANGED <<watch, resolved, mon>>
      BY <1>7, DropletConstants DEF DeletePost, CsmWrite
    <2>2. Still /\ state' = state /\ cmd[r].pc = "d_post" /\ Goto(r, "d_remove")
      BY <1>7 DEF DeletePost, At, Still
    <2>3. "d_remove" \in CmdPcs /\ cmd' = [cmd EXCEPT ![r].pc = "d_remove"] /\ <<"d_post", "d_remove">> \in QuietPairs
      BY <2>2 DEF CmdPcs, Goto, QuietPairs
    <2>4. PICK c \in Cmds : cmd' = [cmd EXCEPT ![r] = c] /\ c.pc = "d_remove"
      BY <2>3, CommandGoes
    <2>5. Moves(r, c) /\ Quiet(r, c)
      BY <2>1, <2>2, <2>3, <2>4 DEF Moves, Quiet, Posts
    <2> QED
      BY <2>5 DEF Effect
  <1>8. ASSUME DeleteRemove(r)
        PROVE  \E c \in Cmds : Moves(r, c) /\ Effect(r, c)
    <2>1. csm' \in File /\ event' \in BOOLEAN /\ UNCHANGED <<watch, resolved, mon>>
      BY <1>8 DEF DropletTypeOK, condenserVars, DeleteRemove
    <2>2. Moves(r, Idle) /\ Removes(r, Idle)
      BY <1>8, <2>1, DropletConstants DEF DeleteRemove, At, Return, Moves, Removes
    <2> QED
      BY <2>2, DropletConstants DEF Effect
  <1> QED
    BY <1>1, <1>2, <1>3, <1>4, <1>5, <1>6, <1>7, <1>8 DEF DropletDelete

\* Each step of any command is one of the effects a command can have.
LEMMA CommandDoes ==
    ASSUME DropletTypeOK, NEW r \in Reqs, CommandStep(r)
    PROVE  \E c \in Cmds : Moves(r, c) /\ Effect(r, c)
  BY DropletCreateDoes, DropletStartDoes, DropletKillDoes, DropletDeleteDoes DEF CommandStep

\* Every effect of a command keeps the type invariant and leaves the other commands alone.
LEMMA EffectTyped ==
    ASSUME DropletTypeOK, NEW r \in Reqs, NEW c \in Cmds, Moves(r, c), Effect(r, c)
    PROVE  DropletTypeOK' /\ cmd'[r] = c /\ \A q \in Reqs \ {r} : cmd'[q] = cmd[q]
  <1>1. /\ state \in File /\ fifo \in 0 .. MaxInst /\ proc \in [Pids -> Procs] /\ shim \in [Pids -> Supervisors]
        /\ cmd[r] \in Cmds
    BY DEF DropletTypeOK, Procs, Supervisors, Cmds
  <1>2. state' \in File
    <2>1. CASE state' = state \/ state' = Recomputed \/ state' = Stopped \/ state' = Absent
      BY <1>1, <2>1, RecomputedIs, DropletConstants
    <2>2. CASE state' = [status |-> "creating", pid |-> 0] \/ state' = [status |-> "created", pid |-> cmd[r].pid]
      BY <1>1, <2>2, DropletConstants DEF File, Status, Cmds
    <2>3. CASE state' = [cmd[r].buf EXCEPT !.status = "running"]
      BY <1>1, <2>3 DEF File, Status, Cmds
    <2> QED
      BY <2>1, <2>2, <2>3 DEF Effect, Quiet, Writes, Makes, Bears, Releases, Unlinks, Kills, Removes
  <1>3. fifo' \in 0 .. MaxInst
    <2>1. fifo' = fifo \/ fifo' = 0 \/ fifo' \in Pids
      BY DEF Effect, Still, Quiet, Writes, Makes, Bears, Releases, Unlinks, Kills, Removes
    <2>2. 0 \in 0 .. MaxInst
      BY DropletAssumption
    <2> QED
      BY <1>1, <2>1, <2>2, DropletConstants
  <1>4. proc' \in [Pids -> Procs]
    BY <1>1 DEF Effect, Still, Quiet, Writes, Makes, Bears, Releases, Unlinks, Kills, Removes, Procs
  <1>5. shim' \in [Pids -> Supervisors]
    <2>1. CASE shim' = shim
      BY <1>1, <2>1
    <2>2. CASE shim' = [shim EXCEPT ![cmd[r].pid].pc = "wait"]
      <3>1. PICK p : p = cmd[r].pid
        OBVIOUS
      <3>2. CASE p \in Pids
        <4>1. PICK s \in Supervisors : s = shim[p]
          BY <1>1, <3>2
        <4>2. PICK u : u = [s EXCEPT !.pc = "wait"]
          OBVIOUS
        <4>3. u \in Supervisors
          BY <4>2 DEF Supervisors, ShimPcs
        <4>4. shim' = [shim EXCEPT ![p] = u]
          BY <1>1, <2>2, <3>1, <3>2, <4>1, <4>2
        <4> QED
          BY <1>1, <4>3, <4>4
      <3>3. CASE p \notin Pids
        BY <1>1, <2>2, <3>1, <3>3
      <3> QED
        BY <3>2, <3>3
    <2> QED
      BY <2>1, <2>2 DEF Effect, Still, Quiet, Writes, Makes, Bears, Releases, Unlinks, Kills, Removes
  <1> QED
    BY <1>2, <1>3, <1>4, <1>5, MovesTyped

\* A step of shim p that leaves its record as s.
Supervises(p, s) ==
    /\ shim' = [shim EXCEPT ![p] = s] /\ UNCHANGED <<fifo, proc, cmd, condenserVars>>
    /\ s.pc \notin {"none", "wait"} /\ shim[p].pc # "none" /\ (shim[p].pc = "wait" => proc[p] = "dead")
    /\ s.pc \in {"exit_w", "reason_w"} => s.buf.status # "none"
    /\ \/ state' = state /\ (s.buf = state \/ s.buf = Absent)
       \/ state.status # "none" /\ s.buf = Absent /\ state' = Stopped /\ shim[p].pc = "stop_w"
       \/ state.status # "none" /\ s.buf = Absent /\ state' = shim[p].buf /\ shim[p].pc \in {"exit_w", "reason_w"}

\* Each step of a shim is one of the ways it supervises its process.
LEMMA ShimDoes ==
    ASSUME DropletTypeOK, NEW p \in Pids, ShimStep(p)
    PROVE  \E s \in Supervisors : Supervises(p, s)
  <1>1. ASSUME NEW from \in ShimPcs, NEW to \in ShimPcs, ShimRead(p, from, to), from # "none", to \notin {"none", "wait"},
               from = "wait" => proc[p] = "dead"
        PROVE  \E s \in Supervisors : Supervises(p, s)
    <2>1. PICK s : s = IF state.status = "none" THEN [pc |-> "done", buf |-> Absent] ELSE [pc |-> to, buf |-> state]
      OBVIOUS
    <2>2. /\ s \in Supervisors /\ s.pc \notin {"none", "wait"} /\ (s.buf = state \/ s.buf = Absent)
          /\ s.pc \in {"exit_w", "reason_w"} => s.buf.status # "none"
      BY <1>1, <2>1, DropletConstants DEF DropletTypeOK, Supervisors, ShimPcs
    <2>3. shim' = [shim EXCEPT ![p] = s] /\ state' = state /\ shim[p].pc = from /\ UNCHANGED <<fifo, proc, cmd, condenserVars>>
      BY <1>1, <2>1 DEF ShimRead
    <2> QED
      BY <1>1, <2>2, <2>3 DEF Supervises
  <1>2. ASSUME NEW from \in ShimPcs, NEW to \in {"exit_r", "reason_r", "done"}, NEW file \in File, ShimWrite(p, from, file, to),
               \/ from = "stop_w" /\ file = Stopped
               \/ from \in {"exit_w", "reason_w"} /\ file = shim[p].buf
        PROVE  \E s \in Supervisors : Supervises(p, s)
    <2>1. PICK s : s = [pc |-> IF state.status = "none" THEN "done" ELSE to, buf |-> Absent]
      OBVIOUS
    <2>2. s \in Supervisors /\ s.pc \notin {"none", "wait", "exit_w", "reason_w"} /\ s.buf = Absent
      BY <1>2, <2>1, DropletConstants DEF Supervisors, ShimPcs
    <2>3. /\ shim' = [shim EXCEPT ![p] = s] /\ shim[p].pc = from /\ UNCHANGED <<fifo, proc, cmd, condenserVars>>
          /\ state' = IF state.status = "none" THEN state ELSE file
      BY <1>2, <2>1 DEF ShimWrite
    <2> QED
      BY <1>2, <2>2, <2>3 DEF Supervises
  <1>3. PICK file \in File : file = shim[p].buf
    BY DEF DropletTypeOK
  <1>4. CASE proc[p] = "dead" /\ ShimRead(p, "wait", "stop_w")
    BY <1>1, <1>4 DEF ShimPcs
  <1>5. CASE ShimWrite(p, "stop_w", Stopped, "exit_r")
    BY <1>2, <1>5, DropletConstants DEF ShimPcs
  <1>6. CASE ShimRead(p, "exit_r", "exit_w")
    BY <1>1, <1>6 DEF ShimPcs
  <1>7. CASE ShimWrite(p, "exit_w", shim[p].buf, "reason_r")
    <2>1. ShimWrite(p, "exit_w", file, "reason_r")
      BY <1>3, <1>7 DEF ShimWrite
    <2> QED
      BY <1>2, <1>3, <2>1 DEF ShimPcs
  <1>8. CASE ShimRead(p, "reason_r", "reason_w")
    BY <1>1, <1>8 DEF ShimPcs
  <1>9. CASE ShimWrite(p, "reason_w", shim[p].buf, "done")
    <2>1. ShimWrite(p, "reason_w", file, "done")
      BY <1>3, <1>9 DEF ShimWrite
    <2> QED
      BY <1>2, <1>3, <2>1 DEF ShimPcs
  <1> QED
    BY <1>4, <1>5, <1>6, <1>7, <1>8, <1>9 DEF ShimStep

\* A shim's step keeps the type invariant and leaves the other shims alone.
LEMMA SupervisesTyped ==
    ASSUME DropletTypeOK, NEW p \in Pids, NEW s \in Supervisors, Supervises(p, s)
    PROVE  DropletTypeOK' /\ shim'[p] = s /\ \A q \in Pids \ {p} : shim'[q] = shim[q]
  <1>1. state' \in File
    BY DropletConstants DEF Supervises, DropletTypeOK
  <1>2. shim \in [Pids -> Supervisors]
    BY DEF DropletTypeOK, Supervisors
  <1>3. shim' \in [Pids -> Supervisors] /\ shim'[p] = s /\ \A q \in Pids \ {p} : shim'[q] = shim[q]
    BY <1>2 DEF Supervises
  <1> QED
    BY <1>1, <1>3 DEF Supervises, DropletTypeOK, condenserVars, Supervisors

\* A process that exits keeps the type invariant and leaves the other processes alone.
LEMMA ProcExitTyped ==
    ASSUME DropletTypeOK, NEW p \in Pids, ProcExit(p)
    PROVE  DropletTypeOK' /\ proc'[p] = "dead" /\ \A q \in Pids \ {p} : proc'[q] = proc[q]
  BY DEF ProcExit, DropletTypeOK, condenserVars

\* The watcher, the monitor and a stutter change Condenser's view only.
Watches == UNCHANGED <<state, fifo, proc, shim, cmd>>

\* The watchers keep the type invariant.
LEMMA WatchesTyped ==
    ASSUME DropletTypeOK, WatchStep \/ MonitorStep \/ UNCHANGED vars
    PROVE  DropletTypeOK' /\ Watches
  BY DropletConstants DEF WatchStep, MonitorStep, WatchEvent, WatchRefresh, WatchDone, MonitorTick, MonitorCheck, MonitorWrite,
     CsmWrite, vars, DropletTypeOK, Watches

\* Every step is a command's, a process's, a shim's, or a watcher's.
LEMMA DropletDoes ==
    ASSUME DropletTypeOK, [DropletNext]_vars
    PROVE  \/ \E r \in Reqs, c \in Cmds : Moves(r, c) /\ Effect(r, c)
           \/ \E p \in Pids : ProcExit(p)
           \/ \E p \in Pids, s \in Supervisors : Supervises(p, s)
           \/ WatchStep \/ MonitorStep \/ UNCHANGED vars
  BY ServiceDoes, CommandDoes, ShimDoes DEF DropletNext

\* Every step keeps the type invariant.
LEMMA DropletTypeKeeps == DropletTypeOK /\ [DropletNext]_vars => DropletTypeOK'
  BY DropletDoes, EffectTyped, ProcExitTyped, SupervisesTyped, WatchesTyped

\* The type invariant holds at the start.
LEMMA DropletTypeStarts == DropletInit => DropletTypeOK
  <1> SUFFICES ASSUME DropletInit PROVE DropletTypeOK
    OBVIOUS
  <1>1. state \in File /\ Idle \in Cmds /\ fifo \in 0 .. MaxInst
    BY DropletConstants DEF DropletInit, File, Status
  <1>2. cmd \in [Reqs -> Cmds]
    BY <1>1 DEF DropletInit
  <1>3. shim \in [Pids -> Supervisors]
    BY DropletConstants DEF DropletInit, Supervisors, ShimPcs
  <1> QED
    BY <1>1, <1>2, <1>3 DEF DropletInit, DropletTypeOK, Cmds, Supervisors

\* The files, the pids and the steps of every command, shim and monitor stay
\* well-typed, for any number of requests and restarts.
THEOREM DropletTypeCorrect == DropletSpec => []DropletTypeOK
  BY DropletTypeStarts, DropletTypeKeeps, PTL DEF DropletSpec

\* With a single init process: what state.json says of it follows its life,
\* and a command that counts on its having started or died is right.
Neutral == {"idle", "s_check", "s_fifo", "k_status", "k_pid", "k_signal", "d_status", "d_pid", "d_kill"}
AfterFifo == {"s_remove", "s_read", "s_write", "s_hook", "s_post"}
AfterKill == {"k_read", "k_write", "k_hook", "k_post", "d_read", "d_write", "d_hook", "d_post", "d_remove"}

OneLife(c) ==
    /\ \/ c.pc \in Neutral
       \/ c.pc \in AfterFifo /\ proc[1] # "waiting"
       \/ c.pc \in AfterKill /\ proc[1] = "dead"
    /\ c.pc = "s_write" /\ c.buf.pid = 0 => proc[1] = "dead"

OneLifeInv ==
    /\ DropletTypeOK
    /\ proc[1] \in {"waiting", "running", "dead"}
    /\ state.status \in {"none", "created", "running", "stopped"}
    /\ state.status \in {"none", "stopped"} \/ state.pid = 0 => proc[1] = "dead"
    /\ state.status = "running" => proc[1] # "waiting"
    /\ shim[1].pc \in {"none", "wait"} \/ proc[1] = "dead"
    /\ shim[1].buf.status # "creating"
    /\ \A r \in Reqs : OneLife(cmd[r])

\* A step that leaves the process as it is, or takes it on in its life.
LEMMA OneLifeGoesOn ==
    ASSUME OneLifeInv, DropletTypeOK', NEW r \in Reqs, OneLife(cmd[r])', \A q \in Reqs \ {r} : cmd'[q] = cmd[q],
           \/ proc'[1] = proc[1]
           \/ proc'[1] = "dead"
           \/ proc'[1] = "running" /\ proc[1] = "waiting",
           state'.status \in {"none", "created", "running", "stopped"},
           state'.status \in {"none", "stopped"} \/ state'.pid = 0 => proc'[1] = "dead",
           state'.status = "running" => proc'[1] # "waiting",
           shim' = shim
    PROVE  OneLifeInv'
  <1>1. proc'[1] \in {"waiting", "running", "dead"} /\ (proc[1] = "dead" => proc'[1] = "dead")
        /\ (proc[1] # "waiting" => proc'[1] # "waiting")
    BY DEF OneLifeInv
  <1>2. \A q \in Reqs \ {r} : OneLife(cmd[q])'
    BY <1>1 DEF OneLifeInv, OneLife
  <1>3. \A q \in Reqs : OneLife(cmd[q])'
    BY <1>2
  <1> QED
    BY <1>1, <1>3 DEF OneLifeInv

\* A quiet step, which at most recomputes the state file, keeps the invariant of a single life.
LEMMA QuietKeepsOneLife ==
    ASSUME MaxInst = 1, OneLifeInv, NEW r \in Reqs, NEW c \in Cmds, Moves(r, c), Effect(r, c), Quiet(r, c)
    PROVE  OneLifeInv'
  <1>1. DropletTypeOK /\ DropletTypeOK' /\ cmd'[r] = c /\ \A q \in Reqs \ {r} : cmd'[q] = cmd[q]
    BY EffectTyped DEF OneLifeInv
  <1>2. proc' = proc /\ shim' = shim /\ state \in File
    BY <1>1 DEF Quiet, Still, DropletTypeOK
  <1>3. 1 \in Pids /\ \A p \in 0 .. MaxInst : p = 0 \/ p = 1
    BY DropletConstants
  <1>4. state.status = "running" /\ ~PidAlive(state.pid) => proc[1] = "dead"
    BY <1>2, <1>3 DEF OneLifeInv, PidAlive, File
  <1>5. \/ state' = state
        \/ state' = Stopped /\ proc[1] = "dead"
    BY <1>1, <1>4, RecomputedIs DEF Quiet
  <1>6. /\ state'.status \in {"none", "created", "running", "stopped"}
        /\ state'.status \in {"none", "stopped"} \/ state'.pid = 0 => proc'[1] = "dead"
        /\ state'.status = "running" => proc'[1] # "waiting"
    BY <1>2, <1>5, DropletConstants DEF OneLifeInv
  <1>7. OneLife(c)
    <2>1. OneLife(cmd[r])
      BY DEF OneLifeInv
    <2>2. CASE c.pc = "idle"
      BY <2>2 DEF OneLife, Neutral
    <2>3. CASE <<cmd[r].pc, c.pc>> \in QuietPairs
      <3>1. ~InstLeft
        <4>1. {p \in Pids : proc[p] = "unborn"} = {}
          BY <1>3 DEF OneLifeInv, Pids
        <4>2. {q \in Reqs : cmd[q].pc \in {"c_state", "c_hook1", "c_post1", "c_fifo"}} = {}
          BY DEF OneLifeInv, OneLife, Neutral, AfterFifo, AfterKill
        <4>3. Cardinality({p \in Pids : proc[p] = "unborn"}) = 0
          BY <4>1, FS_EmptySet
        <4>4. Cardinality({q \in Reqs : cmd[q].pc \in {"c_state", "c_hook1", "c_post1", "c_fifo"}}) = 0
          BY <4>2, FS_EmptySet
        <4>5. InstLeft => 0 > 0
          BY <4>3, <4>4 DEF InstLeft
        <4> QED
          BY <4>5
      <3>2. cmd[r].pc \in Neutral \cup AfterFifo \cup AfterKill
        BY <2>1 DEF OneLife
      <3>3. \/ c.pc \in Neutral
            \/ c.pc \in AfterFifo /\ cmd[r].pc \in AfterFifo
            \/ c.pc \in AfterKill /\ cmd[r].pc \in AfterKill
            \/ cmd[r].pc = "d_status" /\ c.pc = "d_hook"
            \/ c.pc = "c_state" \/ cmd[r].pc \in {"c_hook1", "c_post1", "c_read", "c_hook2", "c_post2"}
        BY <2>3 DEF QuietPairs, Neutral, AfterFifo, AfterKill
      <3>4. c.pc # "c_state" /\ cmd[r].pc \notin {"c_hook1", "c_post1", "c_read", "c_hook2", "c_post2"}
        BY <2>2, <3>1, <3>2 DEF Quiet, Neutral, AfterFifo, AfterKill
      <3>5. ASSUME cmd[r].pc = "d_status" /\ c.pc = "d_hook" PROVE proc[1] = "dead"
        <4>1. Recomputed.status \in {"stopped", "creating"}
          BY <3>5 DEF Quiet
        <4> QED
          BY <1>1, <1>4, <4>1, RecomputedIs DEF OneLifeInv
      <3>6. c.pc \in AfterFifo => cmd[r].pc \in AfterFifo
        BY <3>3, <3>4 DEF Neutral, AfterFifo, AfterKill
      <3>7. c.pc = "s_write" => c.buf = state
        BY DEF Quiet
      <3>8. cmd[r].pc \in AfterFifo => proc[1] # "waiting"
        BY <2>1 DEF OneLife, Neutral, AfterFifo, AfterKill
      <3>9. cmd[r].pc \in AfterKill => proc[1] = "dead"
        BY <2>1 DEF OneLife, Neutral, AfterFifo, AfterKill
      <3>10. c.pc = "s_write" /\ c.buf.pid = 0 => proc[1] = "dead"
        BY <3>7 DEF OneLifeInv
      <3>11. "d_hook" \in AfterKill
        BY DEF AfterKill
      <3> QED
        BY <3>3, <3>4, <3>5, <3>8, <3>9, <3>10, <3>11 DEF OneLife
    <2> QED
      BY <2>2, <2>3 DEF Quiet
  <1>8. OneLife(cmd[r])'
    BY <1>1, <1>2, <1>7 DEF OneLife
  <1> QED
    BY <1>1, <1>2, <1>6, <1>8, OneLifeGoesOn

\* Any effect of a command keeps the invariant of a single life.
LEMMA EffectKeepsOneLife ==
    ASSUME MaxInst = 1, OneLifeInv, NEW r \in Reqs, NEW c \in Cmds, Moves(r, c), Effect(r, c)
    PROVE  OneLifeInv'
  <1>1. DropletTypeOK /\ DropletTypeOK' /\ cmd'[r] = c /\ \A q \in Reqs \ {r} : cmd'[q] = cmd[q]
    BY EffectTyped DEF OneLifeInv
  <1>2. state \in File /\ cmd[r] \in Cmds /\ proc \in [Pids -> Procs] /\ fifo \in 0 .. MaxInst
    BY <1>1 DEF DropletTypeOK, Cmds, Procs
  <1>3. 1 \in Pids /\ 0 \notin Pids /\ \A p \in 0 .. MaxInst : p = 0 \/ p = 1
    BY DropletConstants
  <1>4. OneLife(cmd[r])
    BY DEF OneLifeInv
  <1>5. cmd[r].pc \in Neutral \cup AfterFifo \cup AfterKill
    BY <1>4 DEF OneLife
  <1>6. CASE Quiet(r, c)
    BY <1>6, QuietKeepsOneLife
  <1>7. CASE Writes(r, c)
    <2>1. proc' = proc /\ shim' = shim
      BY <1>7 DEF Writes, Still
    <2>2. CASE cmd[r].pc = "s_write" /\ c.pc = "s_hook" /\ state' = [cmd[r].buf EXCEPT !.status = "running"]
      <3>1. proc[1] # "waiting" /\ (cmd[r].buf.pid = 0 => proc[1] = "dead")
        BY <1>4, <2>2 DEF OneLife, Neutral, AfterFifo, AfterKill
      <3>2. PICK f \in File : f = cmd[r].buf
        BY <1>2 DEF Cmds
      <3>3. state' = [f EXCEPT !.status = "running"]
        BY <2>2, <3>2
      <3>4. state'.status = "running" /\ state'.pid = f.pid
        BY <3>3 DEF File
      <3>5. OneLife(cmd[r])'
        BY <1>1, <2>1, <2>2, <3>1 DEF OneLife, AfterFifo
      <3> QED
        BY <1>1, <2>1, <3>1, <3>2, <3>4, <3>5, OneLifeGoesOn
    <2>3. CASE cmd[r].pc \in {"k_write", "d_write"} /\ c.pc \in {"k_hook", "d_hook"} /\ state' = Stopped
      <3>1. proc[1] = "dead"
        BY <1>4, <2>3 DEF OneLife, Neutral, AfterFifo, AfterKill
      <3>2. OneLife(cmd[r])'
        BY <1>1, <2>1, <2>3, <3>1 DEF OneLife, AfterKill
      <3> QED
        BY <1>1, <2>1, <2>3, <3>1, <3>2, OneLifeGoesOn, DropletConstants
    <2> QED
      BY <1>5, <1>7, <2>2, <2>3 DEF Writes, Neutral, AfterFifo, AfterKill
  <1>8. CASE Makes(r, c) \/ Bears(r, c)
    BY <1>5, <1>8 DEF Makes, Bears, Neutral, AfterFifo, AfterKill
  <1>9. CASE Releases(r, c)
    <2>1. fifo = 1 /\ proc[1] = "waiting"
      BY <1>2, <1>3, <1>9 DEF Releases
    <2>2. proc'[1] = "running" /\ state' = state /\ shim' = shim
      BY <1>2, <1>3, <1>9, <2>1 DEF Releases
    <2>3. OneLife(cmd[r])'
      BY <1>1, <1>9, <2>2 DEF Releases, OneLife, AfterFifo
    <2>4. /\ state'.status \in {"none", "created", "running", "stopped"}
          /\ state'.status \in {"none", "stopped"} \/ state'.pid = 0 => proc'[1] = "dead"
          /\ state'.status = "running" => proc'[1] # "waiting"
      BY <2>1, <2>2 DEF OneLifeInv
    <2> QED
      BY <1>1, <2>1, <2>2, <2>3, <2>4, OneLifeGoesOn
  <1>10. CASE Unlinks(r, c)
    <2>1. proc' = proc /\ state' = state /\ shim' = shim /\ proc[1] # "waiting"
      BY <1>4, <1>10 DEF Unlinks, OneLife, Neutral, AfterFifo, AfterKill
    <2>2. OneLife(cmd[r])'
      BY <1>1, <1>10, <2>1 DEF Unlinks, OneLife, AfterFifo, Neutral
    <2>3. /\ state'.status \in {"none", "created", "running", "stopped"}
          /\ state'.status \in {"none", "stopped"} \/ state'.pid = 0 => proc'[1] = "dead"
          /\ state'.status = "running" => proc'[1] # "waiting"
      BY <2>1 DEF OneLifeInv
    <2> QED
      BY <1>1, <2>1, <2>2, <2>3, OneLifeGoesOn
  <1>11. CASE Kills(r, c)
    <2>1. cmd[r].pid = 1
      BY <1>2, <1>3, <1>11 DEF Kills, PidAlive, Cmds
    <2>2. proc'[1] = "dead" /\ state' = state /\ shim' = shim
      BY <1>2, <1>3, <1>11, <2>1 DEF Kills
    <2>3. OneLife(cmd[r])'
      BY <1>1, <1>11, <2>2 DEF Kills, OneLife, AfterKill
    <2>4. state'.status \in {"none", "created", "running", "stopped"}
      BY <2>2 DEF OneLifeInv
    <2> QED
      BY <1>1, <2>2, <2>3, <2>4, OneLifeGoesOn
  <1>12. CASE Removes(r, c)
    <2>1. proc' = proc /\ state' = Absent /\ shim' = shim /\ proc[1] = "dead" /\ c.pc = "idle"
      BY <1>4, <1>12 DEF Removes, OneLife, Neutral, AfterFifo, AfterKill
    <2>2. OneLife(cmd[r])'
      BY <1>1, <2>1 DEF OneLife, Neutral
    <2> QED
      BY <1>1, <2>1, <2>2, OneLifeGoesOn, DropletConstants
  <1> QED
    BY <1>6, <1>7, <1>8, <1>9, <1>10, <1>11, <1>12 DEF Effect

\* Every step keeps the invariant of a single life.
LEMMA OneLifeStep ==
    ASSUME MaxInst = 1, OneLifeInv, [DropletNext]_vars
    PROVE  OneLifeInv'
  <1>1. DropletTypeOK /\ Pids = {1} /\ 1 \in Pids
    BY DEF OneLifeInv, Pids
  <1>2. ASSUME NEW p \in Pids, ProcExit(p) PROVE OneLifeInv'
    <2>1. DropletTypeOK' /\ proc'[1] = "dead" /\ UNCHANGED <<state, shim, cmd>>
      BY <1>1, <1>2, ProcExitTyped DEF ProcExit
    <2>2. \A r \in Reqs : OneLife(cmd[r])'
      BY <2>1 DEF OneLifeInv, OneLife
    <2> QED
      BY <2>1, <2>2 DEF OneLifeInv
  <1>3. ASSUME NEW p \in Pids, NEW s \in Supervisors, Supervises(p, s) PROVE OneLifeInv'
    <2>1. DropletTypeOK' /\ shim'[1] = s /\ UNCHANGED <<proc, cmd>>
      BY <1>1, <1>3, SupervisesTyped DEF Supervises
    <2>2. proc[1] = "dead" /\ s.pc \notin {"none", "wait"}
      BY <1>1, <1>3 DEF Supervises, OneLifeInv
    <2>3. state'.status \in {"none", "created", "running", "stopped"} /\ s.buf.status # "creating"
      <3>1. shim[1].buf \in File /\ shim[1].buf.status # "creating" /\ state.status # "creating" /\ state' \in File
        BY <1>1, <2>1 DEF DropletTypeOK, OneLifeInv
      <3> QED
        BY <1>1, <1>3, <3>1, DropletConstants DEF Supervises, File, Status
    <2>4. \A r \in Reqs : OneLife(cmd[r])'
      BY <2>1 DEF OneLifeInv, OneLife
    <2> QED
      BY <2>1, <2>2, <2>3, <2>4 DEF OneLifeInv
  <1>4. CASE WatchStep \/ MonitorStep \/ UNCHANGED vars
    <2>1. DropletTypeOK' /\ UNCHANGED <<state, fifo, proc, shim, cmd>>
      BY <1>1, <1>4, WatchesTyped DEF Watches
    <2>2. \A r \in Reqs : OneLife(cmd[r])'
      BY <2>1 DEF OneLifeInv, OneLife
    <2> QED
      BY <2>1, <2>2 DEF OneLifeInv
  <1> QED
    BY <1>1, <1>2, <1>3, <1>4, DropletDoes, EffectKeepsOneLife

\* The invariant of a single life holds at the start.
LEMMA OneLifeStarts ==
    ASSUME MaxInst = 1, DropletInit
    PROVE  OneLifeInv
  <1>1. 1 \in Pids
    BY DropletConstants
  <1>2. proc[1] = "waiting" /\ shim[1].pc = "wait" /\ shim[1].buf = Absent /\ state.status = "created" /\ state.pid = 1
    BY <1>1 DEF DropletInit
  <1>3. \A r \in Reqs : cmd[r].pc = "idle"
    BY DropletConstants DEF DropletInit
  <1> QED
    BY <1>2, <1>3, DropletTypeStarts, DropletConstants DEF OneLifeInv, OneLife, Neutral

\* While a container has the init process it was created with, any number of
\* requests that start, kill and delete it at once leave no process behind
\* when it is gone and report none running that was not released; with a
\* restart a forced delete may leave one behind, so the theorem ends there.
THEOREM DropletStaysSound ==
    ASSUME MaxInst = 1
    PROVE  DropletSpec => []DropletSound
  <1>1. DropletInit => OneLifeInv
    BY OneLifeStarts
  <1>2. OneLifeInv /\ [DropletNext]_vars => OneLifeInv'
    BY OneLifeStep
  <1>3. OneLifeInv => DropletSound
    <2> SUFFICES ASSUME OneLifeInv PROVE DropletSound
      OBVIOUS
    <2>1. Pids = {1} /\ state \in File
      BY DEF Pids, OneLifeInv, DropletTypeOK
    <2>2. NoOrphanInit
      BY <2>1 DEF OneLifeInv, NoOrphanInit, PidAlive
    <2>3. RunningWasStarted
      <3>1. state.pid \in {0, 1}
        BY <2>1 DEF File
      <3> QED
        BY <3>1 DEF OneLifeInv, RunningWasStarted
    <2> QED
      BY <2>2, <2>3 DEF OneLifeInv, DropletSound
  <1> QED
    BY <1>1, <1>2, <1>3, PTL DEF DropletSpec

\* With one request at a time, through any number of restarts: a file names a
\* process that has been born, and calls it running only once released; only
\* the process the fifo was made for waits.
Named(f) == f.pid # 0 => proc[f.pid] \in {"waiting", "running", "dead"}
Truthful(f) == Named(f) /\ (f.status = "running" /\ f.pid # 0 => proc[f.pid] # "waiting")

AloneReq(c) ==
    /\ state.status = "none" => c.pc \in {"idle", "c_state", "s_check", "k_status", "d_status"}
    /\ c.pc = "c_shim" => c.pid # 0 /\ proc[c.pid] = "starting"
    /\ \A p \in Pids : proc[p] = "starting" => c.pc = "c_shim" /\ p = c.pid
    /\ c.pc \in {"c_read", "c_write"} => Named(c)
    /\ c.pc \in {"s_remove", "s_read", "s_write"} => \A p \in Pids : proc[p] # "waiting"
    /\ c.pc = "s_write" => Named(c.buf)

AloneInv ==
    /\ DropletTypeOK
    /\ Truthful(state)
    /\ \A p \in Pids : Truthful(shim[p].buf)
    /\ \A p \in Pids : shim[p].pc \in {"exit_w", "reason_w"} => shim[p].buf.status # "none"
    /\ state.status # "none" => \A p \in Pids : proc[p] = "waiting" => fifo = p
    /\ \A r \in Reqs : AloneReq(cmd[r])

Grows ==
    /\ proc' \in [Pids -> Procs]
    /\ \A p \in Pids : proc[p] \in {"waiting", "running", "dead"} =>
           proc'[p] \in {"waiting", "running", "dead"} /\ (proc[p] # "waiting" => proc'[p] # "waiting")

\* A file that is true of its process stays true while processes only grow.
LEMMA FilesStayTrue ==
    ASSUME Grows, NEW f, f.pid \in 0 .. MaxInst
    PROVE  (Named(f) => Named(f)') /\ (Truthful(f) => Truthful(f)')
  <1>1. f.pid = 0 \/ f.pid \in Pids
    BY DropletAssumption DEF Pids
  <1> QED
    BY <1>1 DEF Grows, Named, Truthful

\* What the shims have read stays true while processes only grow.
LEMMA ReadersStayTrue ==
    ASSUME AloneInv, Grows, DropletTypeOK', \A p \in Pids : shim'[p].buf = shim[p].buf
    PROVE  \A p \in Pids : Truthful(shim[p].buf)'
  <1> SUFFICES ASSUME NEW p \in Pids PROVE Truthful(shim[p].buf)'
    OBVIOUS
  <1>1. PICK f \in File : f = shim[p].buf
    BY DEF AloneInv, DropletTypeOK
  <1>2. Truthful(f) /\ f.pid \in 0 .. MaxInst
    BY <1>1 DEF AloneInv, File
  <1>3. Truthful(f)'
    BY <1>2, FilesStayTrue
  <1> QED
    BY <1>1, <1>3 DEF Truthful, Named

\* The state file stays true while it is not written and processes only grow.
LEMMA StateStaysTrue ==
    ASSUME AloneInv, Grows, state' = state
    PROVE  Truthful(state)'
  <1>1. PICK f \in File : f = state
    BY DEF AloneInv, DropletTypeOK
  <1>2. Truthful(f) /\ f.pid \in 0 .. MaxInst
    BY <1>1 DEF AloneInv, File
  <1>3. Truthful(f)'
    BY <1>2, FilesStayTrue
  <1> QED
    BY <1>1, <1>3 DEF Truthful, Named

\* The request's step keeps what the shims hold.
LEMMA AloneGoesOn ==
    ASSUME AloneInv, \A q, r \in Reqs : q = r, NEW r \in Reqs, NEW c \in Cmds, DropletTypeOK', cmd'[r] = c, Grows,
           \A p \in Pids : /\ shim'[p].buf = shim[p].buf
                           /\ shim'[p].pc \in {"exit_w", "reason_w"} => shim[p].pc \in {"exit_w", "reason_w"},
           Truthful(state)',
           state'.status # "none" => \A p \in Pids : proc'[p] = "waiting" => fifo' = p,
           AloneReq(c)'
    PROVE  AloneInv'
  <1>1. \A p \in Pids : Truthful(shim[p].buf)'
    BY ReadersStayTrue
  <1>2. \A q \in Reqs : AloneReq(cmd[q])'
    BY DEF AloneReq, Named
  <1> QED
    BY <1>1, <1>2 DEF AloneInv

\* With one client, a quiet step keeps the invariant.
LEMMA QuietKeepsAlone ==
    ASSUME AloneInv, \A q, r \in Reqs : q = r, NEW r \in Reqs, NEW c \in Cmds, Moves(r, c), Effect(r, c), Quiet(r, c)
    PROVE  AloneInv'
  <1>1. DropletTypeOK /\ DropletTypeOK' /\ cmd'[r] = c
    BY EffectTyped DEF AloneInv
  <1>2. /\ UNCHANGED <<fifo, proc, shim>> /\ cmd[r].pc # "c_shim" /\ proc \in [Pids -> Procs]
        /\ state' = state \/ state' = Stopped
        /\ state'.status = "none" <=> state.status = "none"
    BY <1>1, RecomputedIs, DropletConstants DEF Quiet, Still, DropletTypeOK, Procs
  <1>3. Grows
    BY <1>2 DEF Grows
  <1>4. Truthful(state)'
    BY <1>2, <1>3, StateStaysTrue, DropletConstants DEF Truthful, Named
  <1>5. AloneReq(cmd[r])
    BY DEF AloneInv
  <1>6. \A p \in Pids : proc[p] # "starting"
    BY <1>2, <1>5 DEF AloneReq
  <1>7. CASE c.pc = "idle"
    BY <1>1, <1>2, <1>3, <1>4, <1>6, <1>7, AloneGoesOn DEF AloneInv, AloneReq
  <1>8. CASE <<cmd[r].pc, c.pc>> \in QuietPairs /\ c.pc # "idle"
    <2>1. state.status = "none" => c.pc \in {"idle", "c_state", "s_check", "k_status", "d_status"}
      BY <1>5, <1>8 DEF Quiet, AloneReq, Posts, QuietPairs
    <2>2. c.pc \notin {"c_shim", "c_read", "s_remove", "s_read"}
      BY <1>8 DEF QuietPairs
    <2>3. c.pc = "c_write" => cmd[r].pc = "c_read" /\ c.pid = cmd[r].pid
      BY <1>8 DEF QuietPairs, Quiet
    <2>4. c.pc = "s_write" => cmd[r].pc = "s_read" /\ c.buf = state
      BY <1>8 DEF QuietPairs, Quiet
    <2>5. c.pc = "c_write" => Named(c)'
      BY <1>2, <1>5, <2>3 DEF AloneReq, Named
    <2>6. c.pc = "s_write" => Named(c.buf)' /\ \A p \in Pids : proc[p] # "waiting"
      BY <1>2, <1>5, <2>4 DEF AloneReq, AloneInv, Truthful, Named
    <2>7. AloneReq(c)'
      BY <1>2, <1>6, <2>1, <2>2, <2>5, <2>6 DEF AloneReq
    <2> QED
      BY <1>1, <1>2, <1>3, <1>4, <2>7, AloneGoesOn DEF AloneInv
  <1> QED
    BY <1>7, <1>8 DEF Quiet

\* With one client, a write of the state file keeps the invariant.
LEMMA WritesKeepsAlone ==
    ASSUME AloneInv, \A q, r \in Reqs : q = r, NEW r \in Reqs, NEW c \in Cmds, Moves(r, c), Effect(r, c), Writes(r, c)
    PROVE  AloneInv'
  <1>1. DropletTypeOK /\ DropletTypeOK' /\ cmd'[r] = c /\ cmd[r] \in Cmds
    BY EffectTyped DEF AloneInv, DropletTypeOK, Cmds
  <1>2. UNCHANGED <<fifo, proc, shim>> /\ proc \in [Pids -> Procs] /\ state.status # "none"
    BY <1>1 DEF Writes, Still, DropletTypeOK, Procs
  <1>3. Grows
    BY <1>2 DEF Grows
  <1>4. AloneReq(cmd[r])
    BY DEF AloneInv
  <1>5. Truthful(state)' /\ state'.status # "none"
    <2>1. CASE state' = Stopped \/ state' = [status |-> "creating", pid |-> 0]
      BY <2>1, DropletConstants DEF Truthful, Named
    <2>2. CASE cmd[r].pc = "c_write" /\ state' = [status |-> "created", pid |-> cmd[r].pid]
      BY <1>2, <1>4, <2>2 DEF AloneReq, Truthful, Named
    <2>3. CASE cmd[r].pc = "s_write" /\ state' = [cmd[r].buf EXCEPT !.status = "running"]
      <3>1. PICK f \in File : f = cmd[r].buf
        BY <1>1 DEF Cmds
      <3>2. state' = [f EXCEPT !.status = "running"]
        BY <2>3, <3>1
      <3>3. state'.status = "running" /\ state'.pid = f.pid /\ f.pid \in 0 .. MaxInst
        BY <3>2 DEF File
      <3>4. f.pid = 0 \/ f.pid \in Pids
        BY <3>3, DropletAssumption DEF Pids
      <3>5. Named(f) /\ \A p \in Pids : proc[p] # "waiting"
        BY <1>4, <2>3, <3>1 DEF AloneReq
      <3> QED
        BY <1>2, <3>3, <3>4, <3>5 DEF Truthful, Named
    <2> QED
      BY <2>1, <2>2, <2>3 DEF Writes
  <1>6. c.pc \in {"c_hook1", "c_hook2", "s_hook", "k_hook", "d_hook"} /\ cmd[r].pc # "c_shim"
    BY DEF Writes
  <1>7. AloneReq(c)'
    BY <1>2, <1>4, <1>5, <1>6 DEF AloneReq
  <1> QED
    BY <1>1, <1>2, <1>3, <1>5, <1>7, AloneGoesOn DEF AloneInv

\* With one client, any effect of its command keeps the invariant.
LEMMA EffectKeepsAlone ==
    ASSUME AloneInv, \A q, r \in Reqs : q = r, NEW r \in Reqs, NEW c \in Cmds, Moves(r, c), Effect(r, c)
    PROVE  AloneInv'
  <1>1. DropletTypeOK /\ DropletTypeOK' /\ cmd'[r] = c /\ cmd[r] \in Cmds
    BY EffectTyped DEF AloneInv, DropletTypeOK, Cmds
  <1>2. /\ proc \in [Pids -> Procs] /\ proc' \in [Pids -> Procs] /\ fifo \in 0 .. MaxInst
        /\ cmd[r].pid \in 0 .. MaxInst /\ shim \in [Pids -> Supervisors]
    BY <1>1 DEF DropletTypeOK, Procs, Cmds, Supervisors
  <1>3. \A p \in 0 .. MaxInst : p = 0 \/ p \in Pids
    BY DropletAssumption DEF Pids
  <1>4. AloneReq(cmd[r])
    BY DEF AloneInv
  <1>5. CASE Quiet(r, c)
    BY <1>5, QuietKeepsAlone
  <1>6. CASE Writes(r, c)
    BY <1>6, WritesKeepsAlone
  <1>7. CASE Makes(r, c)
    <2>1. PICK p \in Pids : p = c.pid
      BY <1>7 DEF Makes
    <2>2. /\ cmd[r].pc = "c_fifo" /\ c.pc = "c_shim" /\ fifo = 0 /\ proc[p] = "unborn" /\ fifo' = p
          /\ proc' = [proc EXCEPT ![p] = "starting"] /\ UNCHANGED <<state, shim>>
      BY <1>7, <2>1 DEF Makes
    <2>3. state.status # "none" /\ \A q \in Pids : proc[q] # "waiting" /\ proc[q] # "starting"
      BY <1>4, <2>2, DropletConstants DEF AloneReq, AloneInv
    <2>4. \A q \in Pids : proc'[q] = IF q = p THEN "starting" ELSE proc[q]
      BY <1>2, <2>2
    <2>5. Grows
      BY <1>2, <2>2, <2>4 DEF Grows
    <2>6. Truthful(state)'
      BY <2>2, <2>5, StateStaysTrue
    <2>7. p # 0
      BY DropletConstants
    <2>8. AloneReq(c)'
      BY <2>1, <2>2, <2>3, <2>4, <2>7 DEF AloneReq
    <2> QED
      BY <1>1, <2>2, <2>3, <2>4, <2>5, <2>6, <2>8, AloneGoesOn
  <1>8. CASE Bears(r, c)
    <2>1. PICK p \in Pids : p = cmd[r].pid
      BY <1>2, <1>3, <1>4, <1>8 DEF Bears, AloneReq
    <2>2. /\ cmd[r].pc = "c_shim" /\ UNCHANGED <<state, fifo>> /\ shim' = [shim EXCEPT ![p].pc = "wait"]
          /\ proc[p] = "starting" /\ \A q \in Pids \ {p} : proc[q] # "starting"
      BY <1>4, <1>8, <2>1 DEF Bears, AloneReq
    <2>3. /\ \A q \in Pids \ {p} : proc'[q] = proc[q]
          /\ \/ fifo = p /\ proc'[p] = "waiting" /\ c.pc = "c_read" /\ c.pid = p
             \/ proc'[p] = "dead" /\ c.pc = "idle"
      BY <1>2, <1>8, <2>1 DEF Bears
    <2>4. \A q \in Pids : /\ shim'[q].buf = shim[q].buf
                          /\ shim'[q].pc \in {"exit_w", "reason_w"} => shim[q].pc \in {"exit_w", "reason_w"}
      <3>1. PICK s \in Supervisors : s = shim[p]
        BY <1>2
      <3>2. PICK u : u = [s EXCEPT !.pc = "wait"]
        OBVIOUS
      <3>3. u.pc = "wait" /\ u.buf = s.buf
        BY <3>2 DEF Supervisors
      <3>4. shim' = [shim EXCEPT ![p] = u]
        BY <1>2, <2>2, <3>1, <3>2
      <3> QED
        BY <1>2, <3>1, <3>3, <3>4
    <2>5. Grows
      BY <1>2, <2>2, <2>3 DEF Grows
    <2>6. Truthful(state)'
      BY <2>2, <2>5, StateStaysTrue
    <2>7. state.status # "none"
      BY <1>4, <2>2 DEF AloneReq
    <2>8. \A q \in Pids : proc'[q] = "waiting" => fifo' = q
      BY <2>2, <2>3, <2>7 DEF AloneInv
    <2>9. AloneReq(c)'
      BY <2>2, <2>3, <2>7 DEF AloneReq, Named
    <2> QED
      BY <1>1, <2>4, <2>5, <2>6, <2>8, <2>9, AloneGoesOn
  <1>9. CASE Releases(r, c)
    <2>1. PICK p \in Pids : p = fifo
      BY <1>2, <1>3, <1>9 DEF Releases
    <2>2. /\ cmd[r].pc = "s_fifo" /\ c.pc = "s_remove" /\ proc[p] = "waiting" /\ UNCHANGED <<state, fifo, shim>>
          /\ \A q \in Pids : proc'[q] = IF q = p THEN "running" ELSE proc[q]
      BY <1>2, <1>9, <2>1 DEF Releases
    <2>3. state.status # "none" /\ \A q \in Pids : proc[q] # "starting"
      BY <1>4, <2>2 DEF AloneReq
    <2>4. \A q \in Pids : proc'[q] # "waiting" /\ proc'[q] # "starting"
      BY <2>1, <2>2, <2>3 DEF AloneInv
    <2>5. Grows
      BY <1>2, <2>2 DEF Grows
    <2>6. Truthful(state)'
      BY <2>2, <2>5, StateStaysTrue
    <2>7. AloneReq(c)'
      BY <2>2, <2>3, <2>4 DEF AloneReq
    <2> QED
      BY <1>1, <2>2, <2>4, <2>5, <2>6, <2>7, AloneGoesOn
  <1>10. CASE Unlinks(r, c)
    <2>1. /\ cmd[r].pc = "s_remove" /\ c.pc \in {"idle", "s_read"} /\ UNCHANGED <<state, proc, shim>>
      BY <1>10 DEF Unlinks
    <2>2. state.status # "none" /\ \A q \in Pids : proc[q] # "starting" /\ proc[q] # "waiting"
      BY <1>4, <2>1 DEF AloneReq
    <2>3. Grows
      BY <1>2, <2>1 DEF Grows
    <2>4. Truthful(state)'
      BY <2>1, <2>3, StateStaysTrue
    <2>5. AloneReq(c)'
      BY <2>1, <2>2 DEF AloneReq
    <2> QED
      BY <1>1, <2>1, <2>2, <2>3, <2>4, <2>5, AloneGoesOn
  <1>11. CASE Kills(r, c)
    <2>1. PICK p \in Pids : p = cmd[r].pid /\ proc[p] \in {"waiting", "running"}
      BY <1>11 DEF Kills, PidAlive
    <2>2. /\ cmd[r].pc \in {"k_signal", "d_kill"} /\ c.pc \in {"k_read", "d_read"} /\ UNCHANGED <<state, fifo, shim>>
          /\ \A q \in Pids : proc'[q] = IF q = p THEN "dead" ELSE proc[q]
      BY <1>2, <1>11, <2>1 DEF Kills
    <2>3. state.status # "none" /\ \A q \in Pids : proc[q] # "starting"
      BY <1>4, <2>2 DEF AloneReq
    <2>4. Grows
      BY <1>2, <2>1, <2>2 DEF Grows
    <2>5. Truthful(state)'
      BY <2>2, <2>4, StateStaysTrue
    <2>6. \A q \in Pids : (proc'[q] = "waiting" => fifo' = q) /\ proc'[q] # "starting"
      BY <2>2, <2>3 DEF AloneInv
    <2>7. AloneReq(c)'
      BY <2>2, <2>3, <2>6 DEF AloneReq
    <2> QED
      BY <1>1, <2>2, <2>4, <2>5, <2>6, <2>7, AloneGoesOn
  <1>12. CASE Removes(r, c)
    <2>1. cmd[r].pc = "d_remove" /\ c.pc = "idle" /\ state' = Absent /\ UNCHANGED <<proc, shim>>
      BY <1>12 DEF Removes
    <2>2. \A q \in Pids : proc[q] # "starting"
      BY <1>4, <2>1 DEF AloneReq
    <2>3. Grows
      BY <1>2, <2>1 DEF Grows
    <2>4. Truthful(state)' /\ state'.status = "none"
      BY <2>1, DropletConstants DEF Truthful, Named
    <2>5. AloneReq(c)'
      BY <2>1, <2>2 DEF AloneReq
    <2> QED
      BY <1>1, <2>1, <2>3, <2>4, <2>5, AloneGoesOn
  <1> QED
    BY <1>5, <1>6, <1>7, <1>8, <1>9, <1>10, <1>11, <1>12 DEF Effect

\* The state may change only to a file that is true, and the command's record
\* stays good.
LEMMA OtherStepsKeepRequests ==
    ASSUME AloneInv, Grows, cmd' = cmd, state'.status = "none" <=> state.status = "none",
           \A p \in Pids : /\ proc'[p] = "starting" <=> proc[p] = "starting"
                           /\ proc'[p] = "waiting" => proc[p] = "waiting"
    PROVE  \A r \in Reqs : AloneReq(cmd[r])'
  <1> SUFFICES ASSUME NEW r \in Reqs PROVE AloneReq(cmd[r])'
    OBVIOUS
  <1>1. PICK c \in Cmds : c = cmd[r]
    BY DEF AloneInv, DropletTypeOK, Cmds
  <1>2. AloneReq(c) /\ c.pid \in 0 .. MaxInst /\ c.buf \in File /\ c.buf.pid \in 0 .. MaxInst
    BY <1>1 DEF AloneInv, Cmds, File
  <1>3. \A p \in 0 .. MaxInst : p = 0 \/ p \in Pids
    BY DropletAssumption DEF Pids
  <1>4. (Named(c) => Named(c)') /\ (Named(c.buf) => Named(c.buf)')
    BY <1>2, FilesStayTrue
  <1>5. AloneReq(c)'
    BY <1>2, <1>3, <1>4 DEF AloneReq
  <1> QED
    BY <1>1, <1>5 DEF AloneReq, Named

\* With one client, every step keeps the invariant.
LEMMA AloneStep ==
    ASSUME \A q, r \in Reqs : q = r, AloneInv, [DropletNext]_vars
    PROVE  AloneInv'
  <1>1. DropletTypeOK /\ proc \in [Pids -> Procs]
    BY DEF AloneInv, DropletTypeOK, Procs
  <1>2. ASSUME NEW p \in Pids, ProcExit(p) PROVE AloneInv'
    <2>1. DropletTypeOK' /\ proc'[p] = "dead" /\ \A q \in Pids \ {p} : proc'[q] = proc[q]
      BY <1>1, <1>2, ProcExitTyped
    <2>2. proc[p] \in {"waiting", "running"} /\ UNCHANGED <<state, fifo, shim, cmd>> /\ proc' \in [Pids -> Procs]
      BY <1>2, <2>1 DEF ProcExit, DropletTypeOK, Procs
    <2>3. Grows
      BY <2>1, <2>2 DEF Grows
    <2>4. Truthful(state)' /\ \A q \in Pids : Truthful(shim[q].buf)'
      BY <2>1, <2>2, <2>3, StateStaysTrue, ReadersStayTrue
    <2>5. \A q \in Pids : /\ proc'[q] = "starting" <=> proc[q] = "starting"
                          /\ proc'[q] = "waiting" => proc[q] = "waiting"
      BY <2>1, <2>2
    <2>6. \A r \in Reqs : AloneReq(cmd[r])'
      BY <2>2, <2>3, <2>5, OtherStepsKeepRequests
    <2> QED
      BY <2>1, <2>2, <2>4, <2>5, <2>6 DEF AloneInv
  <1>3. ASSUME NEW p \in Pids, NEW s \in Supervisors, Supervises(p, s) PROVE AloneInv'
    <2>1. DropletTypeOK' /\ shim'[p] = s /\ \A q \in Pids \ {p} : shim'[q] = shim[q]
      BY <1>1, <1>3, SupervisesTyped
    <2>2. UNCHANGED <<fifo, proc, cmd>>
      BY <1>3 DEF Supervises
    <2>3. Grows
      BY <1>1, <2>2 DEF Grows
    <2>4. /\ state' = state \/ state' = Stopped \/ state' = shim[p].buf
          /\ state'.status = "none" <=> state.status = "none"
      BY <1>3, DropletConstants DEF Supervises, AloneInv
    <2>5. Truthful(state)'
      BY <2>2, <2>4, DropletConstants DEF AloneInv, Truthful, Named
    <2>6. s.buf = state \/ s.buf = shim[p].buf \/ s.buf = Absent
      BY <1>3 DEF Supervises
    <2>7. \A q \in Pids : Truthful(shim[q].buf)'
      BY <2>1, <2>2, <2>6, DropletConstants DEF AloneInv, Truthful, Named
    <2>8. \A q \in Pids : shim'[q].pc \in {"exit_w", "reason_w"} => shim'[q].buf.status # "none"
      BY <1>3, <2>1 DEF Supervises, AloneInv
    <2>9. \A r \in Reqs : AloneReq(cmd[r])'
      BY <2>2, <2>3, <2>4, OtherStepsKeepRequests
    <2> QED
      BY <2>1, <2>2, <2>4, <2>5, <2>7, <2>8, <2>9 DEF AloneInv
  <1>4. CASE WatchStep \/ MonitorStep \/ UNCHANGED vars
    <2>1. DropletTypeOK' /\ UNCHANGED <<state, fifo, proc, shim, cmd>>
      BY <1>1, <1>4, WatchesTyped DEF Watches
    <2>2. Grows
      BY <1>1, <2>1 DEF Grows
    <2>3. \A r \in Reqs : AloneReq(cmd[r])'
      BY <2>1, <2>2, OtherStepsKeepRequests
    <2>4. Truthful(state)' /\ \A q \in Pids : Truthful(shim[q].buf)'
      BY <2>1, <2>2, StateStaysTrue, ReadersStayTrue
    <2> QED
      BY <2>1, <2>3, <2>4 DEF AloneInv
  <1> QED
    BY <1>1, <1>2, <1>3, <1>4, DropletDoes, EffectKeepsAlone

\* The invariant for one client holds at the start.
LEMMA AloneStarts ==
    ASSUME DropletInit
    PROVE  AloneInv
  <1>1. 1 \in Pids /\ proc[1] = "waiting" /\ fifo = 1 /\ \A p \in Pids \ {1} : proc[p] = "unborn"
    BY DropletConstants DEF DropletInit
  <1>2. state.status = "created" /\ state.pid = 1
    BY DEF DropletInit
  <1>3. \A p \in Pids : shim[p].buf = Absent /\ shim[p].pc \in {"none", "wait"}
    BY DEF DropletInit
  <1>4. \A r \in Reqs : cmd[r].pc = "idle"
    BY DropletConstants DEF DropletInit
  <1>5. Truthful(state) /\ \A p \in Pids : Truthful(shim[p].buf)
    BY <1>1, <1>2, <1>3, DropletConstants DEF Truthful, Named
  <1>6. \A r \in Reqs : AloneReq(cmd[r])
    BY <1>1, <1>2, <1>4 DEF AloneReq
  <1> QED
    BY <1>1, <1>2, <1>3, <1>5, <1>6, DropletTypeStarts DEF AloneInv

\* A container is reported running only when its process was told to start,
\* through any number of restarts, exits and late writes of old shims, as long
\* as its commands come one after the other.
THEOREM RunningAlwaysStarted ==
    ASSUME \A q, r \in Reqs : q = r
    PROVE  DropletSpec => []RunningWasStarted
  <1>1. DropletInit => AloneInv
    BY AloneStarts
  <1>2. AloneInv /\ [DropletNext]_vars => AloneInv'
    BY AloneStep
  <1>3. AloneInv => RunningWasStarted
    BY DEF AloneInv, Truthful, RunningWasStarted
  <1> QED
    BY <1>1, <1>2, <1>3, PTL DEF DropletSpec

-----------------------------------------------------------------------------
(***************************************************************************)
(* The cache of shifted layers                                              *)
(***************************************************************************)


Full == Owners \cup {Marker}
Copying == {"clear", "copy", "mark", "remove", "rename"}

\* The lock directory excludes: whoever is between the mkdir and the removal
\* of the directory is alone there.
Exclusive ==
    /\ lock \in BOOLEAN
    /\ \A x \in Creates : Holding(x) => lock
    /\ \A x, y \in Creates : Holding(x) /\ Holding(y) => x = y

\* What the holder's temporary copy has at each step; a file is copied only
\* when the map has its owner.
TmpAsFarAs(x) ==
    /\ at[x] = "copy" => tmp[x] \subseteq Owners /\ \A o \in tmp[x] : Maps(policy, o)
    /\ at[x] = "mark" => tmp[x] = Owners /\ \A o \in Owners : Maps(policy, o)
    /\ at[x] \in {"remove", "rename"} => tmp[x] = Full /\ \A o \in Owners : Maps(policy, o)

\* There is no half copied layer under the cache directory, and a holder that
\* went past the second look has found none there.
CacheAllOrNothing ==
    /\ cache = {} \/ (cache = Full /\ \A o \in Owners : Maps(policy, o))
    /\ \A x \in Creates : at[x] \in Copying => cache = {}
    /\ \A x \in Creates : at[x] \in {"unlock", "use"} => cache = Full

\* The inductive invariant.
ShiftInv ==
    /\ policy \in Policies /\ ShiftTypeOK /\ Exclusive /\ LockReleased
    /\ \A x \in Creates : TmpAsFarAs(x)
    /\ CacheAllOrNothing

-----------------------------------------------------------------------------
\* The kernel's map undoes the translation of MapUID and MapGID for every id
\* of the map, in both modes: the login's own id and the first subordinate id
\* are not confused.
LEMMA ShownUndoesMapId ==
    ASSUME NEW p \in Policies, NEW o \in Owners, Maps(p, o)
    PROVE  Shown(p, MapId(p, o)) = o
<1> DEFINE e1 == [c |-> 0, h |-> p.root, n |-> 1]
           e2 == [c |-> 1, h |-> p.base, n |-> p.size - 1]
           e3 == [c |-> 0, h |-> p.base, n |-> p.size]
           In(e, host) == e.h <= host /\ host < e.h + e.n
<1>1. /\ p.mode \in {"login", "shifted"} /\ p.base \in Nat /\ p.root \in Nat /\ p.size \in Nat
      /\ o \in Nat /\ o < p.size
      /\ p.mode = "login" => p.root < p.base \/ p.root >= p.base + p.size - 1
  BY ShiftAssumption DEF Maps
<1>2. CASE p.mode = "login" /\ o = 0
  <2>1. MapId(p, o) = p.root /\ IdMap(p) = {e1, e2}
    BY <1>2 DEF MapId, IdMap
  <2>2. In(e1, p.root) /\ ~In(e2, p.root)
    BY <1>1, <1>2
  <2>3. (CHOOSE x \in {e1, e2} : In(x, p.root)) = e1
    BY <2>2
  <2>4. QED
    BY <1>1, <1>2, <2>1, <2>2, <2>3 DEF Shown
<1>3. CASE p.mode = "login" /\ o # 0
  <2> DEFINE host == p.base + o - 1
  <2>1. MapId(p, o) = host /\ IdMap(p) = {e1, e2}
    BY <1>3 DEF MapId, IdMap
  <2>2. In(e2, host) /\ ~In(e1, host)
    BY <1>1, <1>3
  <2>3. (CHOOSE x \in {e1, e2} : In(x, host)) = e2
    BY <2>2
  <2>4. e2.c + host - e2.h = o
    BY <1>1, <1>3
  <2> HIDE DEF host
  <2>5. QED
    BY <2>1, <2>2, <2>3, <2>4 DEF Shown
<1>4. CASE p.mode = "shifted"
  <2> DEFINE host == p.base + o
  <2>1. MapId(p, o) = host /\ IdMap(p) = {e3}
    BY <1>4 DEF MapId, IdMap
  <2>2. In(e3, host)
    BY <1>1
  <2>3. (CHOOSE x \in {e3} : In(x, host)) = e3
    BY <2>2
  <2>4. e3.c + host - e3.h = o
    BY <1>1
  <2> HIDE DEF host
  <2>5. QED
    BY <2>1, <2>2, <2>3, <2>4 DEF Shown
<1>5. QED
  BY <1>1, <1>2, <1>3, <1>4

\* The invariant of the shifted layers holds at the start.
LEMMA ShiftInitially == ShiftInit => ShiftInv
BY DEF ShiftInit, ShiftInv, IDMapPolicyFromConfig, ShiftTypeOK, Exclusive, LockReleased, Holding,
       TmpAsFarAs, CacheAllOrNothing, Copying, Full

\* Every step of a create, and its death, keeps the invariant.
LEMMA ShiftStep == ShiftInv /\ [ShiftNext]_shVars => ShiftInv'
<1> USE DEF ShiftInv, ShiftTypeOK, Exclusive, LockReleased, Holding, TmpAsFarAs, CacheAllOrNothing,
            Copying, Full, To
<1> SUFFICES ASSUME ShiftInv, [ShiftNext]_shVars PROVE ShiftInv'
  OBVIOUS
<1>1. ASSUME NEW x \in Creates, CheckReady(x) PROVE ShiftInv'
  BY <1>1 DEF CheckReady, Ready
<1>2. ASSUME NEW x \in Creates, TryLock(x) PROVE ShiftInv'
  BY <1>2 DEF TryLock
<1>3. ASSUME NEW x \in Creates, Wait(x) PROVE ShiftInv'
  BY <1>3 DEF Wait, Ready
<1>4. ASSUME NEW x \in Creates, Recheck(x) PROVE ShiftInv'
  BY <1>4 DEF Recheck, Ready
<1>5. ASSUME NEW x \in Creates, ClearTmp(x) PROVE ShiftInv'
  BY <1>5 DEF ClearTmp
<1>6. ASSUME NEW x \in Creates, CopyShifted(x) PROVE ShiftInv'
  <2>1. CASE tmp[x] = Owners
    BY <1>6, <2>1 DEF CopyShifted
  <2>2. CASE tmp[x] # Owners
    <3>1. PICK o \in Owners \ tmp[x] :
              IF Maps(policy, o) THEN tmp' = [tmp EXCEPT ![x] = @ \cup {o}] /\ UNCHANGED <<at, lock>>
              ELSE tmp' = [tmp EXCEPT ![x] = {}] /\ lock' = FALSE /\ To(x, "failed")
      BY <1>6, <2>2 DEF CopyShifted
    <3>2. CASE Maps(policy, o)
      BY <1>6, <3>1, <3>2 DEF CopyShifted
    <3>3. CASE ~Maps(policy, o)
      BY <1>6, <3>1, <3>3 DEF CopyShifted
    <3>4. QED
      BY <3>2, <3>3
  <2>3. QED
    BY <2>1, <2>2
<1>7. ASSUME NEW x \in Creates, WriteMarker(x) PROVE ShiftInv'
  BY <1>7 DEF WriteMarker
<1>8. ASSUME NEW x \in Creates, RemoveOld(x) PROVE ShiftInv'
  BY <1>8 DEF RemoveOld
<1>9. ASSUME NEW x \in Creates, RenameTmp(x) PROVE ShiftInv'
  BY <1>9 DEF RenameTmp
<1>10. ASSUME NEW x \in Creates, Unlock(x) PROVE ShiftInv'
  BY <1>10 DEF Unlock
<1>11. ASSUME NEW x \in Creates, Die(x) PROVE ShiftInv'
  BY <1>11 DEF Die
<1>12. CASE UNCHANGED shVars
  BY <1>12 DEF shVars, Maps
<1>13. QED
  BY <1>1, <1>2, <1>3, <1>4, <1>5, <1>6, <1>7, <1>8, <1>9, <1>10, <1>11, <1>12 DEF ShiftNext, ShiftStepOf

\* A shifted layer that a container uses is complete and has the owners of the
\* image, and the lock directory outlives its holder only by a death.
THEOREM ShiftedLayersSound == ShiftSpec => []LayersSound
<1>1. ShiftInv => LayersSound
  BY ShownUndoesMapId DEF ShiftInv, LayersSound, CacheAllOrNothing, Full, CacheInUseComplete, OwnersKept
<1>2. QED
  BY <1>1, ShiftInitially, ShiftStep, PTL DEF ShiftSpec

-----------------------------------------------------------------------------
(***************************************************************************)
(* Attached terminals                                                       *)
(***************************************************************************)


Tokens == [tok : {"hdr", "pay"}, t : {"data", "resize"}, v : Keys \cup {"r", "-"}]
Halves == [{"key", "win"} -> Keys \cup {"r", "none"}]
Conns == [st : {"off", "dialing", "on", "closed"}, to : Shims \cup {Free}, p : BOOLEAN, tries : Nat]

AttachTyped ==
    /\ AttachTypeOK /\ met \subseteq Shims
    /\ order \in [Shims -> Seq(Clients)] /\ cl \in [Clients -> Conns]
    /\ keys \in [Clients -> Seq(Keys)] /\ half \in [Clients -> Halves]
    /\ wire \in [Clients -> Seq(Tokens)] /\ rd \in [Clients -> {"hdr", "data", "resize"}]
    /\ typed \in [Clients -> Seq(Keys \cup {"r", "-"})]

\* A shim that met no other while it ran is alone on the socket path.
LoneOnPath ==
    \A h \in Shims \ met :
        /\ term[h] # "failed"
        /\ h \in Active => Active = {h}
        /\ term[h] = "removed" => sock = Free
        /\ term[h] = "serving" => sock = h

\* In a stream of whole frames r is what the reader expects, and every payload
\* follows the header of its type.
AfterHeader(r, ts, j) == IF j = 1 THEN r ELSE IF ts[j - 1].tok = "hdr" THEN ts[j - 1].t ELSE "hdr"
Framed(r, ts) ==
    /\ \A j \in 1 .. Len(ts) : IF AfterHeader(r, ts, j) = "hdr" THEN ts[j].tok = "hdr"
                               ELSE ts[j].tok = "pay" /\ ts[j].t = AfterHeader(r, ts, j)
    /\ IF Len(ts) = 0 THEN r = "hdr" ELSE ts[Len(ts)].tok = "pay"

\* In the stream ts the reader, which has typed n keys, will have typed pl[j]
\* of the keys ks once it is past token j, and all of them at the end.
IsKey(k) == k.tok = "pay" /\ k.t = "data"
Places(pl, ts, n, ks) ==
    /\ pl \in [0 .. Len(ts) -> 0 .. Len(ks)] /\ pl[0] = n /\ pl[Len(ts)] = Len(ks)
    /\ \A j \in 1 .. Len(ts) : IF IsKey(ts[j]) THEN pl[j] = pl[j - 1] + 1 /\ ts[j].v = ks[pl[j]]
                               ELSE pl[j] = pl[j - 1]
Underway(ts, n, ks) == \E pl : Places(pl, ts, n, ks)
Arrived(ty, ks) == Len(ty) <= Len(ks) /\ \A j \in 1 .. Len(ty) : ty[j] = ks[j]

NoHalf == [w \in {"key", "win"} |-> "none"]
Stream(st, hf, ts, r, ty, ks) ==
    /\ hf = NoHalf /\ Arrived(ty, ks)
    /\ st = "on" => Framed(r, ts) /\ Underway(ts, Len(ty), ks)
    /\ st \in {"off", "dialing"} => ks = <<>> /\ ty = <<>>
    /\ st # "on" => ts = <<>> /\ r = "hdr"
StreamOf(x) == Stream(cl[x].st, half[x], wire[x], rd[x], typed[x], keys[x])

AttachInv == AttachTyped /\ NewestAttached /\ LoneOnPath /\ \A x \in Clients \ Droplets : StreamOf(x)

-----------------------------------------------------------------------------
(***************************************************************************)
(* The stream                                                               *)
(***************************************************************************)
Texts == Keys \cup {"r", "-"}
Frame(t, v) == <<Header(t), Payload(t, v)>>

\* A frame is a header and a payload of the same kind.
LEMMA FrameIs ==
    ASSUME NEW t \in {"data", "resize"}, NEW v \in Texts
    PROVE  /\ Header(t) \in Tokens /\ Payload(t, v) \in Tokens
           /\ Header(t).tok = "hdr" /\ Header(t).t = t
           /\ Payload(t, v).tok = "pay" /\ Payload(t, v).t = t /\ Payload(t, v).v = v
  BY DEF Header, Payload, Tokens, Texts

\* us is ts, of n tokens, with the frame of t and v at its end.
Longer(us, ts, n, t, v) ==
    /\ us \in Seq(Tokens) /\ Len(us) = n + 2
    /\ \A j \in 1 .. n : us[j] = ts[j]
    /\ us[n + 1] = Header(t) /\ us[n + 2] = Payload(t, v)

\* Writing a frame adds its two tokens and changes none before them.
LEMMA Added ==
    ASSUME NEW ts \in Seq(Tokens), NEW t \in {"data", "resize"}, NEW v \in Texts, NEW n \in Nat, n = Len(ts)
    PROVE  Longer(ts \o Frame(t, v), ts, n, t, v)
  <1>1. Header(t) \in Tokens /\ Payload(t, v) \in Tokens
    BY FrameIs
  <1>2. Frame(t, v) \in Seq(Tokens) /\ Len(Frame(t, v)) = 2 /\ Frame(t, v)[1] = Header(t) /\ Frame(t, v)[2] = Payload(t, v)
    BY <1>1 DEF Frame
  <1>3. PICK f \in Seq(Tokens) : f = Frame(t, v) /\ Len(f) = 2 /\ f[1] = Header(t) /\ f[2] = Payload(t, v)
    BY <1>2
  <1>4. /\ ts \o f \in Seq(Tokens) /\ Len(ts \o f) = Len(ts) + Len(f)
        /\ \A j \in 1 .. Len(ts) + Len(f) : (ts \o f)[j] = IF j <= Len(ts) THEN ts[j] ELSE f[j - Len(ts)]
    BY ConcatProperties
  <1>5. ASSUME NEW us, us \in Seq(Tokens), Len(us) = Len(ts) + Len(f),
               \A j \in 1 .. Len(ts) + Len(f) : us[j] = IF j <= Len(ts) THEN ts[j] ELSE f[j - Len(ts)]
        PROVE  Longer(us, ts, n, t, v)
    <2>1. Len(us) = n + 2 /\ \A j \in 1 .. n + 2 : us[j] = IF j <= n THEN ts[j] ELSE f[j - n]
      BY <1>3, <1>5
    <2>2. us[n + 1] = f[1] /\ us[n + 2] = f[2]
      BY <2>1
    <2> QED
      BY <1>3, <1>5, <2>1, <2>2 DEF Longer
  <1>6. Longer(ts \o f, ts, n, t, v)
    BY <1>4, <1>5
  <1> QED
    BY <1>3, <1>6

\* A stream after its first token was read.
LEMMA Read ==
    ASSUME NEW ts \in Seq(Tokens), ts # <<>>, NEW us, us = Tail(ts)
    PROVE  /\ us \in Seq(Tokens) /\ Len(ts) > 0 /\ Len(us) = Len(ts) - 1 /\ Head(ts) = ts[1]
           /\ \A j \in 1 .. Len(us) : us[j] = ts[j + 1]
  OBVIOUS

\* A stream of whole frames stays one when a frame is added.
LEMMA FramesAdded ==
    ASSUME NEW ts \in Seq(Tokens), NEW t \in {"data", "resize"}, NEW v \in Texts,
           NEW r \in {"hdr", "data", "resize"}, Framed(r, ts)
    PROVE  Framed(r, ts \o Frame(t, v))
  <1>1. PICK n \in Nat : n = Len(ts)
    OBVIOUS
  <1>2. SUFFICES ASSUME NEW us, Longer(us, ts, n, t, v) PROVE Framed(r, us)
    BY <1>1, Added
  <1>3. /\ Len(us) = n + 2 /\ us[n + 1] = Header(t) /\ us[n + 2] = Payload(t, v)
        /\ \A j \in 1 .. n : us[j] = ts[j]
    BY <1>2 DEF Longer
  <1>4. /\ Header(t).tok = "hdr" /\ Header(t).t = t /\ Payload(t, v).tok = "pay" /\ Payload(t, v).t = t
    BY FrameIs
  <1>5. \A j \in 1 .. n : AfterHeader(r, us, j) = AfterHeader(r, ts, j)
    BY <1>3 DEF AfterHeader
  <1>6. AfterHeader(r, us, n + 1) = "hdr"
    BY <1>1, <1>3 DEF AfterHeader, Framed
  <1>7. AfterHeader(r, us, n + 2) = t
    BY <1>3, <1>4 DEF AfterHeader
  <1>8. \A j \in 1 .. n + 2 : IF AfterHeader(r, us, j) = "hdr" THEN us[j].tok = "hdr"
                              ELSE us[j].tok = "pay" /\ us[j].t = AfterHeader(r, us, j)
    <2> TAKE j \in 1 .. n + 2
    <2>1. CASE j \in 1 .. n
      BY <2>1, <1>1, <1>3, <1>5 DEF Framed
    <2>2. CASE j = n + 1
      BY <2>2, <1>3, <1>4, <1>6
    <2>3. CASE j = n + 2
      BY <2>3, <1>3, <1>4, <1>7
    <2> QED
      BY <2>1, <2>2, <2>3
  <1> QED
    BY <1>3, <1>4, <1>8 DEF Framed

\* A key sent: the frame's place is after all others.
LEMMA KeyUnderway ==
    ASSUME NEW ts \in Seq(Tokens), NEW n \in Nat, NEW ks \in Seq(Keys), NEW b \in Keys, Underway(ts, n, ks)
    PROVE  Underway(ts \o Frame("data", b), n, Append(ks, b))
  <1>1. PICK m \in Nat : m = Len(ts)
    OBVIOUS
  <1>2. PICK k \in Nat : k = Len(ks)
    OBVIOUS
  <1>3. PICK pl : Places(pl, ts, n, ks)
    BY DEF Underway
  <1>4. b \in Texts
    BY DEF Texts
  <1>5. SUFFICES ASSUME NEW us, Longer(us, ts, m, "data", b) PROVE Underway(us, n, Append(ks, b))
    BY <1>1, <1>4, Added
  <1>6. /\ Len(us) = m + 2 /\ us[m + 1] = Header("data") /\ us[m + 2] = Payload("data", b)
        /\ \A j \in 1 .. m : us[j] = ts[j]
    BY <1>5 DEF Longer
  <1>7. IsKey(us[m + 2]) /\ us[m + 2].v = b /\ ~IsKey(us[m + 1])
    BY <1>4, <1>6, FrameIs DEF IsKey
  <1>8. PICK kt : kt = Append(ks, b)
    OBVIOUS
  <1>9. Len(kt) = k + 1 /\ kt[k + 1] = b /\ \A j \in 1 .. k : kt[j] = ks[j]
    BY <1>2, <1>8
  <1> DEFINE new == [j \in 0 .. m + 2 |-> IF j <= m THEN pl[j] ELSE IF j = m + 1 THEN k ELSE k + 1]
  <1>10. pl \in [0 .. m -> 0 .. k] /\ pl[0] = n /\ pl[m] = k
    BY <1>1, <1>2, <1>3 DEF Places
  <1>11. new \in [0 .. m + 2 -> 0 .. k + 1]
    BY <1>10
  <1>12. ASSUME NEW j \in 1 .. m + 2
         PROVE  IF IsKey(us[j]) THEN new[j] = new[j - 1] + 1 /\ us[j].v = kt[new[j]] ELSE new[j] = new[j - 1]
    <2>1. CASE j \in 1 .. m
      <3>1. new[j] = pl[j] /\ new[j - 1] = pl[j - 1] /\ us[j] = ts[j] /\ pl[j] \in 0 .. k /\ pl[j - 1] \in 0 .. k
        BY <2>1, <1>6, <1>10
      <3>2. IF IsKey(ts[j]) THEN pl[j] = pl[j - 1] + 1 /\ ts[j].v = ks[pl[j]] ELSE pl[j] = pl[j - 1]
        BY <2>1, <1>1, <1>3 DEF Places
      <3> HIDE DEF new
      <3>3. CASE ~IsKey(ts[j])
        BY <3>1, <3>2, <3>3
      <3>4. CASE IsKey(ts[j])
        <4>1. pl[j] \in 1 .. k
          BY <3>1, <3>2, <3>4
        <4> QED
          BY <3>1, <3>2, <3>4, <4>1, <1>9
      <3> QED
        BY <3>3, <3>4
    <2>2. CASE j = m + 1
      <3>1. new[j] = k /\ new[j - 1] = k
        BY <2>2, <1>10
      <3> QED
        BY <2>2, <3>1, <1>7
    <2>3. CASE j = m + 2
      <3>1. new[j] = k + 1 /\ new[j - 1] = k
        BY <2>3
      <3> HIDE DEF new
      <3> QED
        BY <2>3, <3>1, <1>7, <1>9
    <2> QED
      BY <2>1, <2>2, <2>3
  <1>13. new[0] = n /\ new[m + 2] = k + 1
    BY <1>10
  <1> HIDE DEF new
  <1>14. Places(new, us, n, kt)
    BY <1>6, <1>9, <1>11, <1>12, <1>13 DEF Places
  <1> QED
    BY <1>8, <1>14 DEF Underway

\* A window change types nothing.
LEMMA ResizeUnderway ==
    ASSUME NEW ts \in Seq(Tokens), NEW n \in Nat, NEW ks \in Seq(Keys), Underway(ts, n, ks)
    PROVE  Underway(ts \o Frame("resize", "r"), n, ks)
  <1>1. PICK m \in Nat : m = Len(ts)
    OBVIOUS
  <1>2. PICK k \in Nat : k = Len(ks)
    OBVIOUS
  <1>3. PICK pl : Places(pl, ts, n, ks)
    BY DEF Underway
  <1>4. "r" \in Texts
    BY DEF Texts
  <1>5. SUFFICES ASSUME NEW us, Longer(us, ts, m, "resize", "r") PROVE Underway(us, n, ks)
    BY <1>1, <1>4, Added
  <1>6. /\ Len(us) = m + 2 /\ us[m + 1] = Header("resize") /\ us[m + 2] = Payload("resize", "r")
        /\ \A j \in 1 .. m : us[j] = ts[j]
    BY <1>5 DEF Longer
  <1>7. ~IsKey(us[m + 2]) /\ ~IsKey(us[m + 1])
    BY <1>4, <1>6, FrameIs DEF IsKey
  <1> DEFINE new == [j \in 0 .. m + 2 |-> IF j <= m THEN pl[j] ELSE k]
  <1>8. pl \in [0 .. m -> 0 .. k] /\ pl[0] = n /\ pl[m] = k
    BY <1>1, <1>2, <1>3 DEF Places
  <1>9. new \in [0 .. m + 2 -> 0 .. k]
    BY <1>8
  <1>10. ASSUME NEW j \in 1 .. m + 2
         PROVE  IF IsKey(us[j]) THEN new[j] = new[j - 1] + 1 /\ us[j].v = ks[new[j]] ELSE new[j] = new[j - 1]
    <2>1. CASE j \in 1 .. m
      <3>1. new[j] = pl[j] /\ new[j - 1] = pl[j - 1] /\ us[j] = ts[j]
        BY <2>1, <1>6, <1>8
      <3>2. IF IsKey(ts[j]) THEN pl[j] = pl[j - 1] + 1 /\ ts[j].v = ks[pl[j]] ELSE pl[j] = pl[j - 1]
        BY <2>1, <1>1, <1>3 DEF Places
      <3> HIDE DEF new
      <3> QED
        BY <3>1, <3>2
    <2>2. CASE j \in {m + 1, m + 2}
      <3>1. new[j] = k /\ new[j - 1] = k
        BY <2>2, <1>8
      <3> QED
        BY <2>2, <3>1, <1>7
    <2> QED
      BY <2>1, <2>2
  <1>11. new[0] = n /\ new[m + 2] = k
    BY <1>8
  <1> HIDE DEF new
  <1>12. Places(new, us, n, ks)
    BY <1>2, <1>6, <1>9, <1>10, <1>11 DEF Places
  <1> QED
    BY <1>12 DEF Underway

\* The reader takes a header, or a payload, for what it is.
LEMMA FramesRead ==
    ASSUME NEW ts \in Seq(Tokens), ts # <<>>, NEW r \in {"hdr", "data", "resize"}, Framed(r, ts)
    PROVE  /\ r = "hdr" => ts[1].tok = "hdr" /\ Framed(ts[1].t, Tail(ts))
           /\ r # "hdr" => ts[1].tok = "pay" /\ ts[1].t = r /\ Framed("hdr", Tail(ts))
  <1>1. PICK us : us = Tail(ts)
    OBVIOUS
  <1>2. PICK n \in Nat : n = Len(us)
    BY <1>1, Read
  <1>3. Len(ts) = n + 1 /\ \A j \in 1 .. n : us[j] = ts[j + 1]
    BY <1>1, <1>2, Read
  <1>4. AfterHeader(r, ts, 1) = r /\ 1 \in 1 .. Len(ts)
    BY <1>3 DEF AfterHeader
  <1>5. IF r = "hdr" THEN ts[1].tok = "hdr" ELSE ts[1].tok = "pay" /\ ts[1].t = r
    BY <1>4 DEF Framed
  <1>6. PICK q : q = IF r = "hdr" THEN ts[1].t ELSE "hdr"
    OBVIOUS
  <1>7. ASSUME NEW j \in 1 .. n PROVE AfterHeader(q, us, j) = AfterHeader(r, ts, j + 1)
    <2>1. CASE j = 1
      BY <2>1, <1>5, <1>6 DEF AfterHeader
    <2>2. CASE j # 1
      <3>1. us[j - 1] = ts[j] /\ j - 1 \in 1 .. n
        BY <2>2, <1>3
      <3> QED
        BY <2>2, <3>1 DEF AfterHeader
    <2> QED
      BY <2>1, <2>2
  <1>8. ASSUME NEW j \in 1 .. n
        PROVE IF AfterHeader(q, us, j) = "hdr" THEN us[j].tok = "hdr" ELSE us[j].tok = "pay" /\ us[j].t = AfterHeader(q, us, j)
    <2>1. j + 1 \in 1 .. Len(ts) /\ us[j] = ts[j + 1]
      BY <1>3
    <2> QED
      BY <2>1, <1>7 DEF Framed
  <1>9. IF n = 0 THEN q = "hdr" ELSE us[n].tok = "pay"
    BY <1>3, <1>5, <1>6 DEF Framed
  <1>10. Framed(q, us)
    BY <1>2, <1>8, <1>9 DEF Framed
  <1> QED
    BY <1>1, <1>5, <1>6, <1>10

\* A key read is the next of the keys typed.
LEMMA ReadUnderway ==
    ASSUME NEW ts \in Seq(Tokens), ts # <<>>, NEW n \in Nat, NEW ks \in Seq(Keys), Underway(ts, n, ks)
    PROVE  /\ IsKey(ts[1]) => n + 1 <= Len(ks) /\ ts[1].v = ks[n + 1] /\ Underway(Tail(ts), n + 1, ks)
           /\ ~IsKey(ts[1]) => Underway(Tail(ts), n, ks)
  <1>1. PICK us : us = Tail(ts)
    OBVIOUS
  <1>2. PICK m \in Nat : m = Len(us)
    BY <1>1, Read
  <1>3. Len(ts) = m + 1 /\ \A j \in 1 .. m : us[j] = ts[j + 1]
    BY <1>1, <1>2, Read
  <1>4. PICK pl : Places(pl, ts, n, ks)
    BY DEF Underway
  <1>5. PICK k \in Nat : k = Len(ks)
    OBVIOUS
  <1>6. pl \in [0 .. m + 1 -> 0 .. k] /\ pl[0] = n /\ pl[m + 1] = k
    BY <1>3, <1>4, <1>5 DEF Places
  <1>7. \A j \in 1 .. m + 1 : IF IsKey(ts[j]) THEN pl[j] = pl[j - 1] + 1 /\ ts[j].v = ks[pl[j]] ELSE pl[j] = pl[j - 1]
    BY <1>3, <1>4 DEF Places
  <1>8. IF IsKey(ts[1]) THEN pl[1] = n + 1 /\ ts[1].v = ks[n + 1] ELSE pl[1] = n
    <2>1. 1 \in 1 .. m + 1 /\ 1 - 1 = 0 /\ pl[0] = n
      BY <1>6
    <2>2. IF IsKey(ts[1]) THEN pl[1] = pl[1 - 1] + 1 /\ ts[1].v = ks[pl[1]] ELSE pl[1] = pl[1 - 1]
      BY <2>1, <1>7
    <2> QED
      BY <2>1, <2>2
  <1>9. pl[1] \in 0 .. k
    BY <1>6
  <1> DEFINE new == [j \in 0 .. m |-> pl[j + 1]]
  <1>10. new \in [0 .. m -> 0 .. k] /\ new[0] = pl[1] /\ new[m] = k
    BY <1>6
  <1>11. ASSUME NEW j \in 1 .. m
         PROVE  IF IsKey(us[j]) THEN new[j] = new[j - 1] + 1 /\ us[j].v = ks[new[j]] ELSE new[j] = new[j - 1]
    <2>1. j + 1 \in 1 .. m + 1 /\ us[j] = ts[j + 1] /\ new[j] = pl[j + 1] /\ new[j - 1] = pl[j]
      BY <1>3
    <2> HIDE DEF new
    <2> QED
      BY <2>1, <1>7
  <1> HIDE DEF new
  <1>12. Places(new, us, pl[1], ks)
    BY <1>2, <1>5, <1>10, <1>11 DEF Places
  <1>13. Underway(us, pl[1], ks)
    BY <1>12 DEF Underway
  <1> QED
    BY <1>1, <1>5, <1>8, <1>9, <1>13

-----------------------------------------------------------------------------
(***************************************************************************)
(* Every step keeps the invariant                                           *)
(***************************************************************************)
\* A connection that is closed, whatever was under way on it.
LEMMA ClosedStream ==
    ASSUME NEW st, NEW hf, NEW ts, NEW r, NEW ty, NEW ks, Stream(st, hf, ts, r, ty, ks)
    PROVE  Stream("closed", NoHalf, <<>>, "hdr", ty, ks)
  BY DEF Stream

\* A connection that is new has nothing under way.
LEMMA NewStream ==
    ASSUME NEW hf, NEW ts, NEW r, NEW ty, NEW ks, Stream("dialing", hf, ts, r, ty, ks)
    PROVE  Stream("on", NoHalf, <<>>, "hdr", ty, ks)
  <1>1. ty = <<>> /\ ks = <<>> /\ Arrived(ty, ks)
    BY DEF Stream
  <1>2. Framed("hdr", <<>>)
    BY DEF Framed
  <1>3. [j \in 0 .. 0 |-> 0] \in [0 .. 0 -> 0 .. 0]
    OBVIOUS
  <1>4. Places([j \in 0 .. 0 |-> 0], <<>>, 0, <<>>)
    BY <1>3 DEF Places
  <1>5. Underway(<<>>, Len(ty), ks)
    BY <1>1, <1>4 DEF Underway
  <1> QED
    BY <1>1, <1>2, <1>5 DEF Stream

\* A step that leaves the streams and the state of all connections alone.
LEMMA StreamsKept ==
    ASSUME AttachInv, \A x \in Clients : cl'[x].st = cl[x].st, UNCHANGED <<keys, half, wire, rd, typed>>
    PROVE  \A x \in Clients \ Droplets : StreamOf(x)'
  BY DEF AttachInv, StreamOf

\* Clients that lose their connection.
LEMMA Dropped ==
    ASSUME AttachInv, NEW X \in SUBSET Clients, Drop(X), UNCHANGED <<keys, typed>>
    PROVE  /\ cl' \in [Clients -> Conns]
           /\ \A x \in Clients \ X : cl'[x] = cl[x]
           /\ \A x \in X : cl'[x].st = "closed" /\ cl'[x].to = cl[x].to
           /\ wire' \in [Clients -> Seq(Tokens)] /\ half' \in [Clients -> Halves] /\ rd' \in [Clients -> {"hdr", "data", "resize"}]
           /\ \A x \in Clients \ Droplets : StreamOf(x)'
  <1>1. /\ cl' = [x \in Clients |-> IF x \in X THEN Closed(x) ELSE cl[x]]
        /\ wire' = [x \in Clients |-> IF x \in X THEN <<>> ELSE wire[x]]
        /\ half' = [x \in Clients |-> IF x \in X THEN NoHalf ELSE half[x]]
        /\ rd' = [x \in Clients |-> IF x \in X THEN "hdr" ELSE rd[x]]
    BY DEF Drop, Lost, NoHalf
  <1>2. cl \in [Clients -> Conns] /\ wire \in [Clients -> Seq(Tokens)] /\ half \in [Clients -> Halves]
        /\ rd \in [Clients -> {"hdr", "data", "resize"}]
    BY DEF AttachInv, AttachTyped
  <1>3. \A x \in Clients : Closed(x) \in Conns /\ Closed(x).st = "closed" /\ Closed(x).to = cl[x].to
    BY <1>2 DEF Closed, Conns
  <1>4. NoHalf \in Halves
    BY DEF NoHalf, Halves
  <1>5. /\ cl' \in [Clients -> Conns]
        /\ \A x \in Clients \ X : cl'[x] = cl[x]
        /\ \A x \in X : cl'[x].st = "closed" /\ cl'[x].to = cl[x].to
    BY <1>1, <1>2, <1>3
  <1>6. wire' \in [Clients -> Seq(Tokens)] /\ half' \in [Clients -> Halves] /\ rd' \in [Clients -> {"hdr", "data", "resize"}]
    BY <1>1, <1>2, <1>4
  <1>7. ASSUME NEW x \in Clients \ Droplets PROVE StreamOf(x)'
    <2>1. StreamOf(x)
      BY DEF AttachInv
    <2>2. CASE x \in X
      <3>1. /\ cl'[x].st = "closed" /\ half'[x] = NoHalf /\ wire'[x] = <<>> /\ rd'[x] = "hdr"
            /\ typed'[x] = typed[x] /\ keys'[x] = keys[x]
        BY <2>2, <1>1, <1>5
      <3> QED
        BY <2>1, <3>1, ClosedStream DEF StreamOf
    <2>3. CASE x \notin X
      <3>1. /\ cl'[x] = cl[x] /\ half'[x] = half[x] /\ wire'[x] = wire[x] /\ rd'[x] = rd[x]
            /\ typed'[x] = typed[x] /\ keys'[x] = keys[x]
        BY <2>3, <1>1, <1>5
      <3> QED
        BY <2>1, <3>1 DEF StreamOf
    <2> QED
      BY <2>2, <2>3
  <1> QED
    BY <1>5, <1>6, <1>7

\* RemoveOldSocket keeps AttachInv.
LEMMA RemoveOldSocketKeeps ==
    ASSUME AttachInv, NEW h \in Shims, RemoveOldSocket(h)
    PROVE  AttachInv'
  <1>0. UNCHANGED <<hub, order, cl, keys, half, wire, rd, typed>>
    BY DEF RemoveOldSocket, streams
  <1>1. AttachTyped'
    BY <1>0 DEF AttachInv, AttachTyped, AttachTypeOK, RemoveOldSocket, Active
  <1>2. NewestAttached'
    BY <1>0 DEF AttachInv, NewestAttached
  <1>3. LoneOnPath'
    BY DEF AttachInv, AttachTyped, AttachTypeOK, LoneOnPath, RemoveOldSocket, Active
  <1> QED
    BY <1>0, <1>1, <1>2, <1>3, StreamsKept DEF AttachInv

\* Listen keeps AttachInv.
LEMMA ListenKeeps ==
    ASSUME AttachInv, NEW h \in Shims, Listen(h)
    PROVE  AttachInv'
  <1>0. UNCHANGED <<met, hub, order, cl, keys, half, wire, rd, typed>>
    BY DEF Listen, streams
  <1>1. AttachTyped'
    BY <1>0 DEF AttachInv, AttachTyped, AttachTypeOK, Listen
  <1>2. NewestAttached'
    BY <1>0 DEF AttachInv, NewestAttached
  <1>3. LoneOnPath'
    <2> SUFFICES ASSUME NEW g \in Shims \ met
                 PROVE  /\ term'[g] # "failed" /\ (g \in Active' => Active' = {g})
                        /\ term'[g] = "removed" => sock' = Free
                        /\ term'[g] = "serving" => sock' = g
      BY <1>0 DEF LoneOnPath
    <2>1. /\ term[g] # "failed" /\ (g \in Active => Active = {g})
          /\ term[g] = "removed" => sock = Free
      BY DEF AttachInv, LoneOnPath
    <2>2. term \in [Shims -> {"idle", "removed", "serving", "ended", "failed", "killed"}] /\ h \in Active
      BY DEF AttachInv, AttachTyped, AttachTypeOK, Listen, Active
    <2>3. CASE g = h
      <3>1. sock' = h /\ term' = [term EXCEPT ![h] = "serving"]
        BY <2>1, <2>3 DEF Listen
      <3>2. Active' = Active
        BY <3>1, <2>2 DEF Active
      <3> QED
        BY <2>1, <2>2, <2>3, <3>1, <3>2
    <2>4. CASE g # h
      <3>1. g \notin Active /\ term'[g] = term[g]
        BY <2>1, <2>2, <2>4 DEF Listen
      <3> QED
        BY <2>1, <3>1 DEF Active
    <2> QED
      BY <2>3, <2>4
  <1> QED
    BY <1>0, <1>1, <1>2, <1>3, StreamsKept DEF AttachInv

\* EndShim keeps AttachInv.
LEMMA EndShimKeeps ==
    ASSUME AttachInv, NEW h \in Shims, EndShim(h)
    PROVE  AttachInv'
  <1>0. UNCHANGED <<met, order, keys, typed>> /\ Drop(On(h)) /\ hub' = [hub EXCEPT ![h] = Free]
    BY DEF EndShim
  <1>1. On(h) \in SUBSET Clients
    BY DEF On
  <1>2. /\ cl' \in [Clients -> Conns]
        /\ \A x \in Clients \ On(h) : cl'[x] = cl[x]
        /\ \A x \in On(h) : cl'[x].st = "closed" /\ cl'[x].to = cl[x].to
        /\ wire' \in [Clients -> Seq(Tokens)] /\ half' \in [Clients -> Halves] /\ rd' \in [Clients -> {"hdr", "data", "resize"}]
        /\ \A x \in Clients \ Droplets : StreamOf(x)'
    BY <1>0, <1>1, Dropped
  <1>3. AttachTyped'
    <2>1. \A x \in Clients : cl'[x].st \in {"off", "dialing", "on", "closed"} /\ rd'[x] \in {"hdr", "data", "resize"}
      BY <1>2 DEF Conns
    <2> QED
      BY <2>1, <1>0, <1>2 DEF AttachInv, AttachTyped, AttachTypeOK, EndShim
  <1>4. NewestAttached'
    <2> SUFFICES ASSUME NEW g \in Shims, order'[g] # <<>>, cl'[Last(order'[g])].st = "on", cl'[Last(order'[g])].to = g
                 PROVE  hub'[g] = Last(order'[g])
      BY DEF NewestAttached
    <2>1. PICK y : y = Last(order[g])
      OBVIOUS
    <2>2. y \in Clients /\ order[g] # <<>>
      BY <1>0, <2>1 DEF AttachInv, AttachTyped, Last
    <2>3. cl'[y].st = "on" /\ cl'[y].to = g
      BY <1>0, <2>1
    <2>4. y \notin On(h) /\ cl[y] = cl'[y]
      BY <1>2, <2>2, <2>3
    <2>5. g # h
      BY <2>2, <2>3, <2>4 DEF On
    <2>6. hub[g] = y
      BY <2>1, <2>2, <2>3, <2>4 DEF AttachInv, NewestAttached
    <2> QED
      BY <1>0, <2>1, <2>5, <2>6 DEF AttachInv, AttachTyped, AttachTypeOK
  <1>5. LoneOnPath'
    BY <1>0 DEF AttachInv, AttachTyped, AttachTypeOK, LoneOnPath, EndShim, Active
  <1> QED
    BY <1>2, <1>3, <1>4, <1>5 DEF AttachInv

\* KillShim keeps AttachInv.
LEMMA KillShimKeeps ==
    ASSUME AttachInv, NEW h \in Shims, KillShim(h)
    PROVE  AttachInv'
  <1>0. UNCHANGED <<met, order, keys, typed>> /\ Drop(On(h)) /\ hub' = [hub EXCEPT ![h] = Free]
    BY DEF KillShim
  <1>1. On(h) \in SUBSET Clients
    BY DEF On
  <1>2. /\ cl' \in [Clients -> Conns]
        /\ \A x \in Clients \ On(h) : cl'[x] = cl[x]
        /\ \A x \in On(h) : cl'[x].st = "closed" /\ cl'[x].to = cl[x].to
        /\ wire' \in [Clients -> Seq(Tokens)] /\ half' \in [Clients -> Halves] /\ rd' \in [Clients -> {"hdr", "data", "resize"}]
        /\ \A x \in Clients \ Droplets : StreamOf(x)'
    BY <1>0, <1>1, Dropped
  <1>3. AttachTyped'
    <2>1. \A x \in Clients : cl'[x].st \in {"off", "dialing", "on", "closed"} /\ rd'[x] \in {"hdr", "data", "resize"}
      BY <1>2 DEF Conns
    <2> QED
      BY <2>1, <1>0, <1>2 DEF AttachInv, AttachTyped, AttachTypeOK, KillShim
  <1>4. NewestAttached'
    <2> SUFFICES ASSUME NEW g \in Shims, order'[g] # <<>>, cl'[Last(order'[g])].st = "on", cl'[Last(order'[g])].to = g
                 PROVE  hub'[g] = Last(order'[g])
      BY DEF NewestAttached
    <2>1. PICK y : y = Last(order[g])
      OBVIOUS
    <2>2. y \in Clients /\ order[g] # <<>>
      BY <1>0, <2>1 DEF AttachInv, AttachTyped, Last
    <2>3. cl'[y].st = "on" /\ cl'[y].to = g
      BY <1>0, <2>1
    <2>4. y \notin On(h) /\ cl[y] = cl'[y]
      BY <1>2, <2>2, <2>3
    <2>5. g # h
      BY <2>2, <2>3, <2>4 DEF On
    <2>6. hub[g] = y
      BY <2>1, <2>2, <2>3, <2>4 DEF AttachInv, NewestAttached
    <2> QED
      BY <1>0, <2>1, <2>5, <2>6 DEF AttachInv, AttachTyped, AttachTypeOK
  <1>5. LoneOnPath'
    BY <1>0 DEF AttachInv, AttachTyped, AttachTypeOK, LoneOnPath, KillShim, Active
  <1> QED
    BY <1>2, <1>3, <1>4, <1>5 DEF AttachInv

\* What says who listens on the path depends on sockets and terminals alone.
LEMMA PathKept ==
    ASSUME AttachInv, UNCHANGED <<sock, term, met>>
    PROVE  LoneOnPath'
  BY DEF AttachInv, LoneOnPath, Active

\* A step of one client's connection that makes none newer.
LEMMA OneConnection ==
    ASSUME AttachInv, NEW x \in Clients, NEW d \in Conns, cl' = [cl EXCEPT ![x] = d], UNCHANGED <<hub, order>>,
           d.st = "on" => cl[x].st = "on" /\ d.to = cl[x].to
    PROVE  /\ cl' \in [Clients -> Conns] /\ cl'[x] = d /\ \A y \in Clients \ {x} : cl'[y] = cl[y]
           /\ \A y \in Clients : cl'[y].st \in {"off", "dialing", "on", "closed"}
           /\ NewestAttached'
  <1>1. cl \in [Clients -> Conns] /\ order \in [Shims -> Seq(Clients)]
    BY DEF AttachInv, AttachTyped
  <1>2. cl' \in [Clients -> Conns] /\ cl'[x] = d /\ \A y \in Clients \ {x} : cl'[y] = cl[y]
    BY <1>1
  <1>3. \A y \in Clients : cl'[y].st \in {"off", "dialing", "on", "closed"}
    BY <1>2 DEF Conns
  <1>4. ASSUME NEW g \in Shims, order[g] # <<>>, cl'[Last(order[g])].st = "on", cl'[Last(order[g])].to = g
        PROVE  hub[g] = Last(order[g])
    <2>1. PICK y \in Clients : y = Last(order[g])
      BY <1>1, <1>4 DEF Last
    <2>2. cl[y].st = "on" /\ cl[y].to = g
      BY <2>1, <1>2, <1>4
    <2> QED
      BY <2>1, <2>2, <1>4 DEF AttachInv, NewestAttached
  <1>5. NewestAttached'
    BY <1>4 DEF NewestAttached
  <1> QED
    BY <1>2, <1>3, <1>5

\* Connect keeps AttachInv.
LEMMA ConnectKeeps ==
    ASSUME AttachInv, NEW x \in Clients, Connect(x)
    PROVE  AttachInv'
  <1>0. UNCHANGED <<sock, term, met, hub, order, keys, half, wire, rd, typed>> /\ cl[x].st = "off"
    BY DEF Connect, streams
  <1>1. PICK d : d = [cl[x] EXCEPT !.st = "dialing"]
    OBVIOUS
  <1>2. d \in Conns /\ d.st = "dialing" /\ cl' = [cl EXCEPT ![x] = d]
    BY <1>1 DEF AttachInv, AttachTyped, Conns, Connect
  <1>3. /\ cl' \in [Clients -> Conns] /\ cl'[x] = d /\ \A y \in Clients \ {x} : cl'[y] = cl[y]
        /\ \A y \in Clients : cl'[y].st \in {"off", "dialing", "on", "closed"}
        /\ NewestAttached'
    BY <1>0, <1>2, OneConnection
  <1>4. AttachTyped'
    BY <1>0, <1>3 DEF AttachInv, AttachTyped, AttachTypeOK
  <1>5. ASSUME NEW y \in Clients \ Droplets PROVE StreamOf(y)'
    <2>1. StreamOf(y)
      BY DEF AttachInv
    <2>2. CASE y = x
      BY <2>1, <2>2, <1>0, <1>2, <1>3 DEF StreamOf, Stream
    <2>3. CASE y # x
      BY <2>1, <2>3, <1>0, <1>3 DEF StreamOf
    <2> QED
      BY <2>2, <2>3
  <1> QED
    BY <1>0, <1>3, <1>4, <1>5, PathKept DEF AttachInv

\* The relay's retries and its giving up.
LEMMA DialAgainKeeps ==
    ASSUME AttachInv, NEW x \in Clients, DialAgain(x)
    PROVE  AttachInv'
  <1>0. UNCHANGED <<sock, term, met, hub, order, keys, half, wire, rd, typed>> /\ cl[x].st = "dialing"
    BY DEF DialAgain, streams
  <1>1. PICK s \in {"closed", "dialing"} : cl' = [cl EXCEPT ![x].tries = @ + 1, ![x].st = s]
    BY DEF DialAgain
  <1>2. PICK d : d = [cl[x] EXCEPT !.tries = cl[x].tries + 1, !.st = s]
    OBVIOUS
  <1>3. d \in Conns /\ d.st = s /\ cl' = [cl EXCEPT ![x] = d]
    <2>1. cl \in [Clients -> Conns]
      BY DEF AttachInv, AttachTyped
    <2>2. cl[x] \in Conns
      BY <2>1
    <2>3. d \in Conns /\ d.st = s
      <3>1. PICK n \in Nat : n = cl[x].tries + 1
        BY <2>2 DEF Conns
      <3>2. d = [cl[x] EXCEPT !.tries = n, !.st = s]
        BY <1>2, <3>1
      <3> QED
        BY <3>2, <2>2 DEF Conns
    <2>4. cl' = [cl EXCEPT ![x] = [cl[x] EXCEPT !.tries = cl[x].tries + 1, !.st = s]]
      BY <1>1, <2>1
    <2> QED
      BY <1>2, <2>3, <2>4
  <1>4. /\ cl' \in [Clients -> Conns] /\ cl'[x] = d /\ \A y \in Clients \ {x} : cl'[y] = cl[y]
        /\ \A y \in Clients : cl'[y].st \in {"off", "dialing", "on", "closed"}
        /\ NewestAttached'
    BY <1>0, <1>1, <1>3, OneConnection
  <1>5. AttachTyped'
    BY <1>0, <1>4 DEF AttachInv, AttachTyped, AttachTypeOK
  <1>6. ASSUME NEW y \in Clients \ Droplets PROVE StreamOf(y)'
    <2>1. StreamOf(y)
      BY DEF AttachInv
    <2>2. CASE y = x
      BY <2>1, <2>2, <1>0, <1>1, <1>3, <1>4 DEF StreamOf, Stream
    <2>3. CASE y # x
      BY <2>1, <2>3, <1>0, <1>4 DEF StreamOf
    <2> QED
      BY <2>2, <2>3
  <1> QED
    BY <1>0, <1>4, <1>5, <1>6, PathKept DEF AttachInv

\* An older connection's end takes the newer one's place away from nobody.
LEMMA DetachKeeps ==
    ASSUME AttachInv, NEW x \in Clients, Detach(x)
    PROVE  AttachInv'
  <1>0. UNCHANGED <<sock, term, met, order, keys, half, wire, rd, typed>> /\ cl[x].st = "closed" /\ cl[x].to # Free
    BY DEF Detach, streams
  <1>1. cl \in [Clients -> Conns] /\ order \in [Shims -> Seq(Clients)] /\ hub \in [Shims -> Clients \cup {Free}]
    BY DEF AttachInv, AttachTyped, AttachTypeOK
  <1>2. cl[x].to \in Shims
    BY <1>0, <1>1 DEF Conns
  <1>3. PICK d : d = [cl[x] EXCEPT !.to = Free]
    OBVIOUS
  <1>4. d \in Conns /\ d.st = "closed" /\ cl' = [cl EXCEPT ![x] = d]
    BY <1>0, <1>1, <1>3 DEF Conns, Detach
  <1>5. cl' \in [Clients -> Conns] /\ cl'[x] = d /\ \A y \in Clients \ {x} : cl'[y] = cl[y]
    BY <1>1, <1>4
  <1>6. hub' = [hub EXCEPT ![cl[x].to] = IF @ = x THEN Free ELSE @]
    BY DEF Detach
  <1>7. AttachTyped'
    <2>1. hub' \in [Shims -> Clients \cup {Free}]
      BY <1>1, <1>2, <1>6
    <2>2. \A y \in Clients : cl'[y].st \in {"off", "dialing", "on", "closed"}
      BY <1>5 DEF Conns
    <2> QED
      BY <2>1, <2>2, <1>0, <1>5 DEF AttachInv, AttachTyped, AttachTypeOK
  <1>8. NewestAttached'
    <2> SUFFICES ASSUME NEW g \in Shims, order[g] # <<>>, cl'[Last(order[g])].st = "on", cl'[Last(order[g])].to = g
                 PROVE  hub'[g] = Last(order[g])
      BY <1>0 DEF NewestAttached
    <2>1. PICK y \in Clients : y = Last(order[g])
      BY <1>1 DEF Last
    <2>2. y # x /\ cl[y] = cl'[y]
      BY <2>1, <1>4, <1>5
    <2>3. hub[g] = y
      BY <2>1, <2>2 DEF AttachInv, NewestAttached
    <2> QED
      BY <2>1, <2>2, <2>3, <1>1, <1>2, <1>6
  <1>9. \A y \in Clients : cl'[y].st = cl[y].st
    BY <1>0, <1>4, <1>5
  <1> QED
    BY <1>0, <1>7, <1>8, <1>9, PathKept, StreamsKept DEF AttachInv

\* A new connection takes the place of the one before it.
LEMMA DialKeeps ==
    ASSUME AttachInv, NEW x \in Clients, Dial(x)
    PROVE  AttachInv'
  <1>0. /\ UNCHANGED <<sock, term, met, keys, typed>> /\ cl[x].st = "dialing"
        /\ hub' = [hub EXCEPT ![sock] = x] /\ order' = [order EXCEPT ![sock] = Append(@, x)]
    BY DEF Dial
  <1>1. /\ cl \in [Clients -> Conns] /\ order \in [Shims -> Seq(Clients)] /\ hub \in [Shims -> Clients \cup {Free}]
        /\ wire \in [Clients -> Seq(Tokens)] /\ half \in [Clients -> Halves] /\ rd \in [Clients -> {"hdr", "data", "resize"}]
    BY DEF AttachInv, AttachTyped, AttachTypeOK
  <1>2. PICK s \in Shims : s = sock
    BY DEF Dial, AttachInv, AttachTyped, AttachTypeOK
  <1>3. PICK old : old = hub[s]
    OBVIOUS
  <1>4. PICK d : d = [cl[x] EXCEPT !.st = "on", !.to = s]
    OBVIOUS
  <1>5. d \in Conns /\ d.st = "on" /\ d.to = s
    BY <1>1, <1>4 DEF Conns
  <1>6. \A y \in Clients : Closed(y) \in Conns /\ Closed(y).st = "closed"
    BY <1>1 DEF Closed, Conns
  <1>7. cl' = [y \in Clients |-> IF y = x THEN d ELSE IF y = old THEN Closed(y) ELSE cl[y]]
    BY <1>2, <1>3, <1>4 DEF Dial
  <1>8. /\ cl' \in [Clients -> Conns] /\ cl'[x] = d
        /\ \A y \in Clients \ {x} : y = old => cl'[y].st = "closed"
        /\ \A y \in Clients \ {x} : y # old => cl'[y] = cl[y]
    BY <1>1, <1>5, <1>6, <1>7
  <1>9. /\ wire' = [y \in Clients |-> IF y \in {old} \ {Free} THEN <<>> ELSE wire[y]]
        /\ half' = [y \in Clients |-> IF y \in {old} \ {Free} THEN NoHalf ELSE half[y]]
        /\ rd' = [y \in Clients |-> IF y \in {old} \ {Free} THEN "hdr" ELSE rd[y]]
    BY <1>2, <1>3 DEF Dial, Lost, NoHalf
  <1>10. NoHalf \in Halves
    BY DEF NoHalf, Halves
  <1>11. AttachTyped'
    <2>1. wire' \in [Clients -> Seq(Tokens)] /\ half' \in [Clients -> Halves] /\ rd' \in [Clients -> {"hdr", "data", "resize"}]
      BY <1>1, <1>9, <1>10
    <2>2. order' \in [Shims -> Seq(Clients)] /\ hub' \in [Shims -> Clients \cup {Free}]
      BY <1>0, <1>1, <1>2
    <2>3. \A y \in Clients : cl'[y].st \in {"off", "dialing", "on", "closed"} /\ rd'[y] \in {"hdr", "data", "resize"}
      BY <2>1, <1>8 DEF Conns
    <2> QED
      BY <1>0, <1>8, <2>1, <2>2, <2>3 DEF AttachInv, AttachTyped, AttachTypeOK
  <1>12. NewestAttached'
    <2> SUFFICES ASSUME NEW g \in Shims, order'[g] # <<>>, cl'[Last(order'[g])].st = "on", cl'[Last(order'[g])].to = g
                 PROVE  hub'[g] = Last(order'[g])
      BY DEF NewestAttached
    <2>1. CASE g = s
      <3>1. order'[g] = Append(order[g], x) /\ hub'[g] = x
        BY <2>1, <1>0, <1>1, <1>2
      <3>2. Last(Append(order[g], x)) = x
        <4>1. order[g] \in Seq(Clients)
          BY <1>1
        <4> QED
          BY <4>1 DEF Last
      <3> QED
        BY <3>1, <3>2
    <2>2. CASE g # s
      <3>1. order'[g] = order[g] /\ hub'[g] = hub[g]
        BY <2>2, <1>0, <1>1, <1>2
      <3>2. PICK y \in Clients : y = Last(order[g])
        BY <3>1, <1>1 DEF Last
      <3>3. cl'[y].st = "on" /\ cl'[y].to = g
        BY <3>1, <3>2
      <3>4. y # x /\ y # old /\ cl'[y] = cl[y]
        BY <2>2, <3>3, <1>5, <1>8
      <3> QED
        BY <3>1, <3>2, <3>3, <3>4 DEF AttachInv, NewestAttached
    <2> QED
      BY <2>1, <2>2
  <1>13. ASSUME NEW y \in Clients \ Droplets PROVE StreamOf(y)'
    <2>1. StreamOf(y) /\ typed'[y] = typed[y] /\ keys'[y] = keys[y]
      BY <1>0 DEF AttachInv
    <2>2. y # Free
      BY AttachAssumption
    <2>3. CASE y = x
      <3>1. Stream("dialing", half[y], wire[y], rd[y], typed[y], keys[y])
        BY <2>1, <2>3, <1>0 DEF StreamOf
      <3>2. half[y] = NoHalf /\ wire[y] = <<>> /\ rd[y] = "hdr"
        BY <3>1 DEF Stream
      <3>3. half'[y] = NoHalf /\ wire'[y] = <<>> /\ rd'[y] = "hdr" /\ cl'[y].st = "on"
        BY <2>3, <3>2, <1>5, <1>8, <1>9
      <3> QED
        BY <2>1, <3>1, <3>3, NewStream DEF StreamOf
    <2>4. CASE y # x /\ y = old
      <3>1. half'[y] = NoHalf /\ wire'[y] = <<>> /\ rd'[y] = "hdr" /\ cl'[y].st = "closed"
        BY <2>2, <2>4, <1>8, <1>9
      <3> QED
        BY <2>1, <3>1, ClosedStream DEF StreamOf
    <2>5. CASE y # x /\ y # old
      <3>1. half'[y] = half[y] /\ wire'[y] = wire[y] /\ rd'[y] = rd[y] /\ cl'[y] = cl[y]
        BY <2>5, <1>8, <1>9
      <3> QED
        BY <2>1, <3>1 DEF StreamOf
    <2> QED
      BY <2>3, <2>4, <2>5
  <1> QED
    BY <1>0, <1>11, <1>12, <1>13, PathKept DEF AttachInv

\* A step of one client's stream, on a connection that stays as it is.
LEMMA OneStream ==
    ASSUME AttachInv, NEW x \in Clients, NEW ts \in Seq(Tokens), NEW hf \in Halves, NEW r \in {"hdr", "data", "resize"},
           NEW ty \in Seq(Texts), NEW ks \in Seq(Keys),
           wire' = [wire EXCEPT ![x] = ts], half' = [half EXCEPT ![x] = hf], rd' = [rd EXCEPT ![x] = r],
           typed' = [typed EXCEPT ![x] = ty], keys' = [keys EXCEPT ![x] = ks],
           UNCHANGED <<sock, term, met, hub, order>>,
           NewestAttached', cl' \in [Clients -> Conns], \A y \in Clients \ {x} : cl'[y] = cl[y],
           x \notin Droplets => Stream(cl'[x].st, hf, ts, r, ty, ks)
    PROVE  AttachInv'
  <1>1. /\ wire \in [Clients -> Seq(Tokens)] /\ half \in [Clients -> Halves] /\ rd \in [Clients -> {"hdr", "data", "resize"}]
        /\ typed \in [Clients -> Seq(Texts)] /\ keys \in [Clients -> Seq(Keys)]
    BY DEF AttachInv, AttachTyped, Texts
  <1>2. /\ wire' \in [Clients -> Seq(Tokens)] /\ half' \in [Clients -> Halves] /\ rd' \in [Clients -> {"hdr", "data", "resize"}]
        /\ typed' \in [Clients -> Seq(Texts)] /\ keys' \in [Clients -> Seq(Keys)]
    BY <1>1
  <1>3. \A y \in Clients : cl'[y].st \in {"off", "dialing", "on", "closed"} /\ rd'[y] \in {"hdr", "data", "resize"}
    BY <1>2 DEF Conns
  <1>4. AttachTyped'
    BY <1>2, <1>3 DEF AttachInv, AttachTyped, AttachTypeOK, Texts
  <1>5. ASSUME NEW y \in Clients \ Droplets PROVE StreamOf(y)'
    <2>1. CASE y = x
      <3>1. wire'[y] = ts /\ half'[y] = hf /\ rd'[y] = r /\ typed'[y] = ty /\ keys'[y] = ks
        BY <2>1, <1>1
      <3> QED
        BY <2>1, <3>1 DEF StreamOf
    <2>2. CASE y # x
      <3>1. /\ wire'[y] = wire[y] /\ half'[y] = half[y] /\ rd'[y] = rd[y] /\ typed'[y] = typed[y] /\ keys'[y] = keys[y]
            /\ cl'[y] = cl[y]
        BY <2>2, <1>1
      <3>2. StreamOf(y)
        BY DEF AttachInv
      <3> QED
        BY <3>1, <3>2 DEF StreamOf
    <2> QED
      BY <2>1, <2>2
  <1> QED
    BY <1>4, <1>5, PathKept DEF AttachInv

\* What the streams are made of, and that a stream left alone is itself.
LEMMA OfStream ==
    ASSUME AttachInv, NEW x \in Clients
    PROVE  /\ cl \in [Clients -> Conns] /\ cl[x] \in Conns
           /\ wire[x] \in Seq(Tokens) /\ half[x] \in Halves /\ rd[x] \in {"hdr", "data", "resize"}
           /\ typed[x] \in Seq(Texts) /\ keys[x] \in Seq(Keys)
           /\ wire = [wire EXCEPT ![x] = wire[x]] /\ half = [half EXCEPT ![x] = half[x]] /\ rd = [rd EXCEPT ![x] = rd[x]]
           /\ typed = [typed EXCEPT ![x] = typed[x]] /\ keys = [keys EXCEPT ![x] = keys[x]]
           /\ x \notin Droplets => Stream(cl[x].st, half[x], wire[x], rd[x], typed[x], keys[x])
           /\ NewestAttached
  BY DEF AttachInv, AttachTyped, Texts, StreamOf

\* The newest client stays the attached one while hub and clients stand still.
LEMMA NewestKept ==
    ASSUME AttachInv, UNCHANGED <<hub, order, cl>>
    PROVE  NewestAttached' /\ cl' \in [Clients -> Conns] /\ \A y \in Clients : cl'[y] = cl[y]
  BY DEF AttachInv, AttachTyped, NewestAttached

\* Only droplet's own client has a payload to write.
LEMMA WritePayloadKeeps ==
    ASSUME AttachInv, NEW x \in Clients, NEW w \in {"key", "win"}, WritePayload(x, w)
    PROVE  AttachInv'
  <1>1. /\ cl[x] \in Conns /\ wire[x] \in Seq(Tokens) /\ half[x] \in Halves /\ rd[x] \in {"hdr", "data", "resize"}
        /\ typed[x] \in Seq(Texts) /\ keys[x] \in Seq(Keys)
        /\ rd = [rd EXCEPT ![x] = rd[x]] /\ typed = [typed EXCEPT ![x] = typed[x]] /\ keys = [keys EXCEPT ![x] = keys[x]]
        /\ x \notin Droplets => Stream(cl[x].st, half[x], wire[x], rd[x], typed[x], keys[x])
    BY OfStream
  <1>2. x \in Droplets
    BY <1>1 DEF WritePayload, Stream, NoHalf
  <1>3. PICK t \in {"data", "resize"} : t = IF w = "key" THEN "data" ELSE "resize"
    OBVIOUS
  <1>4. half[x][w] \in Texts
    BY <1>1 DEF Halves, Texts, WritePayload
  <1>5. PICK ts : ts = Append(wire[x], Payload(t, half[x][w]))
    OBVIOUS
  <1>6. Payload(t, half[x][w]) \in Tokens
    BY <1>4, FrameIs
  <1>7. ts \in Seq(Tokens)
    BY <1>1, <1>5, <1>6
  <1>8. PICK hf : hf = [half[x] EXCEPT ![w] = "none"]
    OBVIOUS
  <1>9. hf \in Halves
    BY <1>1, <1>8 DEF Halves
  <1>10. wire' = [wire EXCEPT ![x] = ts] /\ half' = [half EXCEPT ![x] = hf]
    BY <1>3, <1>5, <1>8 DEF WritePayload
  <1>11. UNCHANGED <<sock, term, met, hub, order, cl, keys, rd, typed>>
    BY DEF WritePayload
  <1>12. rd' = [rd EXCEPT ![x] = rd[x]] /\ typed' = [typed EXCEPT ![x] = typed[x]] /\ keys' = [keys EXCEPT ![x] = keys[x]]
    BY <1>1, <1>11
  <1>13. NewestAttached' /\ cl' \in [Clients -> Conns] /\ \A y \in Clients : cl'[y] = cl[y]
    BY <1>11, NewestKept
  <1>14. UNCHANGED <<sock, term, met, hub, order>> /\ NewestAttached' /\ cl' \in [Clients -> Conns] /\ \A y \in Clients \ {x} : cl'[y] = cl[y]
    BY <1>11, <1>13
  <1>15. PICK r \in {"hdr", "data", "resize"}, ty \in Seq(Texts), ks \in Seq(Keys) :
           rd' = [rd EXCEPT ![x] = r] /\ typed' = [typed EXCEPT ![x] = ty] /\ keys' = [keys EXCEPT ![x] = ks]
    BY <1>1, <1>12
  <1> QED
    BY <1>2, <1>7, <1>9, <1>10, <1>14, <1>15, OneStream

\* A window change, written whole by raind's client.
LEMMA ResizeKeeps ==
    ASSUME AttachInv, NEW x \in Clients, Resize(x)
    PROVE  AttachInv'
  <1>1. /\ cl[x] \in Conns /\ wire[x] \in Seq(Tokens) /\ half[x] \in Halves /\ rd[x] \in {"hdr", "data", "resize"}
        /\ typed[x] \in Seq(Texts) /\ keys[x] \in Seq(Keys)
        /\ rd = [rd EXCEPT ![x] = rd[x]] /\ typed = [typed EXCEPT ![x] = typed[x]] /\ keys = [keys EXCEPT ![x] = keys[x]]
        /\ half = [half EXCEPT ![x] = half[x]]
        /\ x \notin Droplets => Stream(cl[x].st, half[x], wire[x], rd[x], typed[x], keys[x])
    BY OfStream
  <1>2. UNCHANGED <<sock, term, met, hub, order, cl, keys, rd, typed>> /\ cl[x].st = "on"
    BY DEF Resize
  <1>3. rd' = [rd EXCEPT ![x] = rd[x]] /\ typed' = [typed EXCEPT ![x] = typed[x]] /\ keys' = [keys EXCEPT ![x] = keys[x]]
    BY <1>1, <1>2
  <1>4. /\ UNCHANGED <<sock, term, met, hub, order>> /\ NewestAttached' /\ cl' \in [Clients -> Conns]
        /\ cl'[x].st = "on" /\ \A y \in Clients \ {x} : cl'[y] = cl[y]
    BY <1>2, NewestKept
  <1>5. PICK r \in {"hdr", "data", "resize"}, ty \in Seq(Texts), ks \in Seq(Keys) :
          /\ rd' = [rd EXCEPT ![x] = r] /\ typed' = [typed EXCEPT ![x] = ty] /\ keys' = [keys EXCEPT ![x] = ks]
          /\ r = rd[x] /\ ty = typed[x] /\ ks = keys[x]
    BY <1>1, <1>3
  <1>6. "r" \in Texts
    BY DEF Texts
  <1>7. CASE x \in Droplets
    <2>1. PICK ts : ts = Append(wire[x], Header("resize"))
      OBVIOUS
    <2>2. ts \in Seq(Tokens)
      BY <2>1, <1>1, <1>6, FrameIs
    <2>3. PICK hf : hf = [half[x] EXCEPT !["win"] = "r"]
      OBVIOUS
    <2>4. hf \in Halves
      BY <2>3, <1>1 DEF Halves
    <2>5. wire' = [wire EXCEPT ![x] = ts] /\ half' = [half EXCEPT ![x] = hf]
      BY <2>1, <2>3, <1>7 DEF Resize, WriteFrame
    <2> QED
      BY <1>4, <1>7, <1>5, <2>2, <2>4, <2>5, OneStream
  <1>8. CASE x \notin Droplets
    <2>1. PICK ts : ts = wire[x] \o Frame("resize", "r")
      OBVIOUS
    <2>2. ts \in Seq(Tokens)
      <3>1. PICK n \in Nat : n = Len(wire[x])
        BY <1>1, LenProperties
      <3>2. Longer(wire[x] \o Frame("resize", "r"), wire[x], n, "resize", "r")
        BY <3>1, <1>1, <1>6, Added
      <3> QED
        BY <2>1, <3>2 DEF Longer
    <2>3. wire' = [wire EXCEPT ![x] = ts] /\ half' = [half EXCEPT ![x] = half[x]]
      BY <2>1, <1>1, <1>8 DEF Resize, WriteFrame, Frame
    <2>4. PICK n \in Nat : n = Len(typed[x])
      BY <1>1, LenProperties
    <2>5. Framed(rd[x], wire[x]) /\ Underway(wire[x], n, keys[x]) /\ half[x] = NoHalf /\ Arrived(typed[x], keys[x])
      BY <1>1, <1>2, <1>8, <2>4 DEF Stream
    <2>6. Framed(rd[x], ts)
      BY <2>1, <2>5, <1>1, <1>6, FramesAdded
    <2>7. Underway(ts, n, keys[x])
      BY <2>1, <2>5, <1>1, ResizeUnderway
    <2>8. Stream("on", half[x], ts, rd[x], typed[x], keys[x])
      BY <2>4, <2>5, <2>6, <2>7 DEF Stream
    <2>9. PICK hf \in Halves : half' = [half EXCEPT ![x] = hf] /\ Stream("on", hf, ts, r, ty, ks)
      BY <2>3, <2>8, <1>1, <1>5
    <2>10. PICK us \in Seq(Tokens) : wire' = [wire EXCEPT ![x] = us] /\ Stream("on", hf, us, r, ty, ks)
      BY <2>2, <2>3, <2>9
    <2>11. Stream(cl'[x].st, hf, us, r, ty, ks)
      BY <1>4, <2>10
    <2>12. /\ wire' = [wire EXCEPT ![x] = us] /\ half' = [half EXCEPT ![x] = hf] /\ rd' = [rd EXCEPT ![x] = r]
           /\ typed' = [typed EXCEPT ![x] = ty] /\ keys' = [keys EXCEPT ![x] = ks]
      BY <1>5, <2>9, <2>10
    <2> QED
      BY <1>4, <2>11, <2>12, OneStream
  <1> QED
    BY <1>7, <1>8

\* A key typed leaves what has arrived a beginning of what was typed.
LEMMA KeyTyped ==
    ASSUME NEW ty \in Seq(Texts), NEW ks \in Seq(Keys), NEW b \in Keys, Arrived(ty, ks)
    PROVE  Arrived(ty, Append(ks, b))
  <1>1. PICK kt : kt = Append(ks, b)
    OBVIOUS
  <1>2. PICK k \in Nat, n \in Nat : k = Len(ks) /\ n = Len(ty)
    BY LenProperties
  <1>3. Len(kt) = k + 1 /\ \A j \in 1 .. k : kt[j] = ks[j]
    BY <1>1, <1>2
  <1>4. n <= k /\ \A j \in 1 .. n : ty[j] = ks[j]
    BY <1>2 DEF Arrived
  <1>5. \A j \in 1 .. n : ty[j] = kt[j]
    BY <1>3, <1>4
  <1> QED
    BY <1>1, <1>2, <1>3, <1>4, <1>5 DEF Arrived

\* The next key typed may arrive.
LEMMA KeyArrives ==
    ASSUME NEW ty \in Seq(Texts), NEW ks \in Seq(Keys), NEW v \in Texts, Arrived(ty, ks),
           NEW n \in Nat, n = Len(ty), n + 1 <= Len(ks), v = ks[n + 1]
    PROVE  Arrived(Append(ty, v), ks)
  <1>1. PICK tu : tu = Append(ty, v)
    OBVIOUS
  <1>2. PICK k \in Nat : k = Len(ks)
    BY LenProperties
  <1>3. Len(tu) = n + 1 /\ tu[n + 1] = v /\ \A j \in 1 .. n : tu[j] = ty[j]
    BY <1>1
  <1>4. \A j \in 1 .. n : ty[j] = ks[j]
    BY DEF Arrived
  <1>5. \A j \in 1 .. n + 1 : tu[j] = ks[j]
    BY <1>3, <1>4
  <1> QED
    BY <1>1, <1>3, <1>5 DEF Arrived

\* A key of raind's client: kept back, the end of the connection, or a frame.
LEMMA KeyKeeps ==
    ASSUME AttachInv, NEW x \in Clients, NEW b \in Keys, Key(x, b)
    PROVE  AttachInv'
  <1>1. /\ cl \in [Clients -> Conns] /\ cl[x] \in Conns /\ wire[x] \in Seq(Tokens) /\ half[x] \in Halves
        /\ rd[x] \in {"hdr", "data", "resize"} /\ typed[x] \in Seq(Texts) /\ keys[x] \in Seq(Keys)
        /\ wire = [wire EXCEPT ![x] = wire[x]] /\ half = [half EXCEPT ![x] = half[x]] /\ rd = [rd EXCEPT ![x] = rd[x]]
        /\ typed = [typed EXCEPT ![x] = typed[x]] /\ keys = [keys EXCEPT ![x] = keys[x]]
        /\ x \notin Droplets => Stream(cl[x].st, half[x], wire[x], rd[x], typed[x], keys[x])
    BY OfStream
  <1>2. UNCHANGED <<sock, term, met, hub, order, typed>> /\ cl[x].st = "on"
    BY DEF Key
  <1>3. UNCHANGED <<sock, term, met, hub, order>>
    BY <1>2
  <1>4. PICK ty \in Seq(Texts), r \in {"hdr", "data", "resize"}, ks \in Seq(Keys) :
          typed' = [typed EXCEPT ![x] = ty] /\ ty = typed[x] /\ r = rd[x] /\ ks = keys[x]
    BY <1>1, <1>2
  <1>5. PICK kt \in Seq(Keys) : kt = Append(ks, b)
    BY AppendProperties
  <1>6. x \notin Droplets => Arrived(ty, kt)
    BY <1>1, <1>4, <1>5, KeyTyped DEF Stream
  <1>7. CASE x \notin Droplets /\ b = "P"
    <2>1. PICK d : d = [cl[x] EXCEPT !.p = TRUE]
      OBVIOUS
    <2>2. d \in Conns /\ d.st = "on" /\ d.to = cl[x].to /\ cl' = [cl EXCEPT ![x] = d]
      BY <2>1, <1>1, <1>2, <1>7 DEF Key, Conns
    <2>3. cl' \in [Clients -> Conns] /\ cl'[x] = d /\ (\A y \in Clients \ {x} : cl'[y] = cl[y]) /\ NewestAttached'
      BY <2>2, <1>2, <1>3, OneConnection
    <2>4. UNCHANGED <<wire, half, rd, keys>>
      BY <1>7 DEF Key
    <2>5. PICK ts \in Seq(Tokens), hf \in Halves : ts = wire[x] /\ hf = half[x]
      BY <1>1
    <2>6. Stream("on", hf, ts, r, ty, ks)
      BY <2>5, <1>1, <1>2, <1>4, <1>7
    <2>7. Stream(cl'[x].st, hf, ts, r, ty, ks)
      BY <2>2, <2>3, <2>6
    <2>8. /\ wire' = [wire EXCEPT ![x] = ts] /\ half' = [half EXCEPT ![x] = hf] /\ rd' = [rd EXCEPT ![x] = r]
          /\ typed' = [typed EXCEPT ![x] = ty] /\ keys' = [keys EXCEPT ![x] = ks]
      BY <2>4, <2>5, <1>1, <1>4
    <2> QED
      BY <1>3, <2>3, <2>7, <2>8, OneStream
  <1>8. CASE x \notin Droplets /\ b = "Q" /\ cl[x].p
    <2>1. PICK d : d = Closed(x)
      OBVIOUS
    <2>2. d \in Conns /\ d.st = "closed" /\ cl' = [cl EXCEPT ![x] = d]
      BY <2>1, <1>1, <1>8 DEF Key, Conns, Closed
    <2>3. cl' \in [Clients -> Conns] /\ cl'[x] = d /\ (\A y \in Clients \ {x} : cl'[y] = cl[y]) /\ NewestAttached'
      BY <2>2, <1>3, OneConnection
    <2>4. /\ wire' = [y \in Clients |-> IF y \in {x} THEN <<>> ELSE wire[y]]
          /\ half' = [y \in Clients |-> IF y \in {x} THEN NoHalf ELSE half[y]]
          /\ rd' = [y \in Clients |-> IF y \in {x} THEN "hdr" ELSE rd[y]]
          /\ keys' = [keys EXCEPT ![x] = Append(@, b)]
      BY <1>8 DEF Key, Lost, NoHalf
    <2>5. /\ wire \in [Clients -> Seq(Tokens)] /\ half \in [Clients -> Halves] /\ rd \in [Clients -> {"hdr", "data", "resize"}]
          /\ keys \in [Clients -> Seq(Keys)]
      BY DEF AttachInv, AttachTyped
    <2>6. /\ wire' = [wire EXCEPT ![x] = <<>>] /\ half' = [half EXCEPT ![x] = NoHalf] /\ rd' = [rd EXCEPT ![x] = "hdr"]
          /\ keys' = [keys EXCEPT ![x] = kt]
      BY <2>4, <2>5, <1>4, <1>5
    <2>7. NoHalf \in Halves /\ <<>> \in Seq(Tokens)
      BY DEF NoHalf, Halves
    <2>8. Stream("closed", NoHalf, <<>>, "hdr", ty, kt)
      BY <1>6, <1>8 DEF Stream
    <2>9. PICK ts \in Seq(Tokens), hf \in Halves, q \in {"hdr", "data", "resize"} :
            /\ wire' = [wire EXCEPT ![x] = ts] /\ half' = [half EXCEPT ![x] = hf] /\ rd' = [rd EXCEPT ![x] = q]
            /\ Stream("closed", hf, ts, q, ty, kt)
      BY <2>6, <2>7, <2>8
    <2>10. Stream(cl'[x].st, hf, ts, q, ty, kt)
      BY <2>2, <2>3, <2>9
    <2>11. /\ wire' = [wire EXCEPT ![x] = ts] /\ half' = [half EXCEPT ![x] = hf] /\ rd' = [rd EXCEPT ![x] = q]
           /\ typed' = [typed EXCEPT ![x] = ty] /\ keys' = [keys EXCEPT ![x] = kt]
      BY <2>6, <2>9, <1>4
    <2> QED
      BY <1>3, <2>3, <2>10, <2>11, OneStream
  <1>9. CASE ~(x \notin Droplets /\ b = "P") /\ ~(x \notin Droplets /\ b = "Q" /\ cl[x].p)
    <2>0. /\ cl' = [cl EXCEPT ![x].p = FALSE] /\ WriteFrame(x, "key", "data", b) /\ rd' = rd
          /\ keys' = [keys EXCEPT ![x] = Append(@, b)]
      BY <1>9 DEF Key
    <2>1. PICK d : d = [cl[x] EXCEPT !.p = FALSE]
      OBVIOUS
    <2>2. d \in Conns /\ d.st = "on" /\ d.to = cl[x].to /\ cl' = [cl EXCEPT ![x] = d]
      BY <2>0, <2>1, <1>1, <1>2 DEF Conns
    <2>3. cl' \in [Clients -> Conns] /\ cl'[x] = d /\ (\A y \in Clients \ {x} : cl'[y] = cl[y]) /\ NewestAttached'
      BY <2>2, <1>2, <1>3, OneConnection
    <2>4. rd' = [rd EXCEPT ![x] = r] /\ typed' = [typed EXCEPT ![x] = ty] /\ keys' = [keys EXCEPT ![x] = kt]
      BY <2>0, <1>1, <1>4, <1>5
    <2>5. b \in Texts
      BY DEF Texts
    <2>6. CASE x \in Droplets
      <3>1. PICK ts : ts = Append(wire[x], Header("data"))
        OBVIOUS
      <3>2. ts \in Seq(Tokens)
        BY <3>1, <2>5, <1>1, FrameIs
      <3>3. PICK hf : hf = [half[x] EXCEPT !["key"] = b]
        OBVIOUS
      <3>4. hf \in Halves
        BY <3>3, <1>1 DEF Halves
      <3>5. wire' = [wire EXCEPT ![x] = ts] /\ half' = [half EXCEPT ![x] = hf]
        BY <2>0, <2>6, <3>1, <3>3 DEF WriteFrame
      <3> QED
        BY <1>3, <2>3, <2>4, <2>6, <3>2, <3>4, <3>5, OneStream
    <2>7. CASE x \notin Droplets
      <3>1. PICK ts : ts = wire[x] \o Frame("data", b)
        OBVIOUS
      <3>2. ts \in Seq(Tokens)
        <4>1. PICK n \in Nat : n = Len(wire[x])
          BY <1>1, LenProperties
        <4>2. Longer(wire[x] \o Frame("data", b), wire[x], n, "data", b)
          BY <4>1, <1>1, <2>5, Added
        <4> QED
          BY <3>1, <4>2 DEF Longer
      <3>3. wire' = [wire EXCEPT ![x] = ts] /\ half' = [half EXCEPT ![x] = half[x]]
        BY <2>0, <2>7, <3>1, <1>1 DEF WriteFrame, Frame
      <3>4. PICK n \in Nat : n = Len(ty)
        BY LenProperties
      <3>5. Framed(r, wire[x]) /\ Underway(wire[x], n, ks) /\ half[x] = NoHalf
        BY <1>1, <1>2, <1>4, <2>7, <3>4 DEF Stream
      <3>6. Framed(r, ts)
        BY <3>1, <3>5, <1>1, <2>5, FramesAdded
      <3>7. Underway(ts, n, kt)
        BY <3>1, <3>5, <1>1, <1>5, KeyUnderway
      <3>8. Stream("on", half[x], ts, r, ty, kt)
        BY <3>4, <3>5, <3>6, <3>7, <1>6, <2>7 DEF Stream
      <3>9. PICK us \in Seq(Tokens), hf \in Halves :
              /\ wire' = [wire EXCEPT ![x] = us] /\ half' = [half EXCEPT ![x] = hf]
              /\ Stream("on", hf, us, r, ty, kt)
        BY <3>2, <3>3, <3>8, <1>1
      <3>10. Stream(cl'[x].st, hf, us, r, ty, kt)
        BY <3>9, <2>2, <2>3
      <3>11. /\ wire' = [wire EXCEPT ![x] = us] /\ half' = [half EXCEPT ![x] = hf] /\ rd' = [rd EXCEPT ![x] = r]
             /\ typed' = [typed EXCEPT ![x] = ty] /\ keys' = [keys EXCEPT ![x] = kt]
        BY <2>4, <3>9
      <3> QED
        BY <1>3, <2>3, <3>10, <3>11, OneStream
    <2> QED
      BY <2>6, <2>7
  <1> QED
    BY <1>7, <1>8, <1>9

\* The shim reads a token of the stream.
LEMMA ReadTokenKeeps ==
    ASSUME AttachInv, NEW x \in Clients, ReadToken(x)
    PROVE  AttachInv'
  <1>1. /\ wire[x] \in Seq(Tokens) /\ half[x] \in Halves
        /\ rd[x] \in {"hdr", "data", "resize"} /\ typed[x] \in Seq(Texts) /\ keys[x] \in Seq(Keys)
        /\ wire = [wire EXCEPT ![x] = wire[x]] /\ half = [half EXCEPT ![x] = half[x]] /\ rd = [rd EXCEPT ![x] = rd[x]]
        /\ typed = [typed EXCEPT ![x] = typed[x]] /\ keys = [keys EXCEPT ![x] = keys[x]]
        /\ x \notin Droplets => Stream(cl[x].st, half[x], wire[x], rd[x], typed[x], keys[x])
    BY OfStream
  <1>2. UNCHANGED <<sock, term, met, hub, order, cl, keys, half>> /\ cl[x].st = "on" /\ wire[x] # <<>>
    BY DEF ReadToken
  <1>3. /\ UNCHANGED <<sock, term, met, hub, order>> /\ NewestAttached' /\ cl' \in [Clients -> Conns]
        /\ cl'[x].st = "on" /\ \A y \in Clients \ {x} : cl'[y] = cl[y]
    BY <1>2, NewestKept
  <1>4. PICK ts \in Seq(Tokens) : ts = wire[x] /\ ts # <<>>
    BY <1>1, <1>2
  <1>5. PICK r \in {"hdr", "data", "resize"}, ty \in Seq(Texts) : r = rd[x] /\ ty = typed[x]
    BY <1>1
  <1>6. PICK ks \in Seq(Keys), hf \in Halves : ks = keys[x] /\ hf = half[x]
    BY <1>1
  <1>7. /\ ts = wire[x] /\ ts # <<>> /\ r = rd[x] /\ ty = typed[x] /\ ks = keys[x] /\ hf = half[x]
        /\ half' = [half EXCEPT ![x] = hf] /\ keys' = [keys EXCEPT ![x] = ks]
    BY <1>1, <1>2, <1>4, <1>5, <1>6
  <1>8. PICK us \in Seq(Tokens) : us = Tail(ts)
    BY <1>7, Read
  <1>9. Head(ts) = ts[1] /\ ts[1] \in Tokens
    BY <1>7, Read
  <1>10. ts[1].t \in {"data", "resize"} /\ ts[1].v \in Texts
    BY <1>9 DEF Tokens, Texts
  <1>11. wire' = [wire EXCEPT ![x] = us]
    BY <1>7, <1>8 DEF ReadToken
  <1>12. PICK n \in Nat : n = Len(ty)
    BY LenProperties
  <1>13. x \notin Droplets => Framed(r, ts) /\ Underway(ts, n, ks) /\ hf = NoHalf /\ Arrived(ty, ks)
    BY <1>1, <1>2, <1>7, <1>12 DEF Stream
  <1>14. CASE r = "hdr"
    <2>1. rd' = [rd EXCEPT ![x] = ts[1].t] /\ typed' = [typed EXCEPT ![x] = ty]
      BY <1>14, <1>1, <1>7, <1>9 DEF ReadToken
    <2>2. x \notin Droplets => ts[1].tok = "hdr" /\ Framed(ts[1].t, us)
      BY <1>7, <1>8, <1>13, <1>14, FramesRead
    <2>3. x \notin Droplets => Underway(us, n, ks)
      BY <2>2, <1>7, <1>8, <1>13, ReadUnderway DEF IsKey
    <2>4. PICK q \in {"hdr", "data", "resize"} : q = ts[1].t
      BY <1>10
    <2>5. x \notin Droplets => Stream("on", hf, us, q, ty, ks)
      BY <2>2, <2>3, <2>4, <1>12, <1>13 DEF Stream
    <2>6. x \notin Droplets => Stream(cl'[x].st, hf, us, q, ty, ks)
      BY <2>5, <1>3
    <2>7. /\ wire' = [wire EXCEPT ![x] = us] /\ half' = [half EXCEPT ![x] = hf] /\ rd' = [rd EXCEPT ![x] = q]
          /\ typed' = [typed EXCEPT ![x] = ty] /\ keys' = [keys EXCEPT ![x] = ks]
      BY <2>1, <2>4, <1>7, <1>11
    <2> QED
      BY <1>3, <2>6, <2>7, OneStream
  <1>15. CASE r = "data"
    <2>1. PICK tu \in Seq(Texts) : tu = Append(ty, ts[1].v)
      BY <1>10, AppendProperties
    <2>2. rd' = [rd EXCEPT ![x] = "hdr"] /\ typed' = [typed EXCEPT ![x] = tu]
      BY <2>1, <1>15, <1>7, <1>9 DEF ReadToken
    <2>3. x \notin Droplets => IsKey(ts[1]) /\ Framed("hdr", us)
      BY <1>7, <1>8, <1>13, <1>15, FramesRead DEF IsKey
    <2>4. x \notin Droplets => n + 1 <= Len(ks) /\ ts[1].v = ks[n + 1] /\ Underway(us, n + 1, ks)
      BY <2>3, <1>7, <1>8, <1>13, ReadUnderway
    <2>5. x \notin Droplets => Arrived(tu, ks)
      BY <2>1, <2>4, <1>10, <1>12, <1>13, KeyArrives
    <2>6. Len(tu) = n + 1
      BY <2>1, <1>10, <1>12, AppendProperties
    <2>7. x \notin Droplets => Stream("on", hf, us, "hdr", tu, ks)
      BY <2>3, <2>4, <2>5, <2>6, <1>13 DEF Stream
    <2>8. x \notin Droplets => Stream(cl'[x].st, hf, us, "hdr", tu, ks)
      BY <2>7, <1>3
    <2>9. /\ wire' = [wire EXCEPT ![x] = us] /\ half' = [half EXCEPT ![x] = hf] /\ rd' = [rd EXCEPT ![x] = "hdr"]
          /\ typed' = [typed EXCEPT ![x] = tu] /\ keys' = [keys EXCEPT ![x] = ks]
      BY <2>2, <1>7, <1>11
    <2> QED
      BY <1>3, <2>8, <2>9, OneStream
  <1>16. CASE r = "resize"
    <2>1. rd' = [rd EXCEPT ![x] = "hdr"] /\ typed' = [typed EXCEPT ![x] = ty]
      BY <1>16, <1>1, <1>7 DEF ReadToken
    <2>2. x \notin Droplets => ~IsKey(ts[1]) /\ Framed("hdr", us)
      BY <1>7, <1>8, <1>13, <1>16, FramesRead DEF IsKey
    <2>3. x \notin Droplets => Underway(us, n, ks)
      BY <2>2, <1>7, <1>8, <1>13, ReadUnderway
    <2>4. x \notin Droplets => Stream("on", hf, us, "hdr", ty, ks)
      BY <2>2, <2>3, <1>12, <1>13 DEF Stream
    <2>5. x \notin Droplets => Stream(cl'[x].st, hf, us, "hdr", ty, ks)
      BY <2>4, <1>3
    <2>6. /\ wire' = [wire EXCEPT ![x] = us] /\ half' = [half EXCEPT ![x] = hf] /\ rd' = [rd EXCEPT ![x] = "hdr"]
          /\ typed' = [typed EXCEPT ![x] = ty] /\ keys' = [keys EXCEPT ![x] = ks]
      BY <2>1, <1>7, <1>11
    <2> QED
      BY <1>3, <2>5, <2>6, OneStream
  <1> QED
    BY <1>14, <1>15, <1>16

-----------------------------------------------------------------------------
(***************************************************************************)
(* The theorems                                                             *)
(***************************************************************************)
LEMMA AttachStarts == AttachInit => AttachInv
  <1> SUFFICES ASSUME AttachInit PROVE AttachInv
    OBVIOUS
  <1>1. AttachTyped
    <2>1. [st |-> "off", to |-> Free, p |-> FALSE, tries |-> 0] \in Conns /\ NoHalf \in Halves
      BY DEF Conns, NoHalf, Halves
    <2>2. cl \in [Clients -> Conns] /\ half \in [Clients -> Halves]
      BY <2>1 DEF AttachInit, NoHalf
    <2>3. \A x \in Clients : cl[x].st = "off" /\ rd[x] = "hdr"
      BY DEF AttachInit
    <2>4. sock = Free /\ term = [h \in Shims |-> "idle"] /\ met = {} /\ hub = [h \in Shims |-> Free]
      BY DEF AttachInit
    <2>5. AttachTypeOK
      BY <2>3, <2>4 DEF AttachTypeOK
    <2>6. \A S : <<>> \in Seq(S)
      OBVIOUS
    <2>7. order \in [Shims -> Seq(Clients)] /\ keys \in [Clients -> Seq(Keys)] /\ wire \in [Clients -> Seq(Tokens)]
      BY <2>6 DEF AttachInit
    <2>8. rd \in [Clients -> {"hdr", "data", "resize"}] /\ typed \in [Clients -> Seq(Keys \cup {"r", "-"})]
      BY <2>6 DEF AttachInit
    <2> QED
      BY <2>2, <2>4, <2>5, <2>7, <2>8 DEF AttachTyped
  <1>2. NewestAttached
    BY DEF AttachInit, NewestAttached
  <1>3. LoneOnPath
    BY DEF AttachInit, LoneOnPath, Active
  <1>4. ASSUME NEW x \in Clients \ Droplets PROVE StreamOf(x)
    <2>1. /\ cl[x].st = "off" /\ half[x] = NoHalf /\ wire[x] = <<>> /\ rd[x] = "hdr" /\ typed[x] = <<>> /\ keys[x] = <<>>
      BY DEF AttachInit, NoHalf
    <2>2. Arrived(<<>>, <<>>)
      BY DEF Arrived
    <2> QED
      BY <2>1, <2>2 DEF StreamOf, Stream
  <1> QED
    BY <1>1, <1>2, <1>3, <1>4 DEF AttachInv

\* The inductive invariant of attached terminals: on a raind client's
\* connection what is under way is a row of whole frames that carries exactly
\* the keys not yet typed, and a shim that met no other owns the socket path.
THEOREM AttachInvariant == AttachSpec => []AttachInv
  <1>1. ASSUME AttachInv, [AttachNext]_atVars PROVE AttachInv'
    <2>1. CASE AttachNext
      <3>1. CASE \E h \in Shims : RemoveOldSocket(h) \/ Listen(h) \/ EndShim(h) \/ KillShim(h)
        BY <1>1, <3>1, RemoveOldSocketKeeps, ListenKeeps, EndShimKeeps, KillShimKeeps
      <3>2. CASE \E x \in Clients : Connect(x) \/ Dial(x) \/ DialAgain(x) \/ Detach(x) \/ Resize(x) \/ ReadToken(x)
        BY <1>1, <3>2, ConnectKeeps, DialKeeps, DialAgainKeeps, DetachKeeps, ResizeKeeps, ReadTokenKeeps
      <3>3. CASE \E x \in Clients, b \in Keys : Key(x, b)
        BY <1>1, <3>3, KeyKeeps
      <3>4. CASE \E x \in Clients, w \in {"key", "win"} : WritePayload(x, w)
        BY <1>1, <3>4, WritePayloadKeeps
      <3> QED
        BY <2>1, <3>1, <3>2, <3>3, <3>4 DEF AttachNext
    <2>2. CASE UNCHANGED atVars
      <3>1. UNCHANGED <<sock, term, met, hub, order, cl, keys, half, wire, rd, typed>>
        BY <2>2 DEF atVars
      <3>2. AttachTyped'
        BY <1>1, <3>1 DEF AttachInv, AttachTyped, AttachTypeOK
      <3> QED
        BY <1>1, <3>1, <3>2, NewestKept, PathKept, StreamsKept DEF AttachInv
    <2> QED
      BY <1>1, <2>1, <2>2
  <1> QED
    BY <1>1, AttachStarts, PTL DEF AttachSpec

\* Attached terminals are sound for any number of clients, shims, keys and
\* kills: an older connection that ends takes nothing from the newest, frames
\* of raind's client are never torn by a window change between header and
\* payload, and a shim alone on its socket path is reachable there.
THEOREM AttachStaysSound == AttachSpec => []AttachSound
  <1>1. ASSUME AttachInv PROVE AttachSound
    <2>1. AttachTypeOK /\ NewestAttached
      BY <1>1 DEF AttachInv, AttachTyped
    <2>2. LoneShimReachable
      BY <1>1 DEF AttachInv, LoneOnPath, LoneShimReachable
    <2>3. ASSUME NEW x \in Clients \ Droplets PROVE IsPrefix(typed[x], keys[x])
      <3>1. PICK ty \in Seq(Texts), ks \in Seq(Keys) : ty = typed[x] /\ ks = keys[x]
        BY <1>1, OfStream
      <3>2. Arrived(ty, ks)
        BY <1>1, <3>1 DEF AttachInv, StreamOf, Stream
      <3>3. PICK n \in Nat, k \in Nat : n = Len(ty) /\ k = Len(ks)
        BY LenProperties
      <3>4. n <= k /\ \A j \in 1 .. n : ty[j] = ks[j]
        BY <3>2, <3>3 DEF Arrived
      <3>5. IsPrefix(ty, ks)
        BY <3>3, <3>4 DEF IsPrefix
      <3> QED
        BY <3>1, <3>5
    <2> QED
      BY <2>1, <2>2, <2>3 DEF AttachSound, StreamFramed
  <1> QED
    BY <1>1, AttachInvariant, PTL

-----------------------------------------------------------------------------
(***************************************************************************)
(* What a workload starts with: the entrypoint of a container runs the      *)
(* specification that was sealed, with its restrictions, namespaces and     *)
(* host-side set-up, for any options, number of edits and failures.         *)
(***************************************************************************)
Cfgs == [edits : 0 .. MaxEdits, shifted : BOOLEAN]
Hashes == Cfgs \cup {NoHash}
Kinds == {"host", "new", "path"}
InitProcs == [ns : [Types -> Kinds], uid : Nat, caps : SUBSET AllCaps, mnt : {"host", "mounted", "masked", "pivoted"},
          ro : BOOLEAN, nnp : BOOLEAN, seccomp : BOOLEAN, aa : BOOLEAN, named : {"none"} \cup Kinds, prejoined : BOOLEAN]

\* The types InitTypeOK leaves out.
Typed ==
    /\ InitTypeOK
    /\ opt \in Options /\ mode \in {"create", "run"} /\ torn \in BOOLEAN
    /\ got \in [{"c", "s", "i"} -> Hashes]
    /\ hostSetup \in [{"old", "new"} -> SUBSET {"cgroup", "network"}]
    /\ initProc \in InitProcs

\* How far the three processes may be apart.
InOrder ==
    /\ mode = "run" => shimAt = "none"
    /\ mode = "create" /\ shimAt = "none" => initAt = "none"
    /\ shimAt \in {"verify", "load", "start"} => initAt = "none"
    /\ shimAt # "none" \/ initAt # "none" => creator \in {"wait", "cgroup", "network", "created", "done", "failed"}
    /\ creator \in {"load", "rewrite", "rehash", "wait"} => mode = "create"
    /\ mode = "create" /\ creator \in {"wait", "cgroup", "network", "created", "done"} => shimAt # "none"

\* The pid the host side is set up for is that of the new init process, and
\* the fifo is written after all of it.
SetUp ==
    /\ creator \in {"cgroup", "network", "created", "done"} => pidfile = "new"
    /\ shimAt # "none" => pidfile \in {"none", "new"}
    /\ mode = "create" /\ shimAt # "none" /\ pidfile = "new" => shimAt = "wait"
    /\ mode = "create" /\ Prejoin /\ spec.ns["pid"] = "path" => shimAt \notin {"pid", "wait"}
    /\ creator \in {"network", "created", "done"} => "cgroup" \in hostSetup["new"]
    /\ creator \in {"created", "done"} /\ spec.ns["network"] = "new" => "network" \in hostSetup["new"]
    /\ status \in {"created", "running"} \/ execFifo = "written" => creator = "done"
    /\ initAt \in {"prepare", "exec"} => execFifo = "written"

\* What create loaded, what the hash seals and what config.json holds.
Sealed ==
    mode = "create" =>
        /\ creator = "seal" => ~cfg.shifted
        /\ creator = "check" => hash \in Cfgs /\ hash.edits <= cfg.edits /\ ~hash.shifted /\ ~cfg.shifted
        /\ creator = "load" => /\ hash \in Cfgs /\ got["c"] \in Cfgs
                         /\ hash.edits <= got["c"].edits /\ got["c"].edits <= cfg.edits
                         /\ ~hash.shifted /\ ~got["c"].shifted /\ ~cfg.shifted
        /\ creator \in {"rewrite", "rehash"} => got["c"] \in Cfgs
        /\ ~torn => /\ creator = "rehash" => cfg = got["c"]
                    /\ creator \in {"state", "fifo", "shim"} \/ shimAt # "none" => hash \in {got["c"], NoHash}
                    /\ initAt = "load" => cfg = got["c"]
                    /\ initAt \in {"consume", "fifo", "prepare", "exec"} => got["i"] = got["c"]

\* The namespaces given by path that init is started in.
Given == {t \in Types : spec.ns[t] = "path"}
JoinedBefore ==
    IF mode = "run" THEN {} ELSE IF Prejoin THEN {t \in {"mount", "network", "uts"} : spec.ns[t] = "path"} ELSE Given

Fresh == Cloned(JoinedBefore)

\* Up to its preparation init is as it was cloned.
AsCloned ==
    /\ initAt \in {"verify", "load", "consume", "fifo", "prepare"} => initProc = Fresh
    /\ initAt # "exec" => initProc.named = "none"

\* Namespaces as asked, in terms of a process of its own.
NamesOK(p) == p.named # "path"
SpacesOK(p) ==
    \A t \in Types : \/ p.ns[t] = spec.ns[t]
                     \/ mode = "run" /\ t \in {"pid", "user"}
                     \/ mode = "create" /\ Prejoin /\ t \in {"pid", "user"} /\ spec.ns[t] = "path"
RestrictedOK(p) ==
    /\ p.caps = spec.caps /\ p.uid = spec.uid /\ p.ro = spec.ro
    /\ p.nnp = spec.nnp /\ p.seccomp = spec.seccomp /\ p.mnt = "pivoted"
ReadyToExec == initAt = "exec" => NamesOK(initProc) /\ SpacesOK(initProc) /\ RestrictedOK(initProc)

InitInv == Typed /\ InOrder /\ SetUp /\ Sealed /\ AsCloned /\ ReadyToExec

-----------------------------------------------------------------------------
(***************************************************************************)
(* The specification and the process it starts from                         *)
(***************************************************************************)

\* What droplet spec builds has its types, and grants no dropped capability.
LEMMA SpecTyped ==
    ASSUME opt \in Options
    PROVE  /\ spec.ns \in [Types -> Kinds] /\ spec.caps \in SUBSET AllCaps /\ spec.uid \in Nat
           /\ spec.ro \in BOOLEAN /\ spec.nnp \in BOOLEAN /\ spec.seccomp \in BOOLEAN /\ spec.rootless \in BOOLEAN
           /\ spec.caps \cap opt.drop = {}
  <1>1. /\ opt.profile \in Profiles /\ opt.add \in SUBSET AllCaps /\ opt.uid \in Nat
        /\ opt.ro \in BOOLEAN /\ opt.rootless \in BOOLEAN
    BY InitAssumption
  <1>2. BaseCaps(opt.profile) \in SUBSET AllCaps
    BY <1>1, InitAssumption DEF BaseCaps, Profiles
  <1>3. spec.caps \in SUBSET AllCaps /\ spec.caps \cap opt.drop = {}
    BY <1>1, <1>2 DEF spec, BuildSpec, MergeCapabilities
  <1>4. spec.ns \in [Types -> Kinds]
    BY DEF spec, BuildSpec, MergeNamespaces, Kinds
  <1>5. spec.uid = opt.uid /\ spec.ro = opt.ro /\ spec.rootless = opt.rootless
    BY DEF spec, BuildSpec
  <1>6. spec.nnp = (opt.profile \in {"dev", "deploy", "restricted"})
    BY DEF spec, BuildSpec
  <1>7. spec.seccomp = Confining(opt.profile)
    BY DEF spec, BuildSpec
  <1>8. spec.nnp \in BOOLEAN /\ spec.seccomp \in BOOLEAN
    BY <1>6, <1>7 DEF Confining
  <1> QED
    BY <1>1, <1>3, <1>4, <1>5, <1>8

\* No step changes the options or the command, nor what is built from them.
LEMMA Rigid ==
    ASSUME opt' = opt, mode' = mode
    PROVE  spec' = spec /\ Prejoin' = Prejoin /\ Fresh' = Fresh
  <1>1. spec' = spec
    BY DEF spec
  <1>2. Prejoin' = Prejoin
    BY <1>1 DEF Prejoin
  <1>3. JoinedBefore' = JoinedBefore
    BY <1>1, <1>2 DEF JoinedBefore, Given
  <1> QED
    BY <1>1, <1>2, <1>3 DEF Fresh, Cloned, NoProc

\* A cloned process holds every capability and none of the restrictions; it
\* is in the new namespaces and in those it was started in.
LEMMA FreshFacts ==
    ASSUME opt \in Options
    PROVE  /\ Fresh \in InitProcs
           /\ Fresh.caps = AllCaps /\ Fresh.mnt = "host" /\ Fresh.ro = FALSE /\ Fresh.seccomp = FALSE
           /\ Fresh.named = "none" /\ Fresh.prejoined = (JoinedBefore # {})
           /\ \A t \in Types : Fresh.ns[t] = IF spec.ns[t] = "new" THEN "new"
                                              ELSE IF t \in JoinedBefore THEN "path" ELSE "host"
  <1> DEFINE ns == [t \in Types |-> IF spec.ns[t] = "new" THEN "new" ELSE IF t \in JoinedBefore THEN "path" ELSE "host"]
  <1>1. ns \in [Types -> Kinds]
    BY DEF Kinds
  <1> DEFINE joined == JoinedBefore # {}
  <1> HIDE DEF joined
  <1>2. Fresh = [ns |-> ns, uid |-> 0, caps |-> AllCaps, mnt |-> "host", ro |-> FALSE, nnp |-> FALSE,
                 seccomp |-> FALSE, aa |-> FALSE, named |-> "none", prejoined |-> joined]
    <2>1. Fresh = [NoProc EXCEPT !.ns = ns, !.prejoined = joined]
      BY DEF Fresh, Cloned, joined
    <2> HIDE DEF ns
    <2> QED
      BY <2>1 DEF NoProc
  <1>3. joined \in BOOLEAN
    BY DEF joined
  <1>4. Fresh \in InitProcs
    BY <1>1, <1>2, <1>3 DEF InitProcs
  <1>5. Fresh.prejoined = (JoinedBefore # {})
    BY <1>2 DEF joined
  <1> QED
    BY <1>2, <1>4, <1>5
-----------------------------------------------------------------------------
(***************************************************************************)
(* The stages of Prepare                                                    *)
(***************************************************************************)
Entered(p) ==
    /\ p \in InitProcs /\ p.ro = FALSE /\ p.seccomp = FALSE /\ SpacesOK(p)
    /\ p.named = "none" /\ (spec.ns["uts"] # "path" => p.ns["uts"] # "path")
Rooted(p) ==
    /\ p \in InitProcs /\ p.ro = spec.ro /\ p.seccomp = FALSE /\ SpacesOK(p) /\ NamesOK(p) /\ p.mnt = "pivoted"

\* Joining the namespaces given by path, after the clone or after the shim
\* joined them, puts init in the namespaces the options name.
LEMMA JoinedEntered ==
    ASSUME opt \in Options, mode \in {"create", "run"}, NEW p \in JoinExisting(Fresh)
    PROVE  Entered(p)
  <1> DEFINE three == {"mount", "network", "uts"}
  <1>1. spec.ns \in [Types -> Kinds]
    BY SpecTyped
  <1>2. /\ Fresh \in InitProcs /\ Fresh.named = "none" /\ Fresh.ro = FALSE /\ Fresh.seccomp = FALSE
        /\ Fresh.prejoined = (JoinedBefore # {})
        /\ \A t \in Types : Fresh.ns[t] = IF spec.ns[t] = "new" THEN "new"
                                           ELSE IF t \in JoinedBefore THEN "path" ELSE "host"
    BY FreshFacts
  <1>3. /\ mode = "run" => JoinedBefore = {}
        /\ mode = "create" /\ Prejoin => JoinedBefore = {t \in three : spec.ns[t] = "path"} /\ JoinedBefore # {}
        /\ mode = "create" /\ ~Prejoin => JoinedBefore = {t \in Types : spec.ns[t] = "path"}
    BY DEF JoinedBefore, Given, Prejoin
  <1>4. CASE Fresh.prejoined
    <2>1. p = Fresh
      BY <1>4 DEF JoinExisting
    <2>2. SpacesOK(p)
      BY <2>1, <1>1, <1>2, <1>3, <1>4 DEF SpacesOK, Kinds, Types
    <2> QED
      BY <2>1, <2>2, <1>1, <1>2, <1>3 DEF Entered, Types
  <1>5. CASE ~Fresh.prejoined
    <2> DEFINE ns == [t \in Types |-> IF t \in three /\ spec.ns[t] = "path" THEN "path" ELSE Fresh.ns[t]]
    <2>1. p = [Fresh EXCEPT !.ns = ns]
      BY <1>5 DEF JoinExisting
    <2>2. Fresh.ns \in [Types -> Kinds]
      BY <1>2 DEF InitProcs
    <2>3. ns \in [Types -> Kinds]
      BY <2>2 DEF Kinds
    <2>4. \A t \in Types : ns[t] = IF t \in three /\ spec.ns[t] = "path" THEN "path"
                                   ELSE IF spec.ns[t] = "new" THEN "new" ELSE "host"
      BY <1>2, <1>5
    <2>5. p \in InitProcs /\ p.ns = ns /\ p.named = "none" /\ p.ro = FALSE /\ p.seccomp = FALSE
      <3> HIDE DEF ns
      <3> QED
        BY <2>1, <2>3, <1>2 DEF InitProcs
    <2>6. SpacesOK(p)
      <3>1. ASSUME mode = "create" PROVE ~Prejoin /\ \A t \in Types : spec.ns[t] # "path"
        BY <3>1, <1>2, <1>3, <1>5
      <3> HIDE DEF ns
      <3> QED
        BY <3>1, <2>4, <2>5, <1>1 DEF SpacesOK, Kinds, Types
    <2> HIDE DEF ns
    <2> QED
      BY <2>4, <2>5, <2>6 DEF Entered, Types
  <1> QED
    BY <1>4, <1>5

\* Switching to root of the user namespace leaves the namespaces as they were entered.
LEMMA SwitchedEntered ==
    ASSUME NEW p, Entered(p), NEW q \in SwitchToUserNamespaceRoot(p)
    PROVE  Entered(q)
  <1>1. q = [p EXCEPT !.uid = 0] /\ p \in InitProcs
    BY DEF SwitchToUserNamespaceRoot, Entered
  <1>2. q \in InitProcs /\ q.ns = p.ns /\ q.ro = p.ro /\ q.seccomp = p.seccomp /\ q.named = p.named
    BY <1>1 DEF InitProcs
  <1> QED
    BY <1>2 DEF Entered, SpacesOK

\* The host name is set in no namespace given by path, and the root is made,
\* masked, entered and, last, made read-only.
LEMMA RootRooted ==
    ASSUME opt \in Options, NEW p, Entered(p), NEW q \in Root(p)
    PROVE  Rooted(q)
  <1>0. spec.ns \in [Types -> Kinds] /\ spec.ro \in BOOLEAN
    BY SpecTyped
  <1>1. PICK n \in SetHostname(p) : \E m \in MountRootfs(n) : \E k \in ApplyPathMasks(m) : \E r \in Pivot(k) :
            q \in MakeReadonly(r)
    BY DEF Root
  <1>2. PICK m \in MountRootfs(n) : \E k \in ApplyPathMasks(m) : \E r \in Pivot(k) : q \in MakeReadonly(r)
    BY <1>1
  <1>3. PICK k \in ApplyPathMasks(m) : \E r \in Pivot(k) : q \in MakeReadonly(r)
    BY <1>2
  <1>4. PICK r \in Pivot(k) : q \in MakeReadonly(r)
    BY <1>3
  <1>5. n \in InitProcs /\ n.ns = p.ns /\ n.ro = FALSE /\ n.seccomp = FALSE /\ n.named # "path"
    <2>1. p \in InitProcs /\ p.named = "none" /\ p.ro = FALSE /\ p.seccomp = FALSE
      BY DEF Entered
    <2>2. CASE n = p
      BY <2>1, <2>2
    <2>3. CASE spec.ns["uts"] # "path" /\ n = [p EXCEPT !.named = p.ns["uts"]]
      <3>1. p.ns["uts"] \in Kinds /\ p.ns["uts"] # "path"
        BY <2>1, <2>3 DEF InitProcs, Entered, Types
      <3> QED
        BY <3>1, <2>1, <2>3 DEF InitProcs
    <2> QED
      BY <2>2, <2>3 DEF SetHostname
  <1>6. m \in InitProcs /\ m.ns = p.ns /\ m.ro = FALSE /\ m.seccomp = FALSE /\ m.named # "path"
    <2>1. m = [n EXCEPT !.mnt = "mounted"]
      BY DEF MountRootfs
    <2> QED
      BY <2>1, <1>5 DEF InitProcs
  <1>7. k \in InitProcs /\ k.ns = p.ns /\ k.ro = FALSE /\ k.seccomp = FALSE /\ k.named # "path"
    <2>1. k = [m EXCEPT !.mnt = "masked"]
      BY DEF ApplyPathMasks
    <2> QED
      BY <2>1, <1>6 DEF InitProcs
  <1>8. r \in InitProcs /\ r.ns = p.ns /\ r.ro = FALSE /\ r.seccomp = FALSE /\ r.named # "path" /\ r.mnt = "pivoted"
    <2>1. r = [k EXCEPT !.mnt = "pivoted"]
      BY DEF Pivot
    <2> QED
      BY <2>1, <1>7 DEF InitProcs
  <1>9. q \in InitProcs /\ q.ns = p.ns /\ q.ro = spec.ro /\ q.seccomp = FALSE /\ q.named # "path" /\ q.mnt = "pivoted"
    <2>1. CASE spec.ro = FALSE /\ q = r
      BY <2>1, <1>8
    <2>2. CASE spec.ro = TRUE /\ q = [r EXCEPT !.ro = TRUE]
      BY <2>2, <1>8 DEF InitProcs
    <2> QED
      BY <1>0, <1>4, <2>1, <2>2 DEF MakeReadonly
  <1> QED
    BY <1>9 DEF Entered, Rooted, SpacesOK, NamesOK

\* Privileges are given up after the root is in place: the restrictions the
\* options ask for all hold afterwards, and nothing undoes the root.
LEMMA PrivilegesRestricted ==
    ASSUME opt \in Options, NEW p, Rooted(p), NEW q \in Privileges(p)
    PROVE  q \in InitProcs /\ SpacesOK(q) /\ NamesOK(q) /\ RestrictedOK(q)
  <1>0. /\ spec.caps \in SUBSET AllCaps /\ spec.uid \in Nat /\ spec.ro \in BOOLEAN
        /\ spec.nnp \in BOOLEAN /\ spec.seccomp \in BOOLEAN
    BY SpecTyped
  <1>1. PICK n \in SetNoNewPrivileges(p) : \E m \in InstallSeccomp(n) : \E k \in SetCapability(m) : \E r \in SetRlimits(k) :
            q \in SetProcessUser(r)
    BY DEF Privileges
  <1>2. PICK m \in InstallSeccomp(n) : \E k \in SetCapability(m) : \E r \in SetRlimits(k) : q \in SetProcessUser(r)
    BY <1>1
  <1>3. PICK k \in SetCapability(m) : \E r \in SetRlimits(k) : q \in SetProcessUser(r)
    BY <1>2
  <1>4. PICK r \in SetRlimits(k) : q \in SetProcessUser(r)
    BY <1>3
  <1>5. /\ n \in InitProcs /\ n.ns = p.ns /\ n.named = p.named /\ n.ro = spec.ro /\ n.mnt = "pivoted"
        /\ n.seccomp = FALSE /\ n.nnp = spec.nnp
    <2>1. n = [p EXCEPT !.nnp = spec.nnp]
      BY DEF SetNoNewPrivileges
    <2> QED
      BY <2>1, <1>0 DEF InitProcs, Rooted
  <1>6. /\ m \in InitProcs /\ m.ns = p.ns /\ m.named = p.named /\ m.ro = spec.ro /\ m.mnt = "pivoted"
        /\ m.seccomp = spec.seccomp /\ m.nnp = spec.nnp
    <2>1. CASE spec.seccomp = FALSE /\ m = n
      BY <2>1, <1>5
    <2>2. CASE spec.seccomp = TRUE /\ m = [n EXCEPT !.seccomp = TRUE]
      BY <2>2, <1>5 DEF InitProcs
    <2> QED
      BY <1>0, <2>1, <2>2 DEF InstallSeccomp
  <1>7. /\ k \in InitProcs /\ k.ns = p.ns /\ k.named = p.named /\ k.ro = spec.ro /\ k.mnt = "pivoted"
        /\ k.seccomp = spec.seccomp /\ k.nnp = spec.nnp /\ k.caps = spec.caps
    <2>1. k = [m EXCEPT !.caps = spec.caps]
      BY DEF SetCapability
    <2> QED
      BY <2>1, <1>0, <1>6 DEF InitProcs
  <1>8. r = k
    BY DEF SetRlimits
  <1>9. /\ q \in InitProcs /\ q.ns = p.ns /\ q.named = p.named /\ q.ro = spec.ro /\ q.mnt = "pivoted"
        /\ q.seccomp = spec.seccomp /\ q.nnp = spec.nnp /\ q.caps = spec.caps /\ q.uid = spec.uid
    <2>1. q = [k EXCEPT !.uid = spec.uid]
      BY <1>4, <1>8 DEF SetProcessUser
    <2> QED
      BY <2>1, <1>0, <1>7 DEF InitProcs
  <1> QED
    BY <1>9 DEF Rooted, SpacesOK, NamesOK, RestrictedOK

\* What leaves the stages satisfies what the entrypoint is promised.
LEMMA Prepared ==
    ASSUME opt \in Options, mode \in {"create", "run"}, initProc = Fresh, initAt' = "exec", Prepare
    PROVE  initProc' \in InitProcs /\ SpacesOK(initProc') /\ NamesOK(initProc') /\ RestrictedOK(initProc')
  <1>1. initProc' \in UNION {UNION {UNION {UNION {ApplyAppArmor(x) : x \in Privileges(q)} : q \in Root(r)}
                         : r \in SwitchToUserNamespaceRoot(j)} : j \in JoinExisting(initProc)}
    BY DEF Prepare
  <1>2. PICK j \in JoinExisting(Fresh) : \E r \in SwitchToUserNamespaceRoot(j) : \E q \in Root(r) :
            \E x \in Privileges(q) : initProc' \in ApplyAppArmor(x)
    BY <1>1
  <1>3. PICK r \in SwitchToUserNamespaceRoot(j) : \E q \in Root(r) : \E x \in Privileges(q) : initProc' \in ApplyAppArmor(x)
    BY <1>2
  <1>4. PICK q \in Root(r) : \E x \in Privileges(q) : initProc' \in ApplyAppArmor(x)
    BY <1>3
  <1>5. PICK x \in Privileges(q) : initProc' \in ApplyAppArmor(x)
    BY <1>4
  <1>6. Entered(j)
    BY JoinedEntered
  <1>7. Entered(r)
    BY <1>6, SwitchedEntered
  <1>8. Rooted(q)
    BY <1>7, RootRooted
  <1>9. x \in InitProcs /\ SpacesOK(x) /\ NamesOK(x) /\ RestrictedOK(x)
    BY <1>8, PrivilegesRestricted
  <1>10. PICK z : z = initProc'
    OBVIOUS
  <1>11. z = x \/ z = [x EXCEPT !.aa = TRUE]
    BY <1>5, <1>10 DEF ApplyAppArmor
  <1>12. /\ z \in InitProcs /\ z.ns = x.ns /\ z.named = x.named /\ z.ro = x.ro /\ z.mnt = x.mnt
         /\ z.seccomp = x.seccomp /\ z.nnp = x.nnp /\ z.caps = x.caps /\ z.uid = x.uid
    BY <1>9, <1>11 DEF InitProcs
  <1>13. SpacesOK(z) /\ NamesOK(z) /\ RestrictedOK(z)
    BY <1>9, <1>12 DEF SpacesOK, NamesOK, RestrictedOK
  <1> QED
    BY <1>10, <1>12, <1>13

-----------------------------------------------------------------------------
(***************************************************************************)
(* Every step keeps the invariant                                           *)
(***************************************************************************)
LEMMA StepFacts ==
    ASSUME InitInv
    PROVE  /\ opt \in Options /\ mode \in {"create", "run"} /\ cfg \in Cfgs /\ hash \in Hashes
           /\ NoHash \notin Cfgs /\ spec.rootless \in BOOLEAN
  <1>1. NoHash \notin Cfgs
    BY InitAssumption DEF NoHash, Cfgs
  <1> QED
    BY <1>1, SpecTyped DEF InitInv, Typed, InitTypeOK, Cfgs, Hashes

\* A step that leaves init and its process alone.
LEMMA InitUntouched ==
    ASSUME InitInv, opt' = opt, mode' = mode, initProc' = initProc, initAt' = initAt \/ (initAt # "exec" /\ initAt' = "failed")
    PROVE  AsCloned' /\ ReadyToExec'
  <1>1. spec' = spec /\ Prejoin' = Prejoin /\ Fresh' = Fresh
    BY Rigid
  <1> QED
    BY <1>1 DEF InitInv, AsCloned, ReadyToExec, SpacesOK, NamesOK, RestrictedOK

\* The first half of the seal.
LEMMA SealKeeps ==
    ASSUME InitInv, Seal
    PROVE  InitInv'
  <1>0. opt' = opt /\ mode' = mode
    BY DEF Seal
  <1>1. spec' = spec /\ Prejoin' = Prejoin /\ Fresh' = Fresh
    BY <1>0, Rigid
  <1>2. Typed'
    BY <1>0, StepFacts DEF InitInv, Typed, InitTypeOK, Cfgs, Hashes, Seal
  <1>3. InOrder'
    BY <1>0 DEF InitInv, InOrder, Typed, InitTypeOK, Seal
  <1>4. SetUp'
    BY <1>0, <1>1 DEF InitInv, SetUp, InOrder, Typed, InitTypeOK, Seal
  <1>5. Sealed'
    BY <1>0, StepFacts DEF InitInv, Sealed, InOrder, Typed, InitTypeOK, Cfgs, Hashes, Seal
  <1>6. AsCloned' /\ ReadyToExec'
    BY <1>0, InitUntouched DEF Seal
  <1> QED
    BY <1>2, <1>3, <1>4, <1>5, <1>6 DEF InitInv

\* The load between the two hashes.
LEMMA LoadSealedKeeps ==
    ASSUME InitInv, LoadSealed
    PROVE  InitInv'
  <1>0. opt' = opt /\ mode' = mode
    BY DEF LoadSealed
  <1>1. spec' = spec /\ Prejoin' = Prejoin /\ Fresh' = Fresh
    BY <1>0, Rigid
  <1>2. Typed'
    BY <1>0, StepFacts DEF InitInv, Typed, InitTypeOK, Cfgs, Hashes, LoadSealed
  <1>3. InOrder'
    BY <1>0 DEF InitInv, InOrder, Typed, InitTypeOK, LoadSealed
  <1>4. SetUp'
    BY <1>0, <1>1 DEF InitInv, SetUp, InOrder, Typed, InitTypeOK, LoadSealed
  <1>5. Sealed'
    BY <1>0, StepFacts DEF InitInv, Sealed, InOrder, Typed, InitTypeOK, Cfgs, Hashes, LoadSealed
  <1>6. AsCloned' /\ ReadyToExec'
    BY <1>0, InitUntouched DEF LoadSealed
  <1> QED
    BY <1>2, <1>3, <1>4, <1>5, <1>6 DEF InitInv

\* The second hash: what was loaded is what was sealed.
LEMMA CompareSealKeeps ==
    ASSUME InitInv, CompareSeal
    PROVE  InitInv'
  <1>0. opt' = opt /\ mode' = mode
    BY DEF CompareSeal, files
  <1>1. spec' = spec /\ Prejoin' = Prejoin /\ Fresh' = Fresh
    BY <1>0, Rigid
  <1>2. Typed'
    BY <1>0, StepFacts DEF InitInv, Typed, InitTypeOK, Cfgs, Hashes, CompareSeal, files
  <1>3. InOrder'
    BY <1>0 DEF InitInv, InOrder, Typed, InitTypeOK, CompareSeal, files
  <1>4. SetUp'
    BY <1>0, <1>1 DEF InitInv, SetUp, InOrder, Typed, InitTypeOK, CompareSeal, files
  <1>5. Sealed'
    BY <1>0, StepFacts DEF InitInv, Sealed, InOrder, Typed, InitTypeOK, Cfgs, Hashes, CompareSeal, files
  <1>6. AsCloned' /\ ReadyToExec'
    BY <1>0, InitUntouched DEF CompareSeal, files
  <1> QED
    BY <1>2, <1>3, <1>4, <1>5, <1>6 DEF InitInv

\* The rewrite of a rootless container's config.json.
LEMMA RewriteSpecKeeps ==
    ASSUME InitInv, RewriteSpec
    PROVE  InitInv'
  <1>0. opt' = opt /\ mode' = mode
    BY DEF RewriteSpec
  <1>1. spec' = spec /\ Prejoin' = Prejoin /\ Fresh' = Fresh
    BY <1>0, Rigid
  <1>2. Typed'
    <2>1. got["c"] \in Cfgs
      BY DEF InitInv, InOrder, Sealed, RewriteSpec
    <2>2. PICK x : x = [got["c"] EXCEPT !.shifted = TRUE]
      OBVIOUS
    <2>3. x \in Cfgs
      BY <2>1, <2>2 DEF Cfgs
    <2>4. cfg' = x /\ got' = [got EXCEPT !["c"] = x]
      BY <2>2 DEF RewriteSpec, InitInv, Typed
    <2>5. got' \in [{"c", "s", "i"} -> Hashes]
      BY <2>3, <2>4 DEF InitInv, Typed, Hashes
    <2>6. creator' = "rehash" /\ UNCHANGED <<hash, torn, pidfile, execFifo, shimAt, initAt, status, hostSetup, initProc>>
      BY DEF RewriteSpec
    <2> QED
      BY <1>0, <2>3, <2>4, <2>5, <2>6 DEF InitInv, Typed, InitTypeOK, Cfgs
  <1>3. InOrder'
    BY <1>0 DEF InitInv, InOrder, Typed, InitTypeOK, RewriteSpec
  <1>4. SetUp'
    BY <1>0, <1>1 DEF InitInv, SetUp, InOrder, Typed, InitTypeOK, RewriteSpec
  <1>5. Sealed'
    BY <1>0, StepFacts DEF InitInv, Sealed, InOrder, Typed, InitTypeOK, Cfgs, Hashes, RewriteSpec
  <1>6. AsCloned' /\ ReadyToExec'
    BY <1>0, InitUntouched DEF RewriteSpec
  <1> QED
    BY <1>2, <1>3, <1>4, <1>5, <1>6 DEF InitInv

\* The hash of the rewritten config.json.
LEMMA RewriteHashKeeps ==
    ASSUME InitInv, RewriteHash
    PROVE  InitInv'
  <1>0. opt' = opt /\ mode' = mode
    BY DEF RewriteHash
  <1>1. spec' = spec /\ Prejoin' = Prejoin /\ Fresh' = Fresh
    BY <1>0, Rigid
  <1>2. Typed'
    BY <1>0, StepFacts DEF InitInv, Typed, InitTypeOK, Cfgs, Hashes, RewriteHash
  <1>3. InOrder'
    BY <1>0 DEF InitInv, InOrder, Typed, InitTypeOK, RewriteHash
  <1>4. SetUp'
    BY <1>0, <1>1 DEF InitInv, SetUp, InOrder, Typed, InitTypeOK, RewriteHash
  <1>5. Sealed'
    BY <1>0, StepFacts DEF InitInv, Sealed, InOrder, Typed, InitTypeOK, Cfgs, Hashes, RewriteHash
  <1>6. AsCloned' /\ ReadyToExec'
    BY <1>0, InitUntouched DEF RewriteHash
  <1> QED
    BY <1>2, <1>3, <1>4, <1>5, <1>6 DEF InitInv

\* SaveCreating keeps InitInv.
LEMMA SaveCreatingKeeps ==
    ASSUME InitInv, SaveCreating
    PROVE  InitInv'
  <1>0. opt' = opt /\ mode' = mode
    BY DEF SaveCreating, files
  <1>1. spec' = spec /\ Prejoin' = Prejoin /\ Fresh' = Fresh
    BY <1>0, Rigid
  <1>2. Typed'
    BY <1>0, StepFacts DEF InitInv, Typed, InitTypeOK, Cfgs, Hashes, SaveCreating, files
  <1>3. InOrder'
    BY <1>0 DEF InitInv, InOrder, Typed, InitTypeOK, SaveCreating, files
  <1>4. SetUp'
    BY <1>0, <1>1 DEF InitInv, SetUp, InOrder, Typed, InitTypeOK, SaveCreating, files
  <1>5. Sealed'
    BY <1>0, StepFacts DEF InitInv, Sealed, InOrder, Typed, InitTypeOK, Cfgs, Hashes, SaveCreating, files
  <1>6. AsCloned' /\ ReadyToExec'
    BY <1>0, InitUntouched DEF SaveCreating, files
  <1> QED
    BY <1>2, <1>3, <1>4, <1>5, <1>6 DEF InitInv

\* MakeExecFifo keeps InitInv.
LEMMA MakeExecFifoKeeps ==
    ASSUME InitInv, MakeExecFifo
    PROVE  InitInv'
  <1>0. opt' = opt /\ mode' = mode
    BY DEF MakeExecFifo
  <1>1. spec' = spec /\ Prejoin' = Prejoin /\ Fresh' = Fresh
    BY <1>0, Rigid
  <1>2. Typed'
    BY <1>0, StepFacts DEF InitInv, Typed, InitTypeOK, Cfgs, Hashes, MakeExecFifo
  <1>3. InOrder'
    BY <1>0 DEF InitInv, InOrder, Typed, InitTypeOK, MakeExecFifo
  <1>4. SetUp'
    BY <1>0, <1>1 DEF InitInv, SetUp, InOrder, Typed, InitTypeOK, MakeExecFifo
  <1>5. Sealed'
    BY <1>0, StepFacts DEF InitInv, Sealed, InOrder, Typed, InitTypeOK, Cfgs, Hashes, MakeExecFifo
  <1>6. AsCloned' /\ ReadyToExec'
    BY <1>0, InitUntouched DEF MakeExecFifo
  <1> QED
    BY <1>2, <1>3, <1>4, <1>5, <1>6 DEF InitInv

\* A stale init.pid is gone before the shim starts.
LEMMA ExecuteShimKeeps ==
    ASSUME InitInv, ExecuteShim
    PROVE  InitInv'
  <1>0. opt' = opt /\ mode' = mode
    BY DEF ExecuteShim
  <1>1. spec' = spec /\ Prejoin' = Prejoin /\ Fresh' = Fresh
    BY <1>0, Rigid
  <1>2. Typed'
    BY <1>0, StepFacts DEF InitInv, Typed, InitTypeOK, Cfgs, Hashes, ExecuteShim
  <1>3. InOrder'
    BY <1>0 DEF InitInv, InOrder, Typed, InitTypeOK, ExecuteShim
  <1>4. SetUp'
    BY <1>0, <1>1 DEF InitInv, SetUp, InOrder, Typed, InitTypeOK, ExecuteShim
  <1>5. Sealed'
    BY <1>0, StepFacts DEF InitInv, Sealed, InOrder, Typed, InitTypeOK, Cfgs, Hashes, ExecuteShim
  <1>6. AsCloned' /\ ReadyToExec'
    BY <1>0, InitUntouched DEF ExecuteShim
  <1> QED
    BY <1>2, <1>3, <1>4, <1>5, <1>6 DEF InitInv

\* RunInit keeps InitInv.
LEMMA RunInitKeeps ==
    ASSUME InitInv, RunInit
    PROVE  InitInv'
  <1>0. opt' = opt /\ mode' = mode
    BY DEF RunInit
  <1>1. spec' = spec /\ Prejoin' = Prejoin /\ Fresh' = Fresh
    BY <1>0, Rigid
  <1>2. Typed'
    <2>1. initProc' \in InitProcs
      BY StepFacts, FreshFacts DEF RunInit, Fresh, JoinedBefore
    <2> QED
      BY <2>1, <1>0 DEF InitInv, Typed, InitTypeOK, InitProcs, RunInit
  <1>3. InOrder'
    BY <1>0 DEF InitInv, InOrder, Typed, InitTypeOK, RunInit
  <1>4. SetUp'
    BY <1>0, <1>1 DEF InitInv, SetUp, InOrder, Typed, InitTypeOK, RunInit
  <1>5. Sealed'
    BY <1>0, StepFacts DEF InitInv, Sealed, InOrder, Typed, InitTypeOK, Cfgs, Hashes, RunInit
  <1>6. AsCloned' /\ ReadyToExec'
    <2>1. initProc' = Fresh /\ Fresh.named = "none"
      BY StepFacts, FreshFacts DEF RunInit, Fresh, JoinedBefore
    <2> QED
      BY <1>1, <2>1 DEF AsCloned, ReadyToExec, RunInit
  <1> QED
    BY <1>2, <1>3, <1>4, <1>5, <1>6 DEF InitInv

\* The pid create goes on with is the one the new shim wrote.
LEMMA WaitInitPidKeeps ==
    ASSUME InitInv, WaitInitPid
    PROVE  InitInv'
  <1>0. opt' = opt /\ mode' = mode
    BY DEF WaitInitPid, files
  <1>1. spec' = spec /\ Prejoin' = Prejoin /\ Fresh' = Fresh
    BY <1>0, Rigid
  <1>2. Typed'
    BY <1>0, StepFacts DEF InitInv, Typed, InitTypeOK, Cfgs, Hashes, WaitInitPid, files
  <1>3. InOrder'
    BY <1>0 DEF InitInv, InOrder, Typed, InitTypeOK, WaitInitPid, files
  <1>4. SetUp'
    BY <1>0, <1>1 DEF InitInv, SetUp, InOrder, Typed, InitTypeOK, WaitInitPid, files
  <1>5. Sealed'
    BY <1>0, StepFacts DEF InitInv, Sealed, InOrder, Typed, InitTypeOK, Cfgs, Hashes, WaitInitPid, files
  <1>6. AsCloned' /\ ReadyToExec'
    BY <1>0, InitUntouched DEF WaitInitPid, files
  <1> QED
    BY <1>2, <1>3, <1>4, <1>5, <1>6 DEF InitInv

\* PrepareCgroup keeps InitInv.
LEMMA PrepareCgroupKeeps ==
    ASSUME InitInv, PrepareCgroup
    PROVE  InitInv'
  <1>0. opt' = opt /\ mode' = mode
    BY DEF PrepareCgroup, files
  <1>1. spec' = spec /\ Prejoin' = Prejoin /\ Fresh' = Fresh
    BY <1>0, Rigid
  <1>2. Typed'
    <2>1. pidfile = "new"
      BY DEF InitInv, SetUp, PrepareCgroup
    <2>2. hostSetup' \in [{"old", "new"} -> SUBSET {"cgroup", "network"}]
      BY <2>1 DEF InitInv, Typed, PrepareCgroup
    <2> QED
      BY <2>2, <1>0 DEF InitInv, Typed, InitTypeOK, PrepareCgroup, files
  <1>3. InOrder'
    BY <1>0 DEF InitInv, InOrder, Typed, InitTypeOK, PrepareCgroup, files
  <1>4. SetUp'
    BY <1>0, <1>1 DEF InitInv, SetUp, InOrder, Typed, InitTypeOK, PrepareCgroup, files
  <1>5. Sealed'
    BY <1>0, StepFacts DEF InitInv, Sealed, InOrder, Typed, InitTypeOK, Cfgs, Hashes, PrepareCgroup, files
  <1>6. AsCloned' /\ ReadyToExec'
    BY <1>0, InitUntouched DEF PrepareCgroup, files
  <1> QED
    BY <1>2, <1>3, <1>4, <1>5, <1>6 DEF InitInv

\* PrepareNetwork keeps InitInv.
LEMMA PrepareNetworkKeeps ==
    ASSUME InitInv, PrepareNetwork
    PROVE  InitInv'
  <1>0. opt' = opt /\ mode' = mode
    BY DEF PrepareNetwork, files
  <1>1. spec' = spec /\ Prejoin' = Prejoin /\ Fresh' = Fresh
    BY <1>0, Rigid
  <1>2. Typed'
    <2>1. pidfile = "new"
      BY DEF InitInv, SetUp, PrepareNetwork
    <2>2. hostSetup' \in [{"old", "new"} -> SUBSET {"cgroup", "network"}]
      BY <2>1 DEF InitInv, Typed, PrepareNetwork
    <2> QED
      BY <2>2, <1>0 DEF InitInv, Typed, InitTypeOK, PrepareNetwork, files
  <1>3. InOrder'
    BY <1>0 DEF InitInv, InOrder, Typed, InitTypeOK, PrepareNetwork, files
  <1>4. SetUp'
    BY <1>0, <1>1 DEF InitInv, SetUp, InOrder, Typed, InitTypeOK, PrepareNetwork, files
  <1>5. Sealed'
    BY <1>0, StepFacts DEF InitInv, Sealed, InOrder, Typed, InitTypeOK, Cfgs, Hashes, PrepareNetwork, files
  <1>6. AsCloned' /\ ReadyToExec'
    BY <1>0, InitUntouched DEF PrepareNetwork, files
  <1> QED
    BY <1>2, <1>3, <1>4, <1>5, <1>6 DEF InitInv

\* UpdateState keeps InitInv.
LEMMA UpdateStateKeeps ==
    ASSUME InitInv, UpdateState
    PROVE  InitInv'
  <1>0. opt' = opt /\ mode' = mode
    BY DEF UpdateState, files
  <1>1. spec' = spec /\ Prejoin' = Prejoin /\ Fresh' = Fresh
    BY <1>0, Rigid
  <1>2. Typed'
    BY <1>0, StepFacts DEF InitInv, Typed, InitTypeOK, Cfgs, Hashes, UpdateState, files
  <1>3. InOrder'
    BY <1>0 DEF InitInv, InOrder, Typed, InitTypeOK, UpdateState, files
  <1>4. SetUp'
    BY <1>0, <1>1 DEF InitInv, SetUp, InOrder, Typed, InitTypeOK, UpdateState, files
  <1>5. Sealed'
    BY <1>0, StepFacts DEF InitInv, Sealed, InOrder, Typed, InitTypeOK, Cfgs, Hashes, UpdateState, files
  <1>6. AsCloned' /\ ReadyToExec'
    BY <1>0, InitUntouched DEF UpdateState, files
  <1> QED
    BY <1>2, <1>3, <1>4, <1>5, <1>6 DEF InitInv

\* CreateFails keeps InitInv.
LEMMA CreateFailsKeeps ==
    ASSUME InitInv, CreateFails
    PROVE  InitInv'
  <1>0. opt' = opt /\ mode' = mode
    BY DEF CreateFails, files
  <1>1. spec' = spec /\ Prejoin' = Prejoin /\ Fresh' = Fresh
    BY <1>0, Rigid
  <1>2. Typed'
    BY <1>0, StepFacts DEF InitInv, Typed, InitTypeOK, Cfgs, Hashes, CreateFails, files, MayFail
  <1>3. InOrder'
    BY <1>0 DEF InitInv, InOrder, Typed, InitTypeOK, CreateFails, files, MayFail
  <1>4. SetUp'
    BY <1>0, <1>1 DEF InitInv, SetUp, InOrder, Typed, InitTypeOK, CreateFails, files, MayFail
  <1>5. Sealed'
    BY <1>0, StepFacts DEF InitInv, Sealed, InOrder, Typed, InitTypeOK, Cfgs, Hashes, CreateFails, files, MayFail
  <1>6. AsCloned' /\ ReadyToExec'
    BY <1>0, InitUntouched DEF CreateFails, files, MayFail
  <1> QED
    BY <1>2, <1>3, <1>4, <1>5, <1>6 DEF InitInv

\* StartContainer keeps InitInv.
LEMMA StartContainerKeeps ==
    ASSUME InitInv, StartContainer
    PROVE  InitInv'
  <1>0. opt' = opt /\ mode' = mode
    BY DEF StartContainer
  <1>1. spec' = spec /\ Prejoin' = Prejoin /\ Fresh' = Fresh
    BY <1>0, Rigid
  <1>2. Typed'
    BY <1>0, StepFacts DEF InitInv, Typed, InitTypeOK, Cfgs, Hashes, StartContainer
  <1>3. InOrder'
    BY <1>0 DEF InitInv, InOrder, Typed, InitTypeOK, StartContainer
  <1>4. SetUp'
    BY <1>0, <1>1 DEF InitInv, SetUp, InOrder, Typed, InitTypeOK, StartContainer
  <1>5. Sealed'
    BY <1>0, StepFacts DEF InitInv, Sealed, InOrder, Typed, InitTypeOK, Cfgs, Hashes, StartContainer
  <1>6. AsCloned' /\ ReadyToExec'
    BY <1>0, InitUntouched DEF StartContainer
  <1> QED
    BY <1>2, <1>3, <1>4, <1>5, <1>6 DEF InitInv

\* An edit after the load and before its second hash is noticed.
LEMMA EditConfigKeeps ==
    ASSUME InitInv, EditConfig
    PROVE  InitInv'
  <1>0. opt' = opt /\ mode' = mode
    BY DEF EditConfig
  <1>1. spec' = spec /\ Prejoin' = Prejoin /\ Fresh' = Fresh
    BY <1>0, Rigid
  <1>2. Typed'
    <2>1. /\ cfg' \in Cfgs /\ cfg'.edits = cfg.edits + 1 /\ cfg'.shifted = cfg.shifted
          /\ cfg.edits \in Nat /\ cfg.shifted \in BOOLEAN
      BY StepFacts, InitAssumption DEF EditConfig, Cfgs
    <2>2. torn' \in BOOLEAN
      BY DEF EditConfig, InitInv, Typed
    <2> QED
      BY <2>1, <2>2, <1>0, StepFacts DEF InitInv, Typed, InitTypeOK, Cfgs, Hashes, EditConfig
  <1>3. InOrder'
    BY <1>0 DEF InitInv, InOrder, Typed, InitTypeOK, EditConfig
  <1>4. SetUp'
    BY <1>0, <1>1 DEF InitInv, SetUp, InOrder, Typed, InitTypeOK, EditConfig
  <1>5. Sealed'
    <2>1. /\ cfg' \in Cfgs /\ cfg'.edits = cfg.edits + 1 /\ cfg'.shifted = cfg.shifted
          /\ cfg.edits \in Nat
      BY StepFacts, InitAssumption DEF EditConfig, Cfgs
    <2>2. /\ torn => torn'
          /\ ~torn' => ~torn /\ shimAt # "load" /\ initAt # "load" /\ creator # "rehash"
      BY DEF EditConfig
    <2>3. UNCHANGED <<hash, got, creator, shimAt, initAt>>
      BY DEF EditConfig
    <2>4. hash \in Cfgs => hash.edits \in Nat
      BY DEF Cfgs
    <2>5. got["c"] \in Cfgs => got["c"].edits \in Nat
      BY DEF Cfgs
    <2> QED
      BY <1>0, <2>1, <2>2, <2>3, <2>4, <2>5 DEF InitInv, Sealed
  <1>6. AsCloned' /\ ReadyToExec'
    BY <1>0, InitUntouched DEF EditConfig
  <1> QED
    BY <1>2, <1>3, <1>4, <1>5, <1>6 DEF InitInv

\* ShimVerify keeps InitInv.
LEMMA ShimVerifyKeeps ==
    ASSUME InitInv, ShimVerify
    PROVE  InitInv'
  <1>0. opt' = opt /\ mode' = mode
    BY DEF ShimVerify, files
  <1>1. spec' = spec /\ Prejoin' = Prejoin /\ Fresh' = Fresh
    BY <1>0, Rigid
  <1>2. Typed'
    BY <1>0, StepFacts DEF InitInv, Typed, InitTypeOK, Cfgs, Hashes, ShimVerify, files
  <1>3. InOrder'
    BY <1>0 DEF InitInv, InOrder, Typed, InitTypeOK, ShimVerify, files
  <1>4. SetUp'
    BY <1>0, <1>1 DEF InitInv, SetUp, InOrder, Typed, InitTypeOK, ShimVerify, files
  <1>5. Sealed'
    BY <1>0, StepFacts DEF InitInv, Sealed, InOrder, Typed, InitTypeOK, Cfgs, Hashes, ShimVerify, files
  <1>6. AsCloned' /\ ReadyToExec'
    BY <1>0, InitUntouched DEF ShimVerify, files
  <1> QED
    BY <1>2, <1>3, <1>4, <1>5, <1>6 DEF InitInv

\* ShimLoad keeps InitInv.
LEMMA ShimLoadKeeps ==
    ASSUME InitInv, ShimLoad
    PROVE  InitInv'
  <1>0. opt' = opt /\ mode' = mode
    BY DEF ShimLoad, files
  <1>1. spec' = spec /\ Prejoin' = Prejoin /\ Fresh' = Fresh
    BY <1>0, Rigid
  <1>2. Typed'
    BY <1>0, StepFacts DEF InitInv, Typed, InitTypeOK, Cfgs, Hashes, ShimLoad, files
  <1>3. InOrder'
    BY <1>0 DEF InitInv, InOrder, Typed, InitTypeOK, ShimLoad, files
  <1>4. SetUp'
    BY <1>0, <1>1 DEF InitInv, SetUp, InOrder, Typed, InitTypeOK, ShimLoad, files
  <1>5. Sealed'
    BY <1>0, StepFacts DEF InitInv, Sealed, InOrder, Typed, InitTypeOK, Cfgs, Hashes, ShimLoad, files
  <1>6. AsCloned' /\ ReadyToExec'
    BY <1>0, InitUntouched DEF ShimLoad, files
  <1> QED
    BY <1>2, <1>3, <1>4, <1>5, <1>6 DEF InitInv

\* ShimStart keeps InitInv.
LEMMA ShimStartKeeps ==
    ASSUME InitInv, ShimStart
    PROVE  InitInv'
  <1>0. opt' = opt /\ mode' = mode
    BY DEF ShimStart, files
  <1>1. spec' = spec /\ Prejoin' = Prejoin /\ Fresh' = Fresh
    BY <1>0, Rigid
  <1>2. Typed'
    <2>1. initProc' \in InitProcs
      BY StepFacts, FreshFacts DEF ShimStart, Fresh, JoinedBefore, Given, InitInv, InOrder
    <2>2. shimAt' \in {"failed", "pid"} /\ initAt' = "verify" /\ initProc'.caps \in SUBSET AllCaps
      BY <2>1 DEF ShimStart, InitProcs
    <2>3. UNCHANGED <<cfg, hash, torn, pidfile, execFifo, got, creator, status, hostSetup>>
      BY DEF ShimStart, files
    <2> QED
      BY <2>1, <2>2, <2>3, <1>0 DEF InitInv, Typed, InitTypeOK
  <1>3. InOrder'
    BY <1>0 DEF InitInv, InOrder, Typed, InitTypeOK, ShimStart, files
  <1>4. SetUp'
    BY <1>0, <1>1 DEF InitInv, SetUp, InOrder, Typed, InitTypeOK, ShimStart, files
  <1>5. Sealed'
    BY <1>0, StepFacts DEF InitInv, Sealed, InOrder, Typed, InitTypeOK, Cfgs, Hashes, ShimStart, files
  <1>6. AsCloned' /\ ReadyToExec'
    <2>1. initProc' = Fresh /\ Fresh.named = "none"
      BY StepFacts, FreshFacts DEF ShimStart, Fresh, JoinedBefore, Given, InitInv, InOrder
    <2> QED
      BY <1>1, <2>1 DEF AsCloned, ReadyToExec, ShimStart
  <1> QED
    BY <1>2, <1>3, <1>4, <1>5, <1>6 DEF InitInv

\* WriteInitPid keeps InitInv.
LEMMA WriteInitPidKeeps ==
    ASSUME InitInv, WriteInitPid
    PROVE  InitInv'
  <1>0. opt' = opt /\ mode' = mode
    BY DEF WriteInitPid
  <1>1. spec' = spec /\ Prejoin' = Prejoin /\ Fresh' = Fresh
    BY <1>0, Rigid
  <1>2. Typed'
    BY <1>0, StepFacts DEF InitInv, Typed, InitTypeOK, Cfgs, Hashes, WriteInitPid
  <1>3. InOrder'
    BY <1>0 DEF InitInv, InOrder, Typed, InitTypeOK, WriteInitPid
  <1>4. SetUp'
    BY <1>0, <1>1 DEF InitInv, SetUp, InOrder, Typed, InitTypeOK, WriteInitPid
  <1>5. Sealed'
    BY <1>0, StepFacts DEF InitInv, Sealed, InOrder, Typed, InitTypeOK, Cfgs, Hashes, WriteInitPid
  <1>6. AsCloned' /\ ReadyToExec'
    BY <1>0, InitUntouched DEF WriteInitPid
  <1> QED
    BY <1>2, <1>3, <1>4, <1>5, <1>6 DEF InitInv

\* ShimFails keeps InitInv.
LEMMA ShimFailsKeeps ==
    ASSUME InitInv, ShimFails
    PROVE  InitInv'
  <1>0. opt' = opt /\ mode' = mode
    BY DEF ShimFails, files
  <1>1. spec' = spec /\ Prejoin' = Prejoin /\ Fresh' = Fresh
    BY <1>0, Rigid
  <1>2. Typed'
    BY <1>0, StepFacts DEF InitInv, Typed, InitTypeOK, Cfgs, Hashes, ShimFails, files, MayFail
  <1>3. InOrder'
    BY <1>0 DEF InitInv, InOrder, Typed, InitTypeOK, ShimFails, files, MayFail
  <1>4. SetUp'
    BY <1>0, <1>1 DEF InitInv, SetUp, InOrder, Typed, InitTypeOK, ShimFails, files, MayFail
  <1>5. Sealed'
    BY <1>0, StepFacts DEF InitInv, Sealed, InOrder, Typed, InitTypeOK, Cfgs, Hashes, ShimFails, files, MayFail
  <1>6. AsCloned' /\ ReadyToExec'
    BY <1>0, InitUntouched DEF ShimFails, files, MayFail
  <1> QED
    BY <1>2, <1>3, <1>4, <1>5, <1>6 DEF InitInv

\* InitVerify keeps InitInv.
LEMMA InitVerifyKeeps ==
    ASSUME InitInv, InitVerify
    PROVE  InitInv'
  <1>0. opt' = opt /\ mode' = mode
    BY DEF InitVerify, files
  <1>1. spec' = spec /\ Prejoin' = Prejoin /\ Fresh' = Fresh
    BY <1>0, Rigid
  <1>2. Typed'
    BY <1>0, StepFacts DEF InitInv, Typed, InitTypeOK, Cfgs, Hashes, InitVerify, files
  <1>3. InOrder'
    BY <1>0 DEF InitInv, InOrder, Typed, InitTypeOK, InitVerify, files
  <1>4. SetUp'
    BY <1>0, <1>1 DEF InitInv, SetUp, InOrder, Typed, InitTypeOK, InitVerify, files
  <1>5. Sealed'
    BY <1>0, StepFacts DEF InitInv, Sealed, InOrder, Typed, InitTypeOK, Cfgs, Hashes, InitVerify, files
  <1>6. AsCloned' /\ ReadyToExec'
    BY <1>0, <1>1 DEF InitInv, AsCloned, ReadyToExec, SpacesOK, NamesOK, RestrictedOK, InitVerify, files
  <1> QED
    BY <1>2, <1>3, <1>4, <1>5, <1>6 DEF InitInv

\* InitLoad keeps InitInv.
LEMMA InitLoadKeeps ==
    ASSUME InitInv, InitLoad
    PROVE  InitInv'
  <1>0. opt' = opt /\ mode' = mode
    BY DEF InitLoad, files
  <1>1. spec' = spec /\ Prejoin' = Prejoin /\ Fresh' = Fresh
    BY <1>0, Rigid
  <1>2. Typed'
    BY <1>0, StepFacts DEF InitInv, Typed, InitTypeOK, Cfgs, Hashes, InitLoad, files
  <1>3. InOrder'
    BY <1>0 DEF InitInv, InOrder, Typed, InitTypeOK, InitLoad, files
  <1>4. SetUp'
    BY <1>0, <1>1 DEF InitInv, SetUp, InOrder, Typed, InitTypeOK, InitLoad, files
  <1>5. Sealed'
    BY <1>0, StepFacts DEF InitInv, Sealed, InOrder, Typed, InitTypeOK, Cfgs, Hashes, InitLoad, files
  <1>6. AsCloned' /\ ReadyToExec'
    BY <1>0, <1>1 DEF InitInv, AsCloned, ReadyToExec, SpacesOK, NamesOK, RestrictedOK, InitLoad, files
  <1> QED
    BY <1>2, <1>3, <1>4, <1>5, <1>6 DEF InitInv

\* Consume keeps InitInv.
LEMMA ConsumeKeeps ==
    ASSUME InitInv, Consume
    PROVE  InitInv'
  <1>0. opt' = opt /\ mode' = mode
    BY DEF Consume
  <1>1. spec' = spec /\ Prejoin' = Prejoin /\ Fresh' = Fresh
    BY <1>0, Rigid
  <1>2. Typed'
    BY <1>0, StepFacts DEF InitInv, Typed, InitTypeOK, Cfgs, Hashes, Consume
  <1>3. InOrder'
    BY <1>0 DEF InitInv, InOrder, Typed, InitTypeOK, Consume
  <1>4. SetUp'
    BY <1>0, <1>1 DEF InitInv, SetUp, InOrder, Typed, InitTypeOK, Consume
  <1>5. Sealed'
    BY <1>0, StepFacts DEF InitInv, Sealed, InOrder, Typed, InitTypeOK, Cfgs, Hashes, Consume
  <1>6. AsCloned' /\ ReadyToExec'
    BY <1>0, <1>1 DEF InitInv, AsCloned, ReadyToExec, SpacesOK, NamesOK, RestrictedOK, Consume
  <1> QED
    BY <1>2, <1>3, <1>4, <1>5, <1>6 DEF InitInv

\* ReadFifo keeps InitInv.
LEMMA ReadFifoKeeps ==
    ASSUME InitInv, ReadFifo
    PROVE  InitInv'
  <1>0. opt' = opt /\ mode' = mode
    BY DEF ReadFifo, files
  <1>1. spec' = spec /\ Prejoin' = Prejoin /\ Fresh' = Fresh
    BY <1>0, Rigid
  <1>2. Typed'
    BY <1>0, StepFacts DEF InitInv, Typed, InitTypeOK, Cfgs, Hashes, ReadFifo, files
  <1>3. InOrder'
    BY <1>0 DEF InitInv, InOrder, Typed, InitTypeOK, ReadFifo, files
  <1>4. SetUp'
    BY <1>0, <1>1 DEF InitInv, SetUp, InOrder, Typed, InitTypeOK, ReadFifo, files
  <1>5. Sealed'
    BY <1>0, StepFacts DEF InitInv, Sealed, InOrder, Typed, InitTypeOK, Cfgs, Hashes, ReadFifo, files
  <1>6. AsCloned' /\ ReadyToExec'
    BY <1>0, <1>1 DEF InitInv, AsCloned, ReadyToExec, SpacesOK, NamesOK, RestrictedOK, ReadFifo, files
  <1> QED
    BY <1>2, <1>3, <1>4, <1>5, <1>6 DEF InitInv

\* Prepare keeps InitInv.
LEMMA PrepareKeeps ==
    ASSUME InitInv, Prepare
    PROVE  InitInv'
  <1>0. opt' = opt /\ mode' = mode
    BY DEF Prepare, files
  <1>1. spec' = spec /\ Prejoin' = Prejoin /\ Fresh' = Fresh
    BY <1>0, Rigid
  <1>2. Typed'
    <2>1. initProc' \in InitProcs
      <3>1. CASE initAt' = "failed"
        BY <3>1 DEF InitInv, Typed, Prepare
      <3>2. CASE initAt' = "exec"
        <4>1. initProc = Fresh
          BY DEF InitInv, AsCloned, Prepare
        <4> QED
          BY <3>2, <4>1, StepFacts, Prepared
      <3> QED
        BY <3>1, <3>2 DEF Prepare
    <2>2. initAt' \in {"exec", "failed"} /\ initProc'.caps \in SUBSET AllCaps
      BY <2>1 DEF Prepare, InitProcs
    <2>3. UNCHANGED <<opt, mode, cfg, hash, torn, pidfile, execFifo, got, creator, shimAt, status, hostSetup, failures>>
      BY DEF Prepare, files
    <2> QED
      BY <2>1, <2>2, <2>3 DEF InitInv, Typed, InitTypeOK
  <1>3. InOrder'
    BY <1>0 DEF InitInv, InOrder, Typed, InitTypeOK, Prepare, files
  <1>4. SetUp'
    BY <1>0, <1>1 DEF InitInv, SetUp, InOrder, Typed, InitTypeOK, Prepare, files
  <1>5. Sealed'
    BY <1>0, StepFacts DEF InitInv, Sealed, InOrder, Typed, InitTypeOK, Cfgs, Hashes, Prepare, files
  <1>6. AsCloned' /\ ReadyToExec'
    <2>1. CASE initAt' = "failed"
      BY <2>1, <1>0, InitUntouched DEF Prepare
    <2>2. CASE initAt' = "exec"
      <3>1. initProc = Fresh
        BY DEF InitInv, AsCloned, Prepare
      <3>2. SpacesOK(initProc') /\ NamesOK(initProc') /\ RestrictedOK(initProc')
        BY <2>2, <3>1, StepFacts, Prepared
      <3> QED
        BY <2>2, <3>2, <1>0, <1>1 DEF AsCloned, ReadyToExec, SpacesOK, NamesOK, RestrictedOK
    <2> QED
      BY <2>1, <2>2 DEF Prepare
  <1> QED
    BY <1>2, <1>3, <1>4, <1>5, <1>6 DEF InitInv

\* InitFails keeps InitInv.
LEMMA InitFailsKeeps ==
    ASSUME InitInv, InitFails
    PROVE  InitInv'
  <1>0. opt' = opt /\ mode' = mode
    BY DEF InitFails, files
  <1>1. spec' = spec /\ Prejoin' = Prejoin /\ Fresh' = Fresh
    BY <1>0, Rigid
  <1>2. Typed'
    BY <1>0, StepFacts DEF InitInv, Typed, InitTypeOK, Cfgs, Hashes, InitFails, files, MayFail
  <1>3. InOrder'
    BY <1>0 DEF InitInv, InOrder, Typed, InitTypeOK, InitFails, files, MayFail
  <1>4. SetUp'
    BY <1>0, <1>1 DEF InitInv, SetUp, InOrder, Typed, InitTypeOK, InitFails, files, MayFail
  <1>5. Sealed'
    BY <1>0, StepFacts DEF InitInv, Sealed, InOrder, Typed, InitTypeOK, Cfgs, Hashes, InitFails, files, MayFail
  <1>6. AsCloned' /\ ReadyToExec'
    BY <1>0, InitUntouched DEF InitFails, files, MayFail
  <1> QED
    BY <1>2, <1>3, <1>4, <1>5, <1>6 DEF InitInv

\* The invariant of the init process holds at the start.
LEMMA InitHolds ==
    ASSUME InitInit
    PROVE  InitInv
  <1>1. cfg \in Cfgs /\ hash = NoHash /\ cfg.shifted = FALSE
    BY InitAssumption DEF InitInit, Cfgs
  <1>2. got \in [{"c", "s", "i"} -> Hashes] /\ hostSetup \in [{"old", "new"} -> SUBSET {"cgroup", "network"}]
    BY DEF InitInit, Hashes
  <1>3. initProc = NoProc
    BY DEF InitInit, NoProc
  <1>4. initProc \in InitProcs /\ initProc.named = "none" /\ initProc.caps = AllCaps
    BY <1>3 DEF NoProc, InitProcs, Kinds
  <1>5. Typed
    BY <1>1, <1>2, <1>4 DEF Typed, InitTypeOK, InitInit, CreateConfigOptions, Cfgs
  <1>6. InOrder /\ SetUp
    BY DEF InitInit, InOrder, SetUp
  <1>7. Sealed
    BY <1>1 DEF InitInit, Sealed
  <1>8. AsCloned /\ ReadyToExec
    BY <1>4 DEF InitInit, AsCloned, ReadyToExec
  <1> QED
    BY <1>5, <1>6, <1>7, <1>8 DEF InitInv

\* InitNext keeps InitInv.
LEMMA InitNextKeeps ==
    ASSUME InitInv, InitNext
    PROVE  InitInv'
  <1>1. CASE CreateStep
    BY <1>1, SealKeeps, LoadSealedKeeps, CompareSealKeeps, RewriteSpecKeeps, RewriteHashKeeps, SaveCreatingKeeps,
       MakeExecFifoKeeps, ExecuteShimKeeps, RunInitKeeps, WaitInitPidKeeps, PrepareCgroupKeeps, PrepareNetworkKeeps,
       UpdateStateKeeps DEF CreateStep
  <1>2. CASE ShimSetup
    BY <1>2, ShimVerifyKeeps, ShimLoadKeeps, ShimStartKeeps, WriteInitPidKeeps DEF ShimSetup
  <1>3. CASE InitStep
    BY <1>3, InitVerifyKeeps, InitLoadKeeps, ConsumeKeeps, ReadFifoKeeps, PrepareKeeps DEF InitStep
  <1>4. CASE StartContainer \/ EditConfig \/ CreateFails \/ ShimFails \/ InitFails
    BY <1>4, StartContainerKeeps, EditConfigKeeps, CreateFailsKeeps, ShimFailsKeeps, InitFailsKeeps
  <1> QED
    BY <1>1, <1>2, <1>3, <1>4 DEF InitNext

\* A step that changes nothing keeps the invariant of the init process.
LEMMA InitStutters ==
    ASSUME InitInv, UNCHANGED initVars
    PROVE  InitInv'
  <1>1. UNCHANGED <<opt, mode, cfg, hash, got, torn, creator, shimAt, initAt, pidfile, execFifo, status, hostSetup, initProc>>
    BY DEF initVars
  <1>2. spec' = spec /\ Prejoin' = Prejoin /\ Fresh' = Fresh
    BY <1>1, Rigid
  <1>3. AsCloned' /\ ReadyToExec'
    BY <1>1, InitUntouched
  <1>4. Typed' /\ InOrder'
    BY <1>1 DEF InitInv, Typed, InitTypeOK, InOrder
  <1>5. SetUp' /\ Sealed'
    BY <1>1, <1>2 DEF InitInv, SetUp, Sealed
  <1> QED
    BY <1>3, <1>4, <1>5 DEF InitInv

\* In every behaviour of droplet spec, create or run, shim and init, whoever
\* edits config.json and whichever step fails: the hash seals what create
\* loaded, the host is set up for the new pid, and init is prepared last.
THEOREM InitInvariant == InitSpec => []InitInv
  <1>1. InitInit => InitInv
    BY InitHolds
  <1>2. InitInv /\ [InitNext]_initVars => InitInv'
    BY InitNextKeeps, InitStutters
  <1> QED
    BY <1>1, <1>2, PTL DEF InitSpec

\* A container of any options that runs its entrypoint runs what create
\* sealed, confined as the options ask, with no dropped capability, in the
\* namespaces they name, its host name set in none that was given by path.
THEOREM InitStartsAsSealed == InitSpec => []StartedAsSealed
  <1>1. InitInv => StartedAsSealed
    <2> SUFFICES ASSUME InitInv PROVE StartedAsSealed
      OBVIOUS
    <2>0. spec.caps \cap opt.drop = {}
      BY SpecTyped, StepFacts
    <2>1. InitTypeOK
      BY DEF InitInv, Typed
    <2>2. SealedSpecRuns
      BY DEF InitInv, Sealed, SealedSpecRuns, Executed
    <2>3. ConfinedAtExec
      BY DEF InitInv, ReadyToExec, RestrictedOK, SetUp, ConfinedAtExec, Executed
    <2>4. DroppedCapsGone
      BY <2>0 DEF InitInv, ReadyToExec, RestrictedOK, DroppedCapsGone, Executed
    <2>5. JoinedHostnameKept
      BY DEF InitInv, ReadyToExec, NamesOK, AsCloned, JoinedHostnameKept
    <2>6. NamespacesAsAsked
      <3> SUFFICES ASSUME Executed, NEW t \in Types, initProc.ns[t] # spec.ns[t], ~(mode = "run" /\ t \in {"pid", "user"})
                   PROVE  mode = "create" /\ Prejoin /\ t = "user" /\ spec.ns[t] = "path"
        BY DEF NamespacesAsAsked
      <3>1. mode = "create" /\ Prejoin /\ t \in {"pid", "user"} /\ spec.ns[t] = "path"
        BY DEF InitInv, ReadyToExec, SpacesOK, Executed
      <3>2. pidfile = "new" /\ shimAt = "wait"
        BY <3>1 DEF InitInv, SetUp, InOrder, Executed
      <3> QED
        BY <3>1, <3>2 DEF InitInv, SetUp
    <2> QED
      BY <2>1, <2>2, <2>3, <2>4, <2>5, <2>6 DEF StartedAsSealed
  <1> QED
    BY <1>1, InitInvariant, PTL
===============================================================================
