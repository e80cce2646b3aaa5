--------------------------- MODULE PolicyService ---------------------------
(***************************************************************************)
(* The traffic policies of Condenser: the policy store npm.json with its    *)
(* backup npm.json.running, the iptables chains the policies become, the    *)
(* commit that rebuilds the chains command by command, the revert, the      *)
(* NetworkPolicy resource whose rules the controller generates from ready   *)
(* pods, and a crash of the daemon followed by its bootstrap.               *)
(*                                                                          *)
(* Nothing serialises commits: an API request, a hook of the runtime and    *)
(* the controller's tick each run CommitPolicy in a thread of their own.    *)
(* Every call of the store's withLock/withRLock is one step; the iptables   *)
(* commands of one build function are one step that may fail in between.    *)
(* The revert and the backup take no lock: their renames and their copy     *)
(* come between any two steps of the others, and a call that had read the   *)
(* file before a rename may save it afterwards (Seen).                      *)
(*                                                                          *)
(* Abstractions: a policy is its id, and its rule matches one class of      *)
(* packets (an allow or deny rule and its NFLOG companion are one token);   *)
(* the rows per bridge of a chain are one row; the order of a list is left  *)
(* open.  A NetworkPolicy selects all of Pods and yields one generated rule.*)
(***************************************************************************)
EXTENDS Integers, Sequences, SequencesExt, FiniteSetsExt

CONSTANTS Policies,   \* ids of user policies
          GenIds,     \* ids for generated policies
          ChainOf,    \* user policy -> "EW", "OBS" or "ENF"
          Needs,      \* user policy -> the pods its addresses come from
          Pods,       \* pods a NetworkPolicy selects
          Requests,   \* threads serving API requests and hooks
          Ctl,        \* the thread of the NetworkPolicy controller
          MaxOps,     \* bound on edits, commits and pod changes
          MaxFaults   \* bound on failing iptables commands and crashes

\* Rows that are no user's: jumps, verdicts and the generated rule
FixedRows == {"", "ROOT", "EW", "OBS", "ENF", "est", "DROP", "ACC", "RET", "gen"}

ASSUME PolicyAssumption ==
    /\ Ctl \notin Requests
    /\ Policies \cap GenIds = {} /\ Policies \cap FixedRows = {}
    /\ GenIds \subseteq Nat
    /\ ChainOf \in [Policies -> {"EW", "OBS", "ENF"}]
    /\ Needs \in [Policies -> SUBSET Pods]

VARIABLES files,   \* npm.json, npm.json.running, npm.json.org
          np,      \* is the NetworkPolicy stored in netpol.json
          pod,     \* pod -> down, created (it has a veth) or ready
          chains,  \* the kernel's chains: sequences of rule tokens
          th,      \* the threads
          inst,    \* history: what the last complete commit achieved
          late,    \* history: policies marked while a commit held their list
          crossed, \* history: two backups, or a revert and other work, met
          left     \* what is left of the bounds

policyVars == <<files, np, pod, chains, th, inst, late, crossed, left>>
kernel == <<chains, inst, crossed>>

Threads == Requests \cup {Ctl}
Ids == Policies \cup GenIds
Statuses == {"none", "before", "applied", "unresolved", "remove"}
Modes == {"observe", "enforce", "observe_next", "enforce_next"}
NextCommit == [observe |-> "observe_next", enforce |-> "enforce_next"]
Stores == [mode : Modes, pol : [Ids -> Statuses]]
Names == {"path", "running", "org"}
Chains == {"FORWARD", "ROOT", "EW", "OBS", "ENF"}

\* The chain a policy is listed under, its rule, and the pods it needs.
Chain(p) == IF p \in Policies THEN ChainOf[p] ELSE "EW"
Rule(p) == IF p \in Policies THEN p ELSE "gen"
Need(p) == IF p \in Policies THEN Needs[p] ELSE Pods
Resolved(p) == \A a \in Need(p) : pod[a] # "down"

DefaultStore == [mode |-> "observe", pol |-> [p \in Ids |-> "none"]]
Absent == [DefaultStore EXCEPT !.mode = "absent"]
Broken == [DefaultStore EXCEPT !.mode = "broken"]
Readable(f) == f # Broken
Load(f) == IF f = Absent THEN DefaultStore ELSE f
Content == files["path"]
\* What the getters return: the zero value when the store cannot be read.
ListOf(ch) == IF Readable(Content)
              THEN [p \in {q \in Ids : Chain(q) = ch /\ Load(Content).pol[q] # "none"}
                      |-> Load(Content).pol[p]]
              ELSE << >>
GetNSMode == IF Readable(Content) THEN Load(Content).mode ELSE ""
IsNsEnforce == GetNSMode = "enforce"

Save(s) == files' = [files EXCEPT !["path"] = s]
WithStatus(s, p, st) == [s EXCEPT !.pol[p] = st]
\* withLock works on what it has read, c.
Found(c, p) == Readable(c) /\ Load(c).pol[p] # "none"
UpdateStatus(c, p, st) ==
    IF Found(c, p) THEN Save(WithStatus(Load(c), p, st)) ELSE UNCHANGED files
RemovePolicy(c, p) ==
    IF Found(c, p) THEN Save(WithStatus(Load(c), p, "none")) ELSE UNCHANGED files

Idle == [pc |-> "idle", boot |-> FALSE, mode |-> "", cmds |-> << >>, chain |-> "EW",
         todo |-> << >>, cur |-> 0, want |-> FALSE, commit |-> FALSE,
         clean |-> TRUE, buf |-> Absent, dst |-> "running"]
Goto(t, pc) == th' = [th EXCEPT ![t].pc = pc]
Finish(t) == th' = [th EXCEPT ![t] = Idle]
Boot == [Idle EXCEPT !.pc = "setnp", !.boot = TRUE]
\* An error ends the request or tick; during bootstrap it ends the daemon,
\* which the service manager starts again.
Abort(t) == th' = [th EXCEPT ![t] = IF th[t].boot THEN Boot ELSE Idle]
CommitPcs == {"fix", "fixw", "pre", "ipt", "list", "each", "mark", "open", "copy"}
RevertPcs == {"rev2", "revopen", "revcopy", "rev3"}
CopyPcs == {"copy", "revcopy"}
WorkPcs == CommitPcs \cup RevertPcs
Booting == \E t \in Threads : th[t].boot
Reverting == \E t \in Threads : th[t].pc \in RevertPcs
\* A thread other than t is at work, or at work on chains or files.
Meets(t) == \E u \in Threads \ {t} : th[u].pc # "idle"
Working(t) == \E u \in Threads \ {t} : th[u].pc \in WorkPcs
\* Entering CommitPolicy.  A commit is clean as long as no other and no revert
\* overlaps with it; one that finds no npm.json is not.
StartCommit(t, pc) ==
    th' = [u \in Threads |->
             IF u = t THEN [Idle EXCEPT !.pc = pc, !.boot = th[t].boot,
                              !.clean = Content # Absent /\ ~Working(t)]
             ELSE IF th[u].pc \in CommitPcs THEN [th[u] EXCEPT !.clean = FALSE]
             ELSE th[u]]
\* What a call may have read: the file, or during a revert also what was there
\* before one of its renames.  A call that a rename has overtaken, or that
\* comes between the two and finds no file, is on record.
Seen == {Content} \cup IF Reverting THEN {files["org"], Absent} ELSE {}
Overtaken(c) ==
    IF c = Content /\ c # Absent THEN UNCHANGED <<inst, crossed>> ELSE inst' = "no" /\ crossed' = TRUE
Spend == left.ops > 0 /\ left' = [left EXCEPT !.ops = @ - 1]
Fail == left.faults > 0 /\ left' = [left EXCEPT !.faults = @ - 1, !.failed = TRUE]
Serving == ~Booting
Ready(r) == th[r].pc = "idle" /\ Serving

InitFiles == [n \in Names |-> IF n = "org" THEN Absent ELSE DefaultStore]
DenyAll == [c \in Chains |->
              CASE c = "FORWARD" -> <<"ROOT">>
                [] c = "ROOT" -> <<"est", "EW", "OBS", "RET">>
                [] c = "EW" -> <<"DROP", "RET">>
                [] c = "OBS" -> <<"ACC", "RET">>
                [] OTHER -> << >>]

PolicyInit ==
    /\ files = InitFiles
    /\ np = FALSE
    /\ pod = [a \in Pods |-> "down"]
    /\ chains = DenyAll
    /\ th = [t \in Threads |-> Idle]
    /\ inst = "saved"
    /\ late = {}
    /\ crossed = FALSE
    /\ left = [ops |-> MaxOps, faults |-> MaxFaults, failed |-> FALSE]

-----------------------------------------------------------------------------
(***************************************************************************)
(* Edits of the stores by an API request: one withLock each.                *)
(***************************************************************************)
Referenced(p) == \/ \E n \in Names : files[n] \in Stores /\ files[n].pol[p] # "none"
                 \/ \E t \in Threads : p \in DOMAIN th[t].todo \/ p = th[t].cur
                 \/ \E t \in Threads : th[t].buf \in Stores /\ th[t].buf.pol[p] # "none"

AddUserPolicy(p) ==
    /\ Serving /\ Spend
    /\ ~Referenced(p) /\ p \notin late
    /\ \E c \in Seen : Readable(c) /\ Save(WithStatus(Load(c), p, "before")) /\ Overtaken(c)
    /\ UNCHANGED <<np, pod, chains, th, late>>

RemoveUserPolicy(p) ==
    /\ Serving /\ Spend
    /\ \E c \in Seen : Found(c, p) /\ UpdateStatus(c, p, "remove") /\ Overtaken(c)
    /\ late' = IF \E t \in Threads : p \in DOMAIN th[t].todo \/ p = th[t].cur
               THEN late \cup {p} ELSE late
    /\ UNCHANGED <<np, pod, chains, th>>

\* ChangeNSMode compares with the mode it reads and writes afterwards.
ChangeNSMode(r, m) ==
    /\ Ready(r) /\ Spend
    /\ GetNSMode # m
    /\ th' = [th EXCEPT ![r].pc = "mode", ![r].mode = NextCommit[m]]
    /\ UNCHANGED <<files, np, pod, kernel, late>>

WriteNSMode(t) ==
    /\ th[t].pc \in {"mode", "fixw"}
    /\ \E c \in Seen :
         /\ Overtaken(c)
         /\ IF Readable(c) THEN Save([Load(c) EXCEPT !.mode = th[t].mode]) ELSE UNCHANGED files
         /\ IF th[t].pc = "fixw" /\ Readable(c) THEN Goto(t, "pre") ELSE Finish(t)
    /\ UNCHANGED <<np, pod, chains, late, left>>

-----------------------------------------------------------------------------
(***************************************************************************)
(* CommitPolicy: fix the mode, flush and rebuild the chains, insert one     *)
(* rule per policy, copy the store to .running.                             *)
(***************************************************************************)
CommitPolicy(r) ==
    /\ Ready(r) /\ Spend
    /\ StartCommit(r, "fix")
    /\ UNCHANGED <<files, np, pod, kernel, late>>

FixNSMode(t) ==
    /\ th[t].pc = "fix"
    /\ CASE GetNSMode = "observe_next" -> th' = [th EXCEPT ![t].pc = "fixw", ![t].mode = "observe"]
         [] GetNSMode = "enforce_next" -> th' = [th EXCEPT ![t].pc = "fixw", ![t].mode = "enforce"]
         [] OTHER -> Goto(t, "pre")
    /\ inst' = "no"
    /\ UNCHANGED <<files, np, pod, chains, late, crossed, left>>

Cmd(op, ch, tok) == [op |-> op, ch |-> ch, tok |-> tok]
CreateChain == << Cmd("F", "ROOT", ""), Cmd("F", "EW", ""), Cmd("F", "OBS", ""), Cmd("F", "ENF", "") >>
InsertForward == << Cmd("I", "FORWARD", "ROOT") >>
BuildRootChain(enforce) ==
    << Cmd("A", "ROOT", "est"), Cmd("A", "ROOT", "EW"),
       Cmd("A", "ROOT", IF enforce THEN "ENF" ELSE "OBS"), Cmd("A", "ROOT", "RET") >>
\* Mutant: RETURN is appended before the drop.
EWChainReturnsFirst == << Cmd("A", "EW", "RET"), Cmd("A", "EW", "DROP") >>
BuildEWChain == << Cmd("A", "EW", "DROP"), Cmd("A", "EW", "RET") >>
BuildNSObserveChain == << Cmd("A", "OBS", "ACC"), Cmd("A", "OBS", "RET") >>
BuildNSEnforceChain == << Cmd("A", "ENF", "DROP"), Cmd("A", "ENF", "RET") >>

\* AddRuleToChain and InsertRuleToChain add a rule that -C does not find.
Row(row, c) == IF c.op = "F" THEN << >>
               ELSE IF Contains(row, c.tok) THEN row
               ELSE IF c.op = "A" THEN Append(row, c.tok) ELSE <<c.tok>> \o row
Ran(cs, c) == [cs EXCEPT ![c.ch] = Row(@, c)]
RanAll(cs, cmds) ==
    LET after[n \in 0 .. Len(cmds)] == IF n = 0 THEN cs ELSE Ran(after[n - 1], cmds[n])
    IN  after[Len(cmds)]

BuildPredefinedPolicy(t) ==
    /\ th[t].pc = "pre"
    /\ th' = [th EXCEPT ![t].pc = "ipt",
                ![t].cmds = << CreateChain, InsertForward, BuildRootChain(IsNsEnforce), BuildEWChain,
                               IF IsNsEnforce THEN BuildNSEnforceChain ELSE BuildNSObserveChain >>]
    /\ inst' = "no"
    /\ UNCHANGED <<files, np, pod, chains, late, crossed, left>>

\* The commands of one function; a failing one ends the commit.
RunCommands(t) ==
    /\ th[t].pc = "ipt"
    /\ LET stage == Head(th[t].cmds) IN
       \/ /\ chains' = RanAll(chains, stage)
          /\ th' = [th EXCEPT ![t].cmds = Tail(@), ![t].chain = "EW",
                              ![t].pc = IF Len(th[t].cmds) = 1 THEN "list" ELSE "ipt"]
          /\ UNCHANGED left
       \/ /\ Fail
          /\ \E n \in 0..Len(stage) - 1 : chains' = RanAll(chains, SubSeq(stage, 1, n))
          /\ Abort(t)
    /\ UNCHANGED <<files, np, pod, inst, late, crossed>>

\* GetEWPolicyList, GetNSObsPolicyList, GetNSEnfPolicyList.
ReadPolicies(t) ==
    /\ th[t].pc = "list"
    /\ th' = [th EXCEPT ![t].pc = "each", ![t].todo = ListOf(th[t].chain)]
    /\ UNCHANGED <<files, np, pod, kernel, late, left>>

Without(f, p) == [q \in DOMAIN f \ {p} |-> f[q]]
\* The end of one chain's list; BuildUserPolicy returns only the last error.
NextChain(t, failed) ==
    LET clean == th[t].clean /\ ~failed IN
    IF th[t].chain # "ENF"
    THEN th' = [th EXCEPT ![t].pc = "list", ![t].todo = << >>, ![t].clean = clean,
                          ![t].chain = IF @ = "EW" THEN "OBS" ELSE "ENF"]
    ELSE IF failed THEN Abort(t)
    ELSE IF th[t].boot THEN Finish(t)
    ELSE th' = [th EXCEPT ![t].pc = "open", ![t].todo = << >>, ![t].clean = clean]

ChainDone(t) ==
    /\ th[t].pc = "each" /\ DOMAIN th[t].todo = {}
    /\ NextChain(t, FALSE)
    /\ inst' = IF th[t].chain = "ENF" /\ th[t].clean THEN "built" ELSE inst
    /\ UNCHANGED <<files, np, pod, chains, late, crossed, left>>

\* Mutant: the containers are resolved before the removal mark is looked at.
ResolveBeforeRemove(t, p) ==
    /\ th[t].pc = "each" /\ p \in DOMAIN th[t].todo
    /\ \E c \in Seen :
         /\ Overtaken(c)
         /\ \/ th[t].todo[p] = "remove" /\ Resolved(p) /\ RemovePolicy(c, p)
            \/ ~Resolved(p) /\ UpdateStatus(c, p, "unresolved")
         /\ IF Found(c, p) THEN th' = [th EXCEPT ![t].todo = Without(@, p)] ELSE NextChain(t, TRUE)
    /\ UNCHANGED <<np, pod, chains, late, left>>

\* A policy marked for removal leaves the store and gets no rule; one whose
\* containers are gone becomes unresolved; an error of the store ends the list.
DropOrUnresolve(t, p) ==
    /\ th[t].pc = "each" /\ p \in DOMAIN th[t].todo
    /\ \E c \in Seen :
         /\ Overtaken(c)
         /\ \/ th[t].todo[p] = "remove" /\ RemovePolicy(c, p)
            \/ th[t].todo[p] # "remove" /\ ~Resolved(p) /\ UpdateStatus(c, p, "unresolved")
         /\ IF Found(c, p) THEN th' = [th EXCEPT ![t].todo = Without(@, p)] ELSE NextChain(t, TRUE)
    /\ UNCHANGED <<np, pod, chains, late, left>>

InsertPolicy(t, p) ==
    /\ th[t].pc = "each" /\ p \in DOMAIN th[t].todo
    /\ th[t].todo[p] # "remove" /\ Resolved(p)
    /\ \/ /\ chains' = Ran(chains, Cmd("I", th[t].chain, Rule(p)))
          /\ th' = [th EXCEPT ![t].pc = "mark", ![t].cur = p, ![t].todo = Without(@, p)]
          /\ UNCHANGED left
       \/ /\ Fail
          /\ th' = [th EXCEPT ![t].todo = Without(@, p), ![t].clean = FALSE]
          /\ UNCHANGED chains
    /\ UNCHANGED <<files, np, pod, inst, late, crossed>>

MarkApplied(t) ==
    /\ th[t].pc = "mark"
    /\ \E c \in Seen : UpdateStatus(c, th[t].cur, "applied") /\ Overtaken(c)
    /\ th' = [th EXCEPT ![t].pc = "each", ![t].cur = 0]
    /\ UNCHANGED <<np, pod, chains, late, left>>

\* Backup: open npm.json, truncate .running; then copy.  Two copies into one
\* file may leave a mixture.
OpenBackup(t) ==
    /\ th[t].pc \in {"open", "revopen"}
    /\ IF Content = Absent THEN Finish(t) /\ UNCHANGED files
       ELSE /\ files' = [files EXCEPT !["running"] = Broken]
            /\ th' = [th EXCEPT ![t].pc = IF @ = "open" THEN "copy" ELSE "revcopy",
                        ![t].buf = Content, ![t].dst = "running"]
    /\ UNCHANGED <<np, pod, kernel, late, left>>

\* What the copy finds in the file it has opened: if that was being written,
\* also what it has become.
CopySources(t) == {th[t].buf} \cup IF th[t].buf = Broken /\ Content # Absent THEN {Content} ELSE {}
\* The copy goes into the file that was .running when it was opened (dst): a
\* revert may have renamed it since, and a store call may have replaced it.
CopyBackup(t) ==
    /\ th[t].pc \in CopyPcs
    /\ \E buf \in CopySources(t) : \E out \in {buf, Broken} :
         /\ th[t].dst = "running" /\ files["running"] \in {Broken, buf} => out = buf
         /\ \/ th[t].dst # "gone" /\ files' = [files EXCEPT ![th[t].dst] = out]
            \/ th[t].dst = "gone" /\ UNCHANGED files
            \/ th[t].dst \in {"path", "org"} /\ files[th[t].dst] # Broken /\ UNCHANGED files
         /\ crossed' = (crossed \/ out # buf)
    /\ inst' = IF th[t].pc = "copy" /\ th[t].clean /\ inst = "built" THEN "saved" ELSE inst
    /\ IF th[t].pc = "revcopy" THEN Goto(t, "rev3")
       ELSE IF th[t].boot THEN StartCommit(t, "pre") ELSE Finish(t)
    /\ UNCHANGED <<np, pod, chains, late, left>>

-----------------------------------------------------------------------------
(***************************************************************************)
(* RevertPolicy: npm.json aside, .running into its place, copied back.  It  *)
(* takes no lock; commits, edits and other reverts run between its steps.   *)
(***************************************************************************)
\* Renaming a file moves it from under the copy that writes it.
Renamed(d, from, to) == IF d = from THEN to ELSE IF d = to THEN "gone" ELSE d
\* Thread t renames a file and goes on at pc; commits under way are not clean.
Rename(t, from, to, pc) ==
    th' = [u \in Threads |->
             IF u = t THEN [th[u] EXCEPT !.pc = pc]
             ELSE IF th[u].pc \in WorkPcs
                  THEN [th[u] EXCEPT !.clean = FALSE,
                          !.dst = IF th[u].pc \in CopyPcs THEN Renamed(@, from, to) ELSE @]
             ELSE th[u]]

RevertPolicy(r) ==
    /\ Ready(r) /\ Spend
    /\ IF Content = Absent THEN UNCHANGED <<files, th, inst, crossed>>
       ELSE /\ files' = [files EXCEPT !["org"] = Content, !["path"] = Absent]
            /\ Rename(r, "path", "org", "rev2")
            /\ crossed' = (crossed \/ Meets(r))
            /\ inst' = IF Working(r) THEN "no" ELSE inst
    /\ UNCHANGED <<np, pod, chains, late>>

\* Mutant: the running copy is moved and not written back.
RevertWithoutBackup(t) ==
    /\ th[t].pc = "rev2"
    /\ IF files["running"] = Absent THEN Finish(t) /\ inst' = "no" /\ UNCHANGED <<files, late, crossed>>
       ELSE /\ files' = [files EXCEPT !["path"] = files["running"], !["running"] = Absent]
            /\ Rename(t, "running", "path", "rev3")
            /\ crossed' = (crossed \/ Meets(t))
            /\ inst' = IF inst = "saved" /\ ~Working(t) THEN inst ELSE "no"
            /\ late' = {}
    /\ UNCHANGED <<np, pod, chains, left>>

RevertRunning(t) ==
    /\ th[t].pc = "rev2"
    /\ IF files["running"] = Absent THEN Finish(t) /\ inst' = "no" /\ UNCHANGED <<files, late, crossed>>
       ELSE /\ files' = [files EXCEPT !["path"] = files["running"], !["running"] = Absent]
            /\ Rename(t, "running", "path", "revopen")
            /\ crossed' = (crossed \/ Meets(t))
            /\ inst' = IF inst = "saved" /\ ~Working(t) THEN inst ELSE "no"
            /\ late' = {}
    /\ UNCHANGED <<np, pod, chains, left>>

RevertClean(t) ==
    /\ th[t].pc = "rev3"
    /\ files' = [files EXCEPT !["org"] = Absent]
    /\ Finish(t)
    /\ UNCHANGED <<np, pod, kernel, late, left>>

\* netpol.Manager: the NetworkPolicy is stored or removed under its lock.
StoreNetworkPolicy(there) == np' = there

-----------------------------------------------------------------------------
(***************************************************************************)
(* NetworkPolicy: Apply stores it and reconciles, the controller reconciles *)
(* every two seconds and commits when the generated rules changed.          *)
(***************************************************************************)
ApplyNetworkPolicy(r) ==
    /\ Ready(r) /\ Spend
    /\ ~np /\ StoreNetworkPolicy(TRUE)
    /\ th' = [th EXCEPT ![r].pc = "rec", ![r].commit = FALSE]
    /\ UNCHANGED <<files, pod, kernel, late>>

RemoveNetworkPolicy ==
    /\ Serving /\ Spend
    /\ np /\ StoreNetworkPolicy(FALSE)
    /\ UNCHANGED <<files, pod, kernel, th, late>>

ReconcileOnce ==
    /\ th[Ctl].pc = "idle" /\ Serving
    /\ th' = [th EXCEPT ![Ctl].pc = "rec", ![Ctl].commit = TRUE]
    /\ UNCHANGED <<files, np, pod, kernel, late, left>>

\* generateBackendPolicies: a rule for the pods that are ready.
GenerateBackendPolicies(t) ==
    /\ th[t].pc = "rec"
    /\ th' = [th EXCEPT ![t].pc = "cmp", ![t].want = np /\ \A a \in Pods : pod[a] = "ready"]
    /\ UNCHANGED <<files, np, pod, kernel, late, left>>

Generated == {g \in GenIds : g \in DOMAIN ListOf("EW")}
EqualPolicySets(t) ==
    /\ th[t].pc = "cmp"
    /\ IF (Generated # {}) = th[t].want THEN Finish(t) ELSE Goto(t, "rep")
    /\ UNCHANGED <<files, np, pod, kernel, late, left>>

FreshId == CHOOSE g \in GenIds : ~Referenced(g) /\ \A h \in GenIds : h < g => Referenced(h)
Replaced(s, want) ==
    LET g == FreshId IN
    [s EXCEPT !.pol = [p \in Ids |-> IF p \in Policies THEN @[p]
                                     ELSE IF want /\ p = g THEN "before" ELSE "none"]]
ReplaceGenerated(t) ==
    /\ th[t].pc = "rep"
    /\ \E c \in Seen :
         /\ Overtaken(c)
         /\ IF Readable(c)
            THEN Save(Replaced(Load(c), th[t].want)) /\ Goto(t, "ids")
            ELSE /\ UNCHANGED files
                 /\ IF th[t].commit THEN Finish(t) ELSE Goto(t, "undo")
    /\ UNCHANGED <<np, pod, chains, late, left>>

\* Mutant: the tick reports no change once the rules are stored.
ReconcileWithoutCommit(t) ==
    /\ th[t].pc = "ids"
    /\ IF th[t].want /\ ~np /\ ~th[t].commit THEN Goto(t, "undo") ELSE Finish(t)
    /\ UNCHANGED <<files, np, pod, kernel, late, left>>

\* UpdateGeneratedRuleIds fails when the NetworkPolicy has gone meanwhile.
UpdateGeneratedRuleIds(t) ==
    /\ th[t].pc = "ids"
    /\ IF th[t].want /\ ~np
       THEN IF th[t].commit THEN Finish(t) ELSE Goto(t, "undo")
       ELSE IF th[t].commit THEN StartCommit(t, "fix") ELSE Finish(t)
    /\ UNCHANGED <<files, np, pod, kernel, late, left>>

UndoApply(t) ==
    /\ th[t].pc = "undo"
    /\ StoreNetworkPolicy(FALSE)
    /\ Finish(t)
    /\ UNCHANGED <<files, pod, kernel, late, left>>

-----------------------------------------------------------------------------
(***************************************************************************)
(* Pods come and go; the createContainer and poststop hooks commit.         *)
(***************************************************************************)
HookCommit(r, a, from, to) ==
    /\ Ready(r) /\ Spend
    /\ pod[a] = from
    /\ pod' = [pod EXCEPT ![a] = to]
    /\ StartCommit(r, "fix")
    /\ UNCHANGED <<files, np, kernel, late>>

CreateContainerHook(r, a) == HookCommit(r, a, "down", "created")
PoststopHook(r, a) == HookCommit(r, a, "created", "down")

\* poststart and stopContainer only record the state.
StateHook(a) ==
    /\ ~Booting /\ Spend
    /\ \/ pod[a] = "created" /\ pod' = [pod EXCEPT ![a] = "ready"]
       \/ pod[a] = "ready" /\ pod' = [pod EXCEPT ![a] = "created"]
    /\ UNCHANGED <<files, np, kernel, th, late>>

-----------------------------------------------------------------------------
(***************************************************************************)
(* A crash forgets the threads; bootstrap loads and saves the store, backs  *)
(* it up, and builds the chains without fixing the mode.                    *)
(***************************************************************************)
Crash ==
    /\ left.faults > 0
    /\ left' = [left EXCEPT !.faults = @ - 1]
    /\ th' = [t \in Threads |-> IF t = Ctl THEN Boot ELSE Idle]
    /\ inst' = IF Reverting THEN "no" ELSE inst
    /\ UNCHANGED <<files, np, pod, chains, late, crossed>>

\* The error of the withLock is overwritten by that of the backup.
SetNetworkPolicy ==
    /\ th[Ctl].pc = "setnp"
    /\ IF Readable(Content) THEN Save(Load(Content)) ELSE UNCHANGED files
    /\ Goto(Ctl, "open")
    /\ UNCHANGED <<np, pod, kernel, late, left>>

PolicyThread(t) ==
    \/ WriteNSMode(t)
    \/ FixNSMode(t)
    \/ BuildPredefinedPolicy(t)
    \/ RunCommands(t)
    \/ ReadPolicies(t)
    \/ ChainDone(t)
    \/ \E p \in Ids : DropOrUnresolve(t, p) \/ InsertPolicy(t, p)
    \/ MarkApplied(t)
    \/ OpenBackup(t)
    \/ CopyBackup(t)
    \/ RevertRunning(t)
    \/ RevertClean(t)
    \/ GenerateBackendPolicies(t)
    \/ EqualPolicySets(t)
    \/ ReplaceGenerated(t)
    \/ UpdateGeneratedRuleIds(t)
    \/ UndoApply(t)

PolicyNext ==
    \/ \E p \in Policies : AddUserPolicy(p) \/ RemoveUserPolicy(p)
    \/ RemoveNetworkPolicy
    \/ \E r \in Requests :
         \/ \E m \in {"observe", "enforce"} : ChangeNSMode(r, m)
         \/ CommitPolicy(r)
         \/ RevertPolicy(r)
         \/ ApplyNetworkPolicy(r)
         \/ \E a \in Pods : CreateContainerHook(r, a) \/ PoststopHook(r, a)
    \/ \E a \in Pods : StateHook(a)
    \/ ReconcileOnce
    \/ Crash
    \/ SetNetworkPolicy
    \/ \E t \in Threads : PolicyThread(t)

PolicySpec == PolicyInit /\ [][PolicyNext]_policyVars

\* The controller's goroutine goes on as long as it can take a step; nothing is
\* assumed of the requests.
PolicyFairSpec ==
    /\ PolicySpec
    /\ WF_policyVars(PolicyThread(Ctl))
    /\ WF_policyVars(SetNetworkPolicy)

-----------------------------------------------------------------------------
\* The verdict of the first row of chain ch that matches a packet: kind "ew"
\* (between containers) or "ns" (to the outside), rule the policy it matches.
Matches(tok, kind, rule) == tok \in {"DROP", "ACC", "RET", rule}
FirstMatch(ch, kind, rule) ==
    LET hits == {i \in DOMAIN chains[ch] : Matches(chains[ch][i], kind, rule)} IN
    IF hits = {} \/ (ch = "EW") # (kind = "ew") THEN "RET"
    ELSE LET tok == chains[ch][Min(hits)] IN
         IF tok # rule THEN tok ELSE IF ch = "OBS" THEN "DROP" ELSE "ACC"
\* What RAIND-ROOT decides: the first of its jumps before RETURN that decides.
Verdict(kind, rule) ==
    LET root == chains["ROOT"]
        live == {i \in DOMAIN root : \A j \in 1..i : root[j] # "RET"}
        hits == {i \in live : root[i] \in {"EW", "OBS", "ENF"}
                               /\ FirstMatch(root[i], kind, rule) # "RET"}
    IN IF ~Contains(chains["FORWARD"], "ROOT") \/ hits = {} THEN "RET"
       ELSE FirstMatch(root[Min(hits)], kind, rule)

\* The variables have their types.
PolicyTypeOK ==
    /\ files \in [Names -> Stores \cup {Broken, Absent}]
    /\ np \in BOOLEAN
    /\ pod \in [Pods -> {"down", "created", "ready"}]
    /\ DOMAIN chains = Chains
    /\ DOMAIN th = Threads
    /\ inst \in {"no", "built", "saved"}
    /\ late \subseteq Policies
    /\ crossed \in BOOLEAN

Status(p) == IF Content \in Stores THEN Content.pol[p] ELSE "none"
\* After a commit that nothing disturbed (no overlapping commit or revert, no
\* failing command), through edits, reverts and pod changes until the next
\* commit, or until a revert meets other work: the chains deny by default
\* between containers and follow the mode towards the outside, every policy the
\* store calls applied decides its packets, and a policy never committed
\* decides none.  Whatever reverts have done, the next such commit repairs it.
CommittedIsInstalled ==
    inst # "no" /\ Content \in Stores =>
      /\ Verdict("ew", "") = "DROP"
      /\ GetNSMode = "enforce" => Verdict("ns", "") = "DROP"
      /\ GetNSMode = "observe" => Verdict("ns", "") = "ACC"
      /\ \A p \in Ids : Status(p) = "applied" => Contains(chains[Chain(p)], Rule(p))
      /\ \A p \in Policies : Status(p) \in {"before", "unresolved"} => ~Contains(chains[Chain(p)], Rule(p))
      /\ \A p \in Ids : Status(p) = "applied" /\ Chain(p) = "EW" => Verdict("ew", Rule(p)) = "ACC"

\* Reverting, repeatedly and with crashes at any step, never leaves the daemon
\* without a policy store it can read; only two backups written into one
\* another, or a revert that meets other work on the store, can spoil it.
StoreUsable ==
    /\ Content = Absent => Reverting \/ Booting \/ crossed
    /\ Content = Broken => crossed

\* A policy marked for removal keeps its mark until a commit removes it, even
\* when several commits run at once; only a mark set while a commit already
\* held the policy in its list, or lost as a revert met other work, is not kept.
MarkSticks ==
    [][\A p \in Policies :
         Status(p) = "remove" /\ files'["path"] \in Stores
           => files'["path"].pol[p] \in {"remove", "none"} \/ p \in late \/ crossed']_policyVars

\* Rules the controller generates for pods it sees ready are committed: they
\* do not stay before_commit, unless an iptables command failed or another
\* commit or a revert overlapped the controller's.
GeneratedGetsCommitted ==
    \A g \in GenIds :
      (th[Ctl].pc = "ids" /\ th[Ctl].want /\ Status(g) = "before")
        ~> (\/ Status(g) # "before"
            \/ left.failed
            \/ ~np
            \/ ~th[Ctl].clean)

\* The policy store and its backup stay well-formed and readable.
PolicyStoreSound == PolicyTypeOK /\ StoreUsable
=============================================================================
