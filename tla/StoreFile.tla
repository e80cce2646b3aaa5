----------------------------- MODULE StoreFile ------------------------------
(***************************************************************************)
(* The thirteen JSON stores of Condenser.  Each has a file, a lock file and *)
(* a temporary file; every service builds store objects of its own, each    *)
(* with its own mutex, so only the lock file excludes all of them.          *)
(*                                                                         *)
(* A store's content is a function from ids to entries.  The protocol is    *)
(* the same for all of them; what differs is what a missing file stands     *)
(* for, whether the file is made private after it was renamed, and what     *)
(* the manager on top refuses.                                              *)
(***************************************************************************)
EXTENDS Integers

CONSTANTS
    AllStores,      \* the stores to run the protocol with
    Callers,        \* requests at the same time
    Ids,            \* ids of entries
    MaxCalls,       \* calls in a behaviour
    MaxTrouble      \* failed steps, crashes and losses of power

ASSUME StoreAssumption ==
    /\ Ids # {} /\ "free" \notin Callers
    /\ \A k \in AllStores :
           /\ DOMAIN k.fresh \subseteq {"default"} /\ k.fresh \in [DOMAIN k.fresh -> [name : {"d"}, rev : {0}]]
           /\ k.manager.named = ("used" \in k.manager.methods)

VARIABLES
    kind,       \* which store it is: [file, fresh, private, manager]
    shared,     \* do the callers share a store object
    file, old,  \* the store's file, and what of it is on the disk for sure
    tmp,        \* the temporary file
    mu, flock,  \* who holds the mutex of each object, and the lock file
    w,          \* caller -> where it is
    calls, trouble,
    raced       \* history: did a check of the name overlap another create, or fail
storeVars == <<kind, shared, file, old, tmp, mu, flock, w, calls, trouble, raced>>

Free == "free"
Empty == [x \in {} |-> x]
Missing == [there |-> FALSE, ok |-> TRUE, safe |-> TRUE, map |-> Empty]

-----------------------------------------------------------------------------
(* The stores *)
\* A manager by its methods.  One that can tell whether a name is used is asked
\* before an entry is created; one with unique ids refuses a second entry of an id.
Manager(methods) == [methods |-> methods, named |-> "used" \in methods, unique |-> FALSE]
Basic == {"store", "remove", "get", "list"}
Lookup == Basic \cup {"used", "find"}
CsmManager == Manager(Lookup \cup {"update"})
PsmPods == Manager(Lookup \cup {"update"})
PsmTemplates == Manager(Basic \cup {"update"})
PsmReplicaSets == Manager(Basic \cup {"update"})
PsmDeployments == Manager(Basic \cup {"update"})
BsmManager == Manager(Lookup \cup {"update"})
SsmManager == Manager(Basic \cup {"used"})
IsmManager == Manager(Basic \cup {"used"})
CfmManager == Manager(Lookup)
SecManager == Manager(Lookup)
VsmManager == Manager(Lookup)
NetpolManager == Manager(Lookup \cup {"update"})
NsmManager == [Manager(Basic) EXCEPT !.unique = TRUE]
IlmManager == Manager(Basic)
NpmManager == Manager(Basic \cup {"update"})
IpamManager == Manager(Basic)

\* What a missing file stands for: nothing, or the content a new host gets.
Default == "default"
Entry(name, rev) == [name |-> name, rev |-> rev]
DefaultContent == [x \in {Default} |-> Entry("d", 0)]
Plain(name, manager) == [file |-> name, fresh |-> Empty, private |-> FALSE, manager |-> manager]
WithDefault(name, manager) == [Plain(name, manager) EXCEPT !.fresh = DefaultContent]
CsmStore == Plain("csm", CsmManager)
PsmStore(table) == Plain("psm", table)
BsmStore == Plain("bsm", BsmManager)
SsmStore == Plain("ssm", SsmManager)
IsmStore == Plain("ism", IsmManager)
CfmStore == Plain("cfm", CfmManager)
VsmStore == Plain("vsm", VsmManager)
NetpolStore == Plain("netpol", NetpolManager)
IlmStore == Plain("ilm", IlmManager)
NsmStore == WithDefault("nsm", NsmManager)
NpmStore == WithDefault("npm", NpmManager)
IpamStore == WithDefault("ipam", IpamManager)
\* The secret store sets modes on directory, lock, temporary and final file.
SecStore == [Plain("sec", SecManager) EXCEPT !.private = TRUE]

-----------------------------------------------------------------------------
(* What the managers' functions do to the content *)
Op(what, id, name) == [what |-> what, id |-> id, name |-> name]
StoreOps ==
    [what : {"store", "update", "remove", "get"}, id : Ids, name : {"n"}]
    \cup [what : {"remove", "list", "used", "find"}, id : {Default}, name : {"n"}] \cup [what : {"used"}, id : Ids, name : {"n"}]
Reads == {"get", "find", "list", "used"}

With(c, id, e) == [x \in DOMAIN c \cup {id} |-> IF x = id THEN e ELSE c[x]]
Without(c, id) == [x \in DOMAIN c \ {id} |-> c[x]]
Said(c, got) == [content |-> c, got |-> got]
\* IsNameAlreadyUsed: is there an entry of that name.
NameUsed(c, name) == \E x \in DOMAIN c : c[x].name = name
\* Is the operation refused: an id that is not there, a name nobody has, the
\* second entry of an id where ids are unique, the default namespace's removal.
Refused(k, c, op) ==
    \/ op.what \in {"update", "remove", "get"} /\ op.id \notin DOMAIN c
    \/ op.what = "find" /\ ~NameUsed(c, op.name)
    \/ k.manager.unique /\ ((op.what = "store" /\ op.id \in DOMAIN c) \/ (op.what = "remove" /\ op.id = Default))
Outcome(k, c, op) ==
    IF Refused(k, c, op) THEN Said(c, "refused") ELSE
    CASE op.what = "store" -> Said(With(c, op.id, Entry(op.name, 0)), "ok")
      [] op.what = "update" -> Said([c EXCEPT ![op.id].rev = 1], "ok")
      [] op.what = "remove" -> Said(Without(c, op.id), "ok")
      [] op.what = "used" -> Said(c, IF NameUsed(c, op.name) THEN "taken" ELSE "free")
      [] OTHER -> Said(c, "ok")

-----------------------------------------------------------------------------
(* withLock and withRLock, step by step *)
Asleep == [pc |-> "idle", op |-> Op("list", Default, "n"), buf |-> Empty, got |-> "none", creating |-> FALSE]
Obj(x) == IF shared THEN "same" ELSE x
Objects == Callers \cup {"same"}

\* A file that an earlier call left, with one entry.
Earlier == [there |-> TRUE, ok |-> TRUE, safe |-> TRUE, map |-> With(kind.fresh, CHOOSE id \in Ids : TRUE, Entry("n", 0))]
StoreInit ==
    /\ kind \in AllStores /\ shared \in BOOLEAN
    /\ file \in {Missing, Earlier} /\ old = file /\ tmp = Missing
    /\ mu = [o \in Objects |-> Free] /\ flock = Free
    /\ w = [x \in Callers |-> Asleep]
    /\ calls = 0 /\ trouble = 0 /\ raced = FALSE

At(x, pc) == w[x].pc = pc
Goto(x, pc) == w' = [w EXCEPT ![x].pc = pc]
Returning(x, got) == w' = [w EXCEPT ![x].pc = "unlock", ![x].got = got]
Trouble == trouble < MaxTrouble /\ trouble' = trouble + 1
files == <<file, old, tmp>>

\* A manager's method is called.  A service that creates an entry of a named
\* store asks for the name first.
CallStore(x, op) ==
    /\ At(x, "idle") /\ calls < MaxCalls
    /\ op.what \in kind.manager.methods /\ ~(kind.manager.named /\ op.what = "store")
    /\ calls' = calls + 1
    /\ w' = [w EXCEPT ![x] = [Asleep EXCEPT !.pc = "mutex", !.op = op]]
    /\ UNCHANGED <<kind, shared, files, mu, flock, trouble, raced>>

CreateNamed(x, id) ==
    /\ kind.manager.named /\ At(x, "idle") /\ calls < MaxCalls
    /\ calls' = calls + 1
    /\ w' = [w EXCEPT ![x] = [Asleep EXCEPT !.pc = "mutex", !.op = Op("used", id, "n"), !.creating = TRUE]]
    /\ UNCHANGED <<kind, shared, files, mu, flock, trouble, raced>>

LockMutex(x) ==
    /\ At(x, "mutex") /\ mu[Obj(x)] = Free
    /\ mu' = [mu EXCEPT ![Obj(x)] = x]
    /\ Goto(x, "flock")
    /\ UNCHANGED <<kind, shared, files, flock, calls, trouble, raced>>

\* Mutant: every object has a lock file of its own.
FlockAny(x) ==
    /\ At(x, "flock")
    /\ flock' = x
    /\ Goto(x, "load")
    /\ UNCHANGED <<kind, shared, files, mu, calls, trouble, raced>>

\* MkdirAll, OpenFile of the lock file and Flock, which waits.
Flock(x) ==
    /\ At(x, "flock") /\ flock = Free
    /\ flock' = x
    /\ Goto(x, "load")
    /\ UNCHANGED <<kind, shared, files, mu, calls, trouble, raced>>

\* loadOrInit: a missing file is a fresh store, a broken one an error.
LoadOrInit(x) ==
    /\ At(x, "load")
    /\ IF file.ok
       THEN w' = [w EXCEPT ![x].pc = "fn", ![x].buf = IF file.there THEN file.map ELSE kind.fresh]
       ELSE Returning(x, "error")
    /\ UNCHANGED <<kind, shared, files, mu, flock, calls, trouble, raced>>

\* The manager's function on what was loaded; a read is over after it, and an
\* error saves nothing.
RunFn(x) ==
    LET out == Outcome(kind, w[x].buf, w[x].op)
    IN /\ At(x, "fn")
       /\ IF w[x].op.what \in Reads \/ out.got = "refused" THEN Returning(x, out.got)
          ELSE w' = [w EXCEPT ![x].pc = "open", ![x].buf = out.content]
       /\ UNCHANGED <<kind, shared, files, mu, flock, calls, trouble, raced>>

\* atomicSave: the temporary file is emptied, written, synced and renamed.
OpenTmp(x) ==
    /\ At(x, "open")
    /\ tmp' = [there |-> TRUE, ok |-> FALSE, safe |-> FALSE, map |-> Empty]
    /\ Goto(x, "write")
    /\ UNCHANGED <<kind, shared, file, old, mu, flock, calls, trouble, raced>>

WriteTmp(x) ==
    /\ At(x, "write")
    /\ tmp' = [tmp EXCEPT !.ok = TRUE, !.map = w[x].buf]
    /\ Goto(x, "sync")
    /\ UNCHANGED <<kind, shared, file, old, mu, flock, calls, trouble, raced>>

\* Mutant: the temporary file is closed without Sync.
CloseTmp(x) ==
    /\ At(x, "sync")
    /\ Goto(x, "rename")
    /\ UNCHANGED <<kind, shared, files, mu, flock, calls, trouble, raced>>

SyncTmp(x) ==
    /\ At(x, "sync")
    /\ tmp' = [tmp EXCEPT !.safe = TRUE]
    /\ Goto(x, "rename")
    /\ UNCHANGED <<kind, shared, file, old, mu, flock, calls, trouble, raced>>

Rename(x) ==
    /\ At(x, "rename")
    /\ file' = tmp /\ tmp' = Missing
    /\ IF kind.private THEN Goto(x, "chmod") ELSE Returning(x, "ok")
    /\ UNCHANGED <<kind, shared, old, mu, flock, calls, trouble, raced>>

\* The secret store makes the new file private; an error here comes after the
\* change.
Chmod(x) ==
    /\ At(x, "chmod")
    /\ \/ Returning(x, "ok") /\ UNCHANGED trouble
       \/ Trouble /\ Returning(x, "error")
    /\ UNCHANGED <<kind, shared, files, mu, flock, calls, raced>>

\* Any other step may fail; whatever is held is let go.
StepFails(x) ==
    /\ w[x].pc \in {"flock", "load", "open", "write", "sync", "rename"} /\ Trouble
    /\ Returning(x, "error")
    /\ UNCHANGED <<kind, shared, files, mu, flock, calls, raced>>

\* The deferred Flock(LOCK_UN), Close and Unlock.  A create that was told its
\* name is free goes on: IsNameAlreadyUsed drops the error of its read, so an
\* error too is taken for a name nobody uses.
Creating(y, name) == w[y].pc # "idle" /\ w[y].creating /\ w[y].op.name = name
Unlock(x) ==
    /\ At(x, "unlock")
    /\ flock' = IF flock = x THEN Free ELSE flock
    /\ mu' = [mu EXCEPT ![Obj(x)] = Free]
    /\ IF w[x].op.what = "used" /\ w[x].got \in {"free", "error"}
       THEN /\ Goto(x, "named")
            /\ raced' = (raced \/ w[x].got = "error" \/ \E y \in Callers \ {x} : Creating(y, w[x].op.name))
       ELSE w' = [w EXCEPT ![x] = Asleep] /\ UNCHANGED raced
    /\ UNCHANGED <<kind, shared, files, calls, trouble>>

StoreNamed(x) ==
    /\ At(x, "named")
    /\ w' = [w EXCEPT ![x] = [Asleep EXCEPT !.pc = "mutex", !.op = [w[x].op EXCEPT !.what = "store"], !.creating = TRUE]]
    /\ UNCHANGED <<kind, shared, files, mu, flock, calls, trouble, raced>>

\* The directory with the new name reaches the disk by itself.
Settle ==
    /\ old # file /\ old' = file
    /\ UNCHANGED <<kind, shared, file, tmp, mu, flock, w, calls, trouble, raced>>

\* Condenser dies and is started again: the kernel lets go of its locks.
Crash ==
    /\ Trouble
    /\ mu' = [o \in Objects |-> Free] /\ flock' = Free
    /\ w' = [x \in Callers |-> Asleep]
    /\ UNCHANGED <<kind, shared, files, calls, raced>>

\* The host loses its power: of the rename nothing is sure until it has
\* settled, of a file nothing that was not synced.
OnDisk(f) == IF f.safe THEN f ELSE [f EXCEPT !.ok = FALSE, !.safe = TRUE]
PowerLoss ==
    /\ Trouble
    /\ mu' = [o \in Objects |-> Free] /\ flock' = Free
    /\ w' = [x \in Callers |-> Asleep]
    /\ \E f \in {file, old} : file' = OnDisk(f) /\ old' = OnDisk(f)
    /\ tmp' = OnDisk(tmp)
    /\ UNCHANGED <<kind, shared, calls, raced>>

StoreStep(x) == LockMutex(x) \/ Flock(x) \/ LoadOrInit(x) \/ RunFn(x) \/ OpenTmp(x) \/ WriteTmp(x) \/ SyncTmp(x) \/ Rename(x) \/ Chmod(x) \/ Unlock(x) \/ StoreNamed(x)
StoreNext ==
    \/ \E x \in Callers : StoreStep(x) \/ StepFails(x) \/ (\E op \in StoreOps : op.what # "used" /\ CallStore(x, op)) \/ (\E id \in Ids : CreateNamed(x, id))
    \/ Settle \/ Crash \/ PowerLoss
StoreSpec == StoreInit /\ [][StoreNext]_storeVars

-----------------------------------------------------------------------------
StoreTypeOK ==
    /\ kind \in AllStores /\ flock \in Callers \cup {Free}
    /\ \A f \in {file, old, tmp} : DOMAIN f.map \subseteq Ids \cup {Default}
    /\ \A x \in Callers : w[x].op \in StoreOps

\* The file parses at all times, whatever happens to the process or the host:
\* no store ever answers with "json broken" for a file it wrote itself.
NeverBroken == file.ok /\ OnDisk(file).ok /\ OnDisk(old).ok

\* One caller at a time is between load and unlock, whatever store object it
\* uses, and nobody holds a lock he is not using.
OneAtATime ==
    /\ \A x \in Callers : w[x].pc \in {"load", "fn", "open", "write", "sync", "rename", "chmod"} => flock = x /\ mu[Obj(x)] = x
    /\ flock # Free => w[flock].pc \notin {"idle", "named", "mutex", "flock"}
    /\ \A o \in Objects : mu[o] # Free => w[mu[o]].pc \notin {"idle", "named", "mutex"}

\* Two entries of one name only where two creates asked for it at the same
\* time, or an error was taken for a name nobody uses.
NamesUnique ==
    kind.manager.named /\ ~raced => \A x, y \in DOMAIN file.map : file.map[x].name = file.map[y].name => x = y

\* A store's file and its locks: the invariants above.
StoreSound == StoreTypeOK /\ NeverBroken /\ OneAtATime /\ NamesUnique

-----------------------------------------------------------------------------
(***************************************************************************)
(* The protocol implements LockedStore: an update takes effect with the     *)
(* rename, a read and a refused update with the function run under the lock.*)
(***************************************************************************)
Content(f) == IF f.there THEN f.map ELSE kind.fresh
CallOf(x) ==
    CASE w[x].pc \in {"idle", "named"} -> [pc |-> "idle"]
      [] w[x].pc = "chmod" -> [pc |-> "returns", got |-> "ok"]
      [] w[x].pc = "unlock" -> [pc |-> "returns", got |-> w[x].got]
      [] OTHER -> [pc |-> "called", op |-> w[x].op]
Abstract == INSTANCE LockedStore WITH
    content <- Content(file), saved <- Content(old), call <- [x \in Callers |-> CallOf(x)],
    Operations <- StoreOps

\* Every store keeps the promise of LockedStore.
StoreImplements == Abstract!LSSpec
=============================================================================
