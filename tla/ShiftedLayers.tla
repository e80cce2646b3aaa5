---------------------------- MODULE ShiftedLayers ----------------------------
(***************************************************************************)
(* The cache of image layers for rootless containers: a copy of a layer     *)
(* whose owners are translated into the user namespace.  Several creates    *)
(* may want the same copy; a directory made with mkdir is the lock, and a   *)
(* marker written last makes a copy complete.  A create may die anywhere,   *)
(* and the daemon does not remove the lock it leaves.                       *)
(***************************************************************************)
EXTENDS Integers, FiniteSets

CONSTANTS
    Creates,     \* processes preparing a layer
    Policies,    \* id maps: mode, base, root, size
    Owners,      \* owners of the files of the layer
    MaxWait,     \* polls before a waiter gives up
    MaxDeaths    \* bound on processes that die

\* Owners are ids of a host.  The map of a user's login is the user's own id
\* and a range of subordinate ids; the kernel takes no map whose ranges overlap.
ASSUME ShiftAssumption ==
    /\ Owners \subseteq Nat
    /\ Policies \subseteq [mode : {"login", "shifted"}, base : Nat, root : Nat, size : Nat]
    /\ \A p \in Policies : p.mode = "login" => p.root < p.base \/ p.root >= p.base + p.size - 1

VARIABLES
    policy,      \* the map in use
    at, polls,   \* per create: where it is, how often it polled
    lock,        \* the lock directory exists
    tmp,         \* per create: files of its temporary copy; marker as -1
    cache,       \* files and marker under the cache directory
    stale,       \* history: a holder died with the lock
    deaths
shVars == <<policy, at, polls, lock, tmp, cache, stale, deaths>>

Marker == -1
-----------------------------------------------------------------------------
MapId(p, id) == IF p.mode = "login" THEN (IF id = 0 THEN p.root ELSE p.base + id - 1) ELSE p.base + id
Maps(p, id) == 0 <= id /\ id < p.size

\* The map given to the kernel: extents of container id, host id and size.
IdMap(p) ==
    IF p.mode = "login"
    THEN {[c |-> 0, h |-> p.root, n |-> 1], [c |-> 1, h |-> p.base, n |-> p.size - 1]}
    ELSE {[c |-> 0, h |-> p.base, n |-> p.size]}
\* What the kernel shows in the namespace for a host id; -1 is the overflow id.
Shown(p, host) ==
    IF \E e \in IdMap(p) : e.h <= host /\ host < e.h + e.n
    THEN LET e == CHOOSE x \in IdMap(p) : x.h <= host /\ host < x.h + x.n IN e.c + host - e.h
    ELSE -1

-----------------------------------------------------------------------------
ShiftTypeOK ==
    /\ at \in [Creates -> {"check", "lock", "recheck", "clear", "copy", "mark", "remove", "rename", "unlock", "wait",
                           "use", "failed", "dead"}]
    /\ cache \subseteq Owners \cup {Marker} /\ tmp \in [Creates -> SUBSET (Owners \cup {Marker})]

\* IDMapPolicyFromConfig: the mode of the host and its id map.
IDMapPolicyFromConfig == policy \in Policies

ShiftInit ==
    /\ IDMapPolicyFromConfig
    /\ at = [x \in Creates |-> "check"] /\ polls = [x \in Creates |-> 0]
    /\ lock = FALSE /\ tmp = [x \in Creates |-> {}] /\ cache = {}
    /\ stale = FALSE /\ deaths = 0

To(x, a) == at' = [at EXCEPT ![x] = a]
Ready == Marker \in cache

CheckReady(x) ==
    /\ at[x] = "check"
    /\ To(x, IF Ready THEN "use" ELSE "lock")
    /\ UNCHANGED <<policy, polls, lock, tmp, cache, stale, deaths>>

TryLock(x) ==
    /\ at[x] = "lock"
    /\ lock' = TRUE
    /\ To(x, IF lock THEN "wait" ELSE "recheck")
    /\ UNCHANGED <<policy, polls, tmp, cache, stale, deaths>>

\* A waiter polls for the marker and never looks at the lock again.
Wait(x) ==
    /\ at[x] = "wait"
    /\ polls' = [polls EXCEPT ![x] = @ + 1]
    /\ To(x, IF Ready THEN "use" ELSE IF polls[x] + 1 >= MaxWait THEN "failed" ELSE "wait")
    /\ UNCHANGED <<policy, lock, tmp, cache, stale, deaths>>

\* Mutant: the holder does not look again.
NoRecheck(x) ==
    /\ at[x] = "recheck"
    /\ To(x, "clear")
    /\ UNCHANGED <<policy, polls, lock, tmp, cache, stale, deaths>>

Recheck(x) ==
    /\ at[x] = "recheck"
    /\ To(x, IF Ready THEN "unlock" ELSE "clear")
    /\ UNCHANGED <<policy, polls, lock, tmp, cache, stale, deaths>>

ClearTmp(x) ==
    /\ at[x] = "clear"
    /\ tmp' = [tmp EXCEPT ![x] = {}] /\ To(x, "copy")
    /\ UNCHANGED <<policy, polls, lock, cache, stale, deaths>>

\* One file at a time; an owner outside the map ends the copy, and the
\* deferred calls remove the temporary copy and the lock.
CopyShifted(x) ==
    /\ at[x] = "copy"
    /\ IF tmp[x] = Owners THEN To(x, "mark") /\ UNCHANGED <<tmp, lock>>
       ELSE \E o \in Owners \ tmp[x] :
                IF Maps(policy, o) THEN tmp' = [tmp EXCEPT ![x] = @ \cup {o}] /\ UNCHANGED <<at, lock>>
                ELSE tmp' = [tmp EXCEPT ![x] = {}] /\ lock' = FALSE /\ To(x, "failed")
    /\ UNCHANGED <<policy, polls, cache, stale, deaths>>

WriteMarker(x) ==
    /\ at[x] = "mark"
    /\ tmp' = [tmp EXCEPT ![x] = @ \cup {Marker}] /\ To(x, "remove")
    /\ UNCHANGED <<policy, polls, lock, cache, stale, deaths>>

RemoveOld(x) ==
    /\ at[x] = "remove"
    /\ cache' = {} /\ To(x, "rename")
    /\ UNCHANGED <<policy, polls, lock, tmp, stale, deaths>>

RenameTmp(x) ==
    /\ at[x] = "rename"
    /\ cache' = tmp[x] /\ tmp' = [tmp EXCEPT ![x] = {}] /\ To(x, "unlock")
    /\ UNCHANGED <<policy, polls, lock, stale, deaths>>

Unlock(x) ==
    /\ at[x] = "unlock"
    /\ lock' = FALSE /\ To(x, "use")
    /\ UNCHANGED <<policy, polls, tmp, cache, stale, deaths>>

Holding(x) == at[x] \in {"recheck", "clear", "copy", "mark", "remove", "rename", "unlock"}
Die(x) ==
    /\ deaths < MaxDeaths /\ at[x] \notin {"use", "failed", "dead"}
    /\ deaths' = deaths + 1
    /\ stale' = (stale \/ Holding(x))
    /\ To(x, "dead")
    /\ UNCHANGED <<policy, polls, lock, tmp, cache>>

ShiftStepOf(x) ==
    \/ CheckReady(x) \/ TryLock(x) \/ Wait(x) \/ Recheck(x) \/ ClearTmp(x) \/ CopyShifted(x)
    \/ WriteMarker(x) \/ RemoveOld(x) \/ RenameTmp(x) \/ Unlock(x)
ShiftNext == \E x \in Creates : ShiftStepOf(x) \/ Die(x)
ShiftSpec == ShiftInit /\ [][ShiftNext]_shVars

-----------------------------------------------------------------------------
\* A container that uses a shifted layer has all of its files under it: the
\* copy is complete and nobody removes or replaces it.
CacheInUseComplete == (\E x \in Creates : at[x] = "use") => cache = Owners \cup {Marker}

\* Inside the namespace every file of a shifted layer has the owner it has in
\* the image: the kernel's map undoes what the copy did.
OwnersKept == (\E x \in Creates : at[x] = "use") => \A o \in Owners : Shown(policy, MapId(policy, o)) = o

\* The lock is left behind only by a process that died holding it.
LockReleased == lock => stale \/ \E x \in Creates : Holding(x)

\* The cache of shifted layers, shared by concurrent creates that may die: what
\* is used is complete, owners are mapped one to one, the lock is given back.
LayersSound == ShiftTypeOK /\ CacheInUseComplete /\ OwnersKept /\ LockReleased
=============================================================================
