----------------------------- MODULE RootMounts -----------------------------
(***************************************************************************)
(* The root file system init builds before it leaves the host's: overlay,   *)
(* base and user mounts, devices, masked and read-only paths, pivot_root.   *)
(* A path is the sequence of its components.  The mount table is a sequence *)
(* in mount order: the last entry that covers a path is the one seen there, *)
(* so the order of the calls decides what the container sees.  The upper    *)
(* directory outlives a run; init may be killed at any step.                *)
(***************************************************************************)
EXTENDS Naturals, Sequences, FiniteSets, SequencesExt

CONSTANTS
    Bundles,       \* the containers to build
    KernelPaths,   \* what proc and sysfs show
    MaxRuns        \* bound on starts of a container

VARIABLES
    bundle, phase, k,   \* the container, the stage and the position in its list
    table, contents,    \* mounts; file system -> paths that were made in it
    runs, inPivot       \* starts so far; history: killed with put_old in place
rmVars == <<bundle, phase, k, table, contents, runs, inPivot>>

Under(p, base) == IsPrefix(base, p)
Guarded == {<<"proc">>, <<"sys">>, <<"dev">>, <<"run">>, <<"boot">>}
PutOld == <<"put_old">>

\* The entry seen at a path; the first entry is the root.
Owner(t, p) == CHOOSE n \in DOMAIN t : Under(p, t[n].dst) /\ \A m \in DOMAIN t : Under(p, t[m].dst) => m <= n
Exists(p) == table[Owner(table, p)].dst = p \/ p \in contents[table[Owner(table, p)].fs]
Writable(p) == table[Owner(table, p)].kind = "disk" /\ ~table[Owner(table, p)].ro
Making(p) == [contents EXCEPT ![table[Owner(table, p)].fs] = @ \cup {SubSeq(p, 1, n) : n \in 1 .. Len(p)}]

RootEntry == [dst |-> <<>>, by |-> "root", kind |-> "disk", fs |-> 1, ro |-> FALSE, nosuid |-> FALSE, nodev |-> FALSE]
Entry(p, by, kind, ro) == [dst |-> p, by |-> by, kind |-> kind, fs |-> Len(contents) + 1, ro |-> ro,
                           nosuid |-> TRUE, nodev |-> TRUE]

-----------------------------------------------------------------------------
\* Clean drops "." and resolves "..": a destination that names the root or
\* leaves it is refused, which the empty path stands for.
Clean(p) == FoldLeft(LAMBDA acc, x : IF x = "." THEN acc
                                     ELSE IF x = ".." /\ acc # <<>> /\ Last(acc) # ".." THEN Front(acc)
                                     ELSE Append(acc, x), <<>>, p)
SecurePath(p) == LET q == Clean(p) IN IF q # <<>> /\ Head(q) = ".." THEN <<>> ELSE q

Base(p, kind, ro) == [dst |-> p, kind |-> kind, src |-> "none", ro |-> ro, dev |-> FALSE, bad |-> FALSE, by |-> "base"]
Managed(p) == [Base(p, "bind", FALSE) EXCEPT !.src = "file", !.by = "managed"]
DefaultContainerMounts ==
    << Base(<<"proc">>, "kernel", FALSE), Base(<<"dev">>, "disk", FALSE), Base(<<"dev", "pts">>, "kernel", FALSE),
       Base(<<"sys">>, "kernel", TRUE), Base(<<"tmp">>, "disk", FALSE), Base(<<"run">>, "disk", FALSE),
       Base(<<"proc", "sys">>, "disk", FALSE), [Base(<<"proc", "sysrq">>, "bind", TRUE) EXCEPT !.src = "file"],
       Base(<<"sys", "firmware">>, "disk", FALSE), Base(<<"sys", "bpf">>, "disk", TRUE),
       Base(<<"sys", "cgroup">>, "kernel", TRUE), Base(<<"dev", "mqueue">>, "kernel", FALSE),
       Base(<<"dev", "shm">>, "disk", FALSE),
       Managed(<<"etc", "resolv.conf">>), Managed(<<"etc", "hostname">>), Managed(<<"etc", "hosts">>) >>

\* filterRootlessPrejoinedMounts, filterMissingManagedFileMounts
BaseMounts(b) ==
    IF b.oci THEN <<>>
    ELSE SelectSeq(DefaultContainerMounts,
             LAMBDA m : /\ b.prejoined => ~Under(m.dst, <<"sys">>) /\ m.dst # <<"dev", "mqueue">>
                        /\ m.by = "managed" => b.managed)
MountList == BaseMounts(bundle) \o [n \in DOMAIN bundle.user |-> [bundle.user[n] EXCEPT !.by = "user"]]

HasDeniedDestination(p) == Clean(p) = <<>> \/ \E g \in Guarded : Under(Clean(p), g)

ValidateUserMount(m) ==
    /\ ~m.bad
    /\ \/ m.kind # "bind"
       \/ /\ m.src = "denied" => m.dev
          /\ HasDeniedDestination(m.dst) => m.dev /\ Under(Clean(m.dst), <<"dev">>)

\* Mutant: the remount forgets ro.
SecureMountKeepsRw(m) == [Entry(SecurePath(m.dst), m.by, IF m.kind = "kernel" THEN "kernel" ELSE "disk", m.kind # "bind" /\ m.ro)
                             EXCEPT !.nodev = ~m.dev]
\* The bind call ignores ro; the remount that follows sets the flags.
SecureMount(m) == [Entry(SecurePath(m.dst), m.by, IF m.kind = "kernel" THEN "kernel" ELSE "disk", m.ro) EXCEPT !.nodev = ~m.dev]

-----------------------------------------------------------------------------
RootMountsTypeOK ==
    /\ phase \in {"overlay", "mounts", "std", "devices", "links", "masked", "readonly", "mkdir", "pivot", "ready", "refused", "putold"}
    /\ \A n \in DOMAIN table : table[n].fs \in DOMAIN contents

RootMountsInit ==
    /\ bundle \in Bundles /\ phase = "overlay" /\ k = 1
    /\ table = <<RootEntry>> /\ contents = <<bundle.image>>
    /\ runs = 1 /\ inPivot = FALSE

GoTo(ph) == phase' = ph /\ k' = 1
Refuse == GoTo("refused") /\ UNCHANGED <<table, contents>>
Mounted(e, made) == table' = Append(table, e) /\ contents' = Append(made, IF e.kind = "kernel" THEN {p \in KernelPaths : Under(p, e.dst)} ELSE {})

\* The managed files are seeded in the upper directory before the overlay.
SetupOverlay ==
    /\ phase = "overlay"
    /\ contents' = IF bundle.oci THEN contents
                   ELSE [contents EXCEPT ![1] = @ \cup {<<"etc">>, <<"etc", "resolv.conf">>, <<"etc", "hostname">>, <<"etc", "hosts">>}]
    /\ IF \A n \in DOMAIN bundle.user : ValidateUserMount(bundle.user[n]) THEN GoTo("mounts") ELSE GoTo("refused")
    /\ UNCHANGED <<bundle, table, runs, inPivot>>

MountFilesystem ==
    /\ phase = "mounts"
    /\ IF k > Len(MountList) THEN GoTo("std") /\ UNCHANGED <<table, contents>>
       ELSE LET m == MountList[k]  p == SecurePath(m.dst) IN
            IF p = <<>> \/ (m.kind = "bind" /\ m.src \in {"link", "gone"}) \/ (~Exists(p) /\ ~Writable(p)) THEN Refuse
            ELSE /\ Mounted(SecureMount(m), IF Exists(p) THEN contents ELSE Making(p))
                 /\ k' = k + 1 /\ UNCHANGED phase
    /\ UNCHANGED <<bundle, runs, inPivot>>

StdDevices == <<<<"dev", "null">>, <<"dev", "tty">>>>
MountStdDevice ==
    /\ phase = "std"
    /\ IF k > Len(StdDevices) THEN GoTo("devices") /\ UNCHANGED <<table, contents>>
       ELSE LET p == StdDevices[k] IN
            IF ~Exists(p) /\ ~(Exists(<<"dev">>) /\ Writable(p)) THEN Refuse
            ELSE /\ Mounted([Entry(p, "dev", "disk", TRUE) EXCEPT !.nodev = FALSE], IF Exists(p) THEN contents ELSE Making(p))
                 /\ k' = k + 1 /\ UNCHANGED phase
    /\ UNCHANGED <<bundle, runs, inPivot>>

\* mknod does not replace what is there.
CreateLinuxDevices ==
    /\ phase = "devices"
    /\ IF k > Len(bundle.devices) THEN GoTo("links") /\ UNCHANGED contents
       ELSE LET p == SecurePath(bundle.devices[k]) IN
            IF p = <<>> \/ Exists(p) \/ ~Writable(p) THEN GoTo("refused") /\ UNCHANGED contents
            ELSE contents' = Making(p) /\ k' = k + 1 /\ UNCHANGED phase
    /\ UNCHANGED <<bundle, table, runs, inPivot>>

CreateSymbolicLink ==
    /\ phase = "links"
    /\ LET link == <<"dev", "ptmx">> IN
       IF Exists(link) \/ Writable(link) THEN contents' = Making(link) /\ GoTo("masked")
       ELSE GoTo("refused") /\ UNCHANGED contents
    /\ UNCHANGED <<bundle, table, runs, inPivot>>

ApplyMaskedPaths ==
    /\ phase = "masked"
    /\ IF k > Len(bundle.masked) THEN GoTo("readonly") /\ UNCHANGED <<table, contents>>
       ELSE LET p == SecurePath(bundle.masked[k]) IN
            IF p = <<>> THEN Refuse
            ELSE IF Exists(p) THEN Mounted(Entry(p, "mask", "disk", TRUE), contents) /\ k' = k + 1 /\ UNCHANGED phase
            ELSE IF Len(p) > 1 /\ p[1] \in {"proc", "sys"} THEN k' = k + 1 /\ UNCHANGED <<phase, table, contents>>
            ELSE IF ~Writable(p) THEN Refuse
            ELSE Mounted(Entry(p, "mask", "disk", TRUE), Making(p)) /\ k' = k + 1 /\ UNCHANGED phase
    /\ UNCHANGED <<bundle, runs, inPivot>>

\* A path bound onto itself and made read-only; the bind is recursive and
\* carries the mounts below it along.
BoundTree(p) == Append(table, [table[Owner(table, p)] EXCEPT !.dst = p, !.ro = TRUE])
                    \o SelectSeq(table, LAMBDA e : e.dst # p /\ Under(e.dst, p))

ApplyReadonlyPaths ==
    /\ phase = "readonly"
    /\ IF k > Len(bundle.readonly) THEN GoTo("mkdir") /\ UNCHANGED table
       ELSE LET p == SecurePath(bundle.readonly[k]) IN
            IF p = <<>> THEN GoTo("refused") /\ UNCHANGED table
            ELSE table' = (IF Exists(p) THEN BoundTree(p) ELSE table) /\ k' = k + 1 /\ UNCHANGED phase
    /\ UNCHANGED <<bundle, contents, runs, inPivot>>

\* mkdir put_old fails when the directory is there.
MakePutOld ==
    /\ phase = "mkdir"
    /\ IF Exists(PutOld) THEN GoTo("putold") /\ UNCHANGED contents
       ELSE contents' = Making(PutOld) /\ GoTo("pivot")
    /\ UNCHANGED <<bundle, table, runs, inPivot>>

\* Mutant: the old root is unmounted and its directory stays.
PivotRootKeepsDir ==
    /\ phase = "pivot"
    /\ table' = [table EXCEPT ![1].ro = bundle.ro]
    /\ GoTo("ready")
    /\ UNCHANGED <<bundle, contents, runs, inPivot>>

PivotRoot ==
    /\ phase = "pivot"
    /\ contents' = [contents EXCEPT ![1] = @ \ {PutOld}]
    /\ table' = [table EXCEPT ![1].ro = bundle.ro]
    /\ GoTo("ready")
    /\ UNCHANGED <<bundle, runs, inPivot>>

\* The container ended, or init was killed on the way; the next start finds
\* the upper directory as it was left.
StartAgain ==
    /\ runs < MaxRuns
    /\ inPivot' = (inPivot \/ phase = "pivot")
    /\ runs' = runs + 1
    /\ GoTo("overlay")
    /\ table' = <<RootEntry>> /\ contents' = <<contents[1]>>
    /\ UNCHANGED bundle

RootStep ==
    \/ SetupOverlay \/ MountFilesystem \/ MountStdDevice \/ CreateLinuxDevices \/ CreateSymbolicLink
    \/ ApplyMaskedPaths \/ ApplyReadonlyPaths \/ MakePutOld \/ PivotRoot
RootMountsNext == RootStep \/ StartAgain

-----------------------------------------------------------------------------
\* Nothing is mounted outside the container's root, whatever destinations
\* the bundle names.
MountsStayInside == \A n \in DOMAIN table : ".." \notin Range(table[n].dst) /\ (n > 1 => table[n].dst # <<>>)

\* A masked path that exists shows its mask when the container starts, also
\* below a path that was made read-only afterwards.
MaskedAtStart ==
    phase = "ready" => \A n \in DOMAIN bundle.masked :
        LET p == SecurePath(bundle.masked[n]) IN Exists(p) => table[Owner(table, p)].by = "mask"

\* Read-only paths and read-only user mounts are read-only at the start.
ReadonlyAtStart ==
    phase = "ready" =>
        /\ \A n \in DOMAIN bundle.readonly :
               LET p == SecurePath(bundle.readonly[n]) IN Exists(p) => table[Owner(table, p)].ro
        /\ \A n \in DOMAIN bundle.user :
               LET p == SecurePath(bundle.user[n].dst) IN
               bundle.user[n].ro /\ (\A m \in DOMAIN bundle.user : m > n => ~Under(p, SecurePath(bundle.user[m].dst)))
                   => table[Owner(table, p)].ro

\* No bind mount of a user is seen below the guarded directories, device
\* mounts below /dev excepted.
GuardedKept ==
    \A n \in DOMAIN table :
        table[n].by = "user" /\ table[n].nodev /\ (\E g \in Guarded : Under(table[n].dst, g))
            => \E m \in DOMAIN bundle.user : bundle.user[m].kind # "bind" /\ SecurePath(bundle.user[m].dst) = table[n].dst

\* A container that ended can be started again: put_old is in the way only
\* after init was killed inside pivot_root.
StartsAgain == phase = "putold" => inPivot \/ PutOld \in bundle.image

\* The root file system a workload sees is the one its bundle asks for: no
\* mount outside of it, masked and read-only paths in force, guarded
\* directories untouched.
RootAsAsked == RootMountsTypeOK /\ MountsStayInside /\ MaskedAtStart /\ ReadonlyAtStart /\ GuardedKept
=============================================================================
