# Raind: a verification project

Raind is a container stack in one repository: the `raind` command line, the
daemon **Condenser** (`internal/condenser`), which serves an HTTP API and owns
the stores, networks, pods, images and policies, and the low-level runtime
**Droplet** (`internal/droplet`), a set of short-lived commands that create,
start, kill and delete containers. This directory models the parts whose
correctness depends on the order in which concurrent actors take their steps,
checks them with TLC on small instances, and proves what must hold for every
size with TLAPS.

    Ipam ────────────── IpamProofs
      ├─ ContainerService ── ContainerProofs
      └─ NetworkService ──── NetworkProofs     (both EXTEND: share Ipam's state)
    DropletRuntime ─┐                          (opens up one Droplet command)
    ShiftedLayers ──┼─── DropletProofs
    Attach ─────────┤
    InitProcess ────┘                          (inside a container)
    RootMounts
    PodController ──┬─── PodProofs             (above the container service)
    Bottle ─────────┘
    ResourceApply                              (above pods)
    PolicyService ────── PolicyProofs          (policies, chains, controller)
    Endpoints, EdgeProxy ── EdgeProofs         (services, ingress, DNS)
    LayerTree                                  (images)
    ImageStore, ImageBuild ────┐
    LockedStore <── StoreFile ─┴─ StoreFileProofs    (refinement: all stores)
    MC*.tla, MC*.cfg                           (instances for TLC)

`PROJECT.json` maps every definition to the lines it models and lists the runs,
the mutants (a plausible bug for every checked property, which TLC must catch),
the hazards and the theorems.

## 1. Inventory

### How the system works

Every API request is a goroutine of Condenser. There is no global lock and no
lock per container or pod: each store (IPAM, CSM for containers, PSM for pods,
NPM for policies, ...) is a JSON file with a mutex and a file lock that are
held for one call. Whatever a request decides on may be changed before it acts.
Next to the requests run the container monitor (polls pids), the pod
controller, the service controller, the network policy controller (tickers)
and watchers on store files. Droplet commands are processes of their own that
share a container's `state.json` without any lock, together with one shim
process per init process; they call back into Condenser through hooks.

### Components

| Component | State | Operations | Hard part | What makes it correct |
|---|---|---|---|---|
| IPAM store | pools (a /24 per bridge), allocations, forwards | Allocate, Release, StoreBridge, RemoveBridge, SetForwardInfo | exhaustion, reuse of blocks | no address or block is shared, reserved ones are never given out |
| Store files | lock file, temporary file, file | load, change, atomic save | several store objects, crash or loss of power between write and rename | a call takes effect at once or not at all; the file always parses |
| Container service | steps of requests over IPAM, CSM, directories, cgroups, iptables, Droplet | Create with rollback, Start, Stop, Delete | twelve steps without a lock, each may fail; reboot | rollback and Delete give everything back; processes and rules never outlive the address |
| Droplet | `state.json`, `exec.fifo`, init process | create, start, kill, delete, shim | lock-free read-modify-write by several processes | no orphaned process, status tells the truth |
| Droplet inside a container | sealed `config.json`, namespaces, mounts, capabilities | seal, join, mount, mask, pivot, drop, exec | order of stages; edits between check and use; init killed on the way | the entrypoint runs exactly as sealed |
| Rootless layers | cache directory, lock directory, marker | copy with shifted owners | creates that race or die | a layer in use is complete |
| Attach | socket path, hub, frames | attach, detach, resize, exec shims | connections that overlap | the newest client is served, frames stay whole |
| Hooks, container monitor | a state read by a command; a cached copy of CSM | apply to CSM; refresh, tick, report | delivered late; stale cache | CSM follows Droplet |
| Pod service, PSM, pod controller | pods, templates, ReplicaSets; lists read at the start of a tick, back-off | create, start, stop, remove; scale, recreate, restart | decides on stale lists | never too many pods; templates in use stay; replicas come back |
| Resource apply, delete, rollout; deployments | documents of several resources, undo functions | apply with rollback, rollout, delete; reconcileDeployments | one document fails; controller in between | all or nothing; nothing left of what was deleted |
| Bottles | services and their order, containers, policies, network | register, start, stop, delete | order by dependency; rollback | dependencies first; nothing left behind |
| Network service, namespaces | bridges, DNS redirects; namespace to network | create/remove network, create/remove/resolve namespace | check-then-act on counts; rollback | kernel and pools agree; running containers keep their address |
| Policy service, NPM, network policies | policies, running copy, iptables chains, generated rules | add, remove, commit, revert, reconcile | two-file revert; commits without a lock | chains equal the committed policies; generated rules get committed |
| Services | cluster IPs, last applied state, chains | apply, delete, reconcile, start-up cleanup | recorded before applied; restart | rules follow endpoints, every ready pod is reached |
| Ingress, DNS proxy | certificates per host, routes; cache | handshake, route; query, put | stale lists, expiry | hosts keep certificates; no expired answer |
| Images, registry, builds | ILM entries, directories, layers; stages and RUN containers | pull, remove, status, build | one directory for several requests; links and whiteouts | an image that looks present is; nothing outside the root is touched; a build stores what its file says |
| Certificates, AppArmor files, logs, HTTP decoding, CLI | files, connections | I/O | little state of their own | see section 7 |

The hazards that follow from this, each at its line, are in `PROJECT.json`
under `hazards`; further races met while modelling are in section 4.

## 2. Modules and the code

**Ipam** (`store/ipam`). State: `subnetOf` (bridge to /24 block) and `alloc`
(bridge, host part to allocation). One action per locked call. An address is a
pair of a block and a host part; `BlockSize` stands for 256, with the network
address at 0, the gateway at `BlockSize - 2` (`.254`) and the broadcast address
last. `findFreeIpv4` is the lowest free unreserved host; `StoreBridge` takes
the lowest block no pool uses.

**LockedStore, StoreFile** (`store/*`). `LockedStore` is the promise: an
operation takes effect in one step between call and return, or not at all; a
crash keeps the content; a loss of power may go back to the last content that
surely reached the disk. `StoreFile` is the protocol all thirteen stores share:
mutex of the object, `flock` on the lock file, read, parse, change, write and
sync the temporary file, rename, unlock. A store is a record of what differs:
what a missing file stands for, the checks of the manager on top, and whether
the mode is set after the rename. Its refinement mapping (`Abstract`) takes the
rename as the moment of effect.

**ContainerService** (`core/container`, forwarding rules of `core/network`,
Droplet commands from outside). Extends `Ipam`. Each request has a program
counter; the pcs of Create are its twelve steps, then the rollback's five in
the code's order with the `RollbackFlag`s set where the code sets them. A
Droplet command is one step with the hooks it runs, including the two ways in
which `droplet create` leaves something behind when it fails (a fifo that
exists; a failure after the shim started the init process). `allocateAddress`
allocates and then reads the gateway, and may fail at either. `Reboot` empties
what a host reboot empties (processes, cgroups, iptables) and keeps what is on
disk. `met` records the kinds of faults met so far, so that an invariant can
say which faults it does not survive.

**NetworkService** (`core/network`, `core/namespace`). Extends `Ipam` with the
kernel's bridges and redirect rules and with namespaces. Requests create and
remove networks and namespaces call by call; a rollback runs after any failure.
Containers resolve a namespace's network and allocate in two steps.

**DropletRuntime** (`internal/droplet`, `condenser/core/hook`,
`condenser/monitor`). One container. Each command is its sequence of reads and
writes of `state.json`; `UpdateStatus` and its siblings are two steps (read,
write back). The shim records the end of its init process in several such
updates. Hooks carry the state a command read, and are applied to CSM when they
arrive. The monitor side has the file event, the debounce flag of
`Resolver.Watch`, the refresh, and `handleProcessDown`.

**InitProcess, RootMounts, ShiftedLayers, Attach** (`droplet/container`,
`droplet/spec`, the attach relay and client). `InitProcess` goes from options
through `config.json`, its hash, the create command, shim and init to the
entrypoint; `initProc` accumulates namespaces, capabilities, seccomp, user and
root, and another writer may edit `config.json`. `RootMounts` is the mount table in
mount order with what each mount shows, over several runs of one upper
directory. `ShiftedLayers` is `PrepareShiftedLayerCache` step by step for
several creates that may die. `Attach` has shims that listen on one path,
connections accepted and replaced, and the byte stream of each client.

**PodController** (`core/pod`). `reconcileOnce` call by call: the three lists
it reads (ReplicaSets, templates, pods), then per ReplicaSet the clean-up of
failed pods, scale up, scale down, the repair loop, back-off, then the
standalone templates. `PodService.Create/Start/Stop/Remove` are threads of
steps, one per PSM or container call, executed both by API requests and by the
controller (thread `"ctl"`). Deaths of infra and member containers are events.

**ResourceApply** (`core/resource`, `reconcileDeployments`). What a request
still has to do is a sequence of store calls; a document adds its calls after
reading what is there, and pushes its undo function. All ten kinds, rollouts
and the order of Delete are there. A creation that answers with what it reads
back is two calls, the second of which may fail; removing a deployment reads it
first. The deployment controller runs beside it, one store call per step, and
its list may be stale by the next.

**Bottle** (`core/bottle`, its handler). The order of services as the code's
traversal finds it, then policies, network, entry, containers and the rollback;
Start, Stop and Delete work on the entry they read.

**PolicyService** (`core/policy`, `store/npm`, `core/networkpolicy`). The three
files of the policy store, the chains as sequences of rules, commits command by
command in several threads, revert file by file, the controller's two steps
(reconcile, commit), failing commands, a crash with the bootstrap after it.
Revert and backup take no lock, so their renames and copies come between any
two steps of commits, edits and other reverts: a call under the store's lock may
work on what was there before a rename (`Seen`), and a copy goes on writing to
the file it opened, wherever that was moved (`Rename`, `Renamed`, `dst`).
`Verdict` evaluates the chains as the kernel does, so the properties speak of
packets, not of rule lists.

**Endpoints** (`core/service`, `store/ssm`). Cluster IPs, the update that removes
and stores, the controller's pass with what it remembers, and chains, jumps and
rules as sets. Every command of a pass may fail, those of its clean-up and of
the clean-up at start too, whose errors nobody looks at; `littered` records the
chain names under which one of these failed since the controller started. Chain names are any assignment, because the code takes the first
eight characters of a ULID. **EdgeProxy** (`core/ingress`, `dns`) holds the
gateway's certificates and routes, and the DNS cache with a clock.

**ImageStore, LayerTree, ImageBuild** (`core/image`, `registry/dockerhub`,
`store/ilm`). `ImageStore` has pulls, removals, status queries and the storing
of builds over directories and entries, with both parsers of image names.
`LayerTree` applies one archive entry per step to a tree with links beside
other files of the host. `ImageBuild` is the instruction loop with its stages
and RUN containers beside shim and monitor. A failed runtime create may leave
its init process waiting, and the removal of a cgroup with a process inside it
fails, as the kernel has it.

The theorems (section 5) are in modules of their own, each of which extends the
module it is about: **IpamProofs**, **ContainerProofs** (on IpamProofs),
**NetworkProofs** (on IpamProofs), **StoreFileProofs** (on StoreFile,
ImageStore and ImageBuild), **PolicyProofs**,
**DropletProofs** (on DropletRuntime, ShiftedLayers, Attach and InitProcess,
which share no state), **EdgeProofs** (on Endpoints and EdgeProxy) and
**PodProofs** (on PodController and Bottle).

### Abstractions

- Names, specs, veth names, timestamps, logs and labels are left out or are
  members of small sets; they do not influence the control flow the properties
  are about. Image names are sequences of words and separators, paths are
  sequences of components, since parsing them is what the properties are about.
- Container and pod ids are recycled: an id stands for a new ULID once nothing
  but a leftover directory is known under it (`Fresh`, `Unused`).
- A locked call of a store is one step everywhere but in `StoreFile`, whose
  refinement of `LockedStore` is what justifies that.
- `ContainerService` does not interleave two lifecycle requests of the *same*
  container; `DropletRuntime` does exactly that, for one container.
- In `DropletRuntime` recomputing the status (read, check the pid, write) is
  one step.
- In `PodController` a pod has one infra and one member container, container
  operations are one step, and the monitor's write comes with the death.
  There is one ReplicaSet and one standalone template.
- In `PolicyService` a policy matches one class of packets, and the iptables
  commands of one build function are one step that may fail at any of them.
- In `ResourceApply` everything has one name in one namespace and a
  resource's content is a revision. In `Bottle` a container is its state.
- System calls in `InitProcess` and `RootMounts` are their effect on the
  process and on the mount table, or a failure.

## 3. Runs

Modules that share no state share a run where a variable `scene`, fixed in the
initial state, decides which of them a behaviour belongs to.

| Run | Shows |
|---|---|
| `container` | `AllOrNothing`, `HoldersSound` (whatever lives or may be started holds its address), `RulesSound` (a rule leads to its publisher, and is there while it runs) for two concurrent requests, one kind of fault and reboots; `UsesIpamAsSpecified`: the service implements `Ipam` |
| `network` | `SubnetsDisjoint`, `NoSharedAddress`, `ReservedNeverHeld` with blocks and subnets exhausted; `HostMatchesPools`, `LiveKeepsAddress`, `NamespaceHasNetwork` with two requests and a failure |
| `stores` | `StoreImplements`: every store refines `LockedStore`; `StoreSound`: its file always parses, names are unique outside a raced or failed check |
| `droplet` | `DropletSound` (Delete leaves no process behind, nothing is running that was not started) for two concurrent requests; `CachedDeathReported` under fairness |
| `droplet_restart` | `RunningWasStarted` over a restart with two shims alive |
| `init` | `StartedAsSealed`, `RootAsAsked`, `StartsAgain`, `LayersSound`, `AttachSound`; `FeasibleContainerStarts` under fairness |
| `pods` | `PodsSound` (never more pods than asked for), `TemplateKept` under any two events of nine kinds |
| `pods_recover` | `ReplicasConverge`, `ReplicasRecover` under fairness |
| `resources` | `ApplySound` (a failed apply restores what was there; a delete leaves nothing of what it was given, in any order of documents; the controller's replica set is linked or taken back), `BottleSound` (start order, rollback, nothing left but the policies whose commit failed) |
| `policy` | `CommittedIsInstalled`, `PolicyStoreSound`, `MarkSticks`; `GeneratedGetsCommitted` under fairness |
| `endpoints` | `RulesAsRecorded`, `ServicesSound`, `EdgeSound`, `CacheHonest`; `PodEventuallyReached` under fairness |
| `images` | `TreeSound`, `ImageSound`, `BuildSound` |

An aggregate such as `StartedAsSealed` is a conjunction of invariants that are
defined and explained one by one above it in its module. Every property states,
in its own text, the cases the code does not cover; section 4 says why.

### Bounds, and why they are enough

- `container`: two requests and two containers on one bridge with two usable
  addresses: an address given back is handed to the other container at once,
  which is the case the invariants are about. Ids are recycled, so behaviours
  are not bounded in length. One kind of fault, any number of times, and any
  number of reboots (`OneKindAndReboot`): a fault breaks a request, and the
  next of the same kind its clean-up. Symmetry over containers, requests and
  names, which no definition tells apart (no liveness is checked in this run).
- `network`: three bridges, three blocks of one usable address, two namespaces,
  two containers, four requests, two at a time, one failure: a block is given up and
  taken again, a pool fills up, and a rollback meets another request.
  The theorems of IpamProofs drop the bounds for the pools.
- `stores`: two callers with two calls each, on the same or on different store
  objects, and one failing step, crash or loss of power; every store's own
  record is an initial state.
- `droplet`: two commands at the same time, the shim, watcher and monitor, over
  the first init process (`MaxInst = 1`); `droplet_restart` uses one client and
  `MaxInst = 2`, since a stale shim needs exactly one restart.
- `init`: ten option records (plain, hardened, pod member, rootless with and
  without joined namespaces, privileged, and two that cannot be satisfied), one
  edit and one failure; fourteen bundles whose mounts nest, climb or repeat,
  started three times; three creates, one of which dies, over three id
  policies; two clients and two shims with one shim killed.
- `pods`: two replicas, one request beside the controller, `MaxEvents = 2`
  events, six pod ids (more than two replicas, a standalone pod and the pods
  being replaced ever use; ids are recycled).
- `resources`: manifests of up to two documents of eleven kinds from four kinds
  of hosts, two more that an overtaken request may have left (`Stranded`,
  `HalfRolled`), one request beside the controller, one failing call: two
  documents are what an undo or an order needs. Bottles of three services, with every
  shape of dependencies (`OneOfEachShape` keeps one graph of each shape, since
  services have no identity), two requests besides the registration and two
  failures, so that a rollback can fail too.
- `policy`: one east-west and one north-south policy, one pod, one request
  thread beside the controller, four edits or events, one failing command or
  crash: a revert meets a commit of the controller in every order of their steps,
  and a second revert or commit can follow. Generated rules have four ids, so
  that every reconcile finds a new one.
- `endpoints`: two services over two pods and two addresses, manifests of both
  types with and without a wanted address in a range of four, three requests,
  one change of a pod, one failing command or restart; two ingresses and
  threads; three names and a cache of two with a lifetime of one.
- `images`: archives of up to three entries of 23 forms over three trees; two
  requests at a time, three in all, over names that the parsers read alike and
  differently, one of them both pulled and built; eleven build files with up to three stages,
with each way to copy and with instructions before the first FROM; one failure.

Deadlock is checked in the pod runs, whose ticker never stops. In the others
the bounded requests end, and containers may be stuck in states no request is
accepted for; nobody has to send another.

### Fairness

`FairDropletSpec` gives weak fairness to a command that is running, to shims,
the watcher and the monitor: processes and goroutines with nothing to block
them. `FairPodSpec` gives it to the controller (a ticker), to requests already
accepted and to the end of a back-off (time). `PolicyFairSpec` gives it to
the thread of the NetworkPolicy controller, a goroutine with a ticker that also
runs the bootstrap after a crash, and to nobody else's thread, `endpoints` to the
service controller's ticker, and `init` to the create command, the shim, the
init process and the start that releases it. No fairness is assumed of clients, of
workloads exiting or of failures; events are bounded, which is what "eventually
the events stop" means in the liveness properties.

### Refinement

`StoreImplements` is `LockedStore`'s specification under the mapping
`Abstract` (`INSTANCE ... WITH`). `UsesIpamAsSpecified` is `Ipam`'s
specification. Both are checked by TLC and proved (section 5).

## 4. What the code does that one would not expect

These were met as counterexamples while the properties were being stated. The
properties of the runs hold with the exceptions they make necessary, and say so
in their text. They are listed here by part, each with the place where it
starts.

**Containers and Droplet**

1. Two concurrent Creates with one name both pass the check and both store an
   entry: `IsNameAlreadyUsed` and `StoreContainer` are two critical sections
   (`core/container/service_create.go:59`; the comment at line 58 says
   "validate the name is not used by other container").
2. Rollback leaves forwarding rules: the address is released before the rules
   that are found through it, and the flag is set only after the last port
   (`service_create.go:253`; `docs/architecture/container.md:138` lists
   forwarding rules among what rollback cleans up).
3. The shim of a previous init process writes stopped over the state of the
   next one, without looking whose pid `state.json` holds
   (`droplet/container/shim.go:234`).
4. A store event that arrives between the monitor's refresh and the clearing of
   its pending flag is lost (`monitor/monitor.go:349`); the death of the
   container is then never noticed.
5. A Delete that failed after the poststop hook cannot be repeated, since the
   entry is gone; a container whose `exec.fifo` is left over cannot be created
   again; rollback cannot remove the cgroup of a process `droplet create` left
   behind; two Starts that both read stopped make two init processes. An address
   whose gateway cannot be read after it was allocated stays allocated: the flag
   of the rollback is set only when both calls have succeeded
   (`service_create.go:118`, `:500`).
6. Inside a container: a stale lock directory makes every later rootless create
   of that layer time out; capabilities are dropped before the user and the
   limits are set, so that some options can never start; a bundle without a UTS
   namespace sets the host's name; `droplet run` ignores pid and user namespace
   paths; a rootless shim that joins other namespaces by path passes over a
   user namespace given by path (`droplet/container/shim.go:80`); `put_old` left by an init killed inside pivot_root blocks later
   starts; a device list that names a standard device is refused; the check of
   the hash and the load it protects leave a window.
7. The end of one terminal's exec unlinks the socket path a concurrent exec of
   the container listens on; droplet's own client writes header and payload of
   a frame separately.

**Pods and resources**

8. Scaling down recreates what it deleted: the repair loop goes over the list
   from before (`core/pod/controller.go:115`; `docs/architecture/pod.md:311`).
9. A member that dies during Start is not repaired: Start writes running over
   degraded (`core/pod/service_start.go:50`; `docs/architecture/pod.md:296`).
10. A standalone pod removed during the controller's recreation comes back; a
    tick between the template and the pod of an apply makes a second pod; a
    tick in the middle of a user's Stop starts the pod again.
11. Applying a NetworkPolicy whose name exists is refused also with the same
    content, so applying a manifest again fails and rolls back its other
    documents. A replaced pod's template goes with it, so the rollback cannot
    create the pod again. An error while a rollout removes pods returns before
    its undo is registered. A rollout may overwrite the deployment's link with
    the one it read before, and a removal of the deployment goes by the link it
    read before (`core/resource/delete.go:496`): either leaves the replica set the
    controller has just linked with no owner. Creating a namespace, a claim or a
    NetworkPolicy stores it and then reads it back; if the read fails the entry
    stays and nothing undoes it (`core/namespace/service.go:73`,
    `core/pvc/service.go:75`, `core/networkpolicy/service.go:61`). The undo of a
    namespace or claim is refused while an overtaken request's pod is in it, and a
    rollout over a half-finished one drops the template its undo would need.
12. A controller that takes a ReplicaSet back may leave a pod that blocks the
    namespace's deletion; a namespace counts as empty although it has
    ConfigMaps, Secrets, Ingresses, NetworkPolicies or claims.
13. A bottle's Start during its registration starts containers that a failing
    registration can then not delete; a failed policy commit is answered without
    a rollback and leaves the policies in the store
    (`api/http/bottle/handler.go:317`); a Delete that failed half way never completes, since it asks
    for the state of containers already gone (`core/bottle/service.go:323`).

**Network, policies, services**

14. The rollback of a network leaves the DNS redirects; a bridge whose address
    cannot be set stays unmanaged; RemoveNetwork's count may be stale when an
    address is allocated. Nothing keeps RemoveNetwork and CreateNewNetwork from
    the default network `raind0`, which may be removed when it is empty and made
    again on another block (`core/network/service.go:92`, `:32`).
15. Overlapping commits can leave the chains without the final deny rule for a
    while, mix the running copy, or overwrite a removal mark; an error of one
    policy ends its chain silently (`core/policy/service.go:648`); a rule that
    could not be inserted leaves the status applied. Revert takes no lock
    (`store/npm/store.go:172`): one that falls into a backup brings the truncated
    copy into `npm.json`; one inside a commit brings back an applied policy
    whose rule that commit does not insert; two at once can leave no `npm.json`;
    and a call under the lock that had read the file before saves it over the
    reverted one.
16. Applying a NetworkPolicy stores its rules and commits nothing, although
    `docs/reference/resources/networkpolicy.md:51` says it does; the controller
    commits when pods change next.
17. A service's state is recorded before its rules are applied, so a failed
    apply is not repeated (`core/service/controller.go:81`); services created
    within a second share chain names; a NodePort service keeps any cluster IP
    it asks for; an update gives up its address for a moment. The errors of the
    clean-up commands are ignored, in a pass (`controller.go:386`) and at start:
    a jump or chain that a failed `-D`, `-F` or `-X` leaves is recorded nowhere
    and stays until a later clean-up of that name succeeds, an old address's jump until a
    restart.
18. Deleting an ingress may take the certificate of a host that was applied
    meanwhile; the gateway fails a request when any matching path's service is
    missing.

**Images and stores**

19. A failed pull clears the directory of an image that was there; a pull into
    an emptied directory looks complete once its config is written; builds
    `x/u` and `y/u` share a directory, while a build and a pull of one name have
    two: storing one takes the entry and leaves the other's files behind
    (`core/image/service_build.go:1469` removes its own directory only); the two parsers of image names differ; a
    status query deletes an image built locally. A removal that fails half way
    through the directory leaves an entry that may still look present
    (`core/image/service.go:119`). Nothing keeps one image's directory from lying
    inside another's; the run and the proof are about names for which it does not
    (`ImageAssumption`).
20. Deletions made by a RUN are not applied; an opaque marker removes files of
    its own layer that came before it; a RUN given up leaves its process
    running without its address, and so does one whose runtime create failed after
    the init process was there, with its cgroup
    (`core/image/service_build.go:513` ignores that it cannot be removed); its exit status may be read too early as zero.
    Before the first FROM the root is the empty path, so a COPY there writes
    below the daemon's working directory (`core/image/service_build.go:371`).
21. A failed read counts as a free name (`core/configmap/service.go:28`); the
    secret store may report an error for a change that is there to stay.

## 5. Theorems

All are proved by TLAPS for every value of the constants: any number of
requests, callers, containers, bridges, policies and threads, and any bound on
failures, edits, calls and deaths. The assumptions are named in the modules and
say what the code guarantees of its inputs:

| Assumption | Says |
|---|---|
| `IpamAssumption` | the default bridge is a bridge, the marker for "nobody" is no container, there is a block, and a block has at least four addresses (the code's has 256) |
| `ContainerAssumption` | fault kinds are known ones, the marker is no name |
| `NetworkAssumption` | a namespace's own bridge is not the default one (its name is derived from the namespace's) |
| `StoreAssumption` | there is an id, no caller is the marker of a free lock, and the thirteen store records are as built: what a missing file stands for is at most the default entry, and names are checked where the manager has `IsNameAlreadyUsed` |
| `PolicyAssumption` | the controller's goroutine serves no request, generated ids (ULIDs of their own) and the fixed rows of the chains are no user policy's, and each policy is listed under one chain |
| `InitAssumption` | options are of the types the command line parses, profiles and capabilities are known ones |
| `DropletAssumption` | there is an init process to create |
| `PodAssumption` | there is a pod id, and the controller's goroutine serves no request |
| `BottleAssumption` | a bottle has services, finitely many (`services is required`, `core/bottle/service.go:48`), one request registers it, and the name that stands for a missing service is none of them |
| `ImageAssumption` | what a registry takes for a name has a tag that is not empty and has no colon; and, which nothing in the code ensures, that no image's directory lies inside another's |
| `BuildAssumption` | a build file is a sequence of instructions |
| `ShiftAssumption` | an id map in login mode does not put the login's own id inside the subordinate range, which the kernel refuses |
| `AttachAssumption` | the marker for "nobody" is no shim and no client, droplet's clients are clients |
| `EndpointsAssumption` | a service's fixed address is one of its network's (validated on apply), its type is one of the two the code knows |
| `EdgeAssumption` | a TLS host of an ingress is a host, names and backends are finite in number, and the cache, its lifetime and the clock are not empty |

**IpamProofs.** `IpamTypeCorrect`, `IpamSubnetsDisjoint`,
`IpamNoSharedAddress`, `IpamReservedNeverHeld`. `NoSharedAddress` is not
inductive: within one pool it holds because `alloc` is a function, but across
pools it needs that blocks differ, and that a pool that does not exist holds
nothing, or a block given to a new pool could meet old allocations. Hence

    IpamInv == IpamTypeOK /\ SubnetsDisjoint /\ OrphanFree /\ ReservedNeverHeld

with one lemma per operation.

**ContainerProofs.** `ContainerTypeCorrect`; `ContainerRefinesIpam`:
`ContainerSpec => IpamSpec`, that is, each step of the service is one operation
of the store or leaves it alone; and from it `ContainerNoSharedAddress`. The
difficulty is that `Ipam` allows Allocate only for an id without an address,
while in the service the id is chosen in one step and Allocate is called in
another, with anything in between. The inductive invariant `ContainerInv`
therefore says that a Create that has not allocated yet owns its id alone: no
CSM entry (so that no Start, Stop or Delete can take it up), no address, and no
other request working on it. `StepOK` gathers what a step of one request may
do to the rest, `StepPreserves` shows that this suffices, and there is one
lemma per action.

The second half of the module proves `ContainerHoldersSound`,
`ContainerAllOrNothing` and `ContainerRulesSound`, from one invariant `SafetyInv`. It adds to
`ContainerInv`: a container has one address and one request working on it
(`OneAddress`, `OneLifecycle`); what exists of a container at each program
counter of the request that creates, rolls back or deletes it (`HeldAt`,
`KeptAt`), under the faults the property survives (an address that is left
because its gateway could not be read is the one thing `AllOrNothing` excepts
for what a create leaves, and only after such a fault); and, for the rules, that a
rule's address is held by somebody who publishes its port until the Delete that
is about to release it has removed it (`RulesHeld`, `PublishedAt`). `SafeStep`
is what one action may do to one container; each action is shown to be such a
step, and `SafeStepKeeps` does the rest once.

**NetworkProofs.** `NetworkHostMatchesPools`, `NetworkLiveKeepsAddress`,
`NetworkNamespaceHasNetwork`, from `NetworkInv`, a conjunction over bridges, the default one among them.
The properties speak of bridges no request works on; the invariant says, for
one that requests work on, which of pool, link and redirects each program
counter accounts for, and that a bridge two requests disagree about is in a
history set (`spoiled`, `raced`, `cut`) by the time they end. A step of a
request changes one bridge, so the proof is per bridge: calm ones follow from
the `Calm` lemmas, the one in work from the action's own lemma.

**StoreFileProofs.** `StoresSound`, and `StoreRefinesLockedStore`:
`StoreSpec => StoreImplements`, initial states and each step under the
refinement mapping. `StoreInv` says who holds mutex and lock file at each
program counter (`LocksHeld`), that between load and rename the caller's copy
is still what the file holds (`WorksOnFile`: no update can be lost), that the
temporary file is the change of that copy, and that file and former file are
whole (`FilesWhole`). Names need the history of the check (`CreateAsks`).

**StoreFileProofs**, images. `ImagesStaySound`, from `ImageInv`, for any requests,
operations and faults (a removal that stops half way among them), and any names
that `ImageAssumption` admits. A present image is whole because a request that
met no other knows what it has made of its directory so far (`Filled`), and two
requests in one directory have met (`Meet`); if its files change under an entry
later, the directory is on record as spoiled. Files without an entry are the work
of a request that still has to store or remove them (`Cared`). `ImageMoves` says
what one step of one request owes the invariant, for its own directory and for
the others; steps on files and steps on entries are shown to be of that form in
general (`FilesMove`, `EntriesMove`), and each action is one of them.
`ParsersAgree` is about the two parsers of names: where the search for `:` from
the front and from the back find the same cut, and Docker Hub's own host is not
written before a single word, they return one key. The proof needed the record of
a directory whose entry was taken by a store of the same name under its other
directory (`Abandoned`), which showed the behaviour in section 4.

**StoreFileProofs**, builds. `BuildsStaySound`, from `BuildInv`, for any set of
build files, of any length, and any number of failures. What is stored is what
the file says because at each instruction the current root holds exactly what
the instructions since its FROM have brought, and each variable set since then
stands once, with its last value (`MadeOf`; `MadeSkips`, `MadeBrings`,
`MadeSets` and `MadeOpens` are the ways an instruction extends it, and
`SetEnvVarSets` is about the list of variables). Nothing is left behind because
every temporary tree is registered or on record (`TreesKnown`) and every RUN
that is over is undone (`RunUndone`). A command that failed stops the build:
the wait ends well only on a status the monitor has finished, since until then
it owes one (`MonitorPlace`), and that status is the process's own unless it was
misread (`RunPlace`, `ExitsSeen`). A RUN that was given up may outlive its
rollback, but no later RUN (`Beaten`); nor may the process a create left when it failed after its start
(`halfCreated`), whose cgroup is the one thing besides what is on record that a
RUN leaves.

**PolicyProofs.** `PolicyStaysSound`, `PolicyCommitted` and the action property
`PolicyMarkSticks`, from `PolicyInv`. Its store half knows what each of the
three files is at each step of a commit, revert or start, and that a policy
marked for removal is in nobody's list except as `remove` or `late`; all of it
until a revert meets other work on the store (`crossed`), after which it only
says that the files are stores, absent or broken. No step of a revert is
assumed to be alone. Its chain
half says, for a commit no other commit or revert disturbs, how far the chains are built
(`Rebuilt`, `Inserting`), and after it that they are a skeleton of fixed rows
with exactly the applied rules before them (`Installed`). What packets meet is
the least matching row; its existence (`MinFacts`) is proved by minimal
counterexample from the well-foundedness of finite sets, in place of an
induction.

**DropletProofs**, the runtime. `DropletTypeCorrect` holds for any number of
requests and restarts. The other two have a hypothesis, because the code has
the behaviour of section 4 where it fails. `DropletStaysSound` is about the
first init process (`MaxInst = 1`) under any number of concurrent requests: with
a second one, a stale shim can make a forced delete overlook it. `OneLifeInv`
ties what each command is about to do to the life of the process: past the fifo
of a start it has left `waiting`, past the kill of a delete it is dead, and a
file that says nothing, stopped or pid 0 is one whose process has died.
`RunningAlwaysStarted` is about any number of restarts with commands that come
one after the other: with two requests TLC finds a start that released the
first process, and writes `running` only after another start has restarted the
container, for a second process that still waits.
`AloneInv` says that every copy of `state.json` in a command or in one of the
shims is truthful (`Truthful`: it says running only of a process that has been
released), and that while there is a file a waiting process is the one the fifo
belongs to. Each step is first reduced to what it does to the files and the
processes (`Effect`, `Moves`), so that either invariant is kept once per kind of
effect rather than once per step.

**DropletProofs**, rootless layers. `ShiftedLayersSound`: the lock directory
excludes (`Exclusive`), a temporary copy has what its step says (`TmpAsFarAs`),
and the cache is whole whenever anyone uses it. `ShownUndoesMapId` is the
arithmetic of the id maps.

**DropletProofs**, attached terminals. `AttachStaysSound`, from `AttachInv`.
What a client typed reaches the terminal unchanged because of what is still
under way: on a connection of raind's client the tokens in flight are whole
frames for the reader as it stands (`Framed`), and there is an assignment of
positions (`Places`) under which they carry exactly the keys that were typed and
have not arrived, in order (`Underway`). The positions are a function that is
quantified over, extended by a key and shifted by a read, so no induction over
the stream is needed. `LoneOnPath` says that a shim that met no other is the
only active one, and that the socket path is its own from Listen on.

**DropletProofs**, the init process. `InitStartsAsSealed`. `InitInv` has one part per concern: how
far create, shim and init may be apart (`InOrder`); that the host side is set
up for the new init process, since a stale `init.pid` is removed before the
shim runs and the new one is written by it, and that the fifo is written after
all of it (`SetUp`); that the two hashes around create's load enclose it, so
that what was loaded is what was sealed (`Sealed`); and that init is as it was
cloned until its preparation (`AsCloned`). The stages of the preparation are
followed one by one (`JoinedEntered` to `Prepared`). The exception for rootless
shims in `NamespacesAsAsked` was found by this proof: the bounded options had
no such record, and now have one.

**EdgeProofs.** `EdgeStaysSound` and the action property `EdgeCacheIsHonest`,
for `EdgeSpec`: gateway and DNS proxy interleaved freely (the
run checks them one at a time). `IngressInv` adds to the property that a delete which still
has to remove certificates took its list of hosts after the last apply that it
did not see (`CertsSafe`, with the history of the code's race), and that the
backends of a request during which nothing changed are those of its route
(`ListIsCurrent`). `DnsInv` says that a lookup
never comes from the future, so an answer fresh when it began is honest. `ServicesStaySound` and `RulesStayAsRecorded` are about
`Endpoints`, from `StoreInv` and `RulesInv`. No two services get one address
because the search returns an unused one or fails, for any network size. That
what iptables holds is what the controller has recorded needs `AllOwned`: every
rule belongs to a service the controller knows, or stands under a chain name
where a clean-up command failed (`littered`), also halfway through a pass. A
pass over one service is summarised once (`Replaced`), and every path through
it, with each failure, is shown to be of that form.

**PodProofs.** `PodsStaySound` and `TemplateStays`, from `PodInv`. That a
ReplicaSet never has more pods than were asked for is not inductive, since the
controller acts on a list that requests have overtaken. `Within` therefore
counts places: the pods in the store, together with those its list still holds
(`Held`: what the loop has yet to see, the pod it is starting, the one it is
about to replace), plus the pods it has yet to store (`Owed`), are at most as
many as were asked for. A request can only free a place: it stores pods of its
own template alone, also when it makes room for them (`RequestOK`), and so a
stale list is never too short (`ListOK`: what it names were pods of the
ReplicaSet, and what it no longer names has no pod in the store, unless the
controller has just stored it). Its template stays because whoever found it
unreferenced, in one locked call, can remove it in another only once the
ReplicaSet is gone (the clauses of `RequestOK` and `CallOK` on `r_drop` and
`d_drop`): a ReplicaSet that is applied comes with a template of its own.
`Leads` says what an action owes the invariant for the thread that takes it,
`Tamed` that it stores no pod; each of the forty actions is shown to be such a
step, with lemmas of their own for the two that store (`CreateStore`,
`CreateOwner`) and for the ways a call fails or returns into its loop.

**PodProofs**, bottles. `BottleStaysSound`, from `BottleInv`, for any set of
services, graph of dependencies and number of requests. Its first part is the
algorithm: while `BuildStartOrder` runs, each service it has taken stands behind
those it depends on, its queue holds exactly the services that wait for nobody
else (`Sorting`), and a degree is the number of dependencies not yet taken. So
when the queue is empty either all services are sorted, and no set of services
can wait for one another (`SortedIsFree`, from the least position in such a
set), or the ones left are such a set. The second part says what there is of a
bottle at each step of its registration and rollback (`RegInv`): after a failed
commit of the policies these alone are left, since the handler rolls nothing
back; after a rollback whose own steps succeed, nothing. What makes a
Delete safe against a registration that is still creating is `EntryOK`: a
Delete begins with the last container of the order and fails if the entry it
read does not name it, and an entry that names the last container was written
by the last step of the registration; from then on nothing is added, and the
entry names the policies and the network there are. `UserInv` says how far a
Start, Stop or Delete has come on the entry it read; a Stop speaks only of
requests that met no other. Every step moves one request: `ActorMoves` and
`RegistrarMoves` show once that all the others keep what they rely on.

**Only model-checked.** Liveness under fairness, which is out of the prover's
reach: `CachedDeathReported`, `FeasibleContainerStarts`, `ReplicasConverge`,
`ReplicasRecover`, `GeneratedGetsCommitted`, `PodEventuallyReached`. What a
recursive definition or fold computes: `TreeSound` (`LayerTree` uses RECURSIVE
operators) and `RootAsAsked` (a mount table folded from a list). And the
invariant of `ResourceApply`, with `StartsAgain` of `RootMounts`.

## 6. What could be added

- Proofs of the invariants just named.
- Several ReplicaSets that share a template in `PodController`, and
  `ResourceApply` over the steps of `PodController` rather than over whole pod
  operations.

## 7. Not modelled

Certificates of the daemon, TLS, AppArmor profile files, log pipelines, the
decoding and formatting of HTTP requests and answers, the command line and its
`promote` conversion are I/O or formatting around the state modelled here: they
keep no state that two actors share. The migration of files at start-up is a
sequence of renames before anything else runs. What an executed process does,
the bytes a proxy copies and the contents of files are data the properties do
not tell apart. Fields of the OCI specification that no stage of `InitProcess`
or `RootMounts` acts on are carried along unchanged. Memory, CPU and disk
limits are enforced by the kernel.
