-------------------------------- MODULE Ipam --------------------------------
(***************************************************************************)
(* The IPAM store of Condenser (internal/condenser/store/ipam): the pools   *)
(* (one per bridge, each on one /24 of the runtime subnet) and the          *)
(* addresses containers hold in them.  Every operation runs under the       *)
(* store's mutex and file lock (IpamStore.withLock), so each is one atomic  *)
(* step here; the file behind it is left out.                               *)
(*                                                                          *)
(* An address is a pair: the /24 it lies in and its host part.  A subnet    *)
(* has BlockSize addresses (256 in the code).                               *)
(***************************************************************************)
EXTENDS Naturals, FiniteSets

CONSTANTS
    Bridges,        \* names of bridge interfaces
    DefaultBridge,  \* "raind0", configured by SetConfig
    Containers,     \* container ids
    NoContainer,    \* marks an address that is not in Allocations
    Forwards,       \* ForwardInfo entries (host port, container port, protocol)
    NumSubnets,     \* number of /24 blocks in the runtime subnet (256)
    BlockSize       \* addresses of one block (256)

ASSUME IpamAssumption ==
    /\ DefaultBridge \in Bridges
    /\ NoContainer \notin Containers
    /\ NumSubnets \in Nat \ {0}
    /\ BlockSize \in Nat /\ BlockSize >= 4

VARIABLES
    subnetOf,   \* bridge |-> index of its /24, or NoSubnet when it has no pool
    alloc       \* bridge |-> host part |-> Allocation

ipamVars == <<subnetOf, alloc>>

Subnets == 0 .. NumSubnets - 1
NoSubnet == NumSubnets
Hosts == 0 .. BlockSize - 1

NetworkHost == 0
GatewayHost == BlockSize - 2    \* ipv4Add(ip, 254)
BroadcastHost == BlockSize - 1

\* Allocation{ContainerId, Forwards}; the veth name and the time are left out
Allocation == [cid : Containers \cup {NoContainer}, fwds : SUBSET Forwards]
Free == [cid |-> NoContainer, fwds |-> {}]

IpamTypeOK ==
    /\ subnetOf \in [Bridges -> Subnets \cup {NoSubnet}]
    /\ alloc \in [Bridges -> [Hosts -> Allocation]]

Configured(b) == subnetOf[b] # NoSubnet
HeldBy(b, h) == alloc[b][h].cid
Holds(c, b, h) == Configured(b) /\ HeldBy(b, h) = c
HasAddress(c) == \E b \in Bridges, h \in Hosts : Holds(c, b, h)

\* len(p.Allocations)
NumContainers(b) == Cardinality({h \in Hosts : HeldBy(b, h) # NoContainer})

\* IpamStore.SetConfig on a fresh store: one pool for the default bridge
IpamInit ==
    /\ subnetOf = [b \in Bridges |-> IF b = DefaultBridge THEN 0 ELSE NoSubnet]
    /\ alloc = [b \in Bridges |-> [h \in Hosts |-> Free]]

-----------------------------------------------------------------------------
\* Mutant: the gateway is not recognised as reserved.
FreeHostsIgnoringGateway(b) ==
    {h \in Hosts \ {NetworkHost, BroadcastHost} : HeldBy(b, h) = NoContainer}

\* findFreeIpv4: from network + 1 upwards, past the reserved addresses
FreeHosts(b) ==
    {h \in Hosts \ {NetworkHost, GatewayHost, BroadcastHost} :
        HeldBy(b, h) = NoContainer}

IsLowest(n, S) == n \in S /\ \A m \in S : n <= m

\* Allocate.  It fails, with no change, when the bridge is not configured or
\* its subnet is full.
CanAllocate(b) == Configured(b) /\ FreeHosts(b) # {}

Allocate(c, b) ==
    /\ Configured(b)
    /\ \E h \in Hosts :
        /\ IsLowest(h, FreeHosts(b))
        /\ alloc' = [alloc EXCEPT ![b][h] = [cid |-> c, fwds |-> {}]]
    /\ UNCHANGED subnetOf

\* Release deletes the first allocation of the container; releasing a
\* container that holds none is not an error.
Release(c) ==
    /\ \/ \E b \in Bridges, h \in Hosts :
            /\ Holds(c, b, h)
            /\ alloc' = [alloc EXCEPT ![b][h] = Free]
       \/ ~HasAddress(c) /\ UNCHANGED alloc
    /\ UNCHANGED subnetOf

\* Mutant: the next block is the number of pools, as if none was ever removed.
UnusedByPoolCount ==
    {s \in Subnets : s >= Cardinality({b \in Bridges : Configured(b)})}

\* Mutant: the blocks in use are not looked at.
UnusedIgnoringPools == Subnets

UnusedSubnets == {s \in Subnets : \A b \in Bridges : subnetOf[b] # s}

\* StoreBridge takes the lowest unused /24; it fails when the name is taken or
\* no /24 is left.
StoreBridge(b) ==
    /\ ~Configured(b)
    /\ \E s \in Subnets :
        /\ IsLowest(s, UnusedSubnets)
        /\ subnetOf' = [subnetOf EXCEPT ![b] = s]
    /\ alloc' = [alloc EXCEPT ![b] = [h \in Hosts |-> Free]]

\* RemoveBridge drops the pool with whatever allocations it holds.
RemoveBridge(b) ==
    /\ Configured(b)
    /\ subnetOf' = [subnetOf EXCEPT ![b] = NoSubnet]
    /\ alloc' = [alloc EXCEPT ![b] = [h \in Hosts |-> Free]]

\* SetForwardInfo appends to the allocation of the container; it fails when
\* the container holds no address.
SetForwardInfo(c, f) ==
    /\ \E b \in Bridges, h \in Hosts :
        /\ Holds(c, b, h)
        /\ alloc' = [alloc EXCEPT ![b][h] = [cid |-> c, fwds |-> @.fwds \cup {f}]]
    /\ UNCHANGED subnetOf

\* GetForwardInfo
ForwardsOf(c) ==
    {f \in Forwards : \E b \in Bridges, h \in Hosts :
                          Holds(c, b, h) /\ f \in alloc[b][h].fwds}

-----------------------------------------------------------------------------
\* The store on its own, with every request its callers may send it.  A
\* container id is a fresh ULID in ContainerService.Create, the only caller of
\* Allocate, so Allocate never runs for an id that holds an address.
IpamNext ==
    \/ \E c \in Containers : Release(c)
    \/ \E c \in Containers, b \in Bridges : ~HasAddress(c) /\ Allocate(c, b)
    \/ \E b \in Bridges : StoreBridge(b)
    \/ \E b \in Bridges : RemoveBridge(b)
    \/ \E c \in Containers, f \in Forwards : SetForwardInfo(c, f)

IpamSpec == IpamInit /\ [][IpamNext]_ipamVars

-----------------------------------------------------------------------------
\* Two bridges never own the same /24, whatever order they were created and
\* removed in: StoreBridge reuses the blocks RemoveBridge gave back.
SubnetsDisjoint ==
    \A b1, b2 \in Bridges :
        b1 # b2 /\ Configured(b1) => subnetOf[b1] # subnetOf[b2]

AddressOf(b, h) == <<subnetOf[b], h>>

\* One address is never held by two containers, across all pools: what keeps
\* DNAT rules, DNS answers and policy rules pointing at one container.
NoSharedAddress ==
    \A b1 \in Bridges, h1 \in Hosts : HeldBy(b1, h1) # NoContainer =>
        \A b2 \in Bridges, h2 \in Hosts :
            HeldBy(b2, h2) # NoContainer /\ AddressOf(b1, h1) = AddressOf(b2, h2) => b1 = b2 /\ h1 = h2

\* The network, gateway and broadcast addresses stay out of the allocations,
\* also when the subnet is full (findFreeIpv4 must fail, not wrap onto them).
ReservedNeverHeld ==
    \A b \in Bridges, h \in {NetworkHost, GatewayHost, BroadcastHost} :
        HeldBy(b, h) = NoContainer

\* A pool that does not exist holds nothing, and forwards are recorded only on
\* addresses that are held: the part of the state the other invariants rest on.
OrphanFree ==
    \A b \in Bridges, h \in Hosts :
        /\ ~Configured(b) => alloc[b][h] = Free
        /\ HeldBy(b, h) = NoContainer => alloc[b][h].fwds = {}

\* The inductive invariant behind NoSharedAddress
IpamInv == IpamTypeOK /\ SubnetsDisjoint /\ OrphanFree /\ ReservedNeverHeld
=============================================================================
