----------------------------- MODULE IpamProofs -----------------------------
(***************************************************************************)
(* Proofs about the IPAM store, for any set of bridges, containers and      *)
(* forwards, any number of blocks and any block size of at least four.      *)
(***************************************************************************)
EXTENDS Ipam, TLAPS

\* The initial store, with the one pool of SetConfig, satisfies the invariant.
LEMMA IpamInitInv == IpamInit => IpamInv
  BY IpamAssumption
  DEF IpamInit, IpamInv, IpamTypeOK, SubnetsDisjoint, OrphanFree,
      ReservedNeverHeld, Configured, HeldBy, Subnets, NoSubnet, Hosts,
      Allocation, Free, NetworkHost, GatewayHost, BroadcastHost

\* Allocate takes a free, unreserved host of a configured pool.
LEMMA AllocateInv ==
  ASSUME IpamInv, NEW c \in Containers, NEW b \in Bridges, Allocate(c, b)
  PROVE  IpamInv'
  <1> USE IpamAssumption DEF IpamInv
  <1>1. PICK h \in Hosts :
          /\ h \in FreeHosts(b)
          /\ alloc' = [alloc EXCEPT ![b][h] = [cid |-> c, fwds |-> {}]]
    BY DEF Allocate, IsLowest
  <1>2. Configured(b) /\ UNCHANGED subnetOf
    BY DEF Allocate
  <1>3. IpamTypeOK'
    BY <1>1, <1>2 DEF IpamTypeOK, Allocation
  <1>4. SubnetsDisjoint'
    BY <1>2 DEF SubnetsDisjoint, Configured
  <1>5. OrphanFree'
    BY <1>1, <1>2 DEF OrphanFree, Configured, HeldBy, IpamTypeOK, Allocation
  <1>6. ReservedNeverHeld'
    BY <1>1 DEF ReservedNeverHeld, HeldBy, FreeHosts, IpamTypeOK, Allocation,
       Hosts, NetworkHost, GatewayHost, BroadcastHost
  <1> QED BY <1>3, <1>4, <1>5, <1>6

\* Release clears one allocation together with its forwards.
LEMMA ReleaseInv ==
  ASSUME IpamInv, NEW c \in Containers, Release(c)
  PROVE  IpamInv'
  <1> USE IpamAssumption DEF IpamInv
  <1>1. UNCHANGED subnetOf
    BY DEF Release
  <1>2. CASE UNCHANGED alloc
    BY <1>1, <1>2 DEF IpamTypeOK, SubnetsDisjoint, OrphanFree,
       ReservedNeverHeld, Configured, HeldBy
  <1>3. CASE ~UNCHANGED alloc
    <2>1. PICK b \in Bridges, h \in Hosts : alloc' = [alloc EXCEPT ![b][h] = Free]
      BY <1>3 DEF Release
    <2>2. IpamTypeOK'
      BY <1>1, <2>1 DEF IpamTypeOK, Allocation, Free
    <2>3. SubnetsDisjoint'
      BY <1>1 DEF SubnetsDisjoint, Configured
    <2>4. OrphanFree'
      BY <1>1, <2>1 DEF OrphanFree, Configured, HeldBy, IpamTypeOK, Free
    <2>5. ReservedNeverHeld'
      BY <2>1 DEF ReservedNeverHeld, HeldBy, IpamTypeOK, Free,
         Hosts, NetworkHost, GatewayHost, BroadcastHost
    <2> QED BY <2>2, <2>3, <2>4, <2>5
  <1> QED BY <1>2, <1>3

\* StoreBridge gives a new pool a block that no other pool has.
LEMMA StoreBridgeInv ==
  ASSUME IpamInv, NEW b \in Bridges, StoreBridge(b)
  PROVE  IpamInv'
  <1> USE IpamAssumption DEF IpamInv
  <1>1. PICK s \in Subnets :
          /\ \A x \in Bridges : subnetOf[x] # s
          /\ subnetOf' = [subnetOf EXCEPT ![b] = s]
    BY DEF StoreBridge, IsLowest, UnusedSubnets
  <1>2. alloc' = [alloc EXCEPT ![b] = [h \in Hosts |-> Free]]
    BY DEF StoreBridge
  <1>3. s # NoSubnet
    BY <1>1 DEF Subnets, NoSubnet
  <1>4. IpamTypeOK'
    BY <1>1, <1>2 DEF IpamTypeOK, Allocation, Free
  <1>5. SubnetsDisjoint'
    BY <1>1, <1>3 DEF SubnetsDisjoint, Configured, IpamTypeOK
  <1>6. OrphanFree'
    BY <1>1, <1>2, <1>3 DEF OrphanFree, Configured, HeldBy, IpamTypeOK, Free
  <1>7. ReservedNeverHeld'
    BY <1>2 DEF ReservedNeverHeld, HeldBy, IpamTypeOK, Free,
       Hosts, NetworkHost, GatewayHost, BroadcastHost
  <1> QED BY <1>4, <1>5, <1>6, <1>7

\* RemoveBridge gives the block back and forgets the pool's allocations.
LEMMA RemoveBridgeInv ==
  ASSUME IpamInv, NEW b \in Bridges, RemoveBridge(b)
  PROVE  IpamInv'
  <1> USE IpamAssumption DEF IpamInv
  <1>1. /\ subnetOf' = [subnetOf EXCEPT ![b] = NoSubnet]
        /\ alloc' = [alloc EXCEPT ![b] = [h \in Hosts |-> Free]]
    BY DEF RemoveBridge
  <1>2. IpamTypeOK'
    BY <1>1 DEF IpamTypeOK, Allocation, Free
  <1>3. SubnetsDisjoint'
    BY <1>1 DEF SubnetsDisjoint, Configured, IpamTypeOK
  <1>4. OrphanFree'
    BY <1>1 DEF OrphanFree, Configured, HeldBy, IpamTypeOK, Free
  <1>5. ReservedNeverHeld'
    BY <1>1 DEF ReservedNeverHeld, HeldBy, IpamTypeOK, Free,
       Hosts, NetworkHost, GatewayHost, BroadcastHost
  <1> QED BY <1>2, <1>3, <1>4, <1>5

\* SetForwardInfo touches only the forwards of an allocation that is held.
LEMMA SetForwardInfoInv ==
  ASSUME IpamInv, NEW c \in Containers, NEW f \in Forwards, SetForwardInfo(c, f)
  PROVE  IpamInv'
  <1> USE IpamAssumption DEF IpamInv
  <1>1. PICK b \in Bridges, h \in Hosts :
          /\ Holds(c, b, h)
          /\ alloc' = [alloc EXCEPT ![b][h] = [cid |-> c, fwds |-> @.fwds \cup {f}]]
    BY DEF SetForwardInfo
  <1>2. UNCHANGED subnetOf
    BY DEF SetForwardInfo
  <1>3. IpamTypeOK'
    <2>1. [cid |-> c, fwds |-> alloc[b][h].fwds \cup {f}] \in Allocation
      BY DEF IpamTypeOK, Allocation
    <2> QED BY <1>1, <1>2, <2>1 DEF IpamTypeOK
  <1>4. SubnetsDisjoint'
    BY <1>2 DEF SubnetsDisjoint, Configured
  <1>5. OrphanFree'
    BY <1>1, <1>2 DEF OrphanFree, Configured, HeldBy, Holds, IpamTypeOK,
       Allocation
  <1>6. ReservedNeverHeld'
    BY <1>1 DEF ReservedNeverHeld, HeldBy, Holds, IpamTypeOK, Allocation,
       Hosts, NetworkHost, GatewayHost, BroadcastHost
  <1> QED BY <1>3, <1>4, <1>5, <1>6

\* A step of the store, by any of its operations, preserves the invariant.
LEMMA IpamNextInv == IpamInv /\ [IpamNext]_ipamVars => IpamInv'
  <1> SUFFICES ASSUME IpamInv, [IpamNext]_ipamVars PROVE IpamInv'
    OBVIOUS
  <1>1. CASE UNCHANGED ipamVars
    BY <1>1 DEF ipamVars, IpamInv, IpamTypeOK, SubnetsDisjoint, OrphanFree,
       ReservedNeverHeld, Configured, HeldBy
  <1>2. CASE IpamNext
    BY <1>2, AllocateInv, ReleaseInv, StoreBridgeInv, RemoveBridgeInv,
       SetForwardInfoInv DEF IpamNext
  <1> QED BY <1>1, <1>2

\* Every operation of the IPAM store keeps its state well-typed.
THEOREM IpamTypeCorrect == IpamSpec => []IpamTypeOK
  <1>1. IpamInv => IpamTypeOK
    BY DEF IpamInv
  <1> QED BY <1>1, IpamInitInv, IpamNextInv, PTL DEF IpamSpec

\* No two bridges ever share a /24 block of the runtime subnet.
THEOREM IpamSubnetsDisjoint == IpamSpec => []SubnetsDisjoint
  <1>1. IpamInv => SubnetsDisjoint
    BY DEF IpamInv
  <1> QED BY <1>1, IpamInitInv, IpamNextInv, PTL DEF IpamSpec

\* No address is ever held by two containers, in one pool or across pools.
THEOREM IpamNoSharedAddress == IpamSpec => []NoSharedAddress
  <1>1. IpamInv => NoSharedAddress
    BY DEF IpamInv, NoSharedAddress, SubnetsDisjoint, OrphanFree, AddressOf,
       HeldBy, Free
  <1> QED BY <1>1, IpamInitInv, IpamNextInv, PTL DEF IpamSpec

\* Network, gateway and broadcast addresses are never given to a container.
THEOREM IpamReservedNeverHeld == IpamSpec => []ReservedNeverHeld
  <1>1. IpamInv => ReservedNeverHeld
    BY DEF IpamInv
  <1> QED BY <1>1, IpamInitInv, IpamNextInv, PTL DEF IpamSpec
=============================================================================
