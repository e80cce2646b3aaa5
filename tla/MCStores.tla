------------------------------ MODULE MCStores ------------------------------
(***************************************************************************)
(* Model-checking instance of StoreFile: every store of Condenser.          *)
(***************************************************************************)
EXTENDS StoreFile

CONSTANTS w1, w2

MCAllStores == {CsmStore, PsmStore(PsmPods), PsmStore(PsmTemplates), PsmStore(PsmReplicaSets), PsmStore(PsmDeployments), BsmStore, SsmStore, IsmStore, CfmStore, VsmStore, NetpolStore, IlmStore, NsmStore, NpmStore, IpamStore, SecStore}
=============================================================================
