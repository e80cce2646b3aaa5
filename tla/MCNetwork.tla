----------------------------- MODULE MCNetwork ------------------------------
(***************************************************************************)
(* Model-checking instance of NetworkService: two namespaces whose bridges  *)
(* compete with the default one for three blocks, one usable address each.  *)
(***************************************************************************)
EXTENDS NetworkService, TLC

CONSTANTS br0, br1, br2, n1, n2, c1, c2, r1, r2

MCBridgeOf == n1 :> br1 @@ n2 :> br2
NetworkSymmetry == Permutations(Containers) \cup Permutations(NetReqs)
=============================================================================
