---------------------------- MODULE MCContainer -----------------------------
(***************************************************************************)
(* Model-checking instance of ContainerService: one bridge with two usable  *)
(* addresses, one published port that containers may share.                 *)
(***************************************************************************)
EXTENDS ContainerService, TLC

CONSTANTS c1, c2, r1, r2, br0, f1, n1, n2

ContainerSymmetry ==
    Permutations(Containers) \cup Permutations(Reqs) \cup Permutations(Names)

\* Bound: faults of one kind, as often as they come, and reboots.
OneKindAndReboot == Cardinality(met \ {"reboot"}) <= 1
=============================================================================
