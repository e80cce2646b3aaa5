------------------------------ MODULE MCPolicy ------------------------------
(***************************************************************************)
(* Model-checking instance of PolicyService: one east-west and one          *)
(* north-south policy, one pod, one request thread beside the controller.   *)
(***************************************************************************)
EXTENDS PolicyService

CONSTANTS p1, p2, a1
MCChainOf == p1 :> "EW" @@ p2 :> "ENF"
MCNeeds == p1 :> {a1} @@ p2 :> {}
=============================================================================
