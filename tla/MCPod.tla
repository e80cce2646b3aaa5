------------------------------- MODULE MCPod --------------------------------
(***************************************************************************)
(* Model-checking instance of PodController: one request beside the         *)
(* controller's tick; each .cfg chooses the events that may happen.         *)
(***************************************************************************)
EXTENDS PodController

CONSTANTS r1
=============================================================================
