----------------------------- MODULE MCDroplet ------------------------------
(***************************************************************************)
(* Model-checking instance of DropletRuntime.                               *)
(***************************************************************************)
EXTENDS DropletRuntime

CONSTANTS r1, r2
=============================================================================
