------------------------------ MODULE MCStartup ------------------------------
(***************************************************************************)
(* The instance of Startup that TLC checks.                                *)
(***************************************************************************)
EXTENDS Startup, TLC

MCCareful == {"apart", "whole", "unlink"}
Symmetry == Permutations(Instances)
=============================================================================
