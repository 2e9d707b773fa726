---------------------------- MODULE MCScheduler ----------------------------
(***************************************************************************)
(* The instance of Scheduler that TLC checks: two jobs of one declaration  *)
(* with an attempt for every boot.                                         *)
(***************************************************************************)
EXTENDS Scheduler, TLC

CONSTANTS a1, a2, b1, b2, ja, jb, d1

OneDeclaration == {d1}

FourOps == {a1, a2, b1, b2}
TwoJobs == {ja, jb}
AttemptsOfTwo == a1 :> ja @@ a2 :> ja @@ b1 :> jb @@ b2 :> jb
TwoAtHome == [j \in TwoJobs |-> d1]
FourAtHome == [op \in FourOps |-> d1]
FourAutoMerges == [op \in FourOps |-> "pr_enable_auto_merge"]

=============================================================================
