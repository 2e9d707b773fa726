------------------------------ MODULE MCOutbox ------------------------------
(***************************************************************************)
(* One journal entry under callers that call anything in any order, and    *)
(* notices beside it.                                                      *)
(***************************************************************************)
EXTENDS Outbox, TLC

CONSTANTS o1, d1

MCOps == {o1}
MCDeclarations == {d1}
MCDeclarationOf == o1 :> d1
MCToolOf == o1 :> "git_stage"

\* The journal's operations do not read the pre-state and the steps they store.
OnePreState == \A op \in Ops : entry[op].pre = Pristine /\ entry[op].steps = 0
=============================================================================
