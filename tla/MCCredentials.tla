---------------------------- MODULE MCCredentials ----------------------------
(***************************************************************************)
(* The instance of Credentials that TLC checks.                            *)
(***************************************************************************)
EXTENDS Credentials, TLC

CONSTANTS c1, c2, c3

AllCalls == {c1, c2, c3}
FirstClones == {c3}
AllQuiet == {"calls", "tie", "read"}
Symmetry == Permutations(Declarations) \cup Permutations({c1, c2})
=============================================================================
