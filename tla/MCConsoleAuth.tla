--------------------------- MODULE MCConsoleAuth ---------------------------
(***************************************************************************)
(* The instance of ConsoleAuth that TLC checks.                            *)
(***************************************************************************)
EXTENDS ConsoleAuth, TLC

Symmetry ==
    UNION {Permutations(set) : set \in {Requests, Sessions, Secrets, States}}
=============================================================================
