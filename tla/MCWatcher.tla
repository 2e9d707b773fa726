----------------------------- MODULE MCWatcher -----------------------------
(***************************************************************************)
(* The instance of Watcher that TLC checks: a file dropped under the name  *)
(* of one that was delivered before, with a path the plan permits and one  *)
(* it does not.                                                            *)
(***************************************************************************)
EXTENDS Watcher

CONSTANTS f1, g, p1, p2

OneName == [f \in Files |-> "a"]
MCCareful == {"redrop"}
=============================================================================
