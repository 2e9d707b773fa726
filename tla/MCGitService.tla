---------------------------- MODULE MCGitService ----------------------------
(***************************************************************************)
(* Instances of GitService: calls on one declaration, and the tools that   *)
(* bring out each of its behaviours.                                       *)
(***************************************************************************)
EXTENDS GitService, TLC

CONSTANTS o1, o2, o3, d1

ThreeOps == {o1, o2, o3}
OneDeclaration == {d1}

ThreeOnOne == [op \in ThreeOps |-> d1]

\* A composite, a remote and a local call.
OneOfEach == o1 :> "prepare_branch" @@ o2 :> "git_push" @@ o3 :> "git_commit"

\* A push of a branch that is not checked out, among local calls.
WithNamedPush == o1 :> "push_elsewhere" @@ o2 :> "git_commit" @@ o3 :> "git_stage"

=============================================================================
