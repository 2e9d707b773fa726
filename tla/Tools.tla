------------------------------- MODULE Tools -------------------------------
(***************************************************************************)
(* The mutating tools of the registry, as far as the journal and recovery  *)
(* can tell them apart: what each does to a clone and to its remote, in    *)
(* which order, and what recovery expects to observe afterwards.           *)
(*                                                                         *)
(* The observed git state of a clone (ObservedGitState) is kept as three   *)
(* facets.  The code's fourth and fifth, the branch name and the worktree  *)
(* digest, move together with the head and with the index or head for      *)
(* every tool modelled here, so they distinguish no further case.  The     *)
(* value of a facet is the operation that last changed it, so two values   *)
(* differ exactly when some operation changed the facet in between.        *)
(***************************************************************************)
EXTENDS Naturals, Sequences

CONSTANTS Ops,              \* dispatched calls: one fresh operation id each
          Declarations,     \* declared repositories, one clone each
          DeclarationOf,    \* the declaration a call is for
          ToolOf,           \* the registry tool a call names, a push of another
                            \* branch than the one checked out apart
          Origin,           \* the value of a facet no operation has changed
          Untracked         \* the upstream of a branch that tracks none

Facets == {"head", "index", "upstream"}
GitStates == [Facets -> Ops \cup {Origin, Untracked}]
Pristine == [f \in Facets |-> Origin]

\* What each handler does to the clone and its remote, in order.  "step" appends
\* a journal step, a facet's name changes that facet, "remote" lands a push on
\* the remote, "track" moves the remote-tracking ref to what was pushed, "other"
\* lands a push of a branch that is not checked out, whose ref is not observed,
\* "switch" checks out a branch made from a commit, which tracks nothing, and
\* "unseen" changes what no observation carries.
Stage == <<"index">>
RestorePaths == <<"index">>
Commit == <<"head">>
Fetch == <<"upstream">>
Push == <<"step", "remote", "track">>
PushElsewhere == <<"step", "other", "unseen">>
\* On a feature branch: neither FETCH_HEAD nor the base's own ref is observed.
SyncBase == <<"unseen", "unseen">>
PrepareBranch == <<"step", "upstream", "step", "switch">>
\* The hatch's child, as a command that moves the head.
Raw == <<"step", "head">>
\* The host merges later; no clone changes.
EnableAutoMerge == <<"step", "unseen">>

Program ==
    [git_stage         |-> Stage,
     git_restore_paths |-> RestorePaths,
     git_commit        |-> Commit,
     git_fetch         |-> Fetch,
     git_push          |-> Push,
     push_elsewhere    |-> PushElsewhere,
     sync_base         |-> SyncBase,
     prepare_branch    |-> PrepareBranch,
     git_raw           |-> Raw,
     pr_enable_auto_merge |-> EnableAutoMerge]

MutatingTools == DOMAIN Program
Pushes == {"git_push", "push_elsewhere"}
LocalWrites == {"git_stage", "git_restore_paths", "git_commit", "prepare_branch"}

ASSUME ToolsAssumption ==
    /\ Origin \notin Ops
    /\ Untracked \notin Ops \cup {Origin}
    /\ DeclarationOf \in [Ops -> Declarations]
    /\ ToolOf \in [Ops -> MutatingTools]

ProgramOf(op) == Program[ToolOf[op]]

\* The state of a clone after an instruction that changes it; a remote-tracking
\* ref moves only where the branch tracks one.
Tracked(state, value) ==
    [state EXCEPT !["upstream"] = IF @ = Untracked THEN Untracked ELSE value]

After(instruction, state, op, pushed) ==
    CASE instruction = "upstream" -> Tracked(state, op)
      [] instruction = "track"    -> Tracked(state, pushed)
      [] instruction = "switch"   -> [state EXCEPT !["head"] = op, !["upstream"] = Untracked]
      [] OTHER                    -> [state EXCEPT ![instruction] = op]

LocalEffects == Facets \cup {"track", "switch"}

\* Mutation of ExpectedPostState: a push is done when the ref it tracks moved or
\* did not, whether or not it is where the head is.
PostStateOfAnyPush(op, pre, observed) ==
    CASE ToolOf[op] \in {"git_stage", "git_restore_paths"} -> observed["index"] # pre["index"]
      [] ToolOf[op] = "git_commit" -> observed["head"] # pre["head"]
      [] ToolOf[op] = "git_fetch"  -> observed["upstream"] # pre["upstream"]
      [] ToolOf[op] \in Pushes     -> observed["upstream"] # Untracked
      [] OTHER -> FALSE

\* RecoveryDescriptor.expectedPostState: the state a finished call leaves.  A
\* push is judged by the branch that is checked out, whichever branch it named.
ExpectedPostState(op, pre, observed) ==
    CASE ToolOf[op] \in {"git_stage", "git_restore_paths"} -> observed["index"] # pre["index"]
      [] ToolOf[op] = "git_commit" -> observed["head"] # pre["head"]
      [] ToolOf[op] = "git_fetch"  -> observed["upstream"] # pre["upstream"]
      [] ToolOf[op] \in Pushes     -> /\ observed["upstream"] # Untracked
                                      /\ observed["upstream"] = observed["head"]
      [] OTHER -> FALSE

\* RecoveryDescriptor.resume: only the composites name a step to run again.
Resumable(op) == ToolOf[op] = "prepare_branch"

=============================================================================
