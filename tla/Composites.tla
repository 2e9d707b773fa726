----------------------------- MODULE Composites -----------------------------
(***************************************************************************)
(* The two composites (src/src/composites/composites.ts) and the git tools *)
(* beside them, on the branches of one clone: the base, one feature branch *)
(* and its pull request.  The clone's mutations run one at a time, child   *)
(* by child, and may be killed between two children; the origin changes at *)
(* any time.  A killed composite is run again (recovery-descriptors.ts).   *)
(*                                                                         *)
(* A commit is known by the commit of the origin's base it stands on and   *)
(* by the changes added since: a rebase moves the first and keeps what the *)
(* new base lacks of the second.  The host merges a request as one commit  *)
(* of its own (squash), and nobody pushes the base.                        *)
(***************************************************************************)
EXTENDS Integers, FiniteSets

CONSTANTS MaxBase,         \* bound on the commits of the origin's base
          MaxChanges,      \* bound on the changes committed
          MaxKills,        \* bound on the children killed
          Avoided          \* what does not happen: see Spared

ASSUME CompositesAssumption ==
    /\ MaxBase \in Nat /\ MaxChanges \in Nat /\ MaxKills \in Nat
    /\ Avoided \subseteq {"onbranch", "prompt"}

VARIABLES origin,    \* the remote: its base, its feature branch, the pushes on the wire
          landed,    \* the changes in each commit of the origin's base
          request,   \* its pull requests: whether one is open, the last that was merged
          tracking,  \* the clone's refs/remotes/origin/*
          base,      \* the clone's branches
          feature,
          head,      \* what is checked out
          rebasing,  \* the tip a rebase left in progress would go back to
          dirty,     \* whether the working tree has uncommitted changes
          call,      \* the mutation under way
          made,      \* the changes committed so far
          kills

originVars == <<origin, landed, request>>
cloneVars == <<tracking, base, feature, head, rebasing, dirty>>
compositeVars == <<originVars, cloneVars, call, made, kills>>

Bases == 0..MaxBase
Changes == 1..MaxChanges
Commits == [on : Bases, adds : SUBSET Changes]
NoBranch == [none |-> TRUE]
Unmerged == -1
NoMerge == [head |-> NoBranch, commit |-> Unmerged]
Idle == [op |-> "none", at |-> "idle", remote |-> 0, status |-> NoMerge]

Ops == {"none", "prepare", "reconcile", "push", "sync"}
Points == {"idle", "start", "clean", "fetch", "published", "read", "materialize",
           "create", "free", "move", "rebase", "checkout",
           "confirm", "merged", "switch", "advance", "delete", "send", "track"}

Merges == [head : Commits \cup {NoBranch}, commit : Bases \cup {Unmerged}]

CompositesTypeOK ==
    /\ origin \in [base : Bases, feature : Commits \cup {NoBranch}, wire : Commits \cup {NoBranch}]
    /\ landed \in [Bases -> SUBSET Changes]
    /\ request \in [open : BOOLEAN, last : Merges]
    /\ tracking \in [base : Bases, feature : Commits \cup {NoBranch}]
    /\ base \in Commits /\ feature \in Commits \cup {NoBranch}
    /\ head \in {"base", "feature", "detached"}
    /\ rebasing \in Commits \cup {NoBranch}
    /\ dirty \in BOOLEAN
    /\ call \in [op : Ops, at : Points, remote : Bases, status : Merges]
    /\ made \in 0..MaxChanges /\ kills \in 0..MaxKills

CompositesInit ==
    /\ origin = [base |-> 0, feature |-> NoBranch, wire |-> NoBranch]
    /\ landed = [k \in Bases |-> {}]
    /\ request = [open |-> FALSE, last |-> NoMerge]
    /\ tracking = [base |-> 0, feature |-> NoBranch]
    /\ base = [on |-> 0, adds |-> {}] /\ feature = NoBranch
    /\ head = "base" /\ rebasing = NoBranch /\ dirty = FALSE
    /\ call = Idle /\ made = 0 /\ kills = 0

-----------------------------------------------------------------------------
\* git, as far as the calls see it.
Plain(k) == [on |-> k, adds |-> {}]
\* merge-base --is-ancestor, of a commit of the origin's base and a local one.
Holds(commit, k) == k <= commit.on
Descends(new, old) == new.on = old.on /\ old.adds \subseteq new.adds
\* A rebase drops the changes the new base has.
Onto(k, commit) == [on |-> k, adds |-> commit.adds \ landed[k]]
CurrentIs(branch) == head = branch
\* What was made and is not on the wire alone.
Held(n) ==
    \/ n \in base.adds \/ n \in landed[origin.base]
    \/ \E tip \in {feature, origin.feature, rebasing} \ {NoBranch} : n \in tip.adds

Proceed(at) == call' = [call EXCEPT !.at = at]
End == call' = Idle
At(op, at) == call.op = op /\ call.at = at
Spared(what) == what \in Avoided
Composite == {"prepare", "reconcile"}

\* "prompt": what a killed push sent has arrived before the next composite begins.
Start(op, at) ==
    /\ call = Idle
    /\ Spared("prompt") /\ op \in Composite => origin.wire = NoBranch
    /\ call' = [Idle EXCEPT !.op = op, !.at = at]
    /\ UNCHANGED <<originVars, cloneVars, made, kills>>

-----------------------------------------------------------------------------
\* prepareBranch.

\* abortStaleRebase: HEAD and the branch go back to where the rebase began.
AbortStaleRebase ==
    /\ At("prepare", "start")
    /\ Proceed("clean")
    /\ IF rebasing = NoBranch THEN UNCHANGED <<feature, head, rebasing>>
       ELSE /\ feature' = rebasing /\ head' = "feature" /\ rebasing' = NoBranch
    /\ UNCHANGED <<originVars, tracking, base, dirty, made, kills>>

CheckClean ==
    /\ call.at = "clean"
    /\ IF dirty THEN End ELSE Proceed("fetch")
    /\ UNCHANGED <<originVars, cloneVars, made, kills>>

\* Mutation of Fetched: only the base is fetched.
FetchedBaseOnly == [tracking EXCEPT !.base = origin.base]

\* git fetch origin: a branch the origin no longer has keeps its tracking ref.
Fetched == [base |-> origin.base,
            feature |-> IF origin.feature = NoBranch THEN tracking.feature ELSE origin.feature]

Fetch ==
    /\ call.at = "fetch"
    /\ tracking' = Fetched
    /\ Proceed(IF call.op = "prepare" THEN "published" ELSE "merged")
    /\ UNCHANGED <<originVars, base, feature, head, rebasing, dirty, made, kills>>

CheckPublished ==
    /\ At("prepare", "published")
    /\ IF tracking.feature # NoBranch THEN End
       ELSE call' = [call EXCEPT !.at = "materialize", !.remote = tracking.base]
    /\ UNCHANGED <<originVars, cloneVars, made, kills>>

\* Case 4: the branch is there; based on the latest base, or brought forward.
Reuse ==
    /\ At("prepare", "materialize") /\ feature # NoBranch
    /\ Proceed(IF Holds(feature, call.remote) THEN "checkout" ELSE "rebase")
    /\ UNCHANGED <<originVars, cloneVars, made, kills>>

\* Cases 1 and 2: the base has nothing of its own, and is advanced first.
AdvanceFirst ==
    /\ At("prepare", "materialize") /\ feature = NoBranch /\ base.adds = {}
    /\ base' = Plain(call.remote)
    /\ Proceed("create")
    /\ UNCHANGED <<originVars, tracking, feature, head, rebasing, dirty, made, kills>>

Create ==
    /\ At("prepare", "create")
    /\ feature' = Plain(call.remote)
    /\ Proceed("checkout")
    /\ UNCHANGED <<originVars, tracking, base, head, rebasing, dirty, made, kills>>

\* Case 3: the base's own commits get the branch's name before the base moves.
Preserve ==
    /\ At("prepare", "materialize") /\ feature = NoBranch /\ base.adds # {}
    /\ feature' = base
    /\ Proceed("free")
    /\ UNCHANGED <<originVars, tracking, base, head, rebasing, dirty, made, kills>>

FreeBase ==
    /\ At("prepare", "free")
    /\ head' = IF CurrentIs("base") THEN "feature" ELSE head
    /\ Proceed("move")
    /\ UNCHANGED <<originVars, tracking, base, feature, rebasing, dirty, made, kills>>

MoveBase ==
    /\ At("prepare", "move")
    /\ base' = Plain(call.remote)
    /\ Proceed("rebase")
    /\ UNCHANGED <<originVars, tracking, feature, head, rebasing, dirty, made, kills>>

\* rebaseOntoRemoteBase: it ends, or conflicts and is aborted.
Rebase(conflict) ==
    /\ At("prepare", "rebase")
    /\ head' = "feature"
    /\ IF conflict THEN feature' = feature /\ End
       ELSE feature' = Onto(call.remote, feature) /\ Proceed("checkout")
    /\ UNCHANGED <<originVars, tracking, base, rebasing, dirty, made, kills>>

Checkout ==
    /\ At("prepare", "checkout")
    /\ head' = "feature"
    /\ End
    /\ UNCHANGED <<originVars, tracking, base, feature, rebasing, dirty, made, kills>>

-----------------------------------------------------------------------------
\* reconcileAfterMerge.
\* The status is read once; a later request is another number.
ConfirmMerged ==
    /\ At("reconcile", "confirm")
    /\ IF request.last = NoMerge THEN End
       ELSE call' = [call EXCEPT !.at = "clean", !.status = request.last]
    /\ UNCHANGED <<originVars, cloneVars, made, kills>>

\* Mutation of Reachable: merged is taken for merged into the base.
ReachableIfMerged(commit) == TRUE

\* The merge commit must be reachable from the fetched base: the pull request may
\* have been merged into another branch.
Reachable(commit) == commit \in 0..tracking.base

CheckReachable ==
    /\ At("reconcile", "merged")
    /\ IF Reachable(call.status.commit)
          THEN call' = [call EXCEPT !.at = "switch", !.remote = tracking.base]
          ELSE End
    /\ UNCHANGED <<originVars, cloneVars, made, kills>>

SwitchToBase ==
    /\ At("reconcile", "switch")
    /\ head' = "base"
    /\ Proceed("advance")
    /\ UNCHANGED <<originVars, tracking, base, feature, rebasing, dirty, made, kills>>

\* merge --ff-only: nothing to do on a base that has the commit, with or without
\* commits of its own; a base that has diverged is left, and refused.
FastForwardable(k) == base.adds = {} \/ Holds(base, k)
FastForwarded(k) == IF Holds(base, k) THEN base ELSE Plain(k)

AdvanceBase ==
    /\ At("reconcile", "advance")
    /\ IF FastForwardable(call.remote)
          THEN base' = FastForwarded(call.remote) /\ Proceed("delete")
          ELSE End /\ UNCHANGED base
    /\ UNCHANGED <<originVars, tracking, feature, head, rebasing, dirty, made, kills>>

\* Mutation of Deletable: the branch goes whatever has been committed on it since.
DeletableByName == TRUE

\* deleteMergedBranch: only at the commit the host merged.
Deletable == feature = call.status.head

DeleteMergedBranch ==
    /\ At("reconcile", "delete")
    /\ feature' = IF feature # NoBranch /\ Deletable THEN NoBranch ELSE feature
    /\ End
    /\ UNCHANGED <<originVars, tracking, base, head, rebasing, dirty, made, kills>>

-----------------------------------------------------------------------------
\* The git tools: commit, push, sync_base, and the hatch's own commit and checkout.

\* git_commit refuses the base branch, but not a detached head.
GitCommit ==
    /\ call = Idle /\ dirty /\ made < MaxChanges /\ head # "base"
    /\ Spared("onbranch") => rebasing = NoBranch
    /\ made' = made + 1 /\ dirty' = FALSE
    /\ IF head = "feature" THEN feature' = [feature EXCEPT !.adds = @ \cup {made + 1}]
       ELSE UNCHANGED feature
    /\ UNCHANGED <<originVars, tracking, base, head, rebasing, call, kills>>

\* A commit on the base by a command of the hatch: the incident.
StrandCommit ==
    /\ call = Idle /\ dirty /\ made < MaxChanges /\ head = "base"
    /\ made' = made + 1 /\ dirty' = FALSE
    /\ base' = [base EXCEPT !.adds = @ \cup {made + 1}]
    /\ UNCHANGED <<originVars, tracking, feature, head, rebasing, call, kills>>

SwitchBranch(branch) ==
    /\ call = Idle /\ ~dirty /\ rebasing = NoBranch
    /\ branch = "feature" => feature # NoBranch
    /\ head # branch /\ head' = branch
    /\ UNCHANGED <<originVars, tracking, base, feature, rebasing, dirty, call, made, kills>>

\* Files come and go in the clone between the calls.
Edit ==
    /\ call = Idle /\ dirty' = ~dirty
    /\ UNCHANGED <<originVars, tracking, base, feature, head, rebasing, call, made, kills>>

\* push, without force.
Takes(tip) == origin.feature = NoBranch \/ Descends(tip, origin.feature)

SendPush ==
    /\ At("push", "send")
    /\ IF feature = NoBranch \/ ~Takes(feature) THEN End /\ UNCHANGED origin
       ELSE origin' = [origin EXCEPT !.feature = feature] /\ Proceed("track")
    /\ UNCHANGED <<landed, request, cloneVars, made, kills>>

TrackPush ==
    /\ At("push", "track")
    /\ tracking' = [tracking EXCEPT !.feature = feature]
    /\ End
    /\ UNCHANGED <<originVars, base, feature, head, rebasing, dirty, made, kills>>

\* syncBase: the base is fast-forwarded or left.
FetchBase ==
    /\ At("sync", "send")
    /\ tracking' = [tracking EXCEPT !.base = origin.base]
    /\ call' = [call EXCEPT !.at = "advance", !.remote = origin.base]
    /\ UNCHANGED <<originVars, base, feature, head, rebasing, dirty, made, kills>>

SyncBase ==
    /\ At("sync", "advance")
    /\ base' = IF base.adds = {} THEN Plain(call.remote) ELSE base
    /\ End
    /\ UNCHANGED <<originVars, tracking, feature, head, rebasing, dirty, made, kills>>

-----------------------------------------------------------------------------
\* Kills.  The call ends, or dies with the process and, when it is a composite, is
\* run again from the start; a rebase killed stays in progress, its head detached,
\* and a push killed may be on the wire.
Beginning == IF call.op = "prepare" THEN "start" ELSE "confirm"

Kill(crash) ==
    /\ call # Idle /\ kills < MaxKills
    /\ kills' = kills + 1
    /\ call' = IF crash /\ call.op \in Composite
                  THEN [Idle EXCEPT !.op = call.op, !.at = Beginning] ELSE Idle
    /\ \/ UNCHANGED <<head, rebasing, origin>>
       \/ /\ At("prepare", "rebase")
          /\ rebasing' = feature /\ head' = "detached" /\ UNCHANGED origin
       \/ /\ At("push", "send") /\ feature # NoBranch
          /\ origin' = [origin EXCEPT !.wire = feature]
          /\ UNCHANGED <<head, rebasing>>
    /\ UNCHANGED <<landed, request, tracking, base, feature, dirty, made>>

\* A child that fails on its own: the call ends where it is.
ChildFails ==
    /\ call # Idle
    /\ End
    /\ UNCHANGED <<originVars, cloneVars, made, kills>>

-----------------------------------------------------------------------------
\* The origin.
PushLands ==
    /\ origin.wire # NoBranch
    /\ origin' = [origin EXCEPT !.wire = NoBranch,
                                !.feature = IF Takes(origin.wire) THEN origin.wire ELSE @]
    /\ UNCHANGED <<landed, request, cloneVars, call, made, kills>>

Land(changes) ==
    /\ origin' = [origin EXCEPT !.base = @ + 1]
    /\ landed' = [k \in Bases |-> IF k > origin.base THEN landed[origin.base] \cup changes
                                                     ELSE landed[k]]

OthersLand ==
    /\ origin.base < MaxBase
    /\ Land({})
    /\ UNCHANGED <<request, cloneVars, call, made, kills>>

OpenRequest ==
    /\ ~request.open /\ origin.feature # NoBranch /\ request.last.head # origin.feature
    /\ request' = [request EXCEPT !.open = TRUE]
    /\ UNCHANGED <<origin, landed, cloneVars, call, made, kills>>

\* Into the base, or into another branch, which the clone does not track.
MergeRequest(other) ==
    /\ request.open /\ origin.feature # NoBranch
    /\ IF other THEN UNCHANGED <<origin, landed>>
       ELSE origin.base < MaxBase /\ Land(origin.feature.adds)
    /\ request' = [open |-> FALSE,
              last |-> [head |-> origin.feature,
                        commit |-> IF other THEN Unmerged ELSE origin.base + 1]]
    /\ UNCHANGED <<cloneVars, call, made, kills>>

\* The host drops a merged branch.
DropBranch ==
    /\ ~request.open /\ request.last.commit # Unmerged /\ origin.feature = request.last.head
    /\ origin' = [origin EXCEPT !.feature = NoBranch]
    /\ UNCHANGED <<landed, request, cloneVars, call, made, kills>>

-----------------------------------------------------------------------------
PrepareStep ==
    \/ AbortStaleRebase \/ CheckClean \/ CheckPublished \/ Reuse \/ AdvanceFirst
    \/ Create \/ Preserve \/ FreeBase \/ MoveBase \/ Checkout
    \/ \E conflict \in BOOLEAN : Rebase(conflict)

ReconcileStep ==
    \/ ConfirmMerged \/ CheckReachable \/ SwitchToBase \/ AdvanceBase
    \/ DeleteMergedBranch

CompositesNext ==
    \/ Start("prepare", "start") \/ Start("reconcile", "confirm")
    \/ Start("push", "send") \/ Start("sync", "send")
    \/ PrepareStep \/ ReconcileStep \/ Fetch
    \/ SendPush \/ TrackPush \/ FetchBase \/ SyncBase
    \/ GitCommit \/ StrandCommit \/ SwitchBranch("base") \/ SwitchBranch("feature") \/ Edit
    \/ \E crash \in BOOLEAN : Kill(crash)
    \/ ChildFails
    \/ PushLands \/ OthersLand \/ OpenRequest \/ DropBranch
    \/ \E other \in BOOLEAN : MergeRequest(other)

CompositesSpec == CompositesInit /\ [][CompositesNext]_compositeVars

-----------------------------------------------------------------------------
\* Every change that was committed is still on some branch, the clone's or the
\* origin's, whatever was killed, conflicted, merged or cleaned up: a local-only
\* commit is preserved, a conflict loses nothing, and a merged branch goes only at
\* the commit that was merged.
WorkIsKept == \A n \in 1..made : Held(n)

\* A branch the origin has is never rewritten: while it is there the clone's own
\* only grows, through rebases run again and pushes killed before their ref moved.
PublishedNeverRewritten ==
    [][origin.feature # NoBranch /\ feature # NoBranch /\ feature' # NoBranch
          => Descends(feature', feature)]_compositeVars

\* What a composite answers is so, whatever ran before it and however often it was
\* begun again: a prepared branch holds the base it was prepared on, with no rebase
\* left open, and a reconciled merge, with every change that was merged, is in the
\* clone's base, which is checked out.
CompositesTellTrue ==
    [][kills' = kills =>
          /\ At("prepare", "checkout") /\ call' = Idle
                => Holds(feature', call.remote) /\ rebasing' = NoBranch
          /\ At("reconcile", "delete") /\ call' = Idle
                => /\ call.status.commit \in 0..base'.on /\ head' = "base"
                   /\ call.status.head.adds \subseteq landed[base'.on]]_compositeVars
=============================================================================
