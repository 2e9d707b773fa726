--------------------------- MODULE MCServiceCasts ---------------------------
(***************************************************************************)
(* Instances of GitService for its liveness, with several casts in place   *)
(* of one big instance: calls and operators that begin at any time, only   *)
(* after the process has died and booted again, only while a recovery pass *)
(* runs or awaits its resume, or not at all.  Nothing makes a client call  *)
(* or an operator answer (Arrive and ResolveParked are not fair), so what  *)
(* a cast does is a behaviour of the service.                              *)
(***************************************************************************)
EXTENDS MCGitService

CONSTANTS o4, d2, human,
          Casts     \* which calls and operators take part, and when

VARIABLE cast

FourOps == ThreeOps \cup {o4}
TwoDeclarations == OneDeclaration \cup {d2}
OneElsewhere == [op \in FourOps |-> IF op = o4 THEN d2 ELSE d1]

\* The hatch, whose handler closes its own entry and may outlive its call, two
\* composites, of which one may resume the other, and a call on another
\* declaration, which shares the mutation lock with them.
HatchAndComposites ==
    o1 :> "git_raw" @@ o2 :> "prepare_branch" @@ o3 :> "prepare_branch" @@ o4 :> "push_elsewhere"

Absent == [x \in FourOps \cup {human} |-> "absent"]

\* The hatch beside a composite, with an operator; and a composite that is cut
\* short, which another one of the same clone resumes or meets while the hatch
\* waits for the pass, or a call elsewhere has or awaits the lock.
HatchOrResume ==
    {o1 :> "early" @@ o2 :> "early" @@ human :> "early" @@ Absent,
     o2 :> "early" @@ o1 :> "late" @@ o3 :> "inPass" @@ Absent,
     o2 :> "early" @@ o3 :> "inPass" @@ o4 :> "inResume" @@ Absent}

Takes(x) ==
    \/ cast[x] = "early"
    \/ cast[x] = "late" /\ crashes > 0
    \/ cast[x] = "inPass" /\ \E d \in Declarations : pass[d].state = "running"
    \/ cast[x] = "inResume" /\ \E d \in Declarations : pass[d].state = "resuming"

CastEnds == UNCHANGED serviceVars /\ \A op \in Ops :
    pc[op] \in Ended \/ (pc[op] = "idle" /\ ~Takes(op))

CastNext ==
    /\ Next \/ CastEnds
    /\ \A op \in Ops : pc[op] = "idle" /\ ~Takes(op) => pc'[op] = "idle"
    /\ \A o \in Operators : ~Takes(o) => resolving'[o] = NotResolving
    /\ UNCHANGED cast

CastSpec == Init /\ cast \in Casts /\ [][CastNext]_<<serviceVars, cast>> /\ Fairness

=============================================================================
