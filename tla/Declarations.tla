---------------------------- MODULE Declarations ----------------------------
(***************************************************************************)
(* Declarations (src/src/declarations/declarations.ts): the rows that say  *)
(* which repositories the service manages.  A declaration lives through    *)
(* eras, its generations: declared, amended, orphaned, removed, declared   *)
(* again.  `mark` is the table that keeps the highest generation an id has *)
(* had, which no removal touches.                                          *)
(*                                                                         *)
(* Rows hold what the other modules tell apart: the generation's state,    *)
(* its capability grant, and the grant epoch that sessions freeze at.      *)
(***************************************************************************)
EXTENDS Integers, FiniteSets, FiniteSetsExt

CONSTANTS Ids,           \* declaration ids
          Requests,      \* declare requests an operator may have under way
          Capabilities,  \* capability names
          Instance,      \* those whose scope is the instance, not a declaration
          Contract,      \* the contract's capability set (layer 1)
          Ceiling,       \* the deployment's ceiling (layer 2)
          NoRow,         \* no row, no request
          MaxGeneration, \* bound on the eras of an id
          MaxEpoch       \* bound on the grant epoch of an era, the last for its orphaning

ASSUME DeclarationsAssumption ==
    /\ Instance \subseteq Capabilities
    /\ Contract \subseteq Capabilities
    /\ Ceiling \subseteq Capabilities
    /\ MaxGeneration \in Nat \ {0}
    /\ MaxEpoch \in Nat \ {0}

VARIABLES rows,      \* rows[id][g]: the row of generation g, NoRow if there is none
          mark,      \* mark[id]: the generation mark, 0 if there is none
          declaring  \* declaring[r]: a declare awaiting the check of the clone it would adopt

declarationVars == <<rows, mark, declaring>>

Generations == 1..MaxGeneration
Grantable == SUBSET ((Capabilities \ Instance) \cap Ceiling)
Rows == [state : {"active", "orphaned"}, epoch : 0..MaxEpoch, caps : Grantable]
ASSUME NoRowAssumption == NoRow \notin Rows

DeclarationsTypeOK ==
    /\ rows \in [Ids -> [Generations -> Rows \cup {NoRow}]]
    /\ mark \in [Ids -> 0..MaxGeneration]
    /\ declaring \in [Requests -> [id : Ids, caps : Grantable] \cup {NoRow}]

DeclarationsInit ==
    /\ rows = [id \in Ids |-> [g \in Generations |-> NoRow]]
    /\ mark = [id \in Ids |-> 0]
    /\ declaring = [r \in Requests |-> NoRow]

-----------------------------------------------------------------------------
\* The generation of the row an id currently means, 0 if it means none.
Latest(id) == Max({0} \cup {g \in Generations : rows[id][g] # NoRow})

Current(id) == IF Latest(id) = 0 THEN NoRow ELSE rows[id][Latest(id)]

Active(id) == Latest(id) # 0 /\ Current(id).state = "active"

\* What a session may do: layer by layer, and against the declaration's own
\* grant for every capability of a declaration's scope.
EffectiveGrant(row, session) ==
    {c \in session \cap Contract \cap Ceiling :
        c \in Instance \/ (row # NoRow /\ c \in row.caps)}

Bumped(row) == [row EXCEPT !.epoch = @ + 1]

NextGeneration(id) == Max({mark[id], Latest(id)}) + 1

-----------------------------------------------------------------------------
\* The transaction of declare: numbered, inserted and marked together, and
\* refused when another declare won the race.
Insert(id, caps) ==
    LET g == NextGeneration(id)
        fresh == [state |-> "active", epoch |-> 0, caps |-> caps]
    IN IF Active(id)
       THEN UNCHANGED <<rows, mark>>
       ELSE /\ g \in Generations
            /\ rows' = [rows EXCEPT ![id][g] = fresh]
            /\ mark' = [mark EXCEPT ![id] = g]

\* An id with no row is declared in one turn; an orphaned one waits for the
\* inspection of the clone it would adopt.
Declare(r, id, caps) ==
    /\ declaring[r] = NoRow
    /\ caps \in Grantable
    /\ ~Active(id)
    /\ IF Current(id) = NoRow
       THEN Insert(id, caps) /\ UNCHANGED declaring
       ELSE /\ declaring' = [declaring EXCEPT ![r] = [id |-> id, caps |-> caps]]
            /\ UNCHANGED <<rows, mark>>

\* observedRemote and isSafeToAdopt answer: adopt, or refuse.
AdoptionChecked(r) ==
    /\ declaring[r] # NoRow
    /\ declaring' = [declaring EXCEPT ![r] = NoRow]
    /\ \/ Insert(declaring[r].id, declaring[r].caps)
       \/ UNCHANGED <<rows, mark>>

\* A change of the capability grant raises the epoch in the same transaction;
\* any other amendment leaves what is modelled alone.
Amend(id, caps) ==
    /\ Active(id)
    /\ caps \in Grantable \ {Current(id).caps}
    /\ Current(id).epoch < MaxEpoch - 1
    /\ rows' = [rows EXCEPT ![id][Latest(id)] = [Bumped(@) EXCEPT !.caps = caps]]
    /\ UNCHANGED <<mark, declaring>>

\* The row's part of orphan, whose transaction also revokes the grants of the
\* generation (RevokeGrantsForResource) and cancels its jobs (the scheduler's
\* Orphan).
OrphanRow(id) ==
    /\ Active(id)
    /\ Current(id).epoch < MaxEpoch
    /\ rows' = [rows EXCEPT ![id][Latest(id)] = [Bumped(@) EXCEPT !.state = "orphaned"]]
    /\ UNCHANGED <<mark, declaring>>

\* Refused while the clone, a watched file or a followed pull request is
\* there, which is left open here.  Only the latest row goes.
Remove(id) ==
    /\ Latest(id) # 0
    /\ ~Active(id)
    /\ rows' = [rows EXCEPT ![id][Latest(id)] = NoRow]
    /\ UNCHANGED <<mark, declaring>>

=============================================================================
