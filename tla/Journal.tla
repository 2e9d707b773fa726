------------------------------ MODULE Journal ------------------------------
(***************************************************************************)
(* The operation journal (src/src/journal/journal.ts): one row per         *)
(* operation in the structured store, moved from `intended` to `settled`   *)
(* or to `attention`, and the outbox rows committed with it.  Every        *)
(* operation of the journal is one SQLite transaction, so each is one      *)
(* action, and each refusal of the code leaves the store as it was.        *)
(***************************************************************************)
EXTENDS Tools, FiniteSets

\* One process dispatches finitely many calls.
ASSUME JournalAssumption == IsFiniteSet(Ops)

VARIABLES entry,        \* entry[op]: the journal_entry row and its steps
          announced     \* announced[op]: its `operation-parked` outbox rows

journalVars == <<entry, announced>>

\* "none" before the row exists, "deleted" once retention removed it.
Unsettled == {"intended", "applied", "attention"}
EntryStates == {"none", "settled", "deleted"} \cup Unsettled

JournalTypeOK ==
    /\ entry \in [Ops -> [state : EntryStates, pre : GitStates,
                          steps : Nat, startedAt : Nat]]
    /\ announced \in [Ops -> Nat]

NoEntry == [state |-> "none", pre |-> Pristine, steps |-> 0, startedAt |-> 0]

JournalInit ==
    /\ entry = [op \in Ops |-> NoEntry]
    /\ announced = [op \in Ops |-> 0]

Exists(op) == entry[op].state \notin {"none", "deleted"}
InState(op, states) == entry[op].state \in states
Begun == {op \in Ops : entry[op].state # "none"}
UnsettledOf(d) == {op \in Ops : DeclarationOf[op] = d /\ InState(op, Unsettled)}
Parked(d) == {op \in Ops : DeclarationOf[op] = d /\ InState(op, {"attention"})}

\* The entry of a non-empty set that began first (ORDER BY started_at).
Oldest(ops) == CHOOSE op \in ops : \A o \in ops : entry[op].startedAt <= entry[o].startedAt

\* Mutation of Begin: the transaction is rolled back and nobody notices.
BeginRolledBack(op, pre) == entry[op].state = "none" /\ UNCHANGED journalVars

Begin(op, pre) ==
    /\ entry[op].state = "none"
    /\ entry' = [entry EXCEPT ![op] = [state |-> "intended", pre |-> pre, steps |-> 0,
                                       startedAt |-> Cardinality(Begun) + 1]]
    /\ UNCHANGED announced

AppendStep(op) ==
    /\ Exists(op)
    /\ entry' = [entry EXCEPT ![op].steps = @ + 1]
    /\ UNCHANGED announced

\* Refused, and so without effect, for a settled or a parked entry.
MarkApplied(op) ==
    /\ Exists(op)
    /\ entry' = IF InState(op, {"settled", "attention"})
                THEN entry
                ELSE [entry EXCEPT ![op].state = "applied"]
    /\ UNCHANGED announced

\* A parked entry may be settled; a settled one is refused and stays as it is.
Settle(op) ==
    /\ Exists(op)
    /\ entry' = [entry EXCEPT ![op].state = "settled"]
    /\ UNCHANGED announced

\* The row that tells the operator commits with the park, and only the park
\* that first moves the entry to `attention` adds one.
Park(op) ==
    /\ Exists(op)
    /\ IF InState(op, {"settled"})
       THEN UNCHANGED journalVars
       ELSE /\ entry' = [entry EXCEPT ![op].state = "attention"]
            /\ announced' = [announced EXCEPT
                                ![op] = IF InState(op, {"attention"}) THEN @ ELSE @ + 1]

\* Retention deletes the settled entries that are old enough, no others.
RunRetention(old) ==
    /\ entry' = [op \in Ops |-> IF op \in old /\ InState(op, {"settled"})
                                THEN [entry[op] EXCEPT !.state = "deleted"]
                                ELSE entry[op]]
    /\ UNCHANGED announced

\* Mutation of Classify: only the recorded steps are consulted.
ClassifyBySteps(op, observed) ==
    CASE entry[op].steps = 0                                 -> "nothing-happened"
      [] ExpectedPostState(op, entry[op].pre, observed)      -> "completed"
      [] OTHER -> IF Resumable(op) THEN "resume" ELSE "park"

\* What recovery makes of an unsettled entry and a fresh observation.
Classify(op, observed) ==
    CASE entry[op].steps = 0 /\ observed = entry[op].pre     -> "nothing-happened"
      [] ExpectedPostState(op, entry[op].pre, observed)      -> "completed"
      [] OTHER -> IF Resumable(op) THEN "resume" ELSE "park"

-----------------------------------------------------------------------------
\* The journal under callers that may call anything in any order, which is
\* what its own guarantees have to withstand: the pipeline, a late handler,
\* recovery and the operator all hold operation ids.
\* No handler appends more steps than its program has instructions.
JournalNext ==
    \/ \E op \in Ops :
          \/ \E pre \in GitStates : Begin(op, pre)
          \/ entry[op].steps < Len(ProgramOf(op)) /\ AppendStep(op)
          \/ MarkApplied(op)
          \/ Settle(op)
          \/ Park(op)
    \/ \E old \in SUBSET Ops : RunRetention(old)

JournalSpec == JournalInit /\ [][JournalNext]_journalVars

-----------------------------------------------------------------------------
\* An operator is told of a parked entry, exactly once however often it is
\* parked again, and of no entry that was never parked.
ParkAnnouncedOnce ==
    \A op \in Ops :
        /\ announced[op] <= 1
        /\ InState(op, {"attention"}) => announced[op] = 1
        /\ InState(op, {"none", "intended", "applied"}) => announced[op] = 0

\* No order of calls moves an entry backwards: a settled one only ends in
\* retention, and a parked one is never put back in service or deleted.
NeverBackwards ==
    [][\A op \in Ops :
          /\ InState(op, {"settled"}) => entry'[op].state \in {"settled", "deleted"}
          /\ InState(op, {"attention"}) => entry'[op].state \in {"attention", "settled"}
          /\ InState(op, {"deleted"}) => entry'[op] = entry[op]]_journalVars

=============================================================================
