------------------------------ MODULE Recovery ------------------------------
(***************************************************************************)
(* The recovery ladder (src/src/lifecycle/recovery.ts): one pass per       *)
(* declaration and process, claimed either by the declaration's first      *)
(* mutating call or by the background sweep boot starts, which settles,    *)
(* resumes or parks what a previous process left unsettled.                *)
(*                                                                         *)
(* A pass reads its entries once and works through that snapshot.  Between *)
(* two entries it awaits a git observation, so calls on other              *)
(* declarations, the resume it dispatched and the operator run meanwhile.  *)
(***************************************************************************)
EXTENDS Dispatch

VARIABLES pass,     \* pass[d]: the claim table's entry for d
          sweep,    \* declarations the sweep has still to visit
          sweeping  \* the declaration whose pass the sweep awaits, if any

passVars == <<pass, sweep, sweeping>>

NoPass == [state |-> "none", todo |-> {}, wasParked |-> {}, step |-> Nobody]

RecoveryTypeOK ==
    /\ pass \in [Declarations -> [state : {"none", "running", "marking", "resuming", "done"},
                                  todo : SUBSET Ops, wasParked : SUBSET Ops,
                                  step : Ops \cup {Nobody}]]
    /\ sweep \subseteq Declarations
    /\ sweeping \subseteq Declarations

RecoveryInit ==
    /\ pass = [d \in Declarations |-> NoPass]
    /\ sweep = {}
    /\ sweeping = {}

Current(d) == Oldest(pass[d].todo)
AtEntry(d) == pass[d].state = "running" /\ pass[d].todo # {}

\* Mutation of Verdict: parked entries are classified like the others.
VerdictReclassifies(d) == Classify(Current(d), git[d])

\* The verdict on the current entry; an entry the snapshot holds as parked is
\* not classified again.
Verdict(d) ==
    IF Current(d) \in pass[d].wasParked THEN "parked" ELSE Classify(Current(d), git[d])

Awaiting(d) == {op \in Ops : DeclarationOf[op] = d /\ pc[op] = "awaitPass"}

NextEntry(d) == pass' = [pass EXCEPT ![d].state = "running",
                                     ![d].todo = @ \ {Current(d)},
                                     ![d].step = Nobody]

\* A pass whose bookkeeping fails is forgotten, and whoever awaits it is told.
PassFails(d) ==
    /\ pass' = [pass EXCEPT ![d] = NoPass]
    /\ pc' = [op \in Ops |-> IF op \in Awaiting(d) THEN "refused" ELSE pc[op]]
    /\ recovering' = recovering \ {d}
    /\ sweeping' = sweeping \ {d}
    /\ UNCHANGED sweep

-----------------------------------------------------------------------------
\* Claiming a pass.

Snapshot(d) == [state |-> "running", todo |-> UnsettledOf(d), wasParked |-> Parked(d),
                step |-> Nobody]

\* A pass is claimed by the call that found its declaration unrecovered.
FirstUse(d) ==
    /\ pass[d].state = "none"
    /\ Awaiting(d) # {}
    /\ \/ /\ pass' = [pass EXCEPT ![d] = Snapshot(d)]
          /\ UNCHANGED <<faults, pc, recovering, sweep, sweeping>>
       \/ Fails /\ PassFails(d)
    /\ UNCHANGED <<journalVars, lockVars, handlerVars, treeVars, clone, closedBy, result,
                   context, auditVars, recovered>>

\* Mutation of SweepVisits: the claim table is not consulted.
SweepVisitsAgain(d) ==
    /\ sweeping = {}
    /\ d \in sweep
    /\ sweep' = sweep \ {d}
    /\ pass' = [pass EXCEPT ![d] = Snapshot(d)]
    /\ sweeping' = {d}
    /\ UNCHANGED dispatchVars

\* The sweep visits one declaration at a time and skips one already claimed.
SweepVisits(d) ==
    /\ sweeping = {}
    /\ d \in sweep
    /\ sweep' = sweep \ {d}
    /\ IF pass[d].state = "none"
       THEN /\ pass' = [pass EXCEPT ![d] = Snapshot(d)]
            /\ sweeping' = {d}
       ELSE UNCHANGED <<pass, sweeping>>
    /\ UNCHANGED dispatchVars

-----------------------------------------------------------------------------
\* The entries of a pass.

\* The clone of an entry parked earlier is marked again, and a failure to mark
\* it only noted in the verdict.
RemarkParked(d) ==
    /\ AtEntry(d)
    /\ Verdict(d) = "parked"
    /\ NextEntry(d)
    /\ \/ MarkAttention(d) /\ UNCHANGED faults
       \/ Fails /\ UNCHANGED clone
    /\ UNCHANGED <<journalVars, lockVars, callVars, handlerVars, treeVars, gateVars, closedBy,
                   sweep, sweeping>>

\* The two verdicts that settle, each ignoring a settle that fails.
SettleEntry(d, verdict, who) ==
    /\ AtEntry(d)
    /\ Verdict(d) = verdict
    /\ NextEntry(d)
    /\ \/ SettledBy(Current(d), who) /\ UNCHANGED faults
       \/ Fails /\ UNCHANGED <<journalVars, closedBy>>
    /\ UNCHANGED <<lockVars, callVars, handlerVars, treeVars, gateVars, clone, sweep, sweeping>>

ForgetEntry(d) == SettleEntry(d, "nothing-happened", "forgotten")
CompleteEntry(d) == SettleEntry(d, "completed", "completed")

\* journal.park, before the mark; a park that fails ends the pass.
ParkCurrent(d) ==
    /\ \/ /\ Park(Current(d))
          /\ pass' = [pass EXCEPT ![d].state = "marking", ![d].step = Nobody]
          /\ UNCHANGED <<faults, pc, recovering, sweep, sweeping>>
       \/ /\ Fails
          /\ PassFails(d)
          /\ UNCHANGED journalVars
    /\ UNCHANGED <<lockVars, handlerVars, treeVars, clone, closedBy, result, context, auditVars,
                   recovered>>

\* The entry cannot be accounted for, or the resume it asks for is refused
\* before it enters the mutating path.
ParkEntry(d) ==
    /\ AtEntry(d)
    /\ Verdict(d) \in {"park", "resume"}
    /\ ParkCurrent(d)

\* A tree that cannot be observed is parked whatever a verdict would have been.
ObservationFails(d) ==
    /\ AtEntry(d)
    /\ Verdict(d) # "parked"
    /\ Fails
    /\ Park(Current(d))
    /\ pass' = [pass EXCEPT ![d].state = "marking"]
    /\ UNCHANGED <<lockVars, callVars, handlerVars, treeVars, gateVars, clone, closedBy,
                   sweep, sweeping>>

MarkEntry(d) ==
    /\ pass[d].state = "marking"
    /\ \/ /\ MarkAttention(d)
          /\ NextEntry(d)
          /\ UNCHANGED <<faults, pc, recovering, sweep, sweeping>>
       \/ Fails /\ PassFails(d) /\ UNCHANGED clone
    /\ UNCHANGED <<journalVars, lockVars, handlerVars, treeVars, closedBy, result, context,
                   auditVars, recovered>>

\* The resume is an ordinary call of the same tool, exempt from the gate.
ResumeEntry(d, op) ==
    /\ AtEntry(d)
    /\ Verdict(d) = "resume"
    /\ pc[op] = "idle"
    /\ DeclarationOf[op] = d
    /\ ToolOf[op] = ToolOf[Current(d)]
    /\ Admit(op, "recovery")
    /\ pass' = [pass EXCEPT ![d].state = "resuming", ![d].step = op]
    /\ UNCHANGED <<journalVars, handlerVars, treeVars, gateVars, clone, closedBy, faults,
                   result, auditVars, mutation, pins, sweep, sweeping>>

\* A resume that succeeded settles the entry only if the tree, observed again,
\* classifies `completed`; everything else parks it.
ResumeEnds(d) ==
    LET op == pass[d].step IN
    /\ pass[d].state = "resuming"
    /\ pc[op] \in Ended
    /\ IF result[op] = "ok" /\ Classify(Current(d), git[d]) = "completed"
       THEN /\ SettledBy(Current(d), "completed")
            /\ NextEntry(d)
            /\ UNCHANGED <<lockVars, callVars, handlerVars, treeVars, gateVars, clone, faults,
                           sweep, sweeping>>
       ELSE ParkCurrent(d)

PassEnds(d) ==
    /\ pass[d].state = "running"
    /\ pass[d].todo = {}
    /\ pass' = [pass EXCEPT ![d].state = "done", ![d].wasParked = {}]
    /\ sweeping' = sweeping \ {d}
    /\ UNCHANGED <<dispatchVars, sweep>>

\* The call that awaited the pass goes on to the gate.
PassDone(op) ==
    LET d == DeclarationOf[op] IN
    /\ pc[op] = "awaitPass"
    /\ pass[d].state = "done"
    /\ recovered' = recovered \cup {d}
    /\ recovering' = recovering \ {d}
    /\ Admit(op, "normal")
    /\ UNCHANGED <<journalVars, handlerVars, treeVars, clone, closedBy, faults,
                   result, auditVars, mutation, pins, passVars>>

PassStep(d) ==
    \/ FirstUse(d)
    \/ SweepVisits(d)
    \/ RemarkParked(d)
    \/ ForgetEntry(d)
    \/ CompleteEntry(d)
    \/ ParkEntry(d)
    \/ ObservationFails(d)
    \/ MarkEntry(d)
    \/ \E op \in Ops : ResumeEntry(d, op)
    \/ ResumeEnds(d)
    \/ PassEnds(d)
    \/ \E op \in Ops : DeclarationOf[op] = d /\ PassDone(op)

=============================================================================
