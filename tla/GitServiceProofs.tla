-------------------------- MODULE GitServiceProofs --------------------------
(***************************************************************************)
(* The service, for any calls, declarations, tools, operators, faults and  *)
(* crashes.                                                                *)
(*                                                                         *)
(* The first part is about the steps of a call through the pipeline: each  *)
(* keeps the agreement between where the call is and what the mutation     *)
(* mutex and its declaration's materialisation mutex say (LockInv), the    *)
(* types, and what is true of each call (CallInv).  The second part keeps  *)
(* the same, together with what is true of each recovery pass (PassInv),   *)
(* through every step of a pass, of an operator and of the journal, and a  *)
(* boot restores it.  From that one invariant follow the lock discipline,  *)
(* the order of intent and effect, what recovery and the operator may do   *)
(* to an entry, and that the service implements the serial ledger.         *)
(*                                                                         *)
(* The last part is about the verdicts of recovery, which it draws from an *)
(* observation of the clone: what each facet of a clone tells of the calls *)
(* that wrote it (HistoryInv), what a pass has still to decide             *)
(* (SnapshotInv), and what else its clone knows of while an entry is open  *)
(* (OpenInv).  From these follows what it forgets and what it completes.   *)
(***************************************************************************)
EXTENDS GitService, CommonProofs

-----------------------------------------------------------------------------
(***************************************************************************)
(* The pipeline.                                                           *)
(***************************************************************************)
\* Where a call has nothing to do with a lock.
Outside == {"idle", "awaitPass"} \cup Ended

\* The agreement, for one call.
HoldsWhatItShould(op) ==
    /\ pc[op] \in Held => mutation.current = op
    /\ pc[op] \in {"mutWait"} \cup Held => mat[DeclarationOf[op]].current = op
    /\ mutation.current = op => pc[op] \in {"mutWait"} \cup Held
    /\ Waiting(mutation, op) => pc[op] = "mutWait"
    /\ \A d \in Declarations :
          /\ mat[d].current = op =>
                DeclarationOf[op] = d /\ pc[op] \in {"matWait", "mutWait"} \cup Held
          /\ Waiting(mat[d], op) => DeclarationOf[op] = d /\ pc[op] = "matWait"

LockInv ==
    /\ pc \in [Ops -> Steps]
    /\ WellFormed(mutation, Ops)
    /\ mat \in [Declarations -> MutexOf(Ops)]
    /\ \A d \in Declarations : WellFormed(mat[d], Ops)
    /\ \A op \in Ops : HoldsWhatItShould(op)

\* A call's declaration is one of the declarations.
LEMMA DeclarationIsDeclared == \A op \in Ops : DeclarationOf[op] \in Declarations
  BY ToolsAssumption

\* A process that has just booted: no call is under way and no lock is held.
JustBooted ==
    /\ pc \in [Ops -> {"idle"} \cup Ended]
    /\ mutation = Free
    /\ mat = [d \in Declarations |-> Free]

\* Such a process has the agreement.
LEMMA LockInvAtBoot == JustBooted => LockInv
<1> SUFFICES ASSUME JustBooted
             PROVE  LockInv
  OBVIOUS
<1> USE DEF JustBooted
<1>1. WellFormed(Free, Ops) /\ Free \in MutexOf(Ops) /\ Free.current = Nobody
      /\ \A b : ~Waiting(Free, b)
  BY FreeIsWellFormed DEF WellFormed, Free
<1>2. \A d \in Declarations : mat[d] = Free
  OBVIOUS
<1>3. pc \in [Ops -> Steps]
  BY DEF Steps
<1>4. ASSUME NEW op \in Ops
      PROVE  HoldsWhatItShould(op)
  <2>1. op # Nobody
    BY DispatchAssumption
  <2>2. pc[op] \notin {"matWait", "mutWait"} \cup Held
    BY DEF Ended, Held
  <2> QED
    BY <1>1, <1>2, <2>1, <2>2 DEF HoldsWhatItShould
<1> QED
  BY <1>1, <1>2, <1>3, <1>4 DEF LockInv

-----------------------------------------------------------------------------
\* The ways a step can touch the locks.

\* It moves calls along without touching a mutex.
LEMMA CallsMoveOn ==
  ASSUME LockInv, UNCHANGED <<mutation, mat>>, pc' \in [Ops -> Steps],
         \A op \in Ops : \/ pc'[op] = pc[op]
                         \/ pc[op] \in Held /\ pc'[op] \in Held
                         \/ pc[op] = "mutWait" /\ mutation.current = op /\ pc'[op] \in Held
                         \/ pc[op] \in Outside /\ pc'[op] \in Outside
  PROVE  LockInv'
<1>1. ASSUME NEW op \in Ops
      PROVE  HoldsWhatItShould(op)'
  <2>1. HoldsWhatItShould(op)
    BY DEF LockInv
  <2>2. CASE pc'[op] = pc[op]
    BY <2>1, <2>2 DEF HoldsWhatItShould, Waiting
  <2>3. CASE pc[op] \in Held /\ pc'[op] \in Held
    BY <2>1, <2>3 DEF HoldsWhatItShould, Held, Waiting
  <2>4. CASE pc[op] = "mutWait" /\ mutation.current = op /\ pc'[op] \in Held
    <3>1. ~Waiting(mutation, op)
      BY <2>4 DEF LockInv, WellFormed
    <3> QED
      BY <2>1, <2>4, <3>1 DEF HoldsWhatItShould, Held, Waiting
  <2>5. CASE pc[op] \in Outside /\ pc'[op] \in Outside
    BY <2>1, <2>5 DEF HoldsWhatItShould, Held, Outside, Ended, Waiting
  <2> QED
    BY <2>2, <2>3, <2>4, <2>5
<1>2. WellFormed(mutation, Ops)' /\ \A d \in Declarations : WellFormed(mat[d], Ops)'
  BY DEF LockInv, WellFormed, Waiting
<1> QED
  BY <1>1, <1>2 DEF LockInv

\* It changes the mutation mutex, one materialisation mutex, and one call: the
\* others keep what they have, or are handed a lock they waited for.
LEMMA OneCallChanges ==
  ASSUME LockInv, NEW op \in Ops, NEW d \in Declarations, d = DeclarationOf[op],
         NEW m, NEW k, NEW step \in Steps,
         WellFormed(m, Ops), WellFormed(k, Ops),
         mutation' = m, mat' = [mat EXCEPT ![d] = k], pc' = [pc EXCEPT ![op] = step],
         \A b \in Ops \ {op} :
            /\ mutation.current = b => m.current = b
            /\ m.current = b => mutation.current = b \/ Waiting(mutation, b)
            /\ Waiting(m, b) => Waiting(mutation, b)
            /\ mat[d].current = b => k.current = b
            /\ k.current = b => mat[d].current = b \/ Waiting(mat[d], b)
            /\ Waiting(k, b) => Waiting(mat[d], b),
         step \in Held => m.current = op,
         step \in {"mutWait"} \cup Held => k.current = op,
         m.current = op => step \in {"mutWait"} \cup Held,
         Waiting(m, op) => step = "mutWait",
         k.current = op => step \in {"matWait", "mutWait"} \cup Held,
         Waiting(k, op) => step = "matWait"
  PROVE  LockInv'
<1>1. /\ pc' \in [Ops -> Steps] /\ pc'[op] = step
      /\ \A b \in Ops \ {op} : pc'[b] = pc[b]
  BY DEF LockInv
<1>2. /\ mat' \in [Declarations -> MutexOf(Ops)] /\ mat'[d] = k
      /\ \A e \in Declarations \ {d} : mat'[e] = mat[e]
  BY DEF LockInv, WellFormed
<1>3. WellFormed(mutation, Ops)' /\ \A e \in Declarations : WellFormed(mat[e], Ops)'
  BY <1>2 DEF LockInv, WellFormed, Waiting
<1>4. HoldsWhatItShould(op)'
  <2>1. \A e \in Declarations \ {d} : mat[e].current # op /\ ~Waiting(mat[e], op)
    BY DEF LockInv, HoldsWhatItShould
  <2> QED
    BY <1>1, <1>2, <2>1 DEF HoldsWhatItShould, Waiting
<1>5. ASSUME NEW b \in Ops \ {op}
      PROVE  HoldsWhatItShould(b)'
  <2>1. HoldsWhatItShould(b)
    BY DEF LockInv
  <2>2. DeclarationOf[b] \in Declarations /\ pc'[b] = pc[b]
    BY <1>1, DeclarationIsDeclared
  <2>3. /\ pc[b] \in Held => m.current = b
        /\ pc[b] \in {"mutWait"} \cup Held => mat'[DeclarationOf[b]].current = b
    BY <1>2, <2>1, <2>2 DEF HoldsWhatItShould
  <2>4. /\ m.current = b => pc[b] \in {"mutWait"} \cup Held
        /\ Waiting(m, b) => pc[b] = "mutWait"
    BY <2>1 DEF HoldsWhatItShould
  <2>5. ASSUME NEW e \in Declarations
        PROVE  /\ mat'[e].current = b =>
                     DeclarationOf[b] = e /\ pc[b] \in {"matWait", "mutWait"} \cup Held
               /\ Waiting(mat[e], b)' => DeclarationOf[b] = e /\ pc[b] = "matWait"
    <3>1. CASE e = d
      BY <1>2, <2>1, <3>1 DEF HoldsWhatItShould, Waiting
    <3>2. CASE e # d
      BY <1>2, <2>1, <3>2 DEF HoldsWhatItShould, Waiting
    <3> QED
      BY <3>1, <3>2
  <2> QED
    BY <2>2, <2>3, <2>4, <2>5 DEF HoldsWhatItShould, Waiting
<1> QED
  BY <1>1, <1>2, <1>3, <1>4, <1>5 DEF LockInv

\* What a release leaves, whether or not the call held the mutex or waits for it.
LEMMA AfterRelease ==
  ASSUME NEW m, WellFormed(m, Ops), NEW op \in Ops, NEW r, r = Release(m, op)
  PROVE  /\ WellFormed(r, Ops)
         /\ r.current = op => Waiting(m, op)
         /\ Waiting(r, op) => Waiting(m, op)
         /\ \A b \in Ops \ {op} :
               /\ m.current = b => r.current = b
               /\ r.current = b => m.current = b \/ Waiting(m, b)
               /\ Waiting(r, b) => Waiting(m, b)
<1>1. CASE m.current # op
  <2>1. r = m
    BY <1>1, ReleaseByOther
  <2> QED
    BY <1>1, <2>1
<1>2. CASE m.current = op /\ m.queue = <<>>
  <2>1. r = Free
    BY <1>2, ReleaseToNobody
  <2>2. r.current = Nobody
    BY <2>1 DEF Free
  <2>3. WellFormed(r, Ops) /\ \A b : ~Waiting(r, b)
    BY <2>1, FreeIsWellFormed
  <2> QED
    BY <1>2, <2>2, <2>3, DispatchAssumption
<1>3. CASE m.current = op /\ m.queue # <<>>
  <2>1. /\ WellFormed(r, Ops)
        /\ Waiting(m, r.current)
        /\ \A b : Waiting(r, b) <=> Waiting(m, b) /\ b # r.current
    BY <1>3, ReleaseToNext, DispatchAssumption
  <2> QED
    BY <1>3, <2>1
<1> QED
  BY <1>1, <1>2, <1>3

\* The release closure at the end of a call that waits for no lock.
LEMMA CallFinishes ==
  ASSUME LockInv, NEW op \in Ops, NEW step \in Ended, Finish(op, step),
         pc[op] \notin Held =>
            ~Waiting(mutation, op) /\ ~Waiting(mat[DeclarationOf[op]], op)
  PROVE  LockInv'
<1> DEFINE d == DeclarationOf[op]
           m == Release(mutation, op)
           k == Release(mat[d], op)
<1>1. d \in Declarations /\ WellFormed(mutation, Ops) /\ WellFormed(mat[d], Ops)
  BY DeclarationIsDeclared DEF LockInv
<1>2. ~Waiting(mutation, op) /\ ~Waiting(mat[d], op)
  <2>1. CASE pc[op] \in Held
    BY <1>1, <2>1 DEF LockInv, HoldsWhatItShould, Held
  <2> QED
    BY <2>1
<1>3. mutation' = m /\ mat' = [mat EXCEPT ![d] = k] /\ pc' = [pc EXCEPT ![op] = step]
  BY DEF Finish, ReleaseAll, Goto
<1>4. /\ WellFormed(m, Ops) /\ m.current # op /\ ~Waiting(m, op)
      /\ \A b \in Ops \ {op} :
            /\ mutation.current = b => m.current = b
            /\ m.current = b => mutation.current = b \/ Waiting(mutation, b)
            /\ Waiting(m, b) => Waiting(mutation, b)
  BY <1>1, <1>2, AfterRelease
<1>5. /\ WellFormed(k, Ops) /\ k.current # op /\ ~Waiting(k, op)
      /\ \A b \in Ops \ {op} :
            /\ mat[d].current = b => k.current = b
            /\ k.current = b => mat[d].current = b \/ Waiting(mat[d], b)
            /\ Waiting(k, b) => Waiting(mat[d], b)
  BY <1>1, <1>2, AfterRelease
<1>6. step \in Steps /\ step \notin {"matWait", "mutWait"} \cup Held
  BY DEF Steps, Ended, Held
<1> HIDE DEF d, m, k
<1> QED
  BY <1>1, <1>3, <1>4, <1>5, <1>6, OneCallChanges DEF d

\* What joining a mutex leaves.
LEMMA AfterEnqueue ==
  ASSUME NEW m, WellFormed(m, Ops), NEW op \in Ops, m.current # op, ~Waiting(m, op),
         NEW r, r = Enqueue(m, op)
  PROVE  /\ WellFormed(r, Ops)
         /\ \A b \in Ops \ {op} :
               /\ m.current = b => r.current = b
               /\ r.current = b => m.current = b
               /\ Waiting(r, b) => Waiting(m, b)
<1>1. CASE m.current = Nobody
  BY <1>1, EnqueueAtFree, DispatchAssumption
<1>2. CASE m.current # Nobody
  BY <1>2, EnqueueAtHeld
<1> QED
  BY <1>1, <1>2

-----------------------------------------------------------------------------
\* The steps of a call.

\* A call with no lock is refused at the gate or joins its declaration's mutex.
LEMMA AdmitKeepsLockInv ==
  ASSUME LockInv, NEW op \in Ops, NEW where, Admit(op, where), UNCHANGED mutation,
         pc[op] \in {"idle", "awaitPass"}
  PROVE  LockInv'
<1> DEFINE d == DeclarationOf[op]
           k == Enqueue(mat[d], op)
<1>1. d \in Declarations /\ WellFormed(mutation, Ops) /\ WellFormed(mat[d], Ops)
  BY DeclarationIsDeclared DEF LockInv
<1>2. /\ mutation.current # op /\ ~Waiting(mutation, op)
      /\ mat[d].current # op /\ ~Waiting(mat[d], op)
  BY <1>1 DEF LockInv, HoldsWhatItShould, Held
<1>3. CASE UNCHANGED mat /\ pc' = [pc EXCEPT ![op] = "refused"]
  <2>1. pc \in [Ops -> Steps] /\ "refused" \in Steps \cap Outside /\ pc[op] \in Outside
    BY DEF LockInv, Steps, Outside, Ended
  <2> QED
    BY <1>3, <2>1, CallsMoveOn
<1>4. CASE mat' = [mat EXCEPT ![d] = k] /\ pc' = [pc EXCEPT ![op] = "matWait"]
  <2>1. /\ WellFormed(k, Ops)
        /\ \A b \in Ops \ {op} :
              /\ mat[d].current = b => k.current = b
              /\ k.current = b => mat[d].current = b
              /\ Waiting(k, b) => Waiting(mat[d], b)
    BY <1>1, <1>2, AfterEnqueue
  <2>2. "matWait" \in Steps /\ "matWait" \notin {"mutWait"} \cup Held
    BY DEF Steps, Held
  <2> HIDE DEF k
  <2> QED
    BY <1>1, <1>2, <1>4, <2>1, <2>2, OneCallChanges
<1> QED
  BY <1>3, <1>4 DEF Admit, Goto

\* With the materialisation lock in hand, a call joins the mutation mutex or,
\* its queue full, gives the first lock back.
LEMMA EnsuredKeepsLockInv ==
  ASSUME LockInv, NEW op \in Ops, Ensured(op)
  PROVE  LockInv'
<1> DEFINE d == DeclarationOf[op]
           m == Enqueue(mutation, op)
<1>1. d \in Declarations /\ WellFormed(mutation, Ops) /\ WellFormed(mat[d], Ops)
  BY DeclarationIsDeclared DEF LockInv
<1>2. mutation.current # op /\ ~Waiting(mutation, op)
  BY DEF LockInv, HoldsWhatItShould, Held, Ensured
<1>3. mat[d].current = op /\ ~Waiting(mat[d], op)
  BY <1>1 DEF WellFormed, Ensured, HasMaterialisation
<1>4. CASE Finish(op, "refused")
  BY <1>2, <1>3, <1>4, CallFinishes DEF Ended
<1>5. CASE mutation' = m /\ UNCHANGED mat /\ pc' = [pc EXCEPT ![op] = "mutWait"]
  <2>1. /\ WellFormed(m, Ops)
        /\ \A b \in Ops \ {op} :
              /\ mutation.current = b => m.current = b
              /\ m.current = b => mutation.current = b
              /\ Waiting(m, b) => Waiting(mutation, b)
    BY <1>1, <1>2, AfterEnqueue
  <2> DEFINE k == mat[d]
  <2>2. mat' = [mat EXCEPT ![d] = k] /\ k.current = op /\ ~Waiting(k, op) /\ WellFormed(k, Ops)
    BY <1>1, <1>3, <1>5 DEF LockInv
  <2> DEFINE step == "mutWait"
  <2>3. step \in Steps /\ step \notin Held /\ step = "mutWait" /\ pc' = [pc EXCEPT ![op] = step]
    BY <1>5 DEF Steps, Held
  <2>4. \A b \in Ops \ {op} :
            /\ mutation.current = b => m.current = b
            /\ m.current = b => mutation.current = b \/ Waiting(mutation, b)
            /\ Waiting(m, b) => Waiting(mutation, b)
            /\ mat[d].current = b => k.current = b
            /\ k.current = b => mat[d].current = b \/ Waiting(mat[d], b)
            /\ Waiting(k, b) => Waiting(mat[d], b)
    BY <2>1
  <2>5. /\ step \in Held => m.current = op
        /\ step \in {"mutWait"} \cup Held => k.current = op
        /\ m.current = op => step \in {"mutWait"} \cup Held
        /\ Waiting(m, op) => step = "mutWait"
        /\ k.current = op => step \in {"matWait", "mutWait"} \cup Held
        /\ Waiting(k, op) => step = "matWait"
    BY <2>2, <2>3
  <2>6. WellFormed(m, Ops) /\ mutation' = m /\ d = DeclarationOf[op]
    BY <1>5, <2>1
  <2> HIDE DEF d, m, k, step
  <2> QED
    BY <1>1, <2>2, <2>3, <2>4, <2>5, <2>6, OneCallChanges
<1> QED
  BY <1>4, <1>5 DEF Ensured, Goto

\* A call that gives up a wait leaves that queue and releases what it holds.
LEMMA GiveUpKeepsLockInv ==
  ASSUME LockInv, NEW op \in Ops, GiveUpMaterialisation(op) \/ GiveUpMutation(op)
  PROVE  LockInv'
<1> DEFINE d == DeclarationOf[op]
<1>1. d \in Declarations /\ WellFormed(mutation, Ops) /\ WellFormed(mat[d], Ops)
  BY DeclarationIsDeclared DEF LockInv
<1>2. "refused" \in Steps /\ "refused" \notin {"matWait", "mutWait"} \cup Held
  BY DEF Steps, Held, Ended
<1>3. CASE GiveUpMaterialisation(op)
  <2> DEFINE k == GiveUp(mat[d], op)
  <2>1. Waiting(mat[d], op) /\ mat[d].current # op
    BY <1>1, <1>3 DEF WellFormed, GiveUpMaterialisation
  <2>2. /\ WellFormed(k, Ops) /\ k.current = mat[d].current
        /\ \A b : Waiting(k, b) <=> Waiting(mat[d], b) /\ b # op
    BY <1>1, <2>1, GiveUpLeaves
  <2>3. mutation.current # op /\ ~Waiting(mutation, op)
    BY <1>3 DEF LockInv, HoldsWhatItShould, Held, GiveUpMaterialisation
  <2>4. mutation' = mutation /\ mat' = [mat EXCEPT ![d] = k] /\ pc' = [pc EXCEPT ![op] = "refused"]
    BY <1>3 DEF GiveUpMaterialisation, Goto
  <2> HIDE DEF d, k
  <2> QED
    BY <1>1, <1>2, <2>1, <2>2, <2>3, <2>4, OneCallChanges DEF d
<1>4. CASE GiveUpMutation(op)
  <2> DEFINE m == GiveUp(mutation, op)
             k == Release(mat[d], op)
  <2>1. Waiting(mutation, op) /\ mutation.current # op
    BY <1>1, <1>4 DEF WellFormed, GiveUpMutation
  <2>2. /\ WellFormed(m, Ops) /\ m.current = mutation.current
        /\ \A b : Waiting(m, b) <=> Waiting(mutation, b) /\ b # op
    BY <1>1, <2>1, GiveUpLeaves
  <2>3. ~Waiting(mat[d], op)
    BY <1>1, <1>4 DEF LockInv, HoldsWhatItShould, GiveUpMutation
  <2>4. /\ WellFormed(k, Ops) /\ k.current # op /\ ~Waiting(k, op)
        /\ \A b \in Ops \ {op} :
              /\ mat[d].current = b => k.current = b
              /\ k.current = b => mat[d].current = b \/ Waiting(mat[d], b)
              /\ Waiting(k, b) => Waiting(mat[d], b)
    BY <1>1, <2>3, AfterRelease
  <2>5. mutation' = m /\ mat' = [mat EXCEPT ![d] = k] /\ pc' = [pc EXCEPT ![op] = "refused"]
    BY <1>4 DEF GiveUpMutation, Goto
  <2> HIDE DEF d, m, k
  <2> QED
    BY <1>1, <1>2, <2>1, <2>2, <2>4, <2>5, OneCallChanges DEF d
<1> QED
  BY <1>3, <1>4

\* A call moves from one step to the next under the same locks, or outside of any.
LEMMA MovesKeepLockInv ==
  ASSUME LockInv, NEW op \in Ops, NEW step, pc' = [pc EXCEPT ![op] = step],
         UNCHANGED <<mutation, mat>>,
         \/ pc[op] \in Held /\ step \in Held
         \/ pc[op] = "mutWait" /\ mutation.current = op /\ step \in Held
         \/ pc[op] \in Outside /\ step \in Outside
  PROVE  LockInv'
<1>1. pc \in [Ops -> Steps] /\ step \in Steps
  BY DEF LockInv, Outside, Steps
<1>2. pc' \in [Ops -> Steps] /\ pc'[op] = step /\ \A b \in Ops \ {op} : pc'[b] = pc[b]
  BY <1>1
<1> QED
  BY <1>2, CallsMoveOn

\* Every step of a call keeps the agreement.
LEMMA CallStepKeepsLockInv ==
  ASSUME LockInv, NEW op \in Ops, CallStep(op)
  PROVE  LockInv'
<1>1. CASE Arrive(op)
  BY <1>1, AdmitKeepsLockInv DEF Arrive
<1>2. CASE ArriveFirst(op)
  BY <1>2, MovesKeepLockInv DEF ArriveFirst, Goto, lockVars, Outside
<1>3. CASE ArriveRecovering(op)
  BY <1>3, MovesKeepLockInv DEF ArriveRecovering, Goto, lockVars, Outside, Ended
<1>4. CASE GiveUpMaterialisation(op) \/ GiveUpMutation(op)
  BY <1>4, GiveUpKeepsLockInv
<1>5. CASE Ensured(op)
  BY <1>5, EnsuredKeepsLockInv
<1>6. CASE RefuseHolding(op)
  <2>1. WellFormed(mutation, Ops) /\ WellFormed(mat[DeclarationOf[op]], Ops)
        /\ HoldsWhatItShould(op)
    BY DeclarationIsDeclared DEF LockInv
  <2>2. ~Waiting(mutation, op) /\ ~Waiting(mat[DeclarationOf[op]], op)
    BY <1>6, <2>1 DEF RefuseHolding, HasMutation, HasMaterialisation, WellFormed, HoldsWhatItShould
  <2> QED
    BY <1>6, <2>2, CallFinishes DEF RefuseHolding, Ended
<1>7. CASE BeginCall(op)
  BY <1>7, MovesKeepLockInv DEF BeginCall, HasMutation, Goto, lockVars, Held
<1>8. CASE HandlerStep(op) \/ LateLanding(op)
  BY <1>8, CallsMoveOn DEF HandlerStep, LateLanding, lockVars, callVars, LockInv
<1>9. ASSUME NEW outcome, HandlerReturns(op, outcome)
      PROVE  LockInv'
  BY <1>9, MovesKeepLockInv DEF HandlerReturns, Goto, lockVars, Held
<1>10. ASSUME NEW outcome, RawAudits(op, outcome)
       PROVE  LockInv'
  BY <1>10, CallsMoveOn DEF RawAudits, lockVars, LockInv
<1>11. CASE LimitFires(op)
  BY <1>11, MovesKeepLockInv DEF LimitFires, Goto, lockVars, Held
<1>12. CASE WriteAudit(op)
  <2> DEFINE step == IF pc[op] = "audit" THEN AfterAudit(op) ELSE pc[op]
  <2>1. pc' = [pc EXCEPT ![op] = step] /\ UNCHANGED <<mutation, mat>> /\ pc \in [Ops -> Steps]
    BY <1>12 DEF WriteAudit, lockVars, LockInv
  <2>2. CASE pc[op] = "audit"
    BY <2>1, <2>2, MovesKeepLockInv DEF AfterAudit, Held
  <2>3. CASE pc[op] # "audit"
    BY <2>1, <2>3, CallsMoveOn
  <2> QED
    BY <2>2, <2>3
<1>13. CASE SettleCall(op) \/ MarkCall(op) \/ RawReturns(op) \/ RawLimitFires(op)
  <2>1. Finish(op, "done") /\ pc[op] \in Held /\ "done" \in Ended
    BY <1>13 DEF SettleCall, MarkCall, RawReturns, RawLimitFires, Held, Ended
  <2> QED
    BY <2>1, CallFinishes
<1>14. CASE ParkCall(op)
  <2>1. pc[op] \in Held /\ "done" \in Ended
    BY <1>14 DEF ParkCall, Held, Ended
  <2>2. CASE Finish(op, "done")
    BY <2>1, <2>2, CallFinishes
  <2>3. CASE Goto(op, "mark") /\ UNCHANGED lockVars
    BY <2>1, <2>3, MovesKeepLockInv DEF Goto, lockVars, Held
  <2> QED
    BY <1>14, <2>2, <2>3 DEF ParkCall
<1>15. CASE RawFinishes(op)
  BY <1>15, CallsMoveOn DEF RawFinishes, lockVars, callVars, LockInv
<1> QED
  BY <1>1, <1>2, <1>3, <1>4, <1>5, <1>6, <1>7, <1>8, <1>9, <1>10, <1>11, <1>12, <1>13,
     <1>14, <1>15 DEF CallStep

-----------------------------------------------------------------------------
\* Types.  Those of pc and of the mutexes are part of LockInv.

DataTypeOK ==
    /\ JournalTypeOK
    /\ result \in [Ops -> Results]
    /\ context \in [Ops -> {"normal", "recovery"}]
    /\ audited \subseteq Ops
    /\ appends \in Seq(Ops \cup Operators)
    /\ handler \in [Ops -> {"none", "running", "settling", "parking", "marking", "ended"}]
    /\ prog \in [Ops -> Nat]
    /\ wire \subseteq Ops
    /\ git \in [Declarations -> GitStates]
    /\ remote \in [Declarations -> Ops \cup {Origin, Untracked}]
    /\ clone \in [Declarations -> {"ready", "needs-attention"}]
    /\ pins \in [Declarations -> Nat]
    /\ recovered \subseteq Declarations
    /\ recovering \subseteq Declarations
    /\ closedBy \in [Ops -> {"nobody", "call", "forgotten", "completed", "human"}]
    /\ faults \in Nat

\* The two together are the type of the pipeline's state.
LEMMA TypesAreComplete == DataTypeOK /\ LockInv => DispatchTypeOK
<1>1. WellFormed(mutation, Ops) => mutation \in MutexOf(Ops)
  BY DEF WellFormed
<1> QED
  BY <1>1 DEF DataTypeOK, LockInv, DispatchTypeOK

\* Every program is finite and made of the instructions the handlers know; only
\* a push has one that a git child sends to the remote, and it is the second,
\* after its step.
LEMMA ProgramsAreKnown ==
  ASSUME NEW op \in Ops
  PROVE  /\ Len(ProgramOf(op)) \in Nat
         /\ \A i \in 1..Len(ProgramOf(op)) :
               /\ ProgramOf(op)[i] \in LocalEffects \cup {"step", "unseen", "remote", "other"}
               /\ ProgramOf(op)[i] = "remote" => ToolOf[op] = "git_push" /\ i = 2
               /\ ProgramOf(op)[i] = "other" => ToolOf[op] = "push_elsewhere" /\ i = 2
         /\ ToolOf[op] \in Pushes => ProgramOf(op)[1] = "step"
<1>1. ToolOf[op] \in MutatingTools
  BY ToolsAssumption
<1>2. ToolOf[op] \in {"git_stage", "git_restore_paths", "git_commit", "git_fetch", "git_push",
                     "push_elsewhere", "sync_base", "prepare_branch", "git_raw", "pr_enable_auto_merge"}
  BY <1>1 DEF MutatingTools, Program
<1>3. ProgramOf(op) \in {Stage, RestorePaths, Commit, Fetch, Push, PushElsewhere, SyncBase,
                        PrepareBranch, Raw, EnableAutoMerge}
      /\ (ProgramOf(op) = Push <=> ToolOf[op] = "git_push")
      /\ (ProgramOf(op) = PushElsewhere <=> ToolOf[op] = "push_elsewhere")
  BY <1>2 DEF ProgramOf, Program, Stage, RestorePaths, Commit, Fetch, Push, PushElsewhere, SyncBase,
              PrepareBranch, Raw, EnableAutoMerge
<1> QED
  BY <1>3 DEF Stage, RestorePaths, Commit, Fetch, Push, PushElsewhere, SyncBase, PrepareBranch, Raw,
              EnableAutoMerge, LocalEffects, Facets, Pushes

\* An instruction that changes a clone leaves a git state.
LEMMA AfterIsGitState ==
  ASSUME NEW state \in GitStates, NEW op \in Ops, NEW pushed \in Ops \cup {Origin, Untracked},
         NEW instruction \in LocalEffects
  PROVE  After(instruction, state, op, pushed) \in GitStates
  BY DEF After, Tracked, GitStates, LocalEffects, Facets

\* What a push sends is a commit its call observed.
LEMMA PushedIsCommit ==
  ASSUME JournalTypeOK, NEW op \in Ops
  PROVE  Pushed(op) \in Ops \cup {Origin, Untracked}
  BY DEF JournalTypeOK, Pushed, GitStates, Facets

\* Joining the trail's queue, and leaving it.
LEMMA AppendsStayTyped ==
  ASSUME appends \in Seq(Ops \cup Operators), NEW who \in Ops \cup Operators,
         Record(who) \/ AppendDone(who)
  PROVE  appends' \in Seq(Ops \cup Operators)
  BY DEF Record, AppendDone

\* Each step from the gate to the handler keeps the types.
LEMMA ApproachKeepsDataType ==
  ASSUME DataTypeOK, NEW op \in Ops,
         \/ Arrive(op) \/ ArriveFirst(op) \/ ArriveRecovering(op) \/ GiveUpMaterialisation(op)
         \/ Ensured(op) \/ RefuseHolding(op) \/ GiveUpMutation(op) \/ BeginCall(op)
  PROVE  DataTypeOK'
<1> DEFINE d == DeclarationOf[op]
<1>1. d \in Declarations
  BY DeclarationIsDeclared
<1>2. CASE Arrive(op)
  BY <1>2 DEF Arrive, Admit, DataTypeOK, JournalTypeOK, journalVars, handlerVars, treeVars,
              gateVars, auditVars
<1>3. CASE ArriveFirst(op)
  BY <1>1, <1>3 DEF ArriveFirst, DataTypeOK, JournalTypeOK, journalVars, handlerVars, treeVars,
                    lockVars, auditVars
<1>4. CASE ArriveRecovering(op) \/ GiveUpMaterialisation(op)
  BY <1>4 DEF ArriveRecovering, GiveUpMaterialisation, DataTypeOK, JournalTypeOK, journalVars,
              handlerVars, treeVars, lockVars, gateVars, auditVars
<1>5. CASE Ensured(op) \/ RefuseHolding(op) \/ GiveUpMutation(op)
  <2>1. \/ pins' = [pins EXCEPT ![d] = @ + 1]
        \/ pins' = [pins EXCEPT ![d] = Unpin(@)]
        \/ pins' = [pins EXCEPT ![d] = IF Pinned(op) THEN Unpin(@) ELSE @]
    BY <1>5 DEF Ensured, RefuseHolding, GiveUpMutation, Finish, ReleaseAll
  <2>2. pins' \in [Declarations -> Nat]
    BY <1>1, <2>1 DEF Unpin, DataTypeOK
  <2> QED
    BY <1>5, <2>2 DEF Ensured, RefuseHolding, GiveUpMutation, DataTypeOK, JournalTypeOK,
                      journalVars, handlerVars, treeVars, gateVars, auditVars
<1>6. CASE BeginCall(op)
  <2>1. JournalTypeOK'
    BY <1>1, <1>6, BeginKeepsType DEF BeginCall, DataTypeOK
  <2>2. handler' \in [Ops -> {"none", "running", "settling", "parking", "marking", "ended"}]
    BY <1>6 DEF BeginCall, DataTypeOK
  <2> QED
    BY <1>6, <2>1, <2>2 DEF BeginCall, DataTypeOK, lockVars, treeVars, gateVars, auditVars
<1> QED
  BY <1>2, <1>3, <1>4, <1>5, <1>6

\* Each instruction of a handler, and a push that lands late, keeps the types.
LEMMA EffectsKeepDataType ==
  ASSUME DataTypeOK, NEW op \in Ops, HandlerStep(op) \/ LateLanding(op)
  PROVE  DataTypeOK'
<1>1. DeclarationOf[op] \in Declarations /\ Pushed(op) \in Ops \cup {Origin, Untracked}
  BY DeclarationIsDeclared, PushedIsCommit DEF DataTypeOK
<1>2. prog' \in [Ops -> Nat] /\ wire' \subseteq Ops
  <2>1. Advance(op) /\ wire' \subseteq wire
    BY DEF HandlerStep, LateLanding
  <2> QED
    BY <2>1 DEF Advance, DataTypeOK
<1>0. UNCHANGED <<result, context, audited, appends, recovered, recovering, pins, handler, clone,
                  closedBy, faults>>
  BY DEF HandlerStep, LateLanding, lockVars, callVars, auditVars, gateVars
<1>3. CASE WriteStep(op)
  <2>1. JournalTypeOK' /\ UNCHANGED treeVars
    BY <1>3, AppendStepKeepsType DEF WriteStep, DataTypeOK
  <2> QED
    BY <1>0, <1>2, <2>1 DEF DataTypeOK, treeVars
<1>4. CASE ChangeClone(op)
  <2>1. git' \in [Declarations -> GitStates]
    BY <1>1, <1>4, AfterIsGitState DEF ChangeClone, DataTypeOK
  <2> QED
    BY <1>0, <1>2, <1>4, <2>1 DEF ChangeClone, DataTypeOK, JournalTypeOK, journalVars
<1>5. CASE ChangeUnseen(op) \/ LandPush(op) \/ LandElsewhere(op)
  <2>1. remote' \in [Declarations -> Ops \cup {Origin, Untracked}]
    BY <1>1, <1>5 DEF ChangeUnseen, LandPush, LandElsewhere, treeVars, DataTypeOK
  <2> QED
    BY <1>0, <1>2, <1>5, <2>1 DEF ChangeUnseen,
                                  LandPush, LandElsewhere, DataTypeOK, JournalTypeOK, journalVars,
                                  treeVars
<1> QED
  BY <1>3, <1>4, <1>5 DEF HandlerStep, LateLanding

\* Each step that ends a handler or a call keeps the types.
LEMMA EndingsKeepDataType ==
  ASSUME DataTypeOK, NEW op \in Ops,
         \/ \E outcome \in {"ok", "failed", "unknown"} :
               HandlerReturns(op, outcome) \/ RawAudits(op, outcome)
         \/ LimitFires(op) \/ WriteAudit(op) \/ SettleCall(op) \/ ParkCall(op) \/ MarkCall(op)
         \/ RawFinishes(op) \/ RawReturns(op) \/ RawLimitFires(op)
  PROVE  DataTypeOK'
<1>1. DeclarationOf[op] \in Declarations
  BY DeclarationIsDeclared
<1>2. ASSUME NEW outcome \in {"ok", "failed", "unknown"},
             HandlerReturns(op, outcome) \/ RawAudits(op, outcome)
      PROVE  DataTypeOK'
  <2>1. appends' \in Seq(Ops \cup Operators) /\ audited' = audited
    BY <1>2, AppendsStayTyped DEF HandlerReturns, RawAudits, Record, DataTypeOK
  <2>2. JournalTypeOK'
    BY <1>2, MarkAppliedKeepsType
       DEF HandlerReturns, RawAudits, DataTypeOK, JournalTypeOK, journalVars
  <2>3. faults' \in Nat
    BY <1>2 DEF HandlerReturns, RawAudits, DataTypeOK, Fails
  <2>4. result' \in [Ops -> Results]
    BY <1>2 DEF HandlerReturns, RawAudits, DataTypeOK, Results
  <2>5. handler' \in [Ops -> {"none", "running", "settling", "parking", "marking", "ended"}]
    BY <1>2 DEF HandlerReturns, RawAudits, DataTypeOK
  <2> QED
    BY <1>2, <2>1, <2>2, <2>3, <2>4, <2>5
       DEF HandlerReturns, RawAudits, DataTypeOK, lockVars, treeVars, gateVars
<1>3. CASE LimitFires(op)
  <2>1. appends' \in Seq(Ops \cup Operators) /\ audited' = audited
    BY <1>3, AppendsStayTyped DEF LimitFires, Record, DataTypeOK
  <2>2. wire' \subseteq Ops
    BY <1>3 DEF LimitFires, DataTypeOK
  <2> QED
    BY <1>3, <2>1, <2>2
       DEF LimitFires, DataTypeOK, Results, JournalTypeOK, journalVars, lockVars, treeVars, gateVars
<1>4. CASE WriteAudit(op)
  <2>1. appends' \in Seq(Ops \cup Operators)
    BY <1>4, AppendsStayTyped DEF WriteAudit, DataTypeOK
  <2> QED
    BY <1>4, <2>1
       DEF WriteAudit, Fails, DataTypeOK, JournalTypeOK, journalVars, lockVars, handlerVars,
           treeVars, gateVars
<1>5. CASE SettleCall(op) \/ ParkCall(op) \/ MarkCall(op) \/ RawReturns(op) \/ RawLimitFires(op)
  <2>1. pins' \in [Declarations -> Nat]
    BY <1>1, <1>5 DEF SettleCall, ParkCall, MarkCall, RawReturns, RawLimitFires, Finish,
                      ReleaseAll, Unpin, lockVars, DataTypeOK
  <2>2. JournalTypeOK'
    BY <1>5, SettleKeepsType, ParkKeepsType
       DEF SettleCall, ParkCall, MarkCall, RawReturns, RawLimitFires, SettledBy, DataTypeOK,
           JournalTypeOK, journalVars
  <2>3. faults' \in Nat
    BY <1>5 DEF SettleCall, ParkCall, MarkCall, RawReturns, RawLimitFires, Fails, DataTypeOK
  <2>4. result' \in [Ops -> Results]
    BY <1>5 DEF SettleCall, ParkCall, MarkCall, RawReturns, RawLimitFires, DataTypeOK, Results
  <2>5. clone' \in [Declarations -> {"ready", "needs-attention"}]
    BY <1>5 DEF SettleCall, ParkCall, MarkCall, RawReturns, RawLimitFires, MarkAttention,
                DataTypeOK
  <2>6. closedBy' \in [Ops -> {"nobody", "call", "forgotten", "completed", "human"}]
    BY <1>5 DEF SettleCall, ParkCall, MarkCall, RawReturns, RawLimitFires, SettledBy, DataTypeOK
  <2> QED
    BY <1>5, <2>1, <2>2, <2>3, <2>4, <2>5, <2>6
       DEF SettleCall, ParkCall, MarkCall, RawReturns, RawLimitFires, DataTypeOK, handlerVars,
           treeVars, gateVars, auditVars
<1>6. CASE RawFinishes(op)
  <2>1. JournalTypeOK'
    BY <1>6, SettleKeepsType, ParkKeepsType, MarkAppliedKeepsType
       DEF RawFinishes, SettledBy, DataTypeOK, JournalTypeOK, journalVars
  <2>2. faults' \in Nat
    BY <1>6 DEF RawFinishes, Fails, DataTypeOK
  <2>3. clone' \in [Declarations -> {"ready", "needs-attention"}]
    BY <1>6 DEF RawFinishes, MarkAttention, DataTypeOK
  <2>4. closedBy' \in [Ops -> {"nobody", "call", "forgotten", "completed", "human"}]
    BY <1>6 DEF RawFinishes, SettledBy, DataTypeOK
  <2>5. handler' \in [Ops -> {"none", "running", "settling", "parking", "marking", "ended"}]
    BY <1>6 DEF RawFinishes, DataTypeOK
  <2> QED
    BY <1>6, <2>1, <2>2, <2>3, <2>4, <2>5
       DEF RawFinishes, DataTypeOK, lockVars, callVars, treeVars, gateVars, auditVars
<1> QED
  BY <1>2, <1>3, <1>4, <1>5, <1>6

\* Every step of a call keeps the types.
LEMMA CallStepKeepsDataType ==
  ASSUME DataTypeOK, NEW op \in Ops, CallStep(op)
  PROVE  DataTypeOK'
  BY ApproachKeepsDataType, EffectsKeepDataType, EndingsKeepDataType DEF CallStep

-----------------------------------------------------------------------------
\* What is always true of one call, its handler, its entry and its push.

NotBegun == {"idle", "awaitPass", "matWait", "mutWait", "refused"}
Ending == {"audit", "settle", "park", "mark"}

\* A call has an entry only once it runs; its handler outlives it only if it is
\* the hatch's; while a handler works, or its outcome is not yet written, the
\* entry is still the one it began; and a push nobody waits for is one whose
\* step was recorded and whose remote has not answered.
CallInv(op) ==
    /\ pc[op] \in NotBegun =>
          entry[op].state = "none" /\ handler[op] = "none" /\ prog[op] = 0
    /\ pc[op] = "running" =>
          handler[op] # "none" /\ (ToolOf[op] # "git_raw" => handler[op] = "running")
    /\ pc[op] \in Ending => handler[op] = "ended" /\ ToolOf[op] # "git_raw"
    /\ pc[op] \in {"audit", "settle", "park"} => entry[op].state \in {"intended", "applied"}
    /\ pc[op] = "lost" => handler[op] \in {"none", "ended"}
    /\ pc[op] = "done" => handler[op] # "none" /\ (handler[op] = "ended" \/ ToolOf[op] = "git_raw")
    /\ handler[op] \in {"running", "settling", "parking"} => entry[op].state = "intended"
    /\ handler[op] \in {"settling", "parking", "marking"} => ToolOf[op] = "git_raw"
    /\ op \in wire => handler[op] = "ended" /\ ToolOf[op] \in Pushes /\ prog[op] = 1
    /\ prog[op] <= Len(ProgramOf(op))
    /\ ToolOf[op] \in Pushes /\ prog[op] > 0 => entry[op].steps > 0

\* No other call's position, handler, entry or push changes in a step of a call.
SameCall(op) ==
    /\ pc'[op] = pc[op]
    /\ handler'[op] = handler[op]
    /\ entry'[op] = entry[op]
    /\ prog'[op] = prog[op]
    /\ op \in wire' <=> op \in wire
    /\ closedBy'[op] = closedBy[op]

\* What holds of a call holds still when none of this changes.
LEMMA SameCallKeepsCallInv ==
  ASSUME NEW op \in Ops, CallInv(op), SameCall(op)
  PROVE  CallInv(op)'
  BY DEF CallInv, SameCall, ProgramOf

\* A call's step is its own.
LEMMA CallsMoveAlone ==
  ASSUME DataTypeOK, pc \in [Ops -> Steps], NEW op \in Ops, CallStep(op),
         NEW b \in Ops \ {op}
  PROVE  SameCall(b)
<1> USE DEF SameCall
<1>1. CASE \/ Arrive(op) \/ ArriveFirst(op) \/ ArriveRecovering(op) \/ GiveUpMaterialisation(op)
           \/ Ensured(op) \/ RefuseHolding(op) \/ GiveUpMutation(op)
  <2>1. UNCHANGED <<entry, handler, prog, wire, closedBy>>
    BY <1>1 DEF Arrive, ArriveFirst, ArriveRecovering, GiveUpMaterialisation, Ensured,
                RefuseHolding, GiveUpMutation, journalVars, handlerVars
  <2>2. \E step : pc' = [pc EXCEPT ![op] = step]
    BY <1>1 DEF Arrive, ArriveFirst, ArriveRecovering, GiveUpMaterialisation, Ensured,
                RefuseHolding, GiveUpMutation, Admit, Finish, Goto
  <2> QED
    BY <2>1, <2>2
<1>2. CASE BeginCall(op)
  BY <1>2 DEF BeginCall, Begin, Goto, DataTypeOK, JournalTypeOK
<1>3. CASE HandlerStep(op) \/ LateLanding(op)
  <2>1. entry'[b] = entry[b]
    BY <1>3 DEF HandlerStep, LateLanding, WriteStep, AppendStep, ChangeClone, ChangeUnseen,
                LandPush, LandElsewhere, journalVars, DataTypeOK, JournalTypeOK
  <2>2. UNCHANGED <<pc, handler, closedBy>> /\ prog' = [prog EXCEPT ![op] = @ + 1]
        /\ wire' \in {wire, wire \ {op}}
    BY <1>3 DEF HandlerStep, LateLanding, callVars, Advance
  <2> QED
    BY <2>1, <2>2 DEF DataTypeOK
<1>4. ASSUME NEW outcome \in {"ok", "failed", "unknown"},
             HandlerReturns(op, outcome) \/ RawAudits(op, outcome)
      PROVE  SameCall(b)
  <2>1. entry'[b] = entry[b]
    BY <1>4 DEF HandlerReturns, RawAudits, MarkApplied, journalVars, DataTypeOK, JournalTypeOK
  <2>2. UNCHANGED <<prog, wire, closedBy>> /\ handler'[b] = handler[b]
    BY <1>4 DEF HandlerReturns, RawAudits, DataTypeOK
  <2>3. pc'[b] = pc[b]
    BY <1>4 DEF HandlerReturns, RawAudits, Goto
  <2> QED
    BY <2>1, <2>2, <2>3
<1>5. CASE LimitFires(op)
  BY <1>5 DEF LimitFires, Goto, journalVars, DataTypeOK
<1>6. CASE WriteAudit(op)
  BY <1>6 DEF WriteAudit, journalVars, handlerVars
<1>7. CASE SettleCall(op) \/ ParkCall(op) \/ MarkCall(op) \/ RawReturns(op) \/ RawLimitFires(op)
  <2>1. entry'[b] = entry[b]
    BY <1>7 DEF SettleCall, ParkCall, MarkCall, RawReturns, RawLimitFires, SettledBy, Settle,
                Park, journalVars, DataTypeOK, JournalTypeOK
  <2>2. closedBy'[b] = closedBy[b] /\ UNCHANGED <<handler, prog, wire>>
    BY <1>7 DEF SettleCall, ParkCall, MarkCall, RawReturns, RawLimitFires, SettledBy,
                handlerVars, DataTypeOK
  <2>3. pc'[b] = pc[b]
    BY <1>7 DEF SettleCall, ParkCall, MarkCall, RawReturns, RawLimitFires, Finish, Goto
  <2> QED
    BY <2>1, <2>2, <2>3
<1>8. CASE RawFinishes(op)
  <2>1. entry'[b] = entry[b]
    BY <1>8 DEF RawFinishes, SettledBy, Settle, Park, MarkApplied, journalVars, DataTypeOK,
                JournalTypeOK
  <2>2. closedBy'[b] = closedBy[b] /\ handler'[b] = handler[b] /\ UNCHANGED <<pc, prog, wire>>
    BY <1>8 DEF RawFinishes, SettledBy, callVars, DataTypeOK
  <2> QED
    BY <2>1, <2>2
<1> QED
  BY <1>1, <1>2, <1>3, <1>4, <1>5, <1>6, <1>7, <1>8 DEF CallStep

\* A call that has not begun stays so, whatever locks it comes by.
LEMMA ApproachKeepsCallInv ==
  ASSUME pc \in [Ops -> Steps], NEW op \in Ops, CallInv(op),
         \/ Arrive(op) \/ ArriveFirst(op) \/ ArriveRecovering(op) \/ GiveUpMaterialisation(op)
         \/ Ensured(op) \/ RefuseHolding(op) \/ GiveUpMutation(op)
  PROVE  CallInv(op)'
<1>1. UNCHANGED <<entry, handler, prog, wire>>
  BY DEF Arrive, ArriveFirst, ArriveRecovering, GiveUpMaterialisation, Ensured,
         RefuseHolding, GiveUpMutation, journalVars, handlerVars
<1>2. pc[op] \in NotBegun /\ \E step \in NotBegun : pc' = [pc EXCEPT ![op] = step]
  BY DEF Arrive, ArriveFirst, ArriveRecovering, GiveUpMaterialisation, Ensured,
         RefuseHolding, GiveUpMutation, Admit, Finish, Goto, NotBegun
<1>3. pc'[op] \in NotBegun
  BY <1>2
<1> QED
  BY <1>1, <1>2, <1>3 DEF CallInv, NotBegun, Ending, ProgramOf

\* The intent is written as the handler starts.
LEMMA BeginKeepsCallInv ==
  ASSUME DataTypeOK, pc \in [Ops -> Steps], NEW op \in Ops, CallInv(op), BeginCall(op)
  PROVE  CallInv(op)'
<1>1. pc'[op] = "running" /\ handler'[op] = "running" /\ UNCHANGED <<prog, wire>>
  BY DEF BeginCall, Goto, DataTypeOK
<1>2. entry'[op].state = "intended"
  BY DEF BeginCall, Begin, DataTypeOK, JournalTypeOK
<1>3. prog[op] = 0 /\ op \notin wire
  BY DEF CallInv, BeginCall, NotBegun
<1> QED
  BY <1>1, <1>2, <1>3, ProgramsAreKnown DEF CallInv, NotBegun, Ending, ProgramOf

\* Before a push reaches the remote its step is on the books.
LEMMA EffectsKeepCallInv ==
  ASSUME DataTypeOK, pc \in [Ops -> Steps], NEW op \in Ops, CallInv(op),
         HandlerStep(op) \/ LateLanding(op)
  PROVE  CallInv(op)'
<1>1. UNCHANGED <<pc, handler>> /\ prog'[op] = prog[op] + 1 /\ prog[op] \in Nat
  BY DEF HandlerStep, LateLanding, callVars, Advance, DataTypeOK
<1>2. entry[op].steps \in Nat
  BY DEF DataTypeOK, JournalTypeOK
<1>3. Unfinished(op)
  BY ProgramsAreKnown DEF HandlerStep, LateLanding, CallInv, Unfinished, ProgramOf, Program, Push,
                              PushElsewhere, Pushes
<1>4. prog'[op] <= Len(ProgramOf(op))
  BY <1>1, <1>3, ProgramsAreKnown DEF Unfinished
<1>5. entry'[op].state = entry[op].state /\ entry'[op].steps \in {entry[op].steps, entry[op].steps + 1}
  BY <1>2 DEF HandlerStep, LateLanding, WriteStep, AppendStep, ChangeClone, ChangeUnseen,
                    LandPush, LandElsewhere, journalVars, DataTypeOK, JournalTypeOK
<1>6. ASSUME ToolOf[op] \in Pushes
      PROVE  entry'[op].steps > 0
  <2>1. CASE prog[op] > 0
    BY <1>2, <1>5, <1>6, <2>1 DEF CallInv
  <2>2. CASE prog[op] = 0
    <3>1. NextInstruction(op) = "step"
      BY <1>6, <2>2, ProgramsAreKnown DEF NextInstruction
    <3>2. AppendStep(op)
      BY <3>1 DEF HandlerStep, LateLanding, WriteStep, ChangeClone, ChangeUnseen,
                  LandPush, LandElsewhere,
                  LocalEffects, Facets
    <3> QED
      BY <1>2, <3>2 DEF AppendStep, DataTypeOK, JournalTypeOK
  <2> QED
    BY <1>1, <2>1, <2>2
<1>7. op \notin wire'
  BY DEF HandlerStep, LateLanding, ChildRuns, CallInv
<1>8. prog[op] = 0 => pc[op] \notin NotBegun
  BY DEF HandlerStep, LateLanding, ChildRuns, CallInv, NotBegun
<1> QED
  BY <1>1, <1>4, <1>5, <1>6, <1>7, <1>8 DEF CallInv, NotBegun, Ending, ProgramOf

\* A handler's outcome ends it, or is the hatch's to record.
LEMMA HandlerEndsKeepCallInv ==
  ASSUME DataTypeOK, pc \in [Ops -> Steps], NEW op \in Ops, CallInv(op),
         \/ \E outcome \in {"ok", "failed", "unknown"} :
               HandlerReturns(op, outcome) \/ RawAudits(op, outcome)
         \/ LimitFires(op)
  PROVE  CallInv(op)'
<1>1. UNCHANGED prog /\ entry[op].state = "intended" /\ handler[op] = "running"
      /\ (op \in wire => FALSE)
  BY DEF HandlerReturns, RawAudits, LimitFires, CallInv
<1>2. entry'[op].state \in {"intended", "applied"} /\ entry'[op].steps = entry[op].steps
  BY <1>1 DEF HandlerReturns, RawAudits, LimitFires, MarkApplied, InState, journalVars, DataTypeOK,
              JournalTypeOK
<1>3. CASE HandlerReturns(op, "ok") \/ HandlerReturns(op, "failed")
           \/ HandlerReturns(op, "unknown")
  <2>1. pc'[op] = "audit" /\ handler'[op] = "ended" /\ ToolOf[op] # "git_raw" /\ wire' = wire
    BY <1>3 DEF HandlerReturns, Goto, DataTypeOK
  <2> QED
    BY <1>1, <1>2, <2>1 DEF CallInv, NotBegun, Ending, ProgramOf
<1>4. CASE LimitFires(op)
  <2>1. pc'[op] = "audit" /\ handler'[op] = "ended" /\ ToolOf[op] # "git_raw"
    BY <1>4 DEF LimitFires, Goto, DataTypeOK
  <2>2. op \in wire' => ToolOf[op] \in Pushes /\ prog[op] = 1
    <3>1. op \in wire' => OnTheWire(op)
      BY <1>1, <1>4 DEF LimitFires
    <3> QED
      BY <3>1, ProgramsAreKnown DEF OnTheWire, Unfinished, NextInstruction, DataTypeOK, Pushes
  <2> QED
    BY <1>1, <1>2, <2>1, <2>2 DEF CallInv, NotBegun, Ending, ProgramOf
<1>5. ASSUME NEW outcome \in {"ok", "failed", "unknown"}, RawAudits(op, outcome)
      PROVE  CallInv(op)'
  <2>1. UNCHANGED <<pc, entry, wire>> /\ handler'[op] \in {"parking", "settling"}
        /\ ToolOf[op] = "git_raw"
    BY <1>5 DEF RawAudits, journalVars, DataTypeOK
  <2> QED
    BY <1>1, <1>2, <2>1 DEF CallInv, NotBegun, Ending, ProgramOf
<1> QED
  BY <1>3, <1>4, <1>5

\* What the end of a call and of the hatch's handler leaves.
LEMMA EndingsKeepCallInv ==
  ASSUME DataTypeOK, pc \in [Ops -> Steps], NEW op \in Ops, CallInv(op),
         \/ WriteAudit(op) \/ SettleCall(op) \/ ParkCall(op) \/ MarkCall(op)
         \/ RawFinishes(op) \/ RawReturns(op) \/ RawLimitFires(op)
  PROVE  CallInv(op)'
<1>1. UNCHANGED <<prog, wire>>
  BY DEF WriteAudit, SettleCall, ParkCall, MarkCall, RawFinishes, RawReturns, RawLimitFires,
         handlerVars
<1>2. entry'[op].steps = entry[op].steps
  BY DEF WriteAudit, SettleCall, ParkCall, MarkCall, RawFinishes, RawReturns, RawLimitFires,
         SettledBy, Settle, Park, MarkApplied, journalVars, DataTypeOK, JournalTypeOK
<1>3. CASE WriteAudit(op)
  <2>1. UNCHANGED <<entry, handler>>
    BY <1>3 DEF WriteAudit, journalVars, handlerVars
  <2>2. pc'[op] = IF pc[op] = "audit" THEN AfterAudit(op) ELSE pc[op]
    BY <1>3 DEF WriteAudit
  <2> QED
    BY <1>1, <2>1, <2>2 DEF CallInv, NotBegun, Ending, ProgramOf, AfterAudit
<1>4. CASE SettleCall(op) \/ MarkCall(op) \/ RawReturns(op) \/ RawLimitFires(op)
           \/ (ParkCall(op) /\ Finish(op, "done"))
  <2>1. pc'[op] = "done" /\ UNCHANGED handler
    BY <1>4 DEF SettleCall, MarkCall, RawReturns, RawLimitFires, ParkCall, Finish, Goto,
                handlerVars
  <2>2. pc[op] \in {"running"} \cup Ending /\ (pc[op] = "running" => ToolOf[op] = "git_raw")
    BY <1>4 DEF SettleCall, MarkCall, RawReturns, RawLimitFires, ParkCall, Ending
  <2>3. handler[op] \in {"running", "settling", "parking"} => UNCHANGED entry
    BY <1>4 DEF SettleCall, MarkCall, RawReturns, RawLimitFires, ParkCall, CallInv, Ending,
                journalVars
  <2> QED
    BY <1>1, <1>2, <2>1, <2>2, <2>3 DEF CallInv, NotBegun, Ending, ProgramOf
<1>5. CASE ParkCall(op) /\ Goto(op, "mark")
  <2>1. pc'[op] = "mark" /\ UNCHANGED handler /\ pc[op] \in Ending
    BY <1>5 DEF ParkCall, Goto, handlerVars, Ending
  <2> QED
    BY <1>1, <1>2, <2>1 DEF CallInv, NotBegun, Ending, ProgramOf
<1>6. CASE RawFinishes(op)
  <2>1. pc' = pc /\ handler'[op] \in {"marking", "ended"} /\ ToolOf[op] = "git_raw"
    BY <1>6 DEF RawFinishes, callVars, CallInv, DataTypeOK
  <2>2. handler[op] # "none" /\ pc[op] \notin NotBegun \cup Ending
    BY <1>6 DEF RawFinishes, CallInv, NotBegun, Ending
  <2>3. pc[op] # "lost"
    BY <1>6 DEF RawFinishes, CallInv
  <2> QED
    BY <1>1, <1>2, <2>1, <2>2, <2>3 DEF CallInv, NotBegun, Ending, ProgramOf, Pushes
<1> QED
  BY <1>3, <1>4, <1>5, <1>6 DEF ParkCall

\* Every step of a call keeps what is true of every call.
LEMMA CallStepKeepsCallInv ==
  ASSUME DataTypeOK, pc \in [Ops -> Steps], \A b \in Ops : CallInv(b),
         NEW op \in Ops, CallStep(op)
  PROVE  \A b \in Ops : CallInv(b)'
<1>1. CallInv(op)'
  BY ApproachKeepsCallInv, BeginKeepsCallInv, EffectsKeepCallInv, HandlerEndsKeepCallInv,
     EndingsKeepCallInv DEF CallStep
<1>2. ASSUME NEW b \in Ops \ {op}
      PROVE  CallInv(b)'
  BY <1>2, CallsMoveAlone, SameCallKeepsCallInv
<1> QED
  BY <1>1, <1>2


-----------------------------------------------------------------------------
(***************************************************************************)
(* The service: passes, the operator's route, boot.                        *)
(***************************************************************************)
\* The calls that a pass refuses hold and wait for no lock.
LEMMA PassFailsKeepsLockInv ==
  ASSUME LockInv, NEW d \in Declarations, PassFails(d), UNCHANGED lockVars
  PROVE  LockInv'
<1>1. ASSUME NEW op \in Ops
      PROVE  pc'[op] = pc[op] \/ (pc[op] = "awaitPass" /\ pc'[op] = "refused")
  BY DEF PassFails, Awaiting
<1>2. pc' \in [Ops -> Steps]
  <2>1. pc \in [Ops -> Steps] /\ "refused" \in Steps
    BY DEF LockInv, Steps, Ended
  <2> QED
    BY <2>1 DEF PassFails
<1> QED
  BY <1>1, <1>2, CallsMoveOn DEF lockVars, Outside, Ended

\* A step of a pass that leaves every call where it is.
LEMMA PassAloneKeepsLockInv ==
  ASSUME LockInv, UNCHANGED <<pc, mutation, mat>>
  PROVE  LockInv'
  BY CallsMoveOn DEF LockInv

\* Every step of a recovery pass keeps the agreement.
LEMMA PassStepKeepsLockInv ==
  ASSUME LockInv, NEW d \in Declarations, PassStep(d)
  PROVE  LockInv'
<1>1. CASE FirstUse(d) \/ MarkEntry(d)
  BY <1>1, PassFailsKeepsLockInv, PassAloneKeepsLockInv DEF FirstUse, MarkEntry, lockVars
<1>2. CASE SweepVisits(d) \/ PassEnds(d)
  BY <1>2, PassAloneKeepsLockInv DEF SweepVisits, PassEnds, dispatchVars, lockVars, callVars
<1>3. CASE RemarkParked(d) \/ ForgetEntry(d) \/ CompleteEntry(d) \/ ObservationFails(d)
  BY <1>3, PassAloneKeepsLockInv
     DEF RemarkParked, ForgetEntry, CompleteEntry, SettleEntry, ObservationFails,
         lockVars, callVars
<1>4. ASSUME ParkCurrent(d)
      PROVE  LockInv'
  BY <1>4, PassFailsKeepsLockInv, PassAloneKeepsLockInv DEF ParkCurrent, lockVars
<1>5. CASE ParkEntry(d)
  BY <1>4, <1>5 DEF ParkEntry
<1>6. CASE ResumeEnds(d)
  BY <1>4, <1>6, PassAloneKeepsLockInv DEF ResumeEnds, lockVars, callVars
<1>7. ASSUME NEW op \in Ops, ResumeEntry(d, op)
      PROVE  LockInv'
  BY <1>7, AdmitKeepsLockInv DEF ResumeEntry
<1>8. ASSUME NEW op \in Ops, PassDone(op)
      PROVE  LockInv'
  BY <1>8, AdmitKeepsLockInv DEF PassDone
<1> QED
  BY <1>1, <1>2, <1>3, <1>5, <1>6, <1>7, <1>8 DEF PassStep

\* A boot finds every call idle, ended or lost, and every mutex free.
LEMMA BootRestoresLockInv ==
  ASSUME LockInv, CrashAndBoot
  PROVE  LockInv'
<1>1. JustBooted'
  BY DEF CrashAndBoot, JustBooted, Ended
<1>2. JustBooted' => LockInv'
  BY LockInvAtBoot, PTL
<1> QED
  BY <1>1, <1>2

-----------------------------------------------------------------------------
\* What is always true of a declaration's recovery pass.

\* A call that has not entered its declaration's mutating path or is over.
Quiet(op) ==
    pc[op] \in {"idle", "awaitPass"} \cup Ended /\ handler[op] \in {"none", "ended"}

\* Until its pass is done, a declaration's calls are all quiet, but for the
\* resume the pass dispatched; the entries a pass has still to decide are those
\* of calls that are over; and a parked one among them was parked before the
\* pass read it, or is the one the pass has just parked.
PassInv(d) ==
    /\ \A op \in Ops :
          DeclarationOf[op] = d /\ pass[d].state # "done" =>
             Quiet(op) \/ (pass[d].state = "resuming" /\ op = pass[d].step)
    /\ d \in recovered => pass[d].state = "done"
    /\ \A op \in pass[d].todo :
          /\ DeclarationOf[op] = d
          /\ pc[op] \in Ended
          /\ handler[op] \in {"none", "ended"}
          /\ entry[op].state # "none"
          /\ entry[op].state = "attention" =>
                op \in pass[d].wasParked \/ (pass[d].state = "marking" /\ op = Current(d))
    /\ pass[d].state \in {"marking", "resuming"} =>
          pass[d].todo # {} /\ Current(d) \notin pass[d].wasParked
    /\ pass[d].state = "resuming" =>
          pass[d].step \in Ops /\ ToolOf[pass[d].step] = "prepare_branch"

\* The entry a pass is at is one of those it has to decide.
LEMMA CurrentIsToDo ==
  ASSUME JournalTypeOK, RecoveryTypeOK, NEW d \in Declarations, pass[d].todo # {}
  PROVE  Current(d) \in pass[d].todo /\ Current(d) \in Ops
<1>1. pass[d].todo \subseteq Ops
  BY DEF RecoveryTypeOK
<1> QED
  BY <1>1, OldestIsMember DEF Current

\* It stays that while what there is to decide stays, for an entry keeps the
\* number it began with.
LEMMA CurrentStays ==
  ASSUME NEW d, pass'[d].todo = pass[d].todo,
         \A op \in pass[d].todo : entry'[op].startedAt = entry[op].startedAt
  PROVE  Current(d)' = Current(d)
<1>1. Current(d)' = CHOOSE op \in pass'[d].todo :
         \A o \in pass'[d].todo : entry'[op].startedAt <= entry'[o].startedAt
  BY DEF Current, Oldest
<1>2. Current(d) = CHOOSE op \in pass[d].todo :
         \A o \in pass[d].todo : entry[op].startedAt <= entry[o].startedAt
  BY DEF Current, Oldest
<1>3. \A op \in pass[d].todo :
         (\A o \in pass[d].todo : entry'[op].startedAt <= entry'[o].startedAt)
         <=> (\A o \in pass[d].todo : entry[op].startedAt <= entry[o].startedAt)
  OBVIOUS
<1> QED
  BY <1>1, <1>2, <1>3, Zenon

\* A pass that a step does not touch, nor any call of its declaration.
LEMMA UntouchedPassInv ==
  ASSUME NEW d \in Declarations, PassInv(d), RecoveryTypeOK, pass'[d] = pass[d],
         d \in recovered' => d \in recovered,
         \A op \in Ops : DeclarationOf[op] = d => SameCall(op)
  PROVE  PassInv(d)'
<1>1. \A op \in pass[d].todo : op \in Ops /\ SameCall(op)
  BY DEF PassInv, RecoveryTypeOK
<1>2. Current(d)' = Current(d)
  BY <1>1, CurrentStays DEF SameCall
<1> QED
  BY <1>1, <1>2 DEF PassInv, SameCall, Quiet

\* A step of a call that was in the mutating path, or stays out of it, or is
\* let in because its declaration is recovered.
LEMMA CallKeepsPassInv ==
  ASSUME NEW op \in Ops, NEW d \in Declarations, d = DeclarationOf[op], PassInv(d),
         RecoveryTypeOK, UNCHANGED <<pass, recovered>>,
         \A b \in Ops \ {op} : SameCall(b),
         ~Quiet(op) \/ Quiet(op)' \/ d \in recovered,
         pc[op] \in Ended /\ handler[op] \in {"none", "ended"} =>
            pc'[op] = pc[op] /\ handler'[op] = handler[op] /\ entry'[op] = entry[op]
  PROVE  PassInv(d)'
<1>1. \A b \in pass[d].todo :
         b \in Ops /\ pc'[b] = pc[b] /\ handler'[b] = handler[b] /\ entry'[b] = entry[b]
  BY DEF PassInv, RecoveryTypeOK, SameCall
<1>2. Current(d)' = Current(d)
  BY <1>1, CurrentStays
<1>3. ASSUME NEW b \in Ops, DeclarationOf[b] = d, pass[d].state # "done"
      PROVE  Quiet(b)' \/ (pass[d].state = "resuming" /\ b = pass[d].step)
  <2>1. CASE b = op
    BY <1>3, <2>1 DEF PassInv
  <2>2. CASE b # op
    BY <1>3, <2>2 DEF PassInv, SameCall, Quiet
  <2> QED
    BY <2>1, <2>2
<1> QED
  BY <1>1, <1>2, <1>3 DEF PassInv

\* Every step of a call is one of these.
LEMMA CallStepKeepsPassInv ==
  ASSUME DataTypeOK, pc \in [Ops -> Steps], RecoveryTypeOK, \A b \in Ops : CallInv(b),
         \A e \in Declarations : PassInv(e), NEW op \in Ops, CallStep(op), UNCHANGED pass
  PROVE  \A e \in Declarations : PassInv(e)'
<1> DEFINE d == DeclarationOf[op]
<1>1. CallInv(op) /\ d \in Declarations
  BY DeclarationIsDeclared
<1>2. \A b \in Ops \ {op} : SameCall(b)
  BY CallsMoveAlone
<1>3. recovered' = recovered
  BY DEF CallStep, Arrive, ArriveFirst, ArriveRecovering, GiveUpMaterialisation, Ensured,
         RefuseHolding, GiveUpMutation, BeginCall, HandlerStep, LateLanding, HandlerReturns,
         RawAudits, LimitFires, WriteAudit, SettleCall, ParkCall, MarkCall, RawFinishes,
         RawReturns, RawLimitFires, gateVars
<1>4. CASE Arrive(op) \/ ArriveFirst(op) \/ ArriveRecovering(op)
  <2>1. pc[op] = "idle" /\ UNCHANGED handler
    BY <1>4 DEF Arrive, ArriveFirst, ArriveRecovering, handlerVars
  <2>2. d \in recovered \/ pc'[op] \in {"awaitPass", "refused"}
    BY <1>4 DEF Arrive, ArriveFirst, ArriveRecovering, Goto
  <2>3. handler[op] = "none"
    BY <1>1, <2>1 DEF CallInv, NotBegun
  <2>4. d \in recovered \/ Quiet(op)'
    BY <2>1, <2>2, <2>3 DEF Quiet, Ended
  <2>5. pc[op] \notin Ended
    BY <2>1 DEF Ended
  <2> QED
    BY <1>1, <1>2, <1>3, <2>4, <2>5, CallKeepsPassInv, UntouchedPassInv
<1>5. CASE LateLanding(op) \/ (WriteAudit(op) /\ pc[op] # "audit")
  <2>1. pc'[op] = pc[op] /\ UNCHANGED <<handler, entry>>
    BY <1>5 DEF LateLanding, WriteAudit, LandPush, LandElsewhere, callVars, journalVars, handlerVars
  <2>2. ~Quiet(op) \/ Quiet(op)'
    BY <2>1 DEF Quiet
  <2> QED
    BY <1>1, <1>2, <1>3, <2>1, <2>2, CallKeepsPassInv, UntouchedPassInv
<1>6. CASE \/ GiveUpMaterialisation(op) \/ Ensured(op) \/ RefuseHolding(op) \/ GiveUpMutation(op)
           \/ BeginCall(op) \/ HandlerStep(op) \/ LimitFires(op)
           \/ (WriteAudit(op) /\ pc[op] = "audit")
           \/ SettleCall(op) \/ ParkCall(op) \/ MarkCall(op) \/ RawReturns(op) \/ RawLimitFires(op)
           \/ \E outcome \in {"ok", "failed", "unknown"} : HandlerReturns(op, outcome)
  <2>1. pc[op] \in {"matWait", "mutWait", "running", "audit", "settle", "park", "mark"}
    BY <1>6 DEF GiveUpMaterialisation, Ensured, RefuseHolding, GiveUpMutation, BeginCall,
                HandlerStep, ChildRuns, HandlerReturns, LimitFires, SettleCall, ParkCall, MarkCall,
                RawReturns, RawLimitFires
  <2>2. pc[op] \notin {"idle", "awaitPass"} \cup Ended
    BY <2>1 DEF Ended
  <2> QED
    BY <1>1, <1>2, <1>3, <2>2, CallKeepsPassInv, UntouchedPassInv DEF Quiet
<1>7. CASE \/ RawFinishes(op)
           \/ \E outcome \in {"ok", "failed", "unknown"} : RawAudits(op, outcome)
  <2>1. handler[op] \notin {"none", "ended"}
    BY <1>7 DEF RawFinishes, RawAudits
  <2> QED
    BY <1>1, <1>2, <1>3, <2>1, CallKeepsPassInv, UntouchedPassInv DEF Quiet
<1> QED
  BY <1>4, <1>5, <1>6, <1>7 DEF CallStep

-----------------------------------------------------------------------------
\* The inductive invariant of the service.

ServiceInv ==
    /\ LockInv
    /\ DataTypeOK
    /\ RecoveryTypeOK
    /\ resolving \in [Operators -> [op : Ops \cup {Nobody}, last : BOOLEAN]]
    /\ crashes \in Nat
    /\ \A op \in Ops : CallInv(op)
    /\ \A d \in Declarations : PassInv(d)

\* A process that has not started has it.
LEMMA InitHasServiceInv == Init => ServiceInv
<1> SUFFICES ASSUME Init
             PROVE  ServiceInv
  OBVIOUS
<1>1. LockInv
  BY LockInvAtBoot DEF Init, DispatchInit, JustBooted
<1>2. DataTypeOK
  BY InitHasType, PristineIsGitState DEF Init, DispatchInit, DataTypeOK, Results
<1>3. RecoveryTypeOK
  BY DEF Init, RecoveryInit, RecoveryTypeOK, NoPass
<1>4. resolving \in [Operators -> [op : Ops \cup {Nobody}, last : BOOLEAN]] /\ crashes \in Nat
  BY DEF Init, NotResolving
<1>5. ASSUME NEW op \in Ops
      PROVE  CallInv(op) /\ Quiet(op)
  <2>1. pc[op] = "idle" /\ handler[op] = "none" /\ prog[op] = 0 /\ op \notin wire
    BY DEF Init, DispatchInit
  <2>2. entry[op].state = "none"
    BY DEF Init, DispatchInit, JournalInit, NoEntry
  <2> QED
    BY <2>1, <2>2, ProgramsAreKnown DEF CallInv, Quiet, NotBegun, Ending
<1>6. ASSUME NEW d \in Declarations
      PROVE  PassInv(d)
  <2>1. pass[d] = NoPass /\ recovered = {}
    BY DEF Init, DispatchInit, RecoveryInit
  <2> QED
    BY <1>5, <2>1 DEF PassInv, NoPass
<1> QED
  BY <1>1, <1>2, <1>3, <1>4, <1>5, <1>6 DEF ServiceInv

\* Every step of a call keeps it.
LEMMA CallStepKeepsServiceInv ==
  ASSUME ServiceInv, NEW op \in Ops, CallStep(op), UNCHANGED <<passVars, resolving, crashes>>
  PROVE  ServiceInv'
<1>1. LockInv' /\ pc \in [Ops -> Steps]
  BY CallStepKeepsLockInv DEF ServiceInv, LockInv
<1>2. DataTypeOK'
  BY CallStepKeepsDataType DEF ServiceInv
<1>3. (\A b \in Ops : CallInv(b))'
  BY <1>1, CallStepKeepsCallInv DEF ServiceInv
<1>4. (\A d \in Declarations : PassInv(d))'
  BY <1>1, CallStepKeepsPassInv DEF ServiceInv, passVars
<1>5. RecoveryTypeOK'
  BY DEF ServiceInv, RecoveryTypeOK, passVars
<1> QED
  BY <1>1, <1>2, <1>3, <1>4, <1>5 DEF ServiceInv

-----------------------------------------------------------------------------
\* What a step of a pass may change: the entry it is at, which it settles or
\* parks, and where calls of its declaration stand that wait to be let in.

DecidesCurrent(d, op) ==
    /\ op = Current(d)
    /\ op \in pass[d].todo
    /\ Exists(op)
    /\ entry'[op].state \in {"settled", "attention"}
    /\ InState(op, {"settled"}) => InState(op, {"settled"})'
    /\ entry'[op].steps = entry[op].steps
    /\ entry'[op].startedAt = entry[op].startedAt
    /\ entry'[op].pre = entry[op].pre

LetIn(d, op) ==
    /\ DeclarationOf[op] = d
    /\ pc[op] \in {"idle", "awaitPass"}
    /\ pc'[op] \in {"refused", "matWait"}

PassFrame(d) ==
    /\ UNCHANGED <<handler, prog, wire, git, remote>>
    /\ DataTypeOK'
    /\ RecoveryTypeOK'
    /\ \A e \in Declarations \ {d} :
          pass'[e] = pass[e] /\ (e \in recovered' <=> e \in recovered)
    /\ \A op \in Ops : pc'[op] = pc[op] \/ LetIn(d, op)
    /\ \A op \in Ops :
          (entry'[op] = entry[op] /\ closedBy'[op] = closedBy[op]) \/ DecidesCurrent(d, op)

\* Parking the entry a pass is at.
LEMMA CurrentIsParked ==
  ASSUME ServiceInv, NEW d \in Declarations, pass[d].todo # {}, Park(Current(d)),
         UNCHANGED closedBy
  PROVE  /\ JournalTypeOK'
         /\ \A op \in Ops :
               (entry'[op] = entry[op] /\ closedBy'[op] = closedBy[op]) \/ DecidesCurrent(d, op)
<1>1. Current(d) \in pass[d].todo /\ Current(d) \in Ops
  BY CurrentIsToDo DEF ServiceInv, DataTypeOK
<1>2. JournalTypeOK'
  BY <1>1, ParkKeepsType DEF ServiceInv, DataTypeOK
<1>3. CASE InState(Current(d), {"settled"})
  BY <1>2, <1>3 DEF Park, journalVars
<1>4. CASE ~InState(Current(d), {"settled"})
  BY <1>1, <1>2, <1>4 DEF Park, DecidesCurrent, ServiceInv, DataTypeOK, JournalTypeOK
<1> QED
  BY <1>3, <1>4

\* Settling it.
LEMMA CurrentIsSettled ==
  ASSUME ServiceInv, NEW d \in Declarations, pass[d].todo # {},
         NEW who \in {"forgotten", "completed"}, SettledBy(Current(d), who)
  PROVE  /\ JournalTypeOK'
         /\ closedBy' \in [Ops -> {"nobody", "call", "forgotten", "completed", "human"}]
         /\ \A op \in Ops :
               (entry'[op] = entry[op] /\ closedBy'[op] = closedBy[op]) \/ DecidesCurrent(d, op)
<1>1. Current(d) \in pass[d].todo /\ Current(d) \in Ops
  BY CurrentIsToDo DEF ServiceInv, DataTypeOK
<1>2. JournalTypeOK' /\ Settle(Current(d))
  BY <1>1, SettleKeepsType DEF ServiceInv, DataTypeOK, SettledBy
<1>3. closedBy' \in [Ops -> {"nobody", "call", "forgotten", "completed", "human"}]
  BY DEF SettledBy, ServiceInv, DataTypeOK
<1> QED
  BY <1>1, <1>2, <1>3
     DEF SettledBy, Settle, DecidesCurrent, InState, ServiceInv, DataTypeOK, JournalTypeOK

\* Forgetting a pass refuses the call that awaits it.
LEMMA PassFailsFrame ==
  ASSUME ServiceInv, NEW d \in Declarations, PassFails(d)
  PROVE  /\ RecoveryTypeOK'
         /\ recovering' \subseteq Declarations
         /\ pass'[d] = NoPass
         /\ \A e \in Declarations \ {d} : pass'[e] = pass[e]
         /\ \A op \in Ops : pc'[op] = pc[op] \/ (LetIn(d, op) /\ pc'[op] = "refused")
<1>1. pass' = [pass EXCEPT ![d] = NoPass] /\ sweep' = sweep /\ sweeping' = sweeping \ {d}
      /\ recovering' = recovering \ {d}
  BY DEF PassFails
<1>2. \A op \in Ops : pc'[op] = pc[op] \/ (LetIn(d, op) /\ pc'[op] = "refused")
  BY DEF PassFails, Awaiting, LetIn
<1> QED
  BY <1>1, <1>2 DEF ServiceInv, RecoveryTypeOK, DataTypeOK, NoPass

\* Letting a call in, or refusing it at the gate.
LEMMA AdmitFrame ==
  ASSUME ServiceInv, NEW op \in Ops, NEW where \in {"normal", "recovery"}, Admit(op, where),
         pc[op] \in {"idle", "awaitPass"}
  PROVE  /\ context' \in [Ops -> {"normal", "recovery"}]
         /\ \A b \in Ops : pc'[b] = pc[b] \/ (b = op /\ LetIn(DeclarationOf[op], b))
<1>1. context' \in [Ops -> {"normal", "recovery"}]
  BY DEF Admit, ServiceInv, DataTypeOK
<1>2. \E step \in {"refused", "matWait"} : pc' = [pc EXCEPT ![op] = step]
  BY DEF Admit, Goto
<1> QED
  BY <1>1, <1>2 DEF LetIn, ServiceInv, LockInv

\* Every step of a pass stays within the frame.
LEMMA PassStaysInFrame ==
  ASSUME ServiceInv, NEW d \in Declarations, PassStep(d)
  PROVE  PassFrame(d)
<1> USE DEF PassFrame
<1>0. PassInv(d) /\ RecoveryTypeOK /\ DataTypeOK /\ pc \in [Ops -> Steps]
  BY DEF ServiceInv, LockInv
<1>1. ASSUME pass[d].todo # {}, ParkCurrent(d)
      PROVE  PassFrame(d)
  <2>1. UNCHANGED <<handler, prog, wire, git, remote, clone, closedBy, result, context, audited,
                    appends, recovered, pins>>
    BY <1>1 DEF ParkCurrent, handlerVars, treeVars, auditVars, lockVars
  <2>2. CASE Park(Current(d)) /\ pass' = [pass EXCEPT ![d].state = "marking", ![d].step = Nobody]
             /\ UNCHANGED <<faults, pc, recovering, sweep, sweeping>>
    <3>1. RecoveryTypeOK'
      BY <1>0, <2>2 DEF RecoveryTypeOK
    <3>2. \A e \in Declarations \ {d} : pass'[e] = pass[e]
      BY <1>0, <2>2 DEF RecoveryTypeOK
    <3> QED
      BY <1>0, <1>1, <2>1, <2>2, <3>1, <3>2, CurrentIsParked DEF DataTypeOK
  <2>3. CASE Fails /\ PassFails(d) /\ UNCHANGED journalVars
    <3>1. UNCHANGED <<entry, announced>> /\ faults' \in Nat
      BY <1>0, <2>3 DEF journalVars, Fails, DataTypeOK
    <3> QED
      BY <1>0, <2>1, <2>3, <3>1, PassFailsFrame DEF DataTypeOK, JournalTypeOK
  <2> QED
    BY <1>1, <2>2, <2>3 DEF ParkCurrent
<1>2. CASE FirstUse(d)
  <2>1. UNCHANGED <<entry, announced, handler, prog, wire, git, remote, clone, closedBy, result,
                    context, audited, appends, recovered, pins>>
    BY <1>2 DEF FirstUse, journalVars, handlerVars, treeVars, auditVars, lockVars
  <2>2. CASE pass' = [pass EXCEPT ![d] = Snapshot(d)]
             /\ UNCHANGED <<faults, pc, recovering, sweep, sweeping>>
    <3>1. RecoveryTypeOK' /\ \A e \in Declarations \ {d} : pass'[e] = pass[e]
      BY <1>0, <2>2 DEF RecoveryTypeOK, Snapshot, UnsettledOf, Parked
    <3> QED
      BY <1>0, <2>1, <2>2, <3>1 DEF DataTypeOK, JournalTypeOK
  <2>3. CASE Fails /\ PassFails(d)
    <3>1. faults' \in Nat
      BY <1>0, <2>3 DEF Fails, DataTypeOK
    <3> QED
      BY <1>0, <2>1, <2>3, <3>1, PassFailsFrame DEF DataTypeOK, JournalTypeOK
  <2> QED
    BY <1>2, <2>2, <2>3 DEF FirstUse
<1>3. CASE SweepVisits(d) \/ PassEnds(d)
  <2>1. UNCHANGED dispatchVars
    BY <1>3 DEF SweepVisits, PassEnds
  <2>2. RecoveryTypeOK' /\ \A e \in Declarations \ {d} : pass'[e] = pass[e]
    BY <1>0, <1>3 DEF SweepVisits, PassEnds, RecoveryTypeOK, Snapshot, UnsettledOf, Parked
  <2> QED
    BY <1>0, <2>1, <2>2 DEF dispatchVars, journalVars, callVars, auditVars, handlerVars, treeVars,
                            gateVars, lockVars, DataTypeOK, JournalTypeOK
<1>4. CASE RemarkParked(d) \/ ForgetEntry(d) \/ CompleteEntry(d)
  <2>1. UNCHANGED <<handler, prog, wire, git, remote, pc, result, context, audited,
                    appends, recovered, recovering, pins, sweep, sweeping>>
        /\ NextEntry(d) /\ pass[d].todo # {}
    BY <1>4 DEF RemarkParked, ForgetEntry, CompleteEntry, SettleEntry, AtEntry, handlerVars,
                treeVars, callVars, auditVars, gateVars, lockVars
  <2>2. RecoveryTypeOK' /\ \A e \in Declarations \ {d} : pass'[e] = pass[e]
    BY <1>0, <2>1 DEF NextEntry, RecoveryTypeOK
  <2>3. clone' \in [Declarations -> {"ready", "needs-attention"}] /\ faults' \in Nat
    BY <1>0, <1>4 DEF RemarkParked, ForgetEntry, CompleteEntry, SettleEntry, MarkAttention, Fails,
                      DataTypeOK
  <2>4. CASE UNCHANGED <<entry, announced, closedBy>>
    BY <1>0, <2>1, <2>2, <2>3, <2>4 DEF DataTypeOK, JournalTypeOK
  <2>5. ASSUME NEW who \in {"forgotten", "completed"}, SettledBy(Current(d), who)
        PROVE  PassFrame(d)
    BY <1>0, <2>1, <2>2, <2>3, <2>5, CurrentIsSettled DEF DataTypeOK
  <2> QED
    BY <1>4, <2>4, <2>5 DEF RemarkParked, ForgetEntry, CompleteEntry, SettleEntry, journalVars
<1>5. CASE ParkEntry(d)
  BY <1>1, <1>5 DEF ParkEntry, AtEntry
<1>6. CASE ObservationFails(d)
  <2>1. UNCHANGED <<handler, prog, wire, git, remote, pc, result, context, audited, clone, closedBy,
                    appends, recovered, recovering, pins, sweep, sweeping>>
        /\ pass[d].todo # {} /\ Park(Current(d))
        /\ pass' = [pass EXCEPT ![d].state = "marking"]
    BY <1>6 DEF ObservationFails, AtEntry, handlerVars, treeVars, callVars, auditVars, gateVars,
                lockVars
  <2>2. RecoveryTypeOK' /\ \A e \in Declarations \ {d} : pass'[e] = pass[e]
    BY <1>0, <2>1 DEF RecoveryTypeOK
  <2>3. faults' \in Nat
    BY <1>0, <1>6 DEF ObservationFails, Fails, DataTypeOK
  <2> QED
    BY <1>0, <2>1, <2>2, <2>3, CurrentIsParked DEF DataTypeOK
<1>7. CASE MarkEntry(d)
  <2>1. UNCHANGED <<entry, announced, handler, prog, wire, git, remote, closedBy, result,
                    context, audited, appends, recovered, pins>>
    BY <1>7 DEF MarkEntry, journalVars, handlerVars, treeVars, auditVars, lockVars
  <2>2. clone' \in [Declarations -> {"ready", "needs-attention"}] /\ faults' \in Nat
    <3>1. (MarkAttention(d) \/ UNCHANGED clone) /\ (Fails \/ UNCHANGED faults)
      BY <1>7 DEF MarkEntry
    <3>2. clone \in [Declarations -> {"ready", "needs-attention"}] /\ faults \in Nat
      BY <1>0 DEF DataTypeOK
    <3>3. clone' \in [Declarations -> {"ready", "needs-attention"}]
      BY <3>1, <3>2 DEF MarkAttention
    <3>4. faults' \in Nat
      BY <3>1, <3>2 DEF Fails
    <3> QED
      BY <3>3, <3>4
  <2>3. CASE NextEntry(d) /\ UNCHANGED <<faults, pc, recovering, sweep, sweeping>>
    <3>1. RecoveryTypeOK' /\ \A e \in Declarations \ {d} : pass'[e] = pass[e]
      BY <1>0, <2>3 DEF NextEntry, RecoveryTypeOK
    <3> QED
      BY <1>0, <2>1, <2>2, <2>3, <3>1 DEF DataTypeOK, JournalTypeOK
  <2>4. CASE PassFails(d)
    BY <1>0, <2>1, <2>2, <2>4, PassFailsFrame DEF DataTypeOK, JournalTypeOK
  <2> QED
    BY <1>7, <2>3, <2>4 DEF MarkEntry
<1>8. ASSUME NEW op \in Ops, ResumeEntry(d, op)
      PROVE  PassFrame(d)
  <2>1. UNCHANGED <<entry, announced, handler, prog, wire, git, remote, clone, closedBy, result,
                    audited, appends, recovered, recovering, pins, faults, sweep, sweeping>>
        /\ pass' = [pass EXCEPT ![d].state = "resuming", ![d].step = op]
    BY <1>8 DEF ResumeEntry, journalVars, handlerVars, treeVars, gateVars, auditVars
  <2>2. RecoveryTypeOK' /\ \A e \in Declarations \ {d} : pass'[e] = pass[e]
    BY <1>0, <2>1 DEF RecoveryTypeOK
  <2>3. context' \in [Ops -> {"normal", "recovery"}]
        /\ \A b \in Ops : pc'[b] = pc[b] \/ LetIn(d, b)
    BY <1>8, AdmitFrame DEF ResumeEntry
  <2> QED
    BY <1>0, <2>1, <2>2, <2>3 DEF DataTypeOK, JournalTypeOK
<1>9. CASE ResumeEnds(d)
  <2>1. pass[d].todo # {}
    BY <1>0, <1>9 DEF ResumeEnds, PassInv
  <2>2. CASE SettledBy(Current(d), "completed") /\ NextEntry(d)
             /\ UNCHANGED <<lockVars, callVars, handlerVars, treeVars, gateVars, clone, faults,
                            sweep, sweeping>>
    <3>1. UNCHANGED <<handler, prog, wire, git, remote, pc, result, context, audited, clone,
                      appends, recovered, recovering, pins, sweep, sweeping, faults>>
      BY <2>2 DEF handlerVars, treeVars, callVars, auditVars, gateVars, lockVars
    <3>2. RecoveryTypeOK' /\ \A e \in Declarations \ {d} : pass'[e] = pass[e]
      BY <1>0, <2>2, <3>1 DEF NextEntry, RecoveryTypeOK
    <3> QED
      BY <1>0, <2>1, <2>2, <3>1, <3>2, CurrentIsSettled DEF DataTypeOK
  <2> QED
    BY <1>1, <1>9, <2>1, <2>2 DEF ResumeEnds
<1>10. ASSUME NEW op \in Ops, DeclarationOf[op] = d, PassDone(op)
       PROVE  PassFrame(d)
  <2>1. UNCHANGED <<entry, announced, handler, prog, wire, git, remote, clone, closedBy, result,
                    audited, appends, pins, faults, pass, sweep, sweeping>>
        /\ recovered' = recovered \cup {d} /\ recovering' = recovering \ {d}
    BY <1>10 DEF PassDone, journalVars, handlerVars, treeVars, auditVars, passVars
  <2>2. context' \in [Ops -> {"normal", "recovery"}]
        /\ \A b \in Ops : pc'[b] = pc[b] \/ LetIn(d, b)
    BY <1>10, AdmitFrame DEF PassDone
  <2> QED
    BY <1>0, <2>1, <2>2 DEF DataTypeOK, JournalTypeOK, RecoveryTypeOK
<1> QED
  BY <1>2, <1>3, <1>4, <1>5, <1>6, <1>7, <1>8, <1>9, <1>10 DEF PassStep

\* Nothing a pass does disturbs what is true of each call: it decides entries
\* of calls that are over and moves calls that have not begun.
LEMMA PassStepKeepsCallInv ==
  ASSUME ServiceInv, NEW d \in Declarations, PassFrame(d), NEW op \in Ops
  PROVE  CallInv(op)'
<1>1. CallInv(op) /\ PassInv(d) /\ handler'[op] = handler[op] /\ prog'[op] = prog[op]
      /\ (op \in wire' <=> op \in wire)
  BY DEF ServiceInv, PassFrame
<1>2. CASE entry'[op] = entry[op]
  <2>1. pc'[op] = pc[op] \/ (pc[op] \in NotBegun /\ pc'[op] \in NotBegun)
    BY DEF PassFrame, LetIn, NotBegun
  <2> QED
    BY <1>1, <1>2, <2>1 DEF CallInv, NotBegun, Ending, ProgramOf
<1>3. CASE DecidesCurrent(d, op)
  <2>1. pc[op] \in Ended /\ handler[op] \in {"none", "ended"} /\ entry[op].state # "none"
    BY <1>1, <1>3 DEF PassInv, DecidesCurrent
  <2>2. pc'[op] = pc[op]
    BY <2>1 DEF PassFrame, LetIn, Ended
  <2>3. entry'[op].state # "none" /\ entry'[op].steps = entry[op].steps
    BY <1>3 DEF DecidesCurrent
  <2> QED
    BY <1>1, <2>1, <2>2, <2>3 DEF CallInv, NotBegun, Ending, Ended, ProgramOf
<1> QED
  BY <1>2, <1>3 DEF PassFrame

\* Nor what is true of the passes of other declarations.
LEMMA PassStepKeepsOtherPasses ==
  ASSUME ServiceInv, NEW d \in Declarations, PassFrame(d), NEW e \in Declarations \ {d}
  PROVE  PassInv(e)'
<1>1. ASSUME NEW op \in Ops, DeclarationOf[op] = e
      PROVE  SameCall(op)
  <2>1. DeclarationOf[op] # d
    BY <1>1
  <2>2. ~LetIn(d, op) /\ ~DecidesCurrent(d, op)
    BY <2>1 DEF LetIn, DecidesCurrent, ServiceInv, PassInv
  <2> QED
    BY <2>2 DEF PassFrame, SameCall
<1> QED
  BY <1>1, UntouchedPassInv DEF ServiceInv, PassFrame

-----------------------------------------------------------------------------
\* What is true of a declaration's pass survives each of its own steps.

\* While a pass is not done and awaits no resume, its declaration is quiet.
LEMMA DeclarationIsQuiet ==
  ASSUME ServiceInv, NEW d \in Declarations, pass[d].state # "done",
         pass[d].state = "resuming" => pc[pass[d].step] \in Ended,
         NEW op \in Ops, DeclarationOf[op] = d
  PROVE  Quiet(op)
<1>1. PassInv(d) /\ CallInv(op)
  BY DEF ServiceInv
<1>2. CASE pass[d].state = "resuming" /\ op = pass[d].step
  <2>1. pc[op] \in Ended /\ ToolOf[op] = "prepare_branch"
    BY <1>1, <1>2 DEF PassInv
  <2>2. handler[op] \in {"none", "ended"}
    BY <1>1, <2>1 DEF CallInv, Ended, NotBegun
  <2> QED
    BY <2>1, <2>2 DEF Quiet
<1> QED
  BY <1>1, <1>2 DEF PassInv

\* The current entry has been decided.
LEMMA NextEntryKeepsPassInv ==
  ASSUME ServiceInv, NEW d \in Declarations, PassFrame(d), NextEntry(d), UNCHANGED <<pc, recovered>>,
         pass[d].state # "done", pass[d].state = "resuming" => pc[pass[d].step] \in Ended
  PROVE  PassInv(d)'
<1>1. PassInv(d) /\ UNCHANGED handler
  BY DEF ServiceInv, PassFrame
<1>2. pass'[d] = [pass[d] EXCEPT !.state = "running", !.todo = @ \ {Current(d)}, !.step = Nobody]
  BY DEF NextEntry, ServiceInv, RecoveryTypeOK
<1>3. /\ pass'[d].state = "running"
      /\ pass'[d].todo = pass[d].todo \ {Current(d)}
      /\ pass'[d].wasParked = pass[d].wasParked
  BY <1>2 DEF ServiceInv, RecoveryTypeOK
<1>4. \A op \in pass'[d].todo : op \in pass[d].todo /\ op \in Ops /\ op # Current(d)
  BY <1>3 DEF ServiceInv, RecoveryTypeOK
<1>5. \A op \in pass'[d].todo : entry'[op] = entry[op]
  BY <1>4 DEF PassFrame, DecidesCurrent
<1>6. \A op \in Ops : DeclarationOf[op] = d => Quiet(op)'
  BY <1>1, DeclarationIsQuiet DEF Quiet
<1> QED
  BY <1>1, <1>3, <1>4, <1>5, <1>6 DEF PassInv

\* The current entry has just been parked.
LEMMA ParkingKeepsPassInv ==
  ASSUME ServiceInv, NEW d \in Declarations, PassFrame(d), UNCHANGED <<pc, recovered>>,
         pass[d].state # "done", pass[d].state = "resuming" => pc[pass[d].step] \in Ended,
         pass[d].todo # {}, Current(d) \notin pass[d].wasParked,
         pass'[d].state = "marking", pass'[d].todo = pass[d].todo,
         pass'[d].wasParked = pass[d].wasParked
  PROVE  PassInv(d)'
<1>1. PassInv(d) /\ UNCHANGED handler /\ pass[d].todo \subseteq Ops
  BY DEF ServiceInv, PassFrame, RecoveryTypeOK
<1>2. Current(d)' = Current(d)
  BY <1>1, CurrentStays DEF PassFrame, DecidesCurrent
<1>3. \A op \in pass[d].todo :
         op = Current(d) \/ (entry'[op] = entry[op] /\ op # Current(d))
  BY <1>1 DEF PassFrame, DecidesCurrent
<1>4. \A op \in pass[d].todo : entry'[op].state # "none"
  BY <1>1 DEF PassFrame, DecidesCurrent, PassInv
<1>5. \A op \in pass[d].todo \ {Current(d)} : entry[op].state = "attention" => op \in pass[d].wasParked
  BY <1>1 DEF PassInv
<1>6. \A op \in Ops : DeclarationOf[op] = d => Quiet(op)'
  BY <1>1, DeclarationIsQuiet DEF Quiet
<1> QED
  BY <1>1, <1>2, <1>3, <1>4, <1>5, <1>6 DEF PassInv

\* The pass is forgotten.
LEMMA PassFailsKeepsPassInv ==
  ASSUME ServiceInv, NEW d \in Declarations, PassFrame(d), PassFails(d), UNCHANGED recovered,
         pass[d].state # "done", pass[d].state = "resuming" => pc[pass[d].step] \in Ended
  PROVE  PassInv(d)'
<1>1. PassInv(d) /\ UNCHANGED handler /\ pass'[d] = NoPass
  BY PassFailsFrame DEF ServiceInv, PassFrame
<1>2. \A op \in Ops : pc'[op] = pc[op] \/ pc'[op] = "refused"
  BY PassFailsFrame
<1>3. \A op \in Ops : DeclarationOf[op] = d => Quiet(op)'
  BY <1>1, <1>2, DeclarationIsQuiet DEF Quiet, Ended
<1> QED
  BY <1>1, <1>3 DEF PassInv, NoPass

\* The unsettled entries are read when no call of the declaration is under way.
LEMMA SnapshotKeepsPassInv ==
  ASSUME ServiceInv, NEW d \in Declarations, pass[d].state = "none",
         pass' = [pass EXCEPT ![d] = Snapshot(d)], UNCHANGED <<entry, pc, handler, recovered>>
  PROVE  PassInv(d)'
<1>1. PassInv(d)
  BY DEF ServiceInv
<1>2. pass'[d] = Snapshot(d)
  BY DEF ServiceInv, RecoveryTypeOK
<1>3. \A op \in Ops : DeclarationOf[op] = d => Quiet(op)
  BY DeclarationIsQuiet
<1>4. ASSUME NEW op \in UnsettledOf(d)
      PROVE  /\ DeclarationOf[op] = d /\ pc[op] \in Ended /\ handler[op] \in {"none", "ended"}
             /\ entry[op].state # "none"
             /\ entry[op].state = "attention" => op \in Parked(d)
  <2>1. op \in Ops /\ DeclarationOf[op] = d /\ entry[op].state # "none"
    BY DEF UnsettledOf, InState, Unsettled
  <2>2. pc[op] \notin NotBegun
    BY <2>1 DEF ServiceInv, CallInv
  <2>3. pc[op] \in Ended /\ handler[op] \in {"none", "ended"}
    BY <1>3, <2>1, <2>2 DEF Quiet, NotBegun
  <2> QED
    BY <2>1, <2>3 DEF Parked, InState
<1> QED
  BY <1>1, <1>2, <1>3, <1>4 DEF PassInv, Snapshot, Quiet

\* Every step of a pass keeps what is true of it.
LEMMA PassStepKeepsPassInv ==
  ASSUME ServiceInv, NEW d \in Declarations, PassFrame(d), PassStep(d)
  PROVE  PassInv(d)'
<1>0. PassInv(d) /\ pass \in [Declarations -> [state : {"none", "running", "marking", "resuming",
                                                       "done"},
                                               todo : SUBSET Ops, wasParked : SUBSET Ops,
                                               step : Ops \cup {Nobody}]]
  BY DEF ServiceInv, RecoveryTypeOK
<1>1. ASSUME ParkCurrent(d), pass[d].todo # {}, Current(d) \notin pass[d].wasParked,
             pass[d].state # "done", pass[d].state = "resuming" => pc[pass[d].step] \in Ended
      PROVE  PassInv(d)'
  <2>1. recovered' = recovered
    BY <1>1 DEF ParkCurrent
  <2>2. CASE pass' = [pass EXCEPT ![d].state = "marking", ![d].step = Nobody] /\ UNCHANGED pc
    <3>1. pass'[d].state = "marking" /\ pass'[d].todo = pass[d].todo
          /\ pass'[d].wasParked = pass[d].wasParked
      BY <1>0, <2>2
    <3> QED
      BY <1>1, <2>1, <2>2, <3>1, ParkingKeepsPassInv
  <2>3. CASE PassFails(d)
    BY <1>1, <2>1, <2>3, PassFailsKeepsPassInv
  <2> QED
    BY <1>1, <2>2, <2>3 DEF ParkCurrent
<1>2. CASE FirstUse(d)
  <2>1. pass[d].state = "none" /\ UNCHANGED <<entry, handler, recovered>>
    BY <1>2 DEF FirstUse, journalVars, handlerVars
  <2> QED
    BY <1>2, <2>1, SnapshotKeepsPassInv, PassFailsKeepsPassInv DEF FirstUse
<1>3. CASE SweepVisits(d)
  <2>1. UNCHANGED <<entry, pc, handler, prog, wire, recovered, closedBy>>
    BY <1>3 DEF SweepVisits, dispatchVars, journalVars, callVars, handlerVars, gateVars
  <2>2. CASE pass[d].state = "none"
    BY <1>3, <2>1, <2>2, SnapshotKeepsPassInv DEF SweepVisits
  <2>3. CASE pass[d].state # "none"
    <3>1. UNCHANGED pass
      BY <1>3, <2>3 DEF SweepVisits
    <3> QED
      BY <1>0, <2>1, <3>1, UntouchedPassInv DEF SameCall, ServiceInv
  <2> QED
    BY <2>2, <2>3
<1>4. CASE RemarkParked(d) \/ ForgetEntry(d) \/ CompleteEntry(d)
  <2>1. NextEntry(d) /\ UNCHANGED <<pc, recovered>> /\ pass[d].state = "running"
    BY <1>4 DEF RemarkParked, ForgetEntry, CompleteEntry, SettleEntry, AtEntry, callVars, gateVars
  <2> QED
    BY <2>1, NextEntryKeepsPassInv
<1>5. CASE ParkEntry(d)
  <2>1. Current(d) \notin pass[d].wasParked
    BY <1>5 DEF ParkEntry, Verdict
  <2> QED
    BY <1>1, <1>5, <2>1 DEF ParkEntry, AtEntry
<1>6. CASE ObservationFails(d)
  <2>1. /\ UNCHANGED <<pc, recovered>> /\ pass[d].state = "running" /\ pass[d].todo # {}
        /\ Current(d) \notin pass[d].wasParked
        /\ pass' = [pass EXCEPT ![d].state = "marking"]
    BY <1>6 DEF ObservationFails, AtEntry, Verdict, callVars, gateVars
  <2>2. pass'[d].state = "marking" /\ pass'[d].todo = pass[d].todo
        /\ pass'[d].wasParked = pass[d].wasParked
    BY <1>0, <2>1
  <2> QED
    BY <2>1, <2>2, ParkingKeepsPassInv
<1>7. CASE MarkEntry(d)
  <2>1. pass[d].state = "marking" /\ recovered' = recovered
    BY <1>7 DEF MarkEntry
  <2> QED
    BY <1>7, <2>1, NextEntryKeepsPassInv, PassFailsKeepsPassInv DEF MarkEntry
<1>8. ASSUME NEW op \in Ops, ResumeEntry(d, op)
      PROVE  PassInv(d)'
  <2>1. /\ pass[d].state = "running" /\ pass[d].todo # {} /\ pc[op] = "idle"
        /\ DeclarationOf[op] = d /\ ToolOf[op] = ToolOf[Current(d)]
        /\ Verdict(d) = "resume"
        /\ pass' = [pass EXCEPT ![d].state = "resuming", ![d].step = op]
        /\ UNCHANGED <<entry, handler, recovered>>
    BY <1>8 DEF ResumeEntry, AtEntry, journalVars, handlerVars, gateVars
  <2>2. Current(d) \notin pass[d].wasParked /\ ToolOf[op] = "prepare_branch"
    BY <2>1 DEF Verdict, Classify, Resumable
  <2>3. pass'[d].state = "resuming" /\ pass'[d].step = op /\ pass'[d].todo = pass[d].todo
        /\ pass'[d].wasParked = pass[d].wasParked
    BY <1>0, <2>1
  <2>4. \A b \in Ops \ {op} : pc'[b] = pc[b]
    BY <1>8, <2>1, AdmitFrame DEF ResumeEntry
  <2>5. \A b \in pass[d].todo : b \in Ops /\ b # op
    BY <1>0, <2>1 DEF PassInv, Ended
  <2>6. Current(d)' = Current(d)
    BY <2>1, <2>3, CurrentStays
  <2>7. \A b \in Ops \ {op} : DeclarationOf[b] = d => Quiet(b)'
    BY <1>0, <2>1, <2>4 DEF PassInv, Quiet
  <2> QED
    BY <1>0, <2>1, <2>2, <2>3, <2>4, <2>5, <2>6, <2>7 DEF PassInv
<1>9. CASE ResumeEnds(d)
  <2>1. /\ pass[d].state = "resuming" /\ pc[pass[d].step] \in Ended
        /\ pass[d].todo # {} /\ Current(d) \notin pass[d].wasParked
    BY <1>0, <1>9 DEF ResumeEnds, PassInv
  <2>2. CASE NextEntry(d) /\ UNCHANGED <<callVars, gateVars>>
    BY <2>1, <2>2, NextEntryKeepsPassInv DEF callVars, gateVars
  <2> QED
    BY <1>1, <1>9, <2>1, <2>2 DEF ResumeEnds
<1>10. CASE PassEnds(d)
  <2>1. pass'[d].state = "done" /\ pass'[d].todo = {}
    BY <1>0, <1>10 DEF PassEnds
  <2> QED
    BY <2>1 DEF PassInv
<1>11. ASSUME NEW op \in Ops, DeclarationOf[op] = d, PassDone(op)
       PROVE  PassInv(d)'
  <2>1. /\ pass[d].state = "done" /\ pc[op] = "awaitPass"
        /\ UNCHANGED <<entry, handler, pass>>
    BY <1>11 DEF PassDone, journalVars, handlerVars, passVars
  <2>2. \A b \in Ops \ {op} : pc'[b] = pc[b]
    BY <1>11, <2>1, AdmitFrame DEF PassDone
  <2>3. \A b \in pass[d].todo : b \in Ops /\ pc'[b] = pc[b]
    BY <1>0, <2>1, <2>2 DEF PassInv, Ended
  <2>4. Current(d)' = Current(d)
    BY <2>1, CurrentStays
  <2> QED
    BY <1>0, <2>1, <2>3, <2>4 DEF PassInv
<1> QED
  BY <1>2, <1>3, <1>4, <1>5, <1>6, <1>7, <1>8, <1>9, <1>10, <1>11 DEF PassStep

-----------------------------------------------------------------------------
\* The operator and the crash.

\* The entry an operator settles is a parked one, so no call or pass that is
\* still at work has it.
LEMMA ResolveKeepsServiceInv ==
  ASSUME ServiceInv, NEW o \in Operators, NEW op \in Ops, ResolveParked(o, op)
  PROVE  ServiceInv'
<1>1. UNCHANGED <<mutation, mat, pins, pc, result, context, handler, prog, wire, git, remote,
                  recovered, recovering, clone, faults, pass, sweep, sweeping, crashes, audited>>
  BY DEF ResolveParked, Record, lockVars, handlerVars, treeVars, gateVars, passVars
<1>2. Settle(op) /\ closedBy' = [closedBy EXCEPT ![op] = IF InState(op, Unsettled) THEN "human" ELSE @]
      /\ entry[op].state = "attention"
  BY DEF ResolveParked, SettledBy, Parked, InState
<1>3. LockInv'
  BY <1>1, PassAloneKeepsLockInv DEF ServiceInv
<1>4. DataTypeOK'
  <2>1. JournalTypeOK'
    BY <1>2, SettleKeepsType DEF ServiceInv, DataTypeOK
  <2>2. appends' \in Seq(Ops \cup Operators)
    BY AppendsStayTyped DEF ResolveParked, ServiceInv, DataTypeOK
  <2>3. closedBy' \in [Ops -> {"nobody", "call", "forgotten", "completed", "human"}]
    BY <1>2 DEF ServiceInv, DataTypeOK
  <2> QED
    BY <1>1, <2>1, <2>2, <2>3 DEF ServiceInv, DataTypeOK
<1>5. RecoveryTypeOK' /\ crashes' \in Nat
      /\ resolving' \in [Operators -> [op : Ops \cup {Nobody}, last : BOOLEAN]]
  BY <1>1 DEF ResolveParked, ServiceInv, RecoveryTypeOK
<1>6. entry'[op] = [entry[op] EXCEPT !.state = "settled"] /\ \A b \in Ops \ {op} : entry'[b] = entry[b]
  BY <1>2 DEF Settle, ServiceInv, DataTypeOK, JournalTypeOK
<1>7. entry'[op].state = "settled" /\ entry'[op].steps = entry[op].steps
      /\ entry'[op].startedAt = entry[op].startedAt
  BY <1>6 DEF ServiceInv, DataTypeOK, JournalTypeOK
<1>8. ASSUME NEW b \in Ops
      PROVE  CallInv(b)'
  <2>1. CallInv(b)
    BY DEF ServiceInv
  <2>2. CASE b = op
    BY <1>1, <1>2, <1>7, <2>1, <2>2 DEF CallInv, NotBegun, ProgramOf
  <2>3. CASE b # op
    BY <1>1, <1>6, <2>1, <2>3 DEF CallInv, ProgramOf
  <2> QED
    BY <2>2, <2>3
<1>9. ASSUME NEW d \in Declarations
      PROVE  PassInv(d)'
  <2>1. PassInv(d) /\ pass[d].todo \subseteq Ops
    BY DEF ServiceInv, RecoveryTypeOK
  <2>2. Current(d)' = Current(d)
    BY <1>1, <1>6, <1>7, <2>1, CurrentStays
  <2>3. \A b \in pass[d].todo :
           entry'[b].state # "none" /\ (entry'[b].state = "attention" => entry[b].state = "attention")
    BY <1>6, <1>7, <2>1 DEF PassInv
  <2> QED
    BY <1>1, <2>1, <2>2, <2>3 DEF PassInv, Quiet
<1> QED
  BY <1>3, <1>4, <1>5, <1>8, <1>9 DEF ServiceInv

\* Clearing the mark changes a clone's row and nothing else.
LEMMA ClearKeepsServiceInv ==
  ASSUME ServiceInv, NEW o \in Operators, ClearParked(o)
  PROVE  ServiceInv'
<1>1. UNCHANGED <<entry, announced, mutation, mat, pins, pc, result, context, handler, prog, wire,
                  git, remote, recovered, recovering, faults, pass, sweep, sweeping, crashes,
                  audited, closedBy>>
  BY DEF ClearParked, journalVars, lockVars, handlerVars, treeVars, gateVars, passVars
<1>2. LockInv'
  BY <1>1, PassAloneKeepsLockInv DEF ServiceInv
<1>3. DataTypeOK'
  <2>1. appends' \in Seq(Ops \cup Operators)
    BY AppendsStayTyped DEF ClearParked, ServiceInv, DataTypeOK
  <2>2. clone' \in [Declarations -> {"ready", "needs-attention"}]
    BY DEF ClearParked, ServiceInv, DataTypeOK
  <2> QED
    BY <1>1, <2>1, <2>2 DEF ServiceInv, DataTypeOK, JournalTypeOK
<1>4. RecoveryTypeOK' /\ crashes' \in Nat
      /\ resolving' \in [Operators -> [op : Ops \cup {Nobody}, last : BOOLEAN]]
  BY <1>1 DEF ClearParked, NotResolving, ServiceInv, RecoveryTypeOK
<1>5. \A b \in Ops : SameCall(b)
  BY <1>1 DEF SameCall
<1>6. \A b \in Ops : CallInv(b)'
  BY <1>5, SameCallKeepsCallInv DEF ServiceInv
<1>7. \A d \in Declarations : PassInv(d)'
  BY <1>1, <1>5, UntouchedPassInv DEF ServiceInv
<1> QED
  BY <1>2, <1>3, <1>4, <1>6, <1>7 DEF ServiceInv

\* A boot finds the journal and the trees as they were and no call under way.
LEMMA BootRestoresServiceInv ==
  ASSUME ServiceInv, CrashAndBoot
  PROVE  ServiceInv'
<1>1. UNCHANGED <<entry, announced, git, remote, result, context, audited, prog, clone, closedBy,
                  faults>>
      /\ recovered' = {} /\ recovering' = {} /\ pass' = [d \in Declarations |-> NoPass]
  BY DEF CrashAndBoot, journalVars, treeVars
<1>2. LockInv'
  BY BootRestoresLockInv DEF ServiceInv
<1>3. DataTypeOK'
  <2>1. handler' \in [Ops -> {"none", "running", "settling", "parking", "marking", "ended"}]
        /\ wire' \subseteq Ops /\ pins' \in [Declarations -> Nat] /\ appends' = <<>>
    BY DEF CrashAndBoot, ServiceInv, DataTypeOK
  <2> QED
    BY <1>1, <2>1 DEF ServiceInv, DataTypeOK, JournalTypeOK
<1>4. RecoveryTypeOK'
  BY DEF CrashAndBoot, Leftovers, NoPass, RecoveryTypeOK
<1>5. crashes' \in Nat /\ resolving' \in [Operators -> [op : Ops \cup {Nobody}, last : BOOLEAN]]
  BY DEF CrashAndBoot, NotResolving, ServiceInv
<1>6. ASSUME NEW op \in Ops
      PROVE  CallInv(op)' /\ Quiet(op)'
  <2>1. CallInv(op)
    BY DEF ServiceInv
  <2>2. pc'[op] = IF pc[op] \in {"idle"} \cup Ended THEN pc[op] ELSE "lost"
    BY DEF CrashAndBoot
  <2>3. handler'[op] = IF handler[op] = "none" THEN "none" ELSE "ended"
    BY DEF CrashAndBoot
  <2>4. op \in wire' => op \in wire \/ (handler[op] = "running" /\ ToolOf[op] \in Pushes
                                        /\ prog[op] = 1)
    BY ProgramsAreKnown DEF CrashAndBoot, OnTheWire, Unfinished, NextInstruction, ServiceInv,
                            DataTypeOK, Pushes
  <2>5. CallInv(op)'
    BY <1>1, <2>1, <2>2, <2>3, <2>4 DEF CallInv, NotBegun, Ending, Ended, ProgramOf
  <2>6. Quiet(op)'
    BY <2>2, <2>3 DEF Quiet, Ended
  <2> QED
    BY <2>5, <2>6
<1>7. ASSUME NEW d \in Declarations
      PROVE  PassInv(d)'
  <2>1. pass'[d] = NoPass /\ recovered' = {}
    BY <1>1
  <2> QED
    BY <1>6, <2>1 DEF PassInv, NoPass
<1> QED
  BY <1>2, <1>3, <1>4, <1>5, <1>6, <1>7 DEF ServiceInv

-----------------------------------------------------------------------------
\* Every step of the service keeps the invariant.
LEMMA StepKeepsServiceInv == ServiceInv /\ [Next]_serviceVars => ServiceInv'
<1> SUFFICES ASSUME ServiceInv, [Next]_serviceVars
             PROVE  ServiceInv'
  OBVIOUS
<1>1. ASSUME NEW op \in Ops, CallStep(op), UNCHANGED <<passVars, resolving, crashes>>
      PROVE  ServiceInv'
  BY <1>1, CallStepKeepsServiceInv
<1>2. ASSUME NEW d \in Declarations, PassStep(d), UNCHANGED <<resolving, crashes>>
      PROVE  ServiceInv'
  <2>1. LockInv'
    BY <1>2, PassStepKeepsLockInv DEF ServiceInv
  <2>2. PassFrame(d)
    BY <1>2, PassStaysInFrame
  <2>3. \A op \in Ops : CallInv(op)'
    BY <2>2, PassStepKeepsCallInv
  <2>4. \A e \in Declarations : PassInv(e)'
    BY <1>2, <2>2, PassStepKeepsPassInv, PassStepKeepsOtherPasses
  <2> QED
    BY <1>2, <2>1, <2>2, <2>3, <2>4 DEF ServiceInv, PassFrame
<1>3. ASSUME NEW o \in Operators, NEW op \in Ops, ResolveParked(o, op)
      PROVE  ServiceInv'
  BY <1>3, ResolveKeepsServiceInv
<1>4. ASSUME NEW o \in Operators, ClearParked(o)
      PROVE  ServiceInv'
  BY <1>4, ClearKeepsServiceInv
<1>5. CASE CrashAndBoot
  BY <1>5, BootRestoresServiceInv
<1>6. CASE UNCHANGED serviceVars
  <2>1. UNCHANGED <<mutation, mat, pins, entry, announced, pc, result, context, audited, appends,
                    handler, prog, wire, git, remote, recovered, recovering, clone, closedBy, faults,
                    pass, sweep, sweeping, resolving, crashes>>
    BY <1>6 DEF serviceVars, dispatchVars, journalVars, lockVars, callVars, auditVars, handlerVars,
                treeVars, gateVars, passVars
  <2>2. LockInv'
    BY <2>1, PassAloneKeepsLockInv DEF ServiceInv
  <2>3. DataTypeOK' /\ RecoveryTypeOK'
    BY <2>1 DEF ServiceInv, DataTypeOK, JournalTypeOK, RecoveryTypeOK
  <2>4. \A b \in Ops : SameCall(b)
    BY <2>1 DEF SameCall
  <2>5. \A b \in Ops : CallInv(b)'
    BY <2>4, SameCallKeepsCallInv DEF ServiceInv
  <2>6. \A d \in Declarations : PassInv(d)'
    BY <2>1, <2>4, UntouchedPassInv DEF ServiceInv
  <2> QED
    BY <2>1, <2>2, <2>3, <2>5, <2>6 DEF ServiceInv
<1> QED
  BY <1>1, <1>2, <1>3, <1>4, <1>5, <1>6 DEF Next, Idle

\* The invariant holds of every reachable state.
LEMMA ServiceInvariant == Spec => []ServiceInv
  BY InitHasServiceInv, StepKeepsServiceInv, PTL DEF Spec

-----------------------------------------------------------------------------
\* Every part of the service's state has its type, whatever the calls, passes,
\* operators, faults and crashes (composition-root/compose.ts).
THEOREM ServiceTypeCorrect == Spec => []TypeOK
<1>1. ServiceInv => TypeOK
  BY TypesAreComplete DEF ServiceInv, TypeOK
<1> QED
  BY <1>1, ServiceInvariant, PTL

\* A call that may act holds both locks and nobody else holds either, in every
\* reachable state of the service: through the release in the pipeline's finally,
\* refusals, limits, resumes and crashes.
THEOREM LocksAreDisciplined == Spec => []LockDiscipline
<1>1. ServiceInv => LockDiscipline
  BY DEF ServiceInv, LockInv, HoldsWhatItShould, LockDiscipline
<1> QED
  BY <1>1, ServiceInvariant, PTL

\* A recovery pass judges only the entries of calls that are over: it is claimed
\* before its declaration's first call is let in, and the resume it dispatches
\* is not among the entries it read (recovery.ts, recoverDeclaration).
THEOREM RecoveryMeetsOnlyTheDead == Spec => []RecoveryMeetsNoLiveCall
<1>1. ServiceInv => RecoveryMeetsNoLiveCall
  BY DEF ServiceInv, PassInv, RecoveryMeetsNoLiveCall
<1> QED
  BY <1>1, ServiceInvariant, PTL

-----------------------------------------------------------------------------
\* Which steps change a clone or a remote.

\* Of a call's steps only the running handler's change what is observed of a
\* clone, and only its own declaration's.
LEMMA CloneChangesUnderIntent ==
  ASSUME ServiceInv, NEW op \in Ops, CallStep(op), NEW d \in Declarations, git'[d] # git[d]
  PROVE  DeclarationOf[op] = d /\ ChildRuns(op) /\ InState(op, {"intended"})
         /\ mutation.current = op
<1>1. HandlerStep(op)
  BY DEF CallStep, Arrive, ArriveFirst, ArriveRecovering, GiveUpMaterialisation, Ensured,
         RefuseHolding, GiveUpMutation, BeginCall, LateLanding,
         LandPush, LandElsewhere, HandlerReturns,
         RawAudits, LimitFires, WriteAudit, SettleCall, ParkCall, MarkCall, RawFinishes,
         RawReturns, RawLimitFires, treeVars
<1>2. ChildRuns(op) /\ ChangeClone(op)
  BY <1>1 DEF HandlerStep, WriteStep, ChangeUnseen, LandPush, LandElsewhere, treeVars
<1>3. DeclarationOf[op] = d
  BY <1>2 DEF ChangeClone, ServiceInv, DataTypeOK
<1>4. CallInv(op) /\ HoldsWhatItShould(op)
  BY DEF ServiceInv, LockInv
<1> QED
  BY <1>2, <1>3, <1>4 DEF ChildRuns, CallInv, InState, HoldsWhatItShould, Held

\* A remote changes by a push whose step is on the books, in time or late.
LEMMA RemoteChangesAfterStep ==
  ASSUME ServiceInv, NEW op \in Ops, CallStep(op), NEW d \in Declarations, remote'[d] # remote[d]
  PROVE  DeclarationOf[op] = d /\ prog'[op] > prog[op] /\ entry[op].steps > 0
<1>1. HandlerStep(op) \/ LateLanding(op)
  BY DEF CallStep, Arrive, ArriveFirst, ArriveRecovering, GiveUpMaterialisation, Ensured,
         RefuseHolding, GiveUpMutation, BeginCall, HandlerReturns,
         RawAudits, LimitFires, WriteAudit, SettleCall, ParkCall, MarkCall, RawFinishes,
         RawReturns, RawLimitFires, treeVars
<1>2. LandPush(op) /\ Advance(op)
  BY <1>1 DEF HandlerStep, LateLanding, WriteStep, ChangeClone, ChangeUnseen, LandElsewhere, treeVars
<1>3. DeclarationOf[op] = d
  BY <1>2 DEF LandPush, ServiceInv, DataTypeOK
<1>4. prog[op] \in Nat /\ prog'[op] = prog[op] + 1
  BY <1>2 DEF Advance, ServiceInv, DataTypeOK
<1>5. CallInv(op) /\ (op \in wire \/ Unfinished(op))
  BY <1>1 DEF ServiceInv, HandlerStep, LateLanding
<1>6. ToolOf[op] \in Pushes /\ prog[op] > 0
  BY <1>2, <1>4, <1>5, ProgramsAreKnown DEF CallInv, Unfinished, LandPush, NextInstruction, Pushes
<1> QED
  BY <1>3, <1>4, <1>5, <1>6 DEF CallInv

\* No other step of the service changes either.
LEMMA OnlyCallsAct ==
  ASSUME ServiceInv, [Next]_serviceVars, ~UNCHANGED treeVars
  PROVE  \E op \in Ops : CallStep(op)
<1>1. ASSUME NEW d \in Declarations, PassStep(d)
      PROVE  UNCHANGED treeVars
  BY <1>1, PassStaysInFrame DEF PassFrame, treeVars
<1>2. ASSUME NEW o \in Operators, NEW op \in Ops, ResolveParked(o, op)
      PROVE  UNCHANGED treeVars
  BY <1>2 DEF ResolveParked
<1>3. ASSUME NEW o \in Operators, ClearParked(o)
      PROVE  UNCHANGED treeVars
  BY <1>3 DEF ClearParked
<1>4. CASE CrashAndBoot
  BY <1>4 DEF CrashAndBoot
<1>5. CASE UNCHANGED serviceVars
  BY <1>5 DEF serviceVars, dispatchVars
<1> QED
  BY <1>1, <1>2, <1>3, <1>4, <1>5 DEF Next, Idle

\* A clone changes only under the running handler of the call that holds the
\* mutation lock and whose intent is on the books, and a remote only for a push
\* that recorded its step first, across faults, late landings and crashes
\* (dispatch-pipeline.ts: begin before the handler; journal.appendStep).
THEOREM EffectsFollowIntent == Spec => IntentBeforeEffect
<1> DEFINE Intended ==
      \A d \in Declarations :
          /\ git'[d] # git[d] => \E op \in Ops :
                /\ DeclarationOf[op] = d
                /\ pc[op] = "running" /\ InState(op, {"intended"})
                /\ mutation.current = op
          /\ remote'[d] # remote[d] => \E op \in Ops :
                DeclarationOf[op] = d /\ prog'[op] > prog[op] /\ entry[op].steps > 0
<1>1. ServiceInv /\ [Next]_serviceVars => [Intended]_serviceVars
  <2> SUFFICES ASSUME ServiceInv, [Next]_serviceVars, NEW d \in Declarations
               PROVE  /\ git'[d] # git[d] => \E op \in Ops :
                            /\ DeclarationOf[op] = d
                            /\ pc[op] = "running" /\ InState(op, {"intended"})
                            /\ mutation.current = op
                      /\ remote'[d] # remote[d] => \E op \in Ops :
                            DeclarationOf[op] = d /\ prog'[op] > prog[op] /\ entry[op].steps > 0
    OBVIOUS
  <2>1. CASE UNCHANGED treeVars
    BY <2>1 DEF treeVars
  <2>2. CASE \E op \in Ops : CallStep(op)
    BY <2>2, CloneChangesUnderIntent, RemoteChangesAfterStep DEF ChildRuns
  <2> QED
    BY <2>1, <2>2, OnlyCallsAct
<1> QED
  BY <1>1, ServiceInvariant, PTL DEF Spec, IntentBeforeEffect

-----------------------------------------------------------------------------
\* No step of a call settles or reopens a parked entry: while a call or its
\* handler has its entry still to finish, nobody has parked it.
LEMMA CallsLeaveParked ==
  ASSUME ServiceInv, NEW op \in Ops, CallStep(op), NEW b \in Ops, InState(b, {"attention"})
  PROVE  InState(b, {"attention"})'
<1>1. DataTypeOK /\ pc \in [Ops -> Steps] /\ CallInv(op)
  BY DEF ServiceInv, LockInv
<1>2. CASE b # op
  BY <1>1, <1>2, CallsMoveAlone DEF SameCall, InState
<1>3. CASE b = op
  <2>1. entry[op].state = "attention"
    BY <1>3 DEF InState
  <2>2. CASE BeginCall(op)
    BY <1>1, <2>1, <2>2 DEF BeginCall, Begin
  <2>3. CASE HandlerStep(op) \/ LateLanding(op)
    BY <1>1, <1>3, <2>1, <2>3 DEF HandlerStep, LateLanding, WriteStep, AppendStep, ChangeClone,
          ChangeUnseen, LandPush, LandElsewhere, journalVars, InState, DataTypeOK, JournalTypeOK
  <2>4. ASSUME NEW outcome \in {"ok", "failed", "unknown"},
               HandlerReturns(op, outcome) \/ RawAudits(op, outcome)
        PROVE  InState(b, {"attention"})'
    BY <1>1, <2>1, <2>4 DEF HandlerReturns, RawAudits, CallInv
  <2>5. CASE SettleCall(op)
    BY <1>1, <2>1, <2>5 DEF SettleCall, CallInv
  <2>6. CASE ParkCall(op)
    BY <1>1, <2>1, <2>6 DEF ParkCall, CallInv
  <2>7. CASE RawFinishes(op)
    <3>1. handler[op] = "marking"
      BY <1>1, <2>1, <2>7 DEF RawFinishes, CallInv
    <3> QED
      BY <1>3, <2>1, <2>7, <3>1 DEF RawFinishes, journalVars, InState
  <2>8. CASE UNCHANGED journalVars
    BY <1>3, <2>1, <2>8 DEF journalVars, InState
  <2> QED
    BY <2>2, <2>3, <2>4, <2>5, <2>6, <2>7, <2>8
       DEF CallStep, Arrive, ArriveFirst, ArriveRecovering, GiveUpMaterialisation, Ensured,
           RefuseHolding, GiveUpMutation, LimitFires, WriteAudit, MarkCall, RawReturns,
           RawLimitFires
<1> QED
  BY <1>2, <1>3

\* Nor does a step of a pass: it settles only what it did not find parked and
\* has not parked itself.
LEMMA PassesLeaveParked ==
  ASSUME ServiceInv, NEW d \in Declarations, PassStep(d), NEW b \in Ops, InState(b, {"attention"})
  PROVE  InState(b, {"attention"})'
<1>1. PassFrame(d) /\ PassInv(d) /\ DataTypeOK /\ RecoveryTypeOK
  BY PassStaysInFrame DEF ServiceInv
<1>2. CASE ~DecidesCurrent(d, b)
  BY <1>1, <1>2 DEF PassFrame, InState
<1>3. CASE DecidesCurrent(d, b)
  <2>1. b = Current(d) /\ b \in pass[d].todo /\ entry[b].state = "attention"
    BY <1>3 DEF DecidesCurrent, InState
  <2>2. b \in pass[d].wasParked \/ pass[d].state = "marking"
    BY <1>1, <2>1 DEF PassInv
  <2>3. Park(b) => InState(b, {"attention"})'
    BY <1>1, <2>1 DEF Park, InState, DataTypeOK, JournalTypeOK
  <2>4. UNCHANGED journalVars => InState(b, {"attention"})'
    BY <2>1 DEF journalVars, InState
  <2>5. ParkCurrent(d) => InState(b, {"attention"})'
    BY <2>1, <2>3, <2>4 DEF ParkCurrent
  <2>6. CASE ForgetEntry(d) \/ CompleteEntry(d)
    <3>1. pass[d].state = "running" /\ b \notin pass[d].wasParked
      BY <2>1, <2>6 DEF ForgetEntry, CompleteEntry, SettleEntry, AtEntry, Verdict
    <3> QED
      BY <2>2, <3>1
  <2>7. CASE ResumeEnds(d)
    <3>1. pass[d].state = "resuming" /\ b \notin pass[d].wasParked
      BY <1>1, <2>1, <2>7 DEF ResumeEnds, PassInv
    <3> QED
      BY <2>2, <3>1
  <2>8. CASE ParkEntry(d) \/ ObservationFails(d)
    BY <2>1, <2>3, <2>5, <2>8 DEF ParkEntry, ObservationFails
  <2>9. CASE \/ FirstUse(d) \/ SweepVisits(d) \/ RemarkParked(d) \/ MarkEntry(d) \/ PassEnds(d)
             \/ \E op \in Ops : ResumeEntry(d, op) \/ PassDone(op)
    BY <2>4, <2>9 DEF FirstUse, SweepVisits, RemarkParked, MarkEntry, PassEnds, ResumeEntry,
                      PassDone, dispatchVars
  <2> QED
    BY <2>6, <2>7, <2>8, <2>9 DEF PassStep
<1> QED
  BY <1>2, <1>3

\* An entry a human was asked to look at leaves `attention` only by the
\* operator's route: no later call, late handler, recovery pass or boot takes it
\* out (journal.park, recovery.ts, and the resolve handler of compose.ts).
THEOREM ParkedWaitsForHuman == Spec => ParkedUntilResolved
<1> DEFINE Waits ==
      \A op \in Ops :
          InState(op, {"attention"}) =>
              InState(op, {"attention"})' \/ closedBy'[op] = "human"
<1>1. ServiceInv /\ [Next]_serviceVars => [Waits]_serviceVars
  <2> SUFFICES ASSUME ServiceInv, [Next]_serviceVars, NEW b \in Ops, InState(b, {"attention"})
               PROVE  InState(b, {"attention"})' \/ closedBy'[b] = "human"
    OBVIOUS
  <2>1. ASSUME NEW o \in Operators, NEW op \in Ops, ResolveParked(o, op)
        PROVE  InState(b, {"attention"})' \/ closedBy'[b] = "human"
    <3>1. Settle(op) /\ closedBy' = [closedBy EXCEPT ![op] = IF InState(op, Unsettled)
                                                             THEN "human" ELSE @]
      BY <2>1 DEF ResolveParked, SettledBy
    <3>2. CASE b = op
      BY <3>1, <3>2 DEF InState, Unsettled, ServiceInv, DataTypeOK
    <3>3. CASE b # op
      BY <3>1, <3>3 DEF Settle, InState, ServiceInv, DataTypeOK, JournalTypeOK
    <3> QED
      BY <3>2, <3>3
  <2>2. ASSUME UNCHANGED journalVars
        PROVE  InState(b, {"attention"})'
    BY <2>2 DEF journalVars, InState
  <2>3. ASSUME NEW o \in Operators, ClearParked(o)
        PROVE  InState(b, {"attention"})'
    BY <2>2, <2>3 DEF ClearParked
  <2>4. CASE CrashAndBoot \/ UNCHANGED serviceVars
    BY <2>2, <2>4 DEF CrashAndBoot, serviceVars, dispatchVars
  <2> QED
    BY <2>1, <2>3, <2>4, CallsLeaveParked, PassesLeaveParked DEF Next, Idle
<1> QED
  BY <1>1, ServiceInvariant, PTL DEF Spec, ParkedUntilResolved


-----------------------------------------------------------------------------
\* The service seen as the serial ledger.

\* What stands for each variable of the ledger.
Actor == IF Holders = {} THEN Nobody ELSE CHOOSE op \in Holders : TRUE

BookOf(op) ==
    CASE InState(op, {"none"}) -> "new"
      [] InState(op, {"intended", "applied"}) -> "open"
      [] InState(op, {"attention"}) -> "parked"
      [] OTHER -> "closed"

Book == [op \in Ops |-> BookOf(op)]

Acted == {op \in Ops : Touched(op)}

LedgerStep == [Ledger!Next]_(Ledger!vars)

\* The actor is the one call that holds the mutation lock and has begun.
ActorHolds ==
    /\ Actor \in Ops \cup {Nobody}
    /\ \A op \in Ops : pc[op] \in Held <=> Actor = op

\* It is that in every state of the invariant.
LEMMA ActorIsTheHolder == ServiceInv => ActorHolds
<1> SUFFICES ASSUME ServiceInv
             PROVE  ActorHolds
  OBVIOUS
<1> USE DEF ActorHolds
<1>1. \A op \in Holders : op \in Ops /\ mutation.current = op
  BY DEF Holders, ServiceInv, LockInv, HoldsWhatItShould
<1>2. CASE Holders = {}
  BY <1>2, DispatchAssumption DEF Actor, Holders
<1>3. CASE Holders # {}
  <2>1. Actor \in Holders
    BY <1>3 DEF Actor
  <2>2. \A op \in Holders : op = Actor
    BY <1>1, <2>1
  <2> QED
    BY <1>1, <2>1, <2>2 DEF Holders
<1> QED
  BY <1>2, <1>3

\* It stays while the calls that hold that lock do, and so do the calls that have
\* acted while no program moves.
LEMMA ActorStays ==
  ASSUME ServiceInv, ServiceInv', \A op \in Ops : pc'[op] \in Held <=> pc[op] \in Held
  PROVE  Actor' = Actor
<1>1. ActorHolds /\ ActorHolds'
  BY ActorIsTheHolder, PTL
<1> HIDE DEF Actor
<1> QED
  BY <1>1, DispatchAssumption DEF ActorHolds

\* Who has acted is told by the instructions executed.
LEMMA ActedStays ==
  ASSUME UNCHANGED prog
  PROVE  Acted' = Acted
  BY DEF Acted, Touched, ProgramOf

\* What becomes of the actor when a single call's part in the ledger changes.
LEMMA ActorFollows ==
  ASSUME ServiceInv, ServiceInv', NEW op \in Ops,
         \A b \in Ops \ {op} : pc'[b] \in Held <=> pc[b] \in Held
  PROVE  /\ (pc'[op] \in Held <=> pc[op] \in Held) => Actor' = Actor
         /\ pc[op] \in Held /\ pc'[op] \notin Held => Actor = op /\ Actor' = Nobody
         /\ pc[op] \notin Held /\ pc'[op] \in Held => Actor = Nobody /\ Actor' = op
<1>1. /\ Actor \in Ops \cup {Nobody}
      /\ \A b \in Ops : pc[b] \in Held <=> Actor = b
  BY ActorIsTheHolder DEF ActorHolds
<1>0. ActorHolds'
  BY ActorIsTheHolder, PTL
<1>2. /\ Actor' \in Ops \cup {Nobody}
      /\ \A b \in Ops : pc'[b] \in Held <=> Actor' = b
  BY <1>0 DEF ActorHolds
<1>3. Nobody \notin Ops
  BY DispatchAssumption
<1> HIDE DEF Actor
<1> QED
  BY <1>1, <1>2, <1>3

\* And of the books.
LEMMA BookFollows ==
  ASSUME NEW op \in Ops, \A b \in Ops \ {op} : entry'[b] = entry[b]
  PROVE  Book' = [Book EXCEPT ![op] = BookOf(op)']
  BY DEF Book, BookOf, InState

\* A call has acted once its program is past an instruction that is no step.
LEMMA ActedFollows ==
  ASSUME ServiceInv, NEW op \in Ops,
         prog' = prog \/ prog' = [prog EXCEPT ![op] = @ + 1]
  PROVE  /\ prog' = prog \/ NextInstruction(op) = "step" => Acted' = Acted
         /\ prog' # prog /\ NextInstruction(op) # "step" => Acted' = Acted \cup {op}
<1>1. prog \in [Ops -> Nat]
  BY DEF ServiceInv, DataTypeOK
<1>2. \A b \in Ops : prog'[b] = prog[b] => (Touched(b)' <=> Touched(b))
  BY DEF Touched, ProgramOf
<1>3. ASSUME prog'[op] = prog[op] + 1
      PROVE  Touched(op)' <=> Touched(op) \/ NextInstruction(op) # "step"
  <2>1. 1..(prog[op] + 1) = 1..prog[op] \cup {prog[op] + 1}
    BY <1>1
  <2> QED
    BY <1>3, <2>1 DEF Touched, NextInstruction, ProgramOf
<1>4. \A b \in Ops \ {op} : Touched(b)' <=> Touched(b)
  BY <1>1, <1>2
<1>5. prog' # prog => prog'[op] = prog[op] + 1
  BY <1>1
<1> QED
  BY <1>1, <1>2, <1>3, <1>4, <1>5 DEF Acted

\* The steps of the ledger, and none, in these terms.
LEMMA LedgerStutters ==
  ASSUME UNCHANGED <<Actor, Book, Acted, wire>>
  PROVE  LedgerStep
  BY DEF LedgerStep, Ledger!vars, Actor, Book, BookOf, Acted

\* The moves of the ledger, each in these terms.
LEMMA LedgerMoves ==
  ASSUME NEW op \in Ops
  PROVE  /\ /\ Actor = Nobody /\ Book[op] = "new" /\ Actor' = op
            /\ Book' = [Book EXCEPT ![op] = "open"] /\ UNCHANGED <<Acted, wire>>
            => LedgerStep
         /\ /\ Actor = op /\ Book[op] = "open" /\ Acted' = Acted \cup {op}
            /\ UNCHANGED <<Actor, Book, wire>>
            => LedgerStep
         /\ /\ Actor # Nobody /\ wire' = wire \cup {Actor} /\ UNCHANGED <<Actor, Book, Acted>>
            => LedgerStep
         /\ /\ Actor # Nobody /\ Actor' = Nobody /\ wire' \in {wire, wire \cup {Actor}}
            /\ UNCHANGED <<Book, Acted>>
            => LedgerStep
         /\ /\ op \in wire /\ wire' = wire \ {op} /\ Acted' = Acted \cup {op}
            /\ UNCHANGED <<Actor, Book>>
            => LedgerStep
         /\ /\ Book[op] \in {"open", "parked"} /\ Book' = [Book EXCEPT ![op] = "closed"]
            /\ (Actor' = Actor \/ (Actor = op /\ Actor' = Nobody)) /\ UNCHANGED <<Acted, wire>>
            => LedgerStep
         /\ /\ Book[op] = "open" /\ Book' = [Book EXCEPT ![op] = "parked"]
            /\ UNCHANGED <<Actor, Acted, wire>>
            => LedgerStep
  BY DEF LedgerStep, Ledger!Next, Ledger!Open, Ledger!Act, Ledger!Send, Ledger!Leave, Ledger!Land,
         Ledger!Close, Ledger!ParkOp, Actor, Book, BookOf, Acted

\* A step of a call that neither begins nor ends it, nor decides its entry, nor
\* moves its program.
LEMMA CallStutters ==
  ASSUME ServiceInv, ServiceInv', NEW op \in Ops, \A b \in Ops \ {op} : SameCall(b),
         pc'[op] \in Held <=> pc[op] \in Held, BookOf(op)' = BookOf(op), UNCHANGED <<prog, wire>>
  PROVE  LedgerStep
<1>1. Actor' = Actor
  BY ActorStays DEF SameCall
<1>2. Book' = Book
  BY BookFollows DEF SameCall, Book
<1>3. Acted' = Acted
  BY ActedStays
<1> QED
  BY <1>1, <1>2, <1>3, LedgerStutters

\* Until its intent is written a call is not in the ledger.
LEMMA ApproachFollowsLedger ==
  ASSUME ServiceInv, ServiceInv', NEW op \in Ops, \A b \in Ops \ {op} : SameCall(b),
         \/ Arrive(op) \/ ArriveFirst(op) \/ ArriveRecovering(op) \/ GiveUpMaterialisation(op)
         \/ Ensured(op) \/ RefuseHolding(op) \/ GiveUpMutation(op)
  PROVE  LedgerStep
<1>1. UNCHANGED <<entry, prog, wire>>
  BY DEF Arrive, ArriveFirst, ArriveRecovering, GiveUpMaterialisation, Ensured, RefuseHolding,
         GiveUpMutation, journalVars, handlerVars
<1>2. pc[op] \notin Held
  BY DEF Arrive, ArriveFirst, ArriveRecovering, GiveUpMaterialisation, Ensured, RefuseHolding,
         GiveUpMutation, Held
<1>3. pc'[op] \notin Held
  BY DEF Arrive, ArriveFirst, ArriveRecovering, GiveUpMaterialisation, Ensured, RefuseHolding,
         GiveUpMutation, Admit, Finish, Goto, Held, ServiceInv, LockInv
<1>4. BookOf(op)' = BookOf(op)
  BY <1>1 DEF BookOf, InState
<1> QED
  BY <1>1, <1>2, <1>3, <1>4, CallStutters

\* A call begins, with no other at work, by writing its intent.
LEMMA BeginFollowsLedger ==
  ASSUME ServiceInv, ServiceInv', NEW op \in Ops, \A b \in Ops \ {op} : SameCall(b), BeginCall(op)
  PROVE  LedgerStep
<1>1. Actor = Nobody /\ Actor' = op
  <2>1. pc[op] \notin Held /\ pc'[op] \in Held
    BY DEF BeginCall, Goto, Held, ServiceInv, LockInv
  <2> QED
    BY <2>1, ActorFollows DEF SameCall
<1>2. Book[op] = "new" /\ Book' = [Book EXCEPT ![op] = "open"]
  <2>1. entry[op].state = "none" /\ entry'[op].state = "intended"
    BY DEF BeginCall, Begin, ServiceInv, DataTypeOK, JournalTypeOK
  <2> QED
    BY <2>1, BookFollows DEF SameCall, Book, BookOf, InState
<1>3. Acted' = Acted /\ wire' = wire
  BY ActedFollows DEF BeginCall
<1> QED
  BY <1>1, <1>2, <1>3, LedgerMoves

\* What the handler of the call at work does, a call does whose entry is open;
\* and what lands late was sent.
LEMMA EffectsFollowLedger ==
  ASSUME ServiceInv, ServiceInv', NEW op \in Ops, \A b \in Ops \ {op} : SameCall(b),
         HandlerStep(op) \/ LateLanding(op)
  PROVE  LedgerStep
<1>1. UNCHANGED pc /\ prog' = [prog EXCEPT ![op] = @ + 1]
  BY DEF HandlerStep, LateLanding, callVars, Advance
<1>2. Actor' = Actor
  BY <1>1, ActorFollows
<1>3. Book' = Book
  <2>1. entry'[op].state = entry[op].state
    BY DEF HandlerStep, LateLanding, WriteStep, AppendStep, ChangeClone, ChangeUnseen,
           LandPush, LandElsewhere,
           journalVars, ServiceInv, DataTypeOK, JournalTypeOK
  <2> QED
    BY <2>1, BookFollows DEF SameCall, Book, BookOf, InState
<1>4. prog' # prog
  BY <1>1 DEF ServiceInv, DataTypeOK
<1>5. Acted' = Acted \/ Acted' = Acted \cup {op}
  BY <1>1, <1>4, ActedFollows
<1>6. CASE HandlerStep(op)
  <2>1. Actor = op
    BY <1>6, ActorIsTheHolder DEF HandlerStep, ChildRuns, ActorHolds, Held
  <2>2. Book[op] = "open"
    BY <1>6 DEF HandlerStep, ChildRuns, ServiceInv, CallInv, Book, BookOf, InState
  <2>3. UNCHANGED wire
    BY <1>6 DEF HandlerStep
  <2> QED
    BY <1>2, <1>3, <1>5, <2>1, <2>2, <2>3, LedgerMoves, LedgerStutters
<1>7. CASE LateLanding(op)
  <2>1. NextInstruction(op) # "step"
    BY <1>7 DEF LateLanding, LandPush, LandElsewhere
  <2>2. Acted' = Acted \cup {op}
    BY <1>1, <1>4, <2>1, ActedFollows
  <2>3. op \in wire /\ wire' = wire \ {op}
    BY <1>7 DEF LateLanding
  <2> QED
    BY <1>2, <1>3, <2>2, <2>3, LedgerMoves
<1> QED
  BY <1>6, <1>7

\* The end of a handler leaves the call at work and its entry open; a push it
\* leaves behind is the actor's.
LEMMA HandlerEndsFollowLedger ==
  ASSUME ServiceInv, ServiceInv', NEW op \in Ops, \A b \in Ops \ {op} : SameCall(b),
         \/ LimitFires(op) \/ WriteAudit(op)
         \/ \E outcome \in {"ok", "failed", "unknown"} :
               HandlerReturns(op, outcome) \/ RawAudits(op, outcome)
  PROVE  LedgerStep
<1>1. pc'[op] \in Held <=> pc[op] \in Held
  BY DEF LimitFires, WriteAudit, HandlerReturns, RawAudits, AfterAudit, Goto, Held, ServiceInv, LockInv
<1>2. BookOf(op)' = BookOf(op)
  <2>1. CASE UNCHANGED entry
    BY <2>1 DEF BookOf, InState
  <2>2. CASE handler[op] = "running" /\ MarkApplied(op)
    <3>1. entry[op].state = "intended"
      BY <2>2 DEF ServiceInv, CallInv
    <3>2. entry'[op].state = "applied"
      BY <2>2, <3>1 DEF MarkApplied, InState, ServiceInv, DataTypeOK, JournalTypeOK
    <3> QED
      BY <3>1, <3>2 DEF BookOf, InState
  <2> QED
    BY <2>1, <2>2 DEF LimitFires, WriteAudit, HandlerReturns, RawAudits, journalVars
<1>3. UNCHANGED prog
  BY DEF LimitFires, WriteAudit, HandlerReturns, RawAudits, handlerVars
<1>4. CASE UNCHANGED wire
  BY <1>1, <1>2, <1>3, <1>4, CallStutters
<1>5. CASE LimitFires(op) /\ wire' = wire \cup {op}
  <2>1. Actor = op
    BY <1>5, ActorIsTheHolder DEF LimitFires, ActorHolds, Held
  <2>2. Actor' = Actor
    BY <1>1, ActorFollows DEF SameCall
  <2>3. Book' = Book
    BY <1>2, BookFollows DEF SameCall, Book
  <2>4. Actor # Nobody
    BY <2>1, DispatchAssumption
  <2> QED
    BY <1>3, <1>5, <2>1, <2>2, <2>3, <2>4, ActedFollows, LedgerMoves
<1> QED
  BY <1>4, <1>5 DEF LimitFires, WriteAudit, HandlerReturns, RawAudits, handlerVars

\* A call that ends closes its entry, or leaves it as it is; one that parks it
\* is still at work until it has marked the clone.
LEMMA EndingsFollowLedger ==
  ASSUME ServiceInv, ServiceInv', NEW op \in Ops, \A b \in Ops \ {op} : SameCall(b),
         SettleCall(op) \/ ParkCall(op) \/ MarkCall(op) \/ RawReturns(op) \/ RawLimitFires(op)
  PROVE  LedgerStep
<1>1. pc[op] \in Held /\ UNCHANGED <<prog, wire>>
  BY DEF SettleCall, ParkCall, MarkCall, RawReturns, RawLimitFires, Held, handlerVars
<1>2. Acted' = Acted
  BY <1>1, ActedFollows
<1>3. Actor = op /\ Actor # Nobody
  BY <1>1, ActorIsTheHolder, DispatchAssumption DEF ActorHolds
<1>4. ASSUME Finish(op, "done")
      PROVE  Actor' = Nobody
  <2>1. pc'[op] \notin Held
    BY <1>4 DEF Finish, Goto, Held, ServiceInv, LockInv
  <2> QED
    BY <1>1, <2>1, ActorFollows DEF SameCall
<1>5. CASE Finish(op, "done") /\ UNCHANGED journalVars
  <2>1. Book' = Book
    BY <1>5 DEF Book, BookOf, InState, journalVars
  <2> QED
    BY <1>1, <1>2, <1>3, <1>4, <1>5, <2>1, LedgerMoves
<1>6. CASE pc[op] = "settle" /\ Settle(op) /\ Finish(op, "done")
  <2>1. entry[op].state \in {"intended", "applied"} /\ entry'[op].state = "settled"
    BY <1>6 DEF Settle, ServiceInv, CallInv, DataTypeOK, JournalTypeOK
  <2>2. Book[op] = "open" /\ Book' = [Book EXCEPT ![op] = "closed"]
    BY <2>1, BookFollows DEF SameCall, Book, BookOf, InState
  <2> QED
    BY <1>1, <1>2, <1>3, <1>4, <1>6, <2>2, LedgerMoves
<1>7. CASE pc[op] = "park" /\ Park(op) /\ Goto(op, "mark")
  <2>1. entry[op].state \in {"intended", "applied"} /\ entry'[op].state = "attention"
    BY <1>7 DEF Park, InState, ServiceInv, CallInv, DataTypeOK, JournalTypeOK
  <2>2. Book[op] = "open" /\ Book' = [Book EXCEPT ![op] = "parked"]
    BY <2>1, BookFollows DEF SameCall, Book, BookOf, InState
  <2>3. pc'[op] \in Held
    BY <1>7 DEF Goto, Held, ServiceInv, LockInv
  <2>4. Actor' = Actor
    BY <1>1, <2>3, ActorFollows DEF SameCall
  <2> QED
    BY <1>1, <1>2, <2>2, <2>4, LedgerMoves
<1> QED
  BY <1>5, <1>6, <1>7 DEF SettleCall, ParkCall, MarkCall, RawReturns, RawLimitFires, SettledBy,
                          journalVars

\* The hatch's handler closes or parks its own entry, in time or late.
LEMMA RawFinishesFollowsLedger ==
  ASSUME ServiceInv, ServiceInv', NEW op \in Ops, \A b \in Ops \ {op} : SameCall(b), RawFinishes(op)
  PROVE  LedgerStep
<1>1. UNCHANGED <<pc, prog, wire>>
  BY DEF RawFinishes, callVars
<1>2. Actor' = Actor
  BY <1>1, ActorFollows
<1>3. Acted' = Acted
  BY <1>1, ActedFollows
<1>4. CASE UNCHANGED journalVars
  <2>1. BookOf(op)' = BookOf(op)
    BY <1>4 DEF BookOf, InState, journalVars
  <2> QED
    BY <1>1, <2>1, CallStutters
<1>5. CASE handler[op] = "settling" \/ handler[op] = "parking"
  <2>1. entry[op].state = "intended"
    BY <1>5 DEF ServiceInv, CallInv
  <2>2. Book[op] = "open"
    BY <2>1 DEF Book, BookOf, InState
  <2>3. CASE Settle(op)
    <3>1. entry'[op].state = "settled"
      BY <2>3 DEF Settle, ServiceInv, DataTypeOK, JournalTypeOK
    <3>2. Book' = [Book EXCEPT ![op] = "closed"]
      BY <3>1, BookFollows DEF SameCall, BookOf, InState
    <3> QED
      BY <1>1, <1>2, <1>3, <2>2, <3>2, LedgerMoves
  <2>4. CASE MarkApplied(op)
    <3>1. entry'[op].state = "applied"
      BY <2>1, <2>4 DEF MarkApplied, InState, ServiceInv, DataTypeOK, JournalTypeOK
    <3>2. BookOf(op)' = BookOf(op)
      BY <2>1, <3>1 DEF BookOf, InState
    <3> QED
      BY <1>1, <3>2, CallStutters
  <2>5. CASE Park(op)
    <3>1. entry'[op].state = "attention"
      BY <2>1, <2>5 DEF Park, InState, ServiceInv, DataTypeOK, JournalTypeOK
    <3>2. Book' = [Book EXCEPT ![op] = "parked"]
      BY <3>1, BookFollows DEF SameCall, BookOf, InState
    <3> QED
      BY <1>1, <1>2, <1>3, <2>2, <3>2, LedgerMoves
  <2> QED
    BY <1>4, <1>5, <2>3, <2>4, <2>5 DEF RawFinishes, SettledBy
<1> QED
  BY <1>4, <1>5 DEF RawFinishes

\* Every step of a call is a step of the ledger.
LEMMA CallStepFollowsLedger ==
  ASSUME ServiceInv, ServiceInv', NEW op \in Ops, CallStep(op)
  PROVE  LedgerStep
<1>1. \A b \in Ops \ {op} : SameCall(b)
  BY CallsMoveAlone DEF ServiceInv, LockInv
<1> QED
  BY <1>1, ApproachFollowsLedger, BeginFollowsLedger, EffectsFollowLedger,
     HandlerEndsFollowLedger, EndingsFollowLedger, RawFinishesFollowsLedger DEF CallStep

\* A step of a pass closes or parks the entry it is at, which is no longer new,
\* or is none of the ledger's.
LEMMA PassStepFollowsLedger ==
  ASSUME ServiceInv, ServiceInv', NEW d \in Declarations, PassStep(d)
  PROVE  LedgerStep
<1>1. PassFrame(d)
  BY PassStaysInFrame
<1>2. UNCHANGED <<prog, wire>>
  BY <1>1 DEF PassFrame
<1>3. \A op \in Ops : pc'[op] \in Held <=> pc[op] \in Held
  BY <1>1 DEF PassFrame, LetIn, Held
<1>4. Actor' = Actor
  BY <1>3, ActorStays
<1>5. Acted' = Acted
  BY <1>2, ActedStays
<1>6. CASE \E op \in Ops : DecidesCurrent(d, op)
  <2>1. PICK op \in Ops : DecidesCurrent(d, op)
    BY <1>6
  <2>2. \A b \in Ops \ {op} : entry'[b] = entry[b]
    BY <1>1, <2>1 DEF PassFrame, DecidesCurrent
  <2>3. Book' = [Book EXCEPT ![op] = BookOf(op)']
    BY <2>2, BookFollows
  <2>4. BookOf(op) \in {"open", "parked", "closed"} /\ BookOf(op)' \in {"closed", "parked"}
    BY <2>1 DEF DecidesCurrent, Exists, BookOf, InState, ServiceInv, DataTypeOK, JournalTypeOK,
                EntryStates, Unsettled
  <2>5. BookOf(op) = "closed" => BookOf(op)' = "closed"
    BY <2>1 DEF DecidesCurrent, Exists, BookOf, InState, ServiceInv, DataTypeOK, JournalTypeOK,
                EntryStates, Unsettled
  <2>6. Book[op] = BookOf(op) /\ (BookOf(op)' = BookOf(op) => Book' = Book)
    BY <2>3 DEF Book
  <2> QED
    BY <1>2, <1>4, <1>5, <2>3, <2>4, <2>5, <2>6, LedgerMoves, LedgerStutters
<1>7. CASE ~\E op \in Ops : DecidesCurrent(d, op)
  <2>1. \A op \in Ops : entry'[op] = entry[op]
    BY <1>1, <1>7 DEF PassFrame
  <2>2. Book' = Book
    BY <2>1 DEF Book, BookOf, InState
  <2> QED
    BY <1>2, <1>4, <1>5, <2>2, LedgerStutters
<1> QED
  BY <1>6, <1>7

\* So is the operator's settling of a parked entry.
LEMMA ResolveFollowsLedger ==
  ASSUME ServiceInv, ServiceInv', NEW o \in Operators, NEW op \in Ops, ResolveParked(o, op)
  PROVE  LedgerStep
<1>1. UNCHANGED <<pc, prog, wire>> /\ Settle(op) /\ entry[op].state = "attention"
  BY DEF ResolveParked, SettledBy, Parked, InState, handlerVars
<1>2. Actor' = Actor /\ Acted' = Acted
  BY <1>1, ActorFollows, ActedFollows
<1>3. entry'[op].state = "settled" /\ \A b \in Ops \ {op} : entry'[b] = entry[b]
  BY <1>1 DEF Settle, ServiceInv, DataTypeOK, JournalTypeOK
<1>4. Book[op] = "parked" /\ Book' = [Book EXCEPT ![op] = "closed"]
  BY <1>1, <1>3, BookFollows DEF Book, BookOf, InState
<1> QED
  BY <1>1, <1>2, <1>4, LedgerMoves

\* A handler at its push is under its call.
LEMMA PushIsUnderCall ==
  ASSUME ServiceInv, NEW op \in Ops, OnTheWire(op)
  PROVE  ChildRuns(op) /\ ToolOf[op] \in Pushes /\ prog[op] = 1
<1>1. ToolOf[op] \in Pushes /\ prog[op] = 1 /\ handler[op] = "running"
  BY ProgramsAreKnown DEF OnTheWire, Unfinished, NextInstruction, ServiceInv, DataTypeOK, Pushes
<1>2. CallInv(op) /\ pc[op] \in Steps
  BY DEF ServiceInv, LockInv
<1> QED
  BY <1>1, <1>2 DEF CallInv, ChildRuns, NotBegun, Ending, Steps, Held, Ended, Pushes

\* A crash ends the call at work, and no push is left on the way but its own.
LEMMA CrashFollowsLedger ==
  ASSUME ServiceInv, ServiceInv', CrashAndBoot
  PROVE  LedgerStep
<1>1. UNCHANGED <<entry, prog>> /\ wire' = wire \cup {op \in Ops : OnTheWire(op)}
  BY DEF CrashAndBoot, journalVars
<1>2. \A op \in Ops : pc'[op] \notin Held
  BY DEF CrashAndBoot, Ended, Held
<1>3. Book' = Book /\ Acted' = Acted
  BY <1>1 DEF Book, BookOf, InState, Acted, Touched, ProgramOf
<1>4. Actor' = Nobody
  BY <1>2 DEF Actor, Holders
<1>5. \A op \in Ops : OnTheWire(op) => Actor = op
  <2> SUFFICES ASSUME NEW op \in Ops, OnTheWire(op)
               PROVE  Actor = op
    OBVIOUS
  <2>1. pc[op] = "running"
    BY PushIsUnderCall DEF ChildRuns
  <2> QED
    BY <2>1, ActorIsTheHolder DEF ActorHolds, Held
<1>6. CASE Actor = Nobody
  <2>1. wire' = wire
    BY <1>1, <1>5, <1>6, DispatchAssumption
  <2> QED
    BY <1>3, <1>4, <1>6, <2>1, LedgerStutters
<1>7. CASE Actor # Nobody
  <2>1. Actor \in Ops
    BY <1>7, ActorIsTheHolder DEF ActorHolds
  <2>2. wire' \in {wire, wire \cup {Actor}}
    BY <1>1, <1>5
  <2> QED
    BY <1>3, <1>4, <1>7, <2>1, <2>2, LedgerMoves
<1> QED
  BY <1>6, <1>7

\* The service keeps the serial ledger: one operation at a time is at work, it
\* is on the books before it changes anything, what lands after it ended is a
\* push it had sent, and an entry leaves the books only closed or parked, across
\* every fault, limit, recovery and crash (the locks, journal.begin, the journal's
\* settle and park, and recovery.ts).
THEOREM ServiceImplementsLedger == Spec => ImplementsLedger
<1>1. Init => Ledger!Init
  <2> SUFFICES ASSUME Init
               PROVE  Ledger!Init
    OBVIOUS
  <2>1. Holders = {} /\ wire = {} /\ \A op \in Ops : prog[op] = 0 /\ entry[op].state = "none"
    BY DEF Init, DispatchInit, JournalInit, NoEntry, Holders, Held
  <2>2. 1..0 = {}
    OBVIOUS
  <2>3. \A op \in Ops : ~Touched(op)
    BY <2>1, <2>2 DEF Touched
  <2> QED
    BY <2>1, <2>3 DEF Ledger!Init, InState
<1>2. ServiceInv /\ ServiceInv' /\ [Next]_serviceVars => [Ledger!Next]_(Ledger!vars)
  <2> SUFFICES ASSUME ServiceInv, ServiceInv', [Next]_serviceVars
               PROVE  LedgerStep
    BY DEF LedgerStep
  <2>1. ASSUME UNCHANGED <<pc, entry, prog, wire>>
        PROVE  LedgerStep
    <3>1. UNCHANGED <<Actor, Book, Acted>>
      BY <2>1 DEF Actor, Holders, Book, BookOf, InState, Acted, Touched
    <3> QED
      BY <2>1, <3>1, LedgerStutters
  <2>2. ASSUME NEW o \in Operators, ClearParked(o)
        PROVE  LedgerStep
    BY <2>1, <2>2 DEF ClearParked, journalVars, handlerVars
  <2>3. CASE UNCHANGED serviceVars
    BY <2>1, <2>3 DEF serviceVars, dispatchVars, journalVars, callVars, handlerVars
  <2> QED
    BY <2>2, <2>3, CallStepFollowsLedger, PassStepFollowsLedger, ResolveFollowsLedger,
       CrashFollowsLedger DEF Next, Idle
<1> QED
  BY <1>1, <1>2, ServiceInvariant, PTL DEF Spec, ImplementsLedger, Ledger!Spec
-----------------------------------------------------------------------------
(***************************************************************************)
(* The verdicts of recovery: what the facets of a clone tell of the calls  *)
(* that wrote them.                                                        *)
(***************************************************************************)
Fetchers == {"git_fetch", "prepare_branch"}
Stagers == {"git_stage", "git_restore_paths"}

\* A call that has changed the head, the index, or the ref a branch tracks by a
\* fetch; and one whose commit a push may send.
HeadOf(v) == ToolOf[v] \in {"git_commit", "git_raw", "prepare_branch"} /\ prog[v] = Len(ProgramOf(v))
IndexOf(v) == ToolOf[v] \in Stagers /\ prog[v] = 1
FetchedBy(v) == \/ ToolOf[v] = "git_fetch" /\ prog[v] = 1
                \/ ToolOf[v] = "prepare_branch" /\ prog[v] > 1
SentFrom(v) == ToolOf[v] # "prepare_branch" /\ HeadOf(v)

\* What a facet of a clone of d holds was left there by a call that wrote it.
Explained(d, state) ==
    /\ state["head"] # Origin => state["head"] \in Ops /\ HeadOf(state["head"])
    /\ state["index"] # Origin => state["index"] \in Ops /\ IndexOf(state["index"])
    /\ state["upstream"] \notin {Origin, Untracked} =>
          state["upstream"] \in Ops /\ (FetchedBy(state["upstream"]) \/ SentFrom(state["upstream"]))
    /\ state["head"] \in Ops /\ ToolOf[state["head"]] = "prepare_branch"
          => state["upstream"] = Untracked
    /\ state["upstream"] = Untracked =>
          \E p \in Ops : DeclarationOf[p] = d /\ ToolOf[p] = "prepare_branch"

\* Of a call that works, what its clone has kept of the state it found.
WorksOn(op) ==
    LET state == git[DeclarationOf[op]]
        pre == entry[op].pre
    IN  /\ prog[op] = 0 => state = pre
        /\ ToolOf[op] = "git_push" => state["head"] = pre["head"]
        /\ ToolOf[op] = "git_push" /\ prog[op] = 2 =>
              /\ remote[DeclarationOf[op]] = pre["head"]
              /\ FastForward(op)

\* What a call did to an observed facet shows for good, as no later one puts back
\* what it found there; save a fetch on a branch that tracks nothing.
ShowsIn(op) ==
    LET state == git[DeclarationOf[op]]
        pre == entry[op].pre
    IN  prog[op] > 0 =>
        /\ ToolOf[op] \in Stagers => state["index"] # pre["index"]
        /\ ToolOf[op] = "git_commit" => state["head"] # pre["head"]
        /\ ToolOf[op] = "git_fetch" /\ pre["upstream"] # Untracked =>
              /\ state["upstream"] # pre["upstream"]
              /\ \/ state["upstream"] = Untracked
                 \/ state["upstream"] \in Ops /\ ToolOf[state["upstream"]] \in Fetchers

\* The tools that record a step before anything else.
StepsFirst(op) ==
    ToolOf[op] \in Pushes \cup {"prepare_branch", "git_raw", "pr_enable_auto_merge"} /\ prog[op] > 0
        => entry[op].steps > 0

\* Entries are numbered as they begin, and the call that works began last.
OrderInv ==
    /\ \A op \in Begun : entry[op].startedAt <= Cardinality(Begun)
    /\ \A op \in Ops : \A o \in Begun \ {op} :
          pc[op] = "running" => entry[o].startedAt < entry[op].startedAt

\* Of one call: what it found, did and left.  A push on the wire is not
\* taken for landed by mistake: the ref its branch tracks is where its head was,
\* or a later push has moved the remote's.
TreeInv(op) ==
    /\ op \in Begun => Explained(DeclarationOf[op], entry[op].pre)
                       /\ \A f \in Facets : entry[op].pre[f] # op
    /\ ChildRuns(op) => WorksOn(op)
    /\ ShowsIn(op)
    /\ prog[op] > 0 => op \in Begun
    /\ StepsFirst(op)
    /\ op \in wire /\ ToolOf[op] = "git_push" =>
         LET state == git[DeclarationOf[op]] IN
         state["upstream"] = state["head"] => state["head"] = entry[op].pre["head"] \/ Overtaken(op)

\* A branch that tracks what it has at its head was pushed there.
RemoteInv(d) ==
    /\ Explained(d, git[d])
    /\ git[d]["upstream"] = git[d]["head"] => remote[d] = git[d]["head"]

HistoryInv ==
    /\ OrderInv
    /\ \A op \in Ops : TreeInv(op)
    /\ \A d \in Declarations : RemoteInv(d)

-----------------------------------------------------------------------------
\* Most steps leave what the calls have done as it is.

\* The row of a call, but for where it stands on its way from open to closed.
SameRecord(b) ==
    /\ entry'[b].pre = entry[b].pre
    /\ entry'[b].steps = entry[b].steps
    /\ entry'[b].startedAt = entry[b].startedAt
    /\ entry'[b].state = "none" <=> entry[b].state = "none"
    /\ entry'[b].state \in {"intended", "applied"} => entry[b].state \in {"intended", "applied"}
    /\ entry[b].state \in {"attention", "settled"} => entry'[b].state \in {"attention", "settled"}

SameHistory ==
    /\ UNCHANGED <<git, remote, prog>>
    /\ \A b \in Ops : SameRecord(b)
    /\ \A b \in Ops : /\ pc'[b] = "running" => pc[b] = "running"
                      /\ ChildRuns(b)' => ChildRuns(b)
    /\ \A b \in wire' : b \in wire \/ (ChildRuns(b) /\ OnTheWire(b))

\* The journal's writes after the intent and the steps are about the state alone.
LEMMA WritesKeepRecords ==
  ASSUME JournalTypeOK, NEW op \in Ops,
         MarkApplied(op) \/ Settle(op) \/ Park(op) \/ UNCHANGED journalVars
  PROVE  \A b \in Ops : SameRecord(b)
<1>1. CASE MarkApplied(op)
  BY <1>1 DEF MarkApplied, Exists, InState, SameRecord, JournalTypeOK, EntryStates, Unsettled
<1>2. CASE Settle(op)
  BY <1>2 DEF Settle, Exists, InState, SameRecord, JournalTypeOK, EntryStates, Unsettled
<1>3. CASE Park(op)
  BY <1>3 DEF Park, Exists, InState, journalVars, SameRecord, JournalTypeOK, EntryStates, Unsettled
<1>4. CASE UNCHANGED journalVars
  BY <1>4 DEF journalVars, SameRecord
<1> QED
  BY <1>1, <1>2, <1>3, <1>4

\* The steps of a call that are neither its intent nor its handler's.
LEMMA OtherCallStepsKeepHistory ==
  ASSUME ServiceInv, NEW op \in Ops, CallStep(op),
         ~BeginCall(op), ~HandlerStep(op), ~LateLanding(op)
  PROVE  SameHistory
<1>1. DataTypeOK /\ JournalTypeOK /\ pc \in [Ops -> Steps]
  BY DEF ServiceInv, DataTypeOK, LockInv
<1>2. CASE \/ Arrive(op) \/ ArriveFirst(op) \/ ArriveRecovering(op) \/ GiveUpMaterialisation(op)
           \/ Ensured(op) \/ RefuseHolding(op) \/ GiveUpMutation(op)
  <2>1. UNCHANGED <<journalVars, handler, prog, wire, git, remote>>
    BY <1>2 DEF Arrive, ArriveFirst, ArriveRecovering, GiveUpMaterialisation, Ensured,
                RefuseHolding, GiveUpMutation, handlerVars, treeVars
  <2>2. \E step \in {"refused", "matWait", "awaitPass", "mutWait"} : pc' = [pc EXCEPT ![op] = step]
    BY <1>2 DEF Arrive, ArriveFirst, ArriveRecovering, GiveUpMaterialisation, Ensured,
                RefuseHolding, GiveUpMutation, Admit, Finish, Goto
  <2>3. \A b \in Ops : pc'[b] = "running" => pc[b] = "running"
    BY <1>1, <2>2
  <2> QED
    BY <1>1, <2>1, <2>3, WritesKeepRecords DEF SameHistory, ChildRuns
<1>3. ASSUME NEW outcome \in {"ok", "failed", "unknown"},
             HandlerReturns(op, outcome) \/ RawAudits(op, outcome)
      PROVE  SameHistory
  <2>1. UNCHANGED <<prog, wire, git, remote>> /\ (MarkApplied(op) \/ UNCHANGED journalVars)
    BY <1>3 DEF HandlerReturns, RawAudits, treeVars, journalVars
  <2>2. \A b \in Ops : pc'[b] = "running" => pc[b] = "running"
    BY <1>1, <1>3 DEF HandlerReturns, RawAudits, Goto
  <2>3. \A b \in Ops : handler'[b] = "running" => handler[b] = "running"
    BY <1>1, <1>3 DEF HandlerReturns, RawAudits, DataTypeOK
  <2> QED
    BY <1>1, <2>1, <2>2, <2>3, WritesKeepRecords DEF SameHistory, ChildRuns
<1>4. CASE LimitFires(op)
  <2>1. UNCHANGED <<journalVars, prog, git, remote>>
    BY <1>4 DEF LimitFires, treeVars
  <2>2. \A b \in Ops : pc'[b] = "running" => pc[b] = "running"
    BY <1>1, <1>4 DEF LimitFires, Goto
  <2>3. \A b \in Ops : handler'[b] = "running" => handler[b] = "running"
    BY <1>1, <1>4 DEF LimitFires, DataTypeOK
  <2>4. \A b \in wire' : b \in wire \/ (b = op /\ ChildRuns(op) /\ OnTheWire(op))
    BY <1>4 DEF LimitFires, ChildRuns
  <2> QED
    BY <1>1, <2>1, <2>2, <2>3, <2>4, WritesKeepRecords DEF SameHistory, ChildRuns
<1>5. CASE WriteAudit(op) \/ SettleCall(op) \/ ParkCall(op) \/ MarkCall(op) \/ RawReturns(op)
           \/ RawLimitFires(op)
  <2>1. UNCHANGED <<handler, prog, wire, git, remote>>
        /\ (Settle(op) \/ Park(op) \/ UNCHANGED journalVars)
    BY <1>5 DEF WriteAudit, SettleCall, ParkCall, MarkCall, RawReturns, RawLimitFires, SettledBy,
                handlerVars, treeVars, journalVars
  <2>2. \A b \in Ops : pc'[b] = "running" => pc[b] = "running"
    BY <1>1, <1>5 DEF WriteAudit, SettleCall, ParkCall, MarkCall, RawReturns, RawLimitFires,
                      Finish, Goto, AfterAudit
  <2> QED
    BY <1>1, <2>1, <2>2, WritesKeepRecords DEF SameHistory, ChildRuns
<1>6. CASE RawFinishes(op)
  <2>1. UNCHANGED <<pc, prog, wire, git, remote>>
        /\ (MarkApplied(op) \/ Settle(op) \/ Park(op) \/ UNCHANGED journalVars)
    BY <1>6 DEF RawFinishes, SettledBy, callVars, treeVars, journalVars
  <2>2. \A b \in Ops : handler'[b] = "running" => handler[b] = "running"
    BY <1>1, <1>6 DEF RawFinishes, DataTypeOK
  <2> QED
    BY <1>1, <2>1, <2>2, WritesKeepRecords DEF SameHistory, ChildRuns
<1> QED
  BY <1>2, <1>3, <1>4, <1>5, <1>6 DEF CallStep

\* Nor does a pass, an operator or a boot change what the calls have done.
LEMMA StepsKeepHistory ==
  ASSUME ServiceInv, [Next]_serviceVars
  PROVE  \/ SameHistory
         \/ \E op \in Ops : /\ CallStep(op) /\ UNCHANGED <<passVars, resolving, crashes>>
                            /\ BeginCall(op) \/ HandlerStep(op) \/ LateLanding(op)
<1>1. ASSUME NEW op \in Ops, CallStep(op), UNCHANGED <<passVars, resolving, crashes>>
      PROVE  \/ SameHistory
             \/ BeginCall(op) \/ HandlerStep(op) \/ LateLanding(op)
  BY <1>1, OtherCallStepsKeepHistory
<1>2. ASSUME NEW d \in Declarations, PassStep(d)
      PROVE  SameHistory
  <2>1. PassFrame(d)
    BY <1>2, PassStaysInFrame
  <2>2. \A b \in Ops : SameRecord(b)
    BY <2>1 DEF PassFrame, DecidesCurrent, Exists, InState, SameRecord
  <2>3. \A b \in Ops : pc'[b] = "running" => pc[b] = "running"
    BY <2>1 DEF PassFrame, LetIn
  <2> QED
    BY <2>1, <2>2, <2>3 DEF PassFrame, SameHistory, ChildRuns
<1>3. ASSUME NEW o \in Operators, NEW op \in Ops, ResolveParked(o, op)
      PROVE  SameHistory
  <2>1. UNCHANGED <<pc, handler, prog, wire, git, remote>> /\ Settle(op)
    BY <1>3 DEF ResolveParked, SettledBy, handlerVars, treeVars
  <2> QED
    BY <2>1, WritesKeepRecords DEF SameHistory, ChildRuns, ServiceInv, DataTypeOK
<1>4. ASSUME NEW o \in Operators, ClearParked(o)
      PROVE  SameHistory
  BY <1>4 DEF ClearParked, handlerVars, treeVars, journalVars, SameHistory, SameRecord, ChildRuns
<1>5. CASE CrashAndBoot
  <2>1. UNCHANGED <<journalVars, prog, git, remote>>
    BY <1>5 DEF CrashAndBoot, treeVars
  <2>2. \A b \in Ops : pc'[b] # "running"
    BY <1>5 DEF CrashAndBoot, Ended
  <2>3. \A b \in wire' : b \in wire \/ (b \in Ops /\ OnTheWire(b))
    BY <1>5 DEF CrashAndBoot
  <2> QED
    BY <2>1, <2>2, <2>3, PushIsUnderCall DEF SameHistory, SameRecord, ChildRuns, journalVars
<1>6. CASE UNCHANGED serviceVars
  BY <1>6 DEF serviceVars, dispatchVars, journalVars, callVars, handlerVars, treeVars, SameHistory,
              SameRecord, ChildRuns
<1> QED
  BY <1>1, <1>2, <1>3, <1>4, <1>5, <1>6 DEF Next, Idle

\* Each tool's instructions, in their order.
LEMMA ProgramShape ==
  ASSUME NEW op \in Ops
  PROVE  /\ ToolOf[op] \in Stagers => ProgramOf(op) = <<"index">>
         /\ ToolOf[op] = "git_commit" => ProgramOf(op) = <<"head">>
         /\ ToolOf[op] = "git_fetch" => ProgramOf(op) = <<"upstream">>
         /\ ToolOf[op] = "git_push" => ProgramOf(op) = <<"step", "remote", "track">>
         /\ ToolOf[op] = "push_elsewhere" => ProgramOf(op) = <<"step", "other", "unseen">>
         /\ ToolOf[op] = "sync_base" => ProgramOf(op) = <<"unseen", "unseen">>
         /\ ToolOf[op] = "prepare_branch" =>
               ProgramOf(op) = <<"step", "upstream", "step", "switch">>
         /\ ToolOf[op] = "git_raw" => ProgramOf(op) = <<"step", "head">>
         /\ ToolOf[op] = "pr_enable_auto_merge" => ProgramOf(op) = <<"step", "unseen">>
         /\ ToolOf[op] \in Stagers \cup {"git_commit", "git_fetch", "git_push", "push_elsewhere",
                                         "sync_base", "prepare_branch", "git_raw",
                                         "pr_enable_auto_merge"}
<1>1. ToolOf[op] \in MutatingTools
  BY ToolsAssumption
<1>2. ToolOf[op] \in Stagers \cup {"git_commit", "git_fetch", "git_push", "push_elsewhere",
                                   "sync_base", "prepare_branch", "git_raw",
                                   "pr_enable_auto_merge"}
  BY <1>1 DEF MutatingTools, Program, Stagers
<1> QED
  BY <1>2 DEF Stagers, ProgramOf, Program, Stage, RestorePaths, Commit, Fetch, Push, PushElsewhere,
              SyncBase, PrepareBranch, Raw, EnableAutoMerge

\* What each instruction says of the call that is about to execute it.
LEMMA InstructionTells ==
  ASSUME NEW op \in Ops, prog[op] \in Nat, Unfinished(op)
  PROVE  /\ NextInstruction(op) = "index" => ToolOf[op] \in Stagers /\ prog[op] = 0
         /\ NextInstruction(op) = "head" =>
               \/ ToolOf[op] = "git_commit" /\ prog[op] = 0
               \/ ToolOf[op] = "git_raw" /\ prog[op] = 1
         /\ NextInstruction(op) = "upstream" =>
               \/ ToolOf[op] = "git_fetch" /\ prog[op] = 0
               \/ ToolOf[op] = "prepare_branch" /\ prog[op] = 1
         /\ NextInstruction(op) = "remote" => ToolOf[op] = "git_push" /\ prog[op] = 1
         /\ NextInstruction(op) = "other" => ToolOf[op] = "push_elsewhere" /\ prog[op] = 1
         /\ NextInstruction(op) = "track" => ToolOf[op] = "git_push" /\ prog[op] = 2
         /\ NextInstruction(op) = "switch" => ToolOf[op] = "prepare_branch" /\ prog[op] = 3
         /\ NextInstruction(op) \in LocalEffects \cup {"step", "unseen", "remote", "other"}
         /\ ToolOf[op] = "git_push" /\ prog[op] = 1 => NextInstruction(op) = "remote"
         /\ prog[op] = 0 /\ ToolOf[op] \in Pushes \cup {"prepare_branch", "git_raw",
                                            "pr_enable_auto_merge"} => NextInstruction(op) = "step"
         /\ prog[op] = 0 /\ ToolOf[op] \in Stagers => NextInstruction(op) = "index"
         /\ prog[op] = 0 /\ ToolOf[op] = "git_commit" => NextInstruction(op) = "head"
         /\ prog[op] = 0 /\ ToolOf[op] = "git_fetch" => NextInstruction(op) = "upstream"
         /\ ToolOf[op] \in Stagers \cup {"git_commit", "git_fetch"} => prog[op] = 0
<1> USE DEF Unfinished, NextInstruction, LocalEffects, Facets, Pushes
<1>1. CASE ToolOf[op] \in Stagers
  <2>1. ProgramOf(op) = <<"index">>
    BY <1>1, ProgramShape
  <2> QED
    BY <1>1, <2>1 DEF Stagers
<1>2. CASE ToolOf[op] = "git_commit"
  <2>1. ProgramOf(op) = <<"head">>
    BY <1>2, ProgramShape
  <2> QED
    BY <1>2, <2>1 DEF Stagers
<1>3. CASE ToolOf[op] = "git_fetch"
  <2>1. ProgramOf(op) = <<"upstream">>
    BY <1>3, ProgramShape
  <2> QED
    BY <1>3, <2>1 DEF Stagers
<1>4. CASE ToolOf[op] = "git_push"
  <2>1. ProgramOf(op) = <<"step", "remote", "track">>
    BY <1>4, ProgramShape
  <2>2. prog[op] \in {0, 1, 2}
    BY <2>1
  <2> QED
    BY <1>4, <2>1, <2>2 DEF Stagers
<1>5. CASE ToolOf[op] = "sync_base"
  <2>1. ProgramOf(op) = <<"unseen", "unseen">>
    BY <1>5, ProgramShape
  <2>2. prog[op] \in {0, 1}
    BY <2>1
  <2> QED
    BY <1>5, <2>1, <2>2 DEF Stagers
<1>6. CASE ToolOf[op] = "prepare_branch"
  <2>1. ProgramOf(op) = <<"step", "upstream", "step", "switch">>
    BY <1>6, ProgramShape
  <2>2. prog[op] \in {0, 1, 2, 3}
    BY <2>1
  <2> QED
    BY <1>6, <2>1, <2>2 DEF Stagers
<1>7. CASE ToolOf[op] = "git_raw"
  <2>1. ProgramOf(op) = <<"step", "head">>
    BY <1>7, ProgramShape
  <2>2. prog[op] \in {0, 1}
    BY <2>1
  <2> QED
    BY <1>7, <2>1, <2>2 DEF Stagers
<1>8. CASE ToolOf[op] = "pr_enable_auto_merge"
  <2>1. ProgramOf(op) = <<"step", "unseen">>
    BY <1>8, ProgramShape
  <2>2. prog[op] \in {0, 1}
    BY <2>1
  <2> QED
    BY <1>8, <2>1, <2>2 DEF Stagers
<1>9. CASE ToolOf[op] = "push_elsewhere"
  <2>1. ProgramOf(op) = <<"step", "other", "unseen">>
    BY <1>9, ProgramShape
  <2>2. prog[op] \in {0, 1, 2}
    BY <2>1
  <2> QED
    BY <1>9, <2>1, <2>2 DEF Stagers
<1> QED
  BY <1>1, <1>2, <1>3, <1>4, <1>5, <1>6, <1>7, <1>8, <1>9, ProgramShape

\* A call with work to do has not yet left what it will leave last.
LEMMA UnfinishedLeftNothing ==
  ASSUME NEW op \in Ops, prog[op] \in Nat, Unfinished(op)
  PROVE  /\ ~HeadOf(op) /\ ~IndexOf(op) /\ ~SentFrom(op)
         /\ FetchedBy(op) => ToolOf[op] = "prepare_branch" /\ prog[op] > 1
<1>1. ToolOf[op] \in Stagers \cup {"git_commit", "git_fetch"} => prog[op] = 0
  BY InstructionTells
<1>2. prog[op] < Len(ProgramOf(op)) /\ Len(ProgramOf(op)) \in Nat
  BY ProgramsAreKnown DEF Unfinished
<1> QED
  BY <1>1, <1>2 DEF HeadOf, IndexOf, SentFrom, FetchedBy

\* So what explains a state goes on explaining it, and a push that was overtaken
\* stays so.
LEMMA WritersStay ==
  ASSUME NEW op \in Ops, prog \in [Ops -> Nat], Unfinished(op), Advance(op)
  PROVE  /\ \A d \in Declarations, state \in GitStates :
               Explained(d, state) => Explained(d, state)'
         /\ \A b \in Ops : prog'[b] >= prog[b]
<1>1. prog'[op] = prog[op] + 1 /\ \A b \in Ops \ {op} : prog'[b] = prog[b]
  BY DEF Advance
<1>2. \A v \in Ops : /\ HeadOf(v) => HeadOf(v)'
                     /\ IndexOf(v) => IndexOf(v)'
                     /\ SentFrom(v) => SentFrom(v)'
                     /\ FetchedBy(v) => FetchedBy(v)'
  <2> SUFFICES ASSUME NEW v \in Ops
               PROVE  /\ HeadOf(v) => HeadOf(v)'
                      /\ IndexOf(v) => IndexOf(v)'
                      /\ SentFrom(v) => SentFrom(v)'
                      /\ FetchedBy(v) => FetchedBy(v)'
    OBVIOUS
  <2>1. CASE v = op
    BY <1>1, <2>1, UnfinishedLeftNothing DEF FetchedBy
  <2>2. CASE v # op
    BY <1>1, <2>2 DEF HeadOf, IndexOf, SentFrom, FetchedBy, ProgramOf
  <2> QED
    BY <2>1, <2>2
<1> QED
  BY <1>1, <1>2 DEF Explained

\* Only a step of history touches the invariant.
LEMMA SameHistoryKeepsInv ==
  ASSUME ServiceInv, HistoryInv, SameHistory
  PROVE  HistoryInv'
<1>1. Begun' = Begun
  BY DEF SameHistory, SameRecord, Begun
<1>2. OrderInv'
  BY <1>1 DEF HistoryInv, OrderInv, SameHistory, SameRecord, Begun
<1>3. \A d \in Declarations, state \in GitStates : Explained(d, state) => Explained(d, state)'
  BY DEF SameHistory, Explained, HeadOf, IndexOf, SentFrom, FetchedBy, ProgramOf
<1>4. ASSUME NEW op \in Ops
      PROVE  TreeInv(op)'
  <2>1. TreeInv(op) /\ SameRecord(op) /\ entry[op].pre \in GitStates
    BY DEF HistoryInv, SameHistory, ServiceInv, DataTypeOK, JournalTypeOK
  <2>2. DeclarationOf[op] \in Declarations
    BY DeclarationIsDeclared
  <2>3. op \in Begun => (Explained(DeclarationOf[op], entry[op].pre)
                         /\ \A f \in Facets : entry[op].pre[f] # op)'
    BY <1>3, <2>1, <2>2 DEF TreeInv, SameRecord
  <2>4. WorksOn(op) => WorksOn(op)'
    BY <2>1 DEF WorksOn, SameHistory, SameRecord, FastForward
  <2>5. ShowsIn(op)' /\ StepsFirst(op)'
    BY <2>1 DEF TreeInv, ShowsIn, StepsFirst, SameHistory, SameRecord
  <2>6. Overtaken(op)' = Overtaken(op)
    BY <2>1 DEF Overtaken, SameHistory, SameRecord
  <2>7. CASE op \notin wire' \/ op \in wire
    BY <1>1, <2>1, <2>3, <2>4, <2>5, <2>6, <2>7 DEF TreeInv, SameHistory, SameRecord
  <2>8. CASE op \in wire' /\ op \notin wire
    <3>1. ChildRuns(op) /\ OnTheWire(op)
      BY <2>8 DEF SameHistory
    <3>2. ToolOf[op] = "git_push" => git[DeclarationOf[op]]["head"] = entry[op].pre["head"]
      BY <2>1, <3>1 DEF TreeInv, WorksOn
    <3> QED
      BY <1>1, <2>1, <2>3, <2>4, <2>5, <3>2 DEF TreeInv, SameHistory, SameRecord
  <2> QED
    BY <2>7, <2>8
<1>5. ASSUME NEW d \in Declarations
      PROVE  RemoteInv(d)'
  <2>1. git[d] \in GitStates
    BY DEF ServiceInv, DataTypeOK
  <2> QED
    BY <1>3, <2>1 DEF HistoryInv, RemoteInv, SameHistory
<1> QED
  BY <1>2, <1>4, <1>5 DEF HistoryInv

-----------------------------------------------------------------------------
\* The steps of history.

\* A call that is about to begin has left nothing anywhere, and finds a state
\* that others explain.
LEMMA BeginKeepsHistory ==
  ASSUME ServiceInv, HistoryInv, NEW op \in Ops, BeginCall(op)
  PROVE  HistoryInv'
<1> DEFINE d == DeclarationOf[op]
<1>1. /\ UNCHANGED <<git, remote, prog, wire>>
      /\ entry[op].state = "none"
      /\ entry' = [entry EXCEPT ![op] = [state |-> "intended", pre |-> git[d], steps |-> 0,
                                         startedAt |-> Cardinality(Begun) + 1]]
      /\ pc[op] = "mutWait" /\ mutation.current = op
      /\ pc' = [pc EXCEPT ![op] = "running"] /\ handler' = [handler EXCEPT ![op] = "running"]
  BY DEF BeginCall, Begin, Goto, treeVars, HasMutation
<1>2. entry \in [Ops -> [state : EntryStates, pre : GitStates, steps : Nat, startedAt : Nat]]
      /\ pc \in [Ops -> Steps] /\ handler \in [Ops -> {"none", "running", "settling", "parking",
                                                       "marking", "ended"}]
      /\ prog \in [Ops -> Nat] /\ git \in [Declarations -> GitStates] /\ d \in Declarations
  BY DeclarationIsDeclared DEF ServiceInv, LockInv, DataTypeOK, JournalTypeOK
<1>3. CallInv(op) /\ prog[op] = 0 /\ op \notin wire
  BY <1>1 DEF ServiceInv, CallInv, NotBegun
<1>4. /\ entry'[op].state = "intended" /\ entry'[op].pre = git[d] /\ entry'[op].steps = 0
      /\ entry'[op].startedAt = Cardinality(Begun) + 1
      /\ pc'[op] = "running"
  BY <1>1, <1>2
<1>5. \A b \in Ops \ {op} : entry'[b] = entry[b] /\ pc'[b] = pc[b] /\ handler'[b] = handler[b]
  BY <1>1, <1>2
<1>6. Begun' = Begun \cup {op} /\ op \notin Begun
  BY <1>1, <1>4, <1>5 DEF Begun
<1>7. Cardinality(Begun) \in Nat /\ Cardinality(Begun') = Cardinality(Begun) + 1
  <2>1. IsFiniteSet(Begun)
    BY JournalAssumption, FS_Subset DEF Begun
  <2> QED
    BY <1>6, <2>1, FS_AddElement, FS_CardinalityType
<1>8. \A b \in Ops \ {op} : pc[b] # "running"
  BY <1>1 DEF ServiceInv, LockInv, HoldsWhatItShould, Held
<1>9. OrderInv'
  <2>1. \A b \in Begun : entry[b].startedAt \in Nat /\ entry[b].startedAt <= Cardinality(Begun)
    BY <1>2 DEF HistoryInv, OrderInv, Begun
  <2>2. \A b \in Begun : entry'[b].startedAt = entry[b].startedAt
    BY <1>5, <1>6 DEF Begun
  <2>3. \A b \in Begun' : entry'[b].startedAt <= Cardinality(Begun')
    BY <1>4, <1>6, <1>7, <2>1, <2>2
  <2>4. ASSUME NEW a \in Ops, NEW b \in Begun' \ {a}, pc'[a] = "running"
        PROVE  entry'[b].startedAt < entry'[a].startedAt
    <3>1. a = op /\ b \in Begun
      BY <1>5, <1>6, <1>8, <2>4
    <3> QED
      BY <1>4, <1>7, <2>1, <2>2, <3>1
  <2> QED
    BY <2>3, <2>4 DEF OrderInv
<1>10. \A e \in Declarations, state \in GitStates : Explained(e, state) => Explained(e, state)'
  BY <1>1 DEF Explained, HeadOf, IndexOf, SentFrom, FetchedBy, ProgramOf
<1>11. \A e \in Declarations : RemoteInv(e)'
  BY <1>1, <1>2, <1>10 DEF HistoryInv, RemoteInv
<1>12. TreeInv(op)'
  <2>1. Explained(d, git[d])'
    BY <1>2, <1>1, <1>11 DEF RemoteInv
  <2>2. \A f \in Facets : git[d][f] # op
    <3>0. Len(ProgramOf(op)) # 0
      BY ProgramShape
    <3>1. ~HeadOf(op) /\ ~IndexOf(op) /\ ~SentFrom(op) /\ ~FetchedBy(op)
      BY <1>3, <3>0 DEF HeadOf, IndexOf, SentFrom, FetchedBy
    <3>2. op # Origin /\ op # Untracked
      BY ToolsAssumption
    <3>3. Explained(d, git[d])
      BY <1>2 DEF HistoryInv, RemoteInv
    <3>4. git[d]["head"] # op /\ git[d]["index"] # op /\ git[d]["upstream"] # op
      BY <3>1, <3>2, <3>3 DEF Explained
    <3> QED
      BY <3>4 DEF Facets
  <2>3. WorksOn(op)'
    BY <1>1, <1>3, <1>4 DEF WorksOn
  <2>4. ShowsIn(op)' /\ StepsFirst(op)' /\ ~(prog'[op] > 0) /\ op \notin wire'
    BY <1>1, <1>3 DEF ShowsIn, StepsFirst
  <2>5. op \in Begun'
    BY <1>6
  <2>6. Explained(DeclarationOf[op], entry[op].pre)'
    BY <1>1, <1>4, <2>1
  <2>7. \A f \in Facets : entry'[op].pre[f] # op
    BY <1>4, <2>2
  <2> QED
    BY <2>3, <2>4, <2>5, <2>6, <2>7 DEF TreeInv
<1>13. ASSUME NEW b \in Ops \ {op}
       PROVE  TreeInv(b)'
  <2>1. TreeInv(b) /\ entry'[b] = entry[b] /\ entry[b].pre \in GitStates
    BY <1>2, <1>5 DEF HistoryInv
  <2>2. ~ChildRuns(b)'
    BY <1>5, <1>8 DEF ChildRuns
  <2>3. Overtaken(b) => Overtaken(b)'
    BY <1>1, <1>3, <1>5, <2>1 DEF Overtaken
  <2>4. b \in Begun' <=> b \in Begun
    BY <1>6
  <2>5. ShowsIn(b)' /\ StepsFirst(b)'
    BY <1>1, <2>1 DEF TreeInv, ShowsIn, StepsFirst
  <2>6. Explained(DeclarationOf[b], entry[b].pre) => Explained(DeclarationOf[b], entry[b].pre)'
    BY <1>10, <2>1, DeclarationIsDeclared
  <2> QED
    BY <1>1, <2>1, <2>2, <2>3, <2>4, <2>5, <2>6 DEF TreeInv
<1> QED
  BY <1>9, <1>11, <1>12, <1>13 DEF HistoryInv

\* What a handler's step leaves alone.
LEMMA HandlerStepFrame ==
  ASSUME ServiceInv, NEW op \in Ops, HandlerStep(op)
  PROVE  /\ UNCHANGED <<pc, handler, wire>>
         /\ ChildRuns(op) /\ Unfinished(op) /\ prog[op] \in Nat
         /\ prog'[op] = prog[op] + 1
         /\ \A b \in Ops \ {op} : prog'[b] = prog[b] /\ ~ChildRuns(b) /\ entry'[b] = entry[b]
         /\ \A b \in Ops : /\ entry'[b].pre = entry[b].pre
                           /\ entry'[b].startedAt = entry[b].startedAt
                           /\ entry'[b].state = entry[b].state
                           /\ entry'[b].steps >= entry[b].steps
         /\ NextInstruction(op) = "step" => entry'[op].steps > 0
         /\ \A e \in Declarations \ {DeclarationOf[op]} : git'[e] = git[e] /\ remote'[e] = remote[e]
         /\ \/ NextInstruction(op) \in {"step", "unseen", "other"} /\ UNCHANGED <<git, remote>>
            \/ /\ NextInstruction(op) \in LocalEffects
               /\ git' = [git EXCEPT ![DeclarationOf[op]] =
                            After(NextInstruction(op), @, op, Pushed(op))]
               /\ UNCHANGED remote
            \/ /\ NextInstruction(op) = "remote" /\ FastForward(op)
               /\ remote' = [remote EXCEPT ![DeclarationOf[op]] = Pushed(op)]
               /\ UNCHANGED git
<1>1. DataTypeOK /\ pc \in [Ops -> Steps] /\ ChildRuns(op) /\ Unfinished(op) /\ Advance(op)
      /\ UNCHANGED <<pc, handler, wire>>
  BY DEF ServiceInv, LockInv, HandlerStep, callVars
<1>2. /\ prog[op] \in Nat /\ prog'[op] = prog[op] + 1
      /\ \A b \in Ops \ {op} : prog'[b] = prog[b]
  BY <1>1 DEF Advance, DataTypeOK
<1>3. \A b \in Ops \ {op} : ~ChildRuns(b)
  <2>1. mutation.current = op
    BY <1>1 DEF ServiceInv, LockInv, HoldsWhatItShould, ChildRuns, Held
  <2> QED
    BY <2>1 DEF ServiceInv, LockInv, HoldsWhatItShould, ChildRuns, Held
<1>4. \A b \in Ops : /\ entry'[b].pre = entry[b].pre
                     /\ entry'[b].startedAt = entry[b].startedAt
                     /\ entry'[b].state = entry[b].state
                     /\ entry'[b].steps >= entry[b].steps
                     /\ b # op => entry'[b] = entry[b]
  BY <1>1 DEF HandlerStep, WriteStep, AppendStep, ChangeClone, ChangeUnseen,
              LandPush, LandElsewhere, journalVars,
              DataTypeOK, JournalTypeOK
<1>5. NextInstruction(op) = "step" => entry'[op].steps > 0
  BY <1>1 DEF HandlerStep, WriteStep, AppendStep, ChangeClone, ChangeUnseen,
              LandPush, LandElsewhere, journalVars,
              LocalEffects, Facets, DataTypeOK, JournalTypeOK
<1>6. \/ NextInstruction(op) \in {"step", "unseen", "other"} /\ UNCHANGED <<git, remote>>
      \/ /\ NextInstruction(op) \in LocalEffects
         /\ git' = [git EXCEPT ![DeclarationOf[op]] =
                      After(NextInstruction(op), @, op, Pushed(op))]
         /\ UNCHANGED remote
      \/ /\ NextInstruction(op) = "remote" /\ FastForward(op)
         /\ remote' = [remote EXCEPT ![DeclarationOf[op]] = Pushed(op)]
         /\ UNCHANGED git
  BY DEF HandlerStep, WriteStep, ChangeClone, ChangeUnseen, LandPush, LandElsewhere, treeVars
<1>7. \A e \in Declarations \ {DeclarationOf[op]} : git'[e] = git[e] /\ remote'[e] = remote[e]
  BY <1>1, <1>6 DEF DataTypeOK
<1> QED
  BY <1>1, <1>2, <1>3, <1>4, <1>5, <1>6, <1>7

\* What an instruction leaves of the clone its call works on.
LEMMA HandlerWrites ==
  ASSUME ServiceInv, NEW op \in Ops, HandlerStep(op), NEW d, d = DeclarationOf[op]
  PROVE  /\ NextInstruction(op) \in {"step", "unseen", "remote", "other"} => git'[d] = git[d]
         /\ NextInstruction(op) = "index" =>
               git'[d]["index"] = op /\ git'[d]["head"] = git[d]["head"]
               /\ git'[d]["upstream"] = git[d]["upstream"]
         /\ NextInstruction(op) = "head" =>
               git'[d]["index"] = git[d]["index"] /\ git'[d]["head"] = op
               /\ git'[d]["upstream"] = git[d]["upstream"]
         /\ NextInstruction(op) \in {"upstream", "track"} =>
               git'[d]["index"] = git[d]["index"] /\ git'[d]["head"] = git[d]["head"]
               /\ (git[d]["upstream"] = Untracked => git'[d]["upstream"] = Untracked)
         /\ NextInstruction(op) = "upstream" /\ git[d]["upstream"] # Untracked =>
               git'[d]["upstream"] = op
         /\ NextInstruction(op) = "track" /\ git[d]["upstream"] # Untracked =>
               git'[d]["upstream"] = entry[op].pre["head"]
         /\ NextInstruction(op) = "switch" =>
               git'[d]["index"] = git[d]["index"] /\ git'[d]["head"] = op
               /\ git'[d]["upstream"] = Untracked
         /\ NextInstruction(op) # "remote" => remote'[d] = remote[d]
         /\ NextInstruction(op) = "remote" => remote'[d] = entry[op].pre["head"] /\ FastForward(op)
<1>1. d \in Declarations /\ git \in [Declarations -> GitStates] /\ git[d] \in GitStates
      /\ remote \in [Declarations -> Ops \cup {Origin, Untracked}]
  BY DeclarationIsDeclared DEF ServiceInv, DataTypeOK
<1>2. DOMAIN git[d] = {"head", "index", "upstream"}
  BY <1>1 DEF GitStates, Facets
<1>3. CASE NextInstruction(op) \in LocalEffects
  <2>1. git' = [git EXCEPT ![d] = After(NextInstruction(op), @, op, Pushed(op))] /\ UNCHANGED remote
    BY <1>3, HandlerStepFrame DEF LocalEffects, Facets
  <2>2. git'[d] = After(NextInstruction(op), git[d], op, Pushed(op))
    BY <1>1, <2>1
  <2> QED
    BY <1>2, <1>3, <2>1, <2>2 DEF After, Tracked, LocalEffects, Facets, Pushed
<1>4. CASE NextInstruction(op) \in {"step", "unseen", "other"}
  BY <1>4, HandlerStepFrame DEF LocalEffects, Facets
<1>5. CASE NextInstruction(op) = "remote"
  <2>1. remote' = [remote EXCEPT ![d] = Pushed(op)] /\ UNCHANGED git /\ FastForward(op)
    BY <1>5, HandlerStepFrame DEF LocalEffects, Facets
  <2> QED
    BY <1>1, <1>5, <2>1 DEF Pushed
<1>6. NextInstruction(op) \in LocalEffects \cup {"step", "unseen", "remote", "other"}
  BY HandlerStepFrame
<1> QED
  BY <1>3, <1>4, <1>5, <1>6

\* What the working call's clone tells, before its step.
LEMMA WorkerSees ==
  ASSUME ServiceInv, HistoryInv, NEW op \in Ops, HandlerStep(op), NEW d, d = DeclarationOf[op]
  PROVE  /\ d \in Declarations /\ git[d] \in GitStates /\ entry[op].pre \in GitStates
         /\ op \in Begun /\ op # Origin /\ op # Untracked /\ Origin # Untracked
         /\ Origin \notin Ops /\ Untracked \notin Ops
         /\ Explained(d, git[d]) /\ Explained(d, entry[op].pre)
         /\ WorksOn(op)
         /\ \A f \in Facets : entry[op].pre[f] # op
         /\ git[d]["head"] # op /\ git[d]["index"] # op
         /\ NextInstruction(op) \in {"head", "upstream"} => git[d]["upstream"] # op
         /\ git[d]["head"] # Untracked
<1>1. d \in Declarations /\ git[d] \in GitStates /\ entry[op].pre \in GitStates
  BY DeclarationIsDeclared DEF ServiceInv, DataTypeOK, JournalTypeOK
<1>2. op # Origin /\ op # Untracked /\ Origin # Untracked /\ Origin \notin Ops /\ Untracked \notin Ops
  BY ToolsAssumption
<1>3. ChildRuns(op) /\ Unfinished(op) /\ prog[op] \in Nat
  BY HandlerStepFrame
<1>4. op \in Begun
  BY <1>3 DEF ServiceInv, CallInv, ChildRuns, Begun
<1>5. Explained(d, git[d]) /\ Explained(d, entry[op].pre) /\ WorksOn(op)
      /\ \A f \in Facets : entry[op].pre[f] # op
  BY <1>1, <1>3, <1>4 DEF HistoryInv, TreeInv, RemoteInv
<1>6. ~HeadOf(op) /\ ~IndexOf(op) /\ ~SentFrom(op)
      /\ (FetchedBy(op) => ToolOf[op] = "prepare_branch" /\ prog[op] > 1)
  BY <1>3, UnfinishedLeftNothing
<1>7. NextInstruction(op) \in {"head", "upstream"} => ~FetchedBy(op)
  BY <1>3, <1>6, InstructionTells
<1>8. git[d]["head"] # op /\ git[d]["index"] # op
      /\ (NextInstruction(op) \in {"head", "upstream"} => git[d]["upstream"] # op)
      /\ git[d]["head"] # Untracked
  BY <1>2, <1>5, <1>6, <1>7 DEF Explained
<1> QED
  BY <1>1, <1>2, <1>4, <1>5, <1>8

\* What the worker's step makes true of it.
LEMMA WorkerLeaves ==
  ASSUME ServiceInv, NEW op \in Ops, HandlerStep(op)
  PROVE  /\ NextInstruction(op) = "index" => IndexOf(op)'
         /\ NextInstruction(op) = "head" => SentFrom(op)'
         /\ NextInstruction(op) = "upstream" => FetchedBy(op)'
         /\ NextInstruction(op) = "switch" => HeadOf(op)' /\ ToolOf[op] = "prepare_branch"
<1>1. Unfinished(op) /\ prog[op] \in Nat /\ prog'[op] = prog[op] + 1
  BY HandlerStepFrame
<1>2. NextInstruction(op) = "index" => ToolOf[op] \in Stagers /\ prog'[op] = 1
  BY <1>1, InstructionTells
<1>3. NextInstruction(op) = "head" =>
         \/ ToolOf[op] = "git_commit" /\ prog'[op] = 1
         \/ ToolOf[op] = "git_raw" /\ prog'[op] = 2
  BY <1>1, InstructionTells
<1>4. NextInstruction(op) = "upstream" =>
         \/ ToolOf[op] = "git_fetch" /\ prog'[op] = 1
         \/ ToolOf[op] = "prepare_branch" /\ prog'[op] > 1
  BY <1>1, InstructionTells
<1>5. NextInstruction(op) = "switch" => ToolOf[op] = "prepare_branch" /\ prog'[op] = 4
  BY <1>1, InstructionTells
<1>6. /\ ToolOf[op] = "git_commit" => Len(ProgramOf(op)) = 1
      /\ ToolOf[op] = "git_raw" => Len(ProgramOf(op)) = 2
      /\ ToolOf[op] = "prepare_branch" => Len(ProgramOf(op)) = 4
  BY ProgramShape
<1> QED
  BY <1>2, <1>3, <1>4, <1>5, <1>6 DEF IndexOf, HeadOf, SentFrom, FetchedBy, ProgramOf

\* The worker's step leaves a state of its clone that the calls explain.
LEMMA HandlerStepExplains ==
  ASSUME ServiceInv, HistoryInv, NEW op \in Ops, HandlerStep(op), NEW d, d = DeclarationOf[op]
  PROVE  RemoteInv(d)'
<1>1. Unfinished(op) /\ Advance(op) /\ prog[op] \in Nat /\ prog \in [Ops -> Nat]
  BY HandlerStepFrame DEF HandlerStep, ServiceInv, DataTypeOK
<1>2. PICK s \in GitStates : s = git[d]
  BY WorkerSees
<1>3. PICK t : t = git'[d]
  OBVIOUS
<1>4. PICK pre \in GitStates : pre = entry[op].pre
  BY WorkerSees
<1>5. d \in Declarations /\ Explained(d, s) /\ Explained(d, pre)
  BY <1>2, <1>4, WorkerSees
<1>6. Explained(d, s)' /\ Explained(d, pre)'
  BY <1>1, <1>5, WritersStay
<1>7. NextInstruction(op) \in LocalEffects \cup {"step", "unseen", "remote", "other"}
  BY HandlerStepFrame
<1>8. op # Origin /\ op # Untracked /\ Origin \notin Ops /\ Untracked \notin Ops
      /\ s["head"] # op /\ s["head"] # Untracked
      /\ (NextInstruction(op) \in {"head", "upstream"} => s["upstream"] # op)
  BY <1>2, WorkerSees
<1>9. s["upstream"] = s["head"] => remote[d] = s["head"]
  BY <1>2, <1>5 DEF HistoryInv, RemoteInv
<1>10. ToolOf[op] = "git_push" =>
          /\ s["head"] = pre["head"]
          /\ prog[op] = 2 => remote[d] = pre["head"]
  BY <1>2, <1>4, WorkerSees DEF WorksOn
<1>11. Explained(d, t)' /\ (t["upstream"] = t["head"] => remote'[d] = t["head"])
  <2>1. CASE NextInstruction(op) \in {"step", "unseen", "other"}
    <3>1. t = s /\ remote'[d] = remote[d]
      BY <1>2, <1>3, <2>1, HandlerWrites
    <3> QED
      BY <1>6, <1>9, <3>1
  <2>2. CASE NextInstruction(op) = "remote"
    <3>1. t = s /\ remote'[d] = pre["head"] /\ ToolOf[op] = "git_push"
      BY <1>1, <1>2, <1>3, <1>4, <2>2, HandlerWrites, InstructionTells
    <3> QED
      BY <1>6, <1>10, <3>1
  <2>3. CASE NextInstruction(op) = "index"
    <3>1. t["index"] = op /\ t["head"] = s["head"] /\ t["upstream"] = s["upstream"]
          /\ remote'[d] = remote[d]
      BY <1>2, <1>3, <2>3, HandlerWrites
    <3>2. IndexOf(op)'
      BY <2>3, WorkerLeaves
    <3> QED
      BY <1>6, <1>9, <3>1, <3>2 DEF Explained
  <2>4. CASE NextInstruction(op) = "head"
    <3>1. t["index"] = s["index"] /\ t["head"] = op /\ t["upstream"] = s["upstream"]
      BY <1>2, <1>3, <2>4, HandlerWrites
    <3>2. SentFrom(op)'
      BY <2>4, WorkerLeaves
    <3>3. HeadOf(op)' /\ ToolOf[op] # "prepare_branch"
      BY <3>2 DEF SentFrom
    <3> QED
      BY <1>6, <1>8, <2>4, <3>1, <3>3 DEF Explained
  <2>5. CASE NextInstruction(op) = "upstream"
    <3>1. t["index"] = s["index"] /\ t["head"] = s["head"]
          /\ (s["upstream"] = Untracked => t["upstream"] = Untracked)
          /\ (s["upstream"] # Untracked => t["upstream"] = op)
      BY <1>2, <1>3, <2>5, HandlerWrites
    <3>2. FetchedBy(op)'
      BY <2>5, WorkerLeaves
    <3> QED
      BY <1>6, <1>8, <3>1, <3>2 DEF Explained
  <2>6. CASE NextInstruction(op) = "track"
    <3>1. t["index"] = s["index"] /\ t["head"] = s["head"] /\ remote'[d] = remote[d]
          /\ (s["upstream"] = Untracked => t["upstream"] = Untracked)
          /\ (s["upstream"] # Untracked => t["upstream"] = pre["head"])
      BY <1>2, <1>3, <1>4, <2>6, HandlerWrites
    <3>2. s["head"] = pre["head"] /\ remote[d] = pre["head"]
      BY <1>1, <1>10, <2>6, InstructionTells
    <3>3. s["head"] # Origin /\ s["upstream"] # Untracked =>
             s["head"] \in Ops /\ HeadOf(s["head"])' /\ ToolOf[s["head"]] # "prepare_branch"
      BY <1>6 DEF Explained
    <3>4. s["head"] # Origin /\ s["upstream"] # Untracked => s["head"] \in Ops /\ SentFrom(s["head"])'
      BY <3>3 DEF SentFrom
    <3> QED
      BY <1>6, <1>8, <3>1, <3>2, <3>4 DEF Explained
  <2>7. CASE NextInstruction(op) = "switch"
    <3>1. t["index"] = s["index"] /\ t["head"] = op /\ t["upstream"] = Untracked
      BY <1>2, <1>3, <2>7, HandlerWrites
    <3>2. HeadOf(op)' /\ ToolOf[op] = "prepare_branch"
      BY <2>7, WorkerLeaves
    <3> QED
      BY <1>6, <1>8, <3>1, <3>2 DEF Explained
  <2> QED
    BY <1>7, <2>1, <2>2, <2>3, <2>4, <2>5, <2>6, <2>7 DEF LocalEffects, Facets
<1>12. Explained(d, git[d])'
  BY <1>3, <1>11 DEF Explained
<1> QED
  BY <1>3, <1>11, <1>12 DEF RemoteInv

\* Of the call that works the rest holds still: it found none of its own marks,
\* and a push moves nothing but the remote and the ref that follows it.
LEMMA HandlerStepKeepsOwnTree ==
  ASSUME ServiceInv, HistoryInv, NEW op \in Ops, HandlerStep(op), NEW d, d = DeclarationOf[op]
  PROVE  TreeInv(op)'
<1>1. /\ Unfinished(op) /\ Advance(op) /\ prog[op] \in Nat /\ prog'[op] = prog[op] + 1
      /\ prog \in [Ops -> Nat] /\ entry'[op].pre = entry[op].pre
      /\ entry'[op].state = entry[op].state /\ entry'[op].steps >= entry[op].steps
      /\ (NextInstruction(op) = "step" => entry'[op].steps > 0)
      /\ entry[op].steps \in Nat /\ entry'[op].steps \in Nat
      /\ wire' = wire /\ ChildRuns(op)
  <2>1. entry[op].steps \in Nat
    BY DEF ServiceInv, DataTypeOK, JournalTypeOK
  <2>2. entry'[op].steps \in Nat
    BY EffectsKeepDataType DEF ServiceInv, DataTypeOK, JournalTypeOK
  <2> QED
    BY <2>1, <2>2, HandlerStepFrame DEF HandlerStep, ServiceInv, DataTypeOK
<1>2. PICK pre \in GitStates : pre = entry[op].pre
  BY WorkerSees
<1>3. PICK s : s = git[d]
  OBVIOUS
<1>4. PICK t : t = git'[d]
  OBVIOUS
<1>5. TreeInv(op) /\ WorksOn(op) /\ op \in Begun /\ d \in Declarations /\ op # Origin
      /\ op # Untracked
  BY WorkerSees DEF HistoryInv
<1>6. Explained(d, pre)' /\ pre["head"] # op /\ pre["index"] # op /\ pre["upstream"] # op
  BY <1>1, <1>2, WorkerSees, WritersStay DEF Facets
<1>7. op \in Begun'
  BY <1>1, <1>5 DEF Begun
<1>8. op \notin wire'
  BY <1>1 DEF ServiceInv, CallInv, ChildRuns
<1>9. StepsFirst(op)'
  <2>1. CASE prog[op] = 0
    BY <1>1, <2>1, InstructionTells DEF StepsFirst
  <2>2. CASE prog[op] > 0
    BY <1>1, <1>5, <2>2 DEF TreeInv, StepsFirst
  <2> QED
    BY <1>1, <2>1, <2>2
<1>10. WorksOn(op)'
  <2>1. ASSUME ToolOf[op] = "git_push"
        PROVE  t["head"] = pre["head"]
    <3>1. s["head"] = pre["head"]
      BY <1>2, <1>3, <1>5, <2>1 DEF WorksOn
    <3>2. NextInstruction(op) \in {"step", "unseen", "remote", "track"}
      BY <1>1, <2>1, InstructionTells DEF LocalEffects, Facets, Stagers, Pushes
    <3> QED
      BY <1>3, <1>4, <3>1, <3>2, HandlerWrites
  <2>2. ASSUME ToolOf[op] = "git_push", prog'[op] = 2
        PROVE  remote'[d] = pre["head"] /\ FastForward(op)'
    <3>1. NextInstruction(op) = "remote"
      BY <1>1, <2>2, InstructionTells
    <3>2. remote'[d] = pre["head"] /\ FastForward(op) /\ t = s
      BY <1>2, <1>3, <1>4, <3>1, HandlerWrites
    <3> QED
      BY <1>3, <1>4, <3>2 DEF FastForward
  <2> QED
    BY <1>1, <1>2, <1>4, <2>1, <2>2 DEF WorksOn
<1>11. ShowsIn(op)'
  <2>1. ASSUME ToolOf[op] \in Stagers
        PROVE  t["index"] # pre["index"]
    BY <1>1, <1>4, <1>6, <2>1, InstructionTells, HandlerWrites
  <2>2. ASSUME ToolOf[op] = "git_commit"
        PROVE  t["head"] # pre["head"]
    BY <1>1, <1>4, <1>6, <2>2, InstructionTells, HandlerWrites
  <2>3. ASSUME ToolOf[op] = "git_fetch", pre["upstream"] # Untracked
        PROVE  t["upstream"] = op
    <3>1. NextInstruction(op) = "upstream" /\ prog[op] = 0
      BY <1>1, <2>3, InstructionTells
    <3>2. s = pre
      BY <1>2, <1>3, <1>5, <3>1 DEF WorksOn
    <3>3. git[d]["upstream"] # Untracked
      BY <1>3, <2>3, <3>2
    <3> QED
      BY <1>4, <3>1, <3>3, HandlerWrites
  <2> QED
    BY <1>1, <1>2, <1>4, <1>6, <2>1, <2>2, <2>3 DEF ShowsIn, Fetchers
<1>12. (Explained(DeclarationOf[op], entry[op].pre) /\ \A f \in Facets : entry[op].pre[f] # op)'
  <2>1. \A f \in Facets : entry'[op].pre[f] # op
    BY <1>1, <1>2, <1>6 DEF Facets
  <2>2. Explained(DeclarationOf[op], entry[op].pre)'
    BY <1>1, <1>2, <1>6 DEF Explained
  <2> QED
    BY <2>1, <2>2
<1> QED
  BY <1>7, <1>8, <1>9, <1>10, <1>11, <1>12 DEF TreeInv

\* And of every other call: no later writer puts back what it found, and of what
\* a fetch has moved the push that tracks has not landed.
LEMMA HandlerStepKeepsOtherTrees ==
  ASSUME ServiceInv, HistoryInv, NEW op \in Ops, HandlerStep(op), NEW b \in Ops \ {op}
  PROVE  TreeInv(b)'
<1> DEFINE d == DeclarationOf[op]
<1>1. /\ Unfinished(op) /\ Advance(op) /\ prog[op] \in Nat /\ prog'[op] = prog[op] + 1
      /\ prog \in [Ops -> Nat] /\ entry'[b] = entry[b] /\ prog'[b] = prog[b] /\ ~ChildRuns(b)
      /\ UNCHANGED <<pc, handler, wire>> /\ ChildRuns(op)
      /\ \A x \in Ops : entry'[x].startedAt = entry[x].startedAt
  BY HandlerStepFrame DEF HandlerStep, ServiceInv, DataTypeOK
<1>2. PICK pre \in GitStates : pre = entry[b].pre
  BY DEF ServiceInv, DataTypeOK, JournalTypeOK
<1>3. TreeInv(b) /\ CallInv(b) /\ DeclarationOf[b] \in Declarations
  BY DeclarationIsDeclared DEF HistoryInv, ServiceInv
<1>4. \A x \in Ops : prog'[x] >= prog[x] /\ prog'[x] \in Nat /\ prog[x] \in Nat
  BY <1>1, WritersStay DEF Advance
<1>5. Overtaken(b) => Overtaken(b)'
  BY <1>1, <1>4 DEF Overtaken
<1>6. ASSUME b \in Begun
      PROVE  /\ Explained(DeclarationOf[b], pre) /\ Explained(DeclarationOf[b], pre)'
             /\ Explained(DeclarationOf[b], entry[b].pre)'
             /\ \A f \in Facets : entry'[b].pre[f] # b
  <2>1. Explained(DeclarationOf[b], pre) /\ \A f \in Facets : pre[f] # b
    BY <1>2, <1>3, <1>6 DEF TreeInv
  <2>2. Explained(DeclarationOf[b], pre)'
    BY <1>1, <1>3, <2>1, WritersStay
  <2>3. Explained(DeclarationOf[b], entry[b].pre)'
    BY <1>1, <1>2, <2>2 DEF Explained
  <2> QED
    BY <1>1, <1>2, <2>1, <2>2, <2>3
<1>7. StepsFirst(b)' /\ (prog'[b] > 0 => b \in Begun') /\ (b \in Begun' <=> b \in Begun)
      /\ ~ChildRuns(b)'
  BY <1>1, <1>3 DEF TreeInv, StepsFirst, Begun, ChildRuns
<1>8. CASE DeclarationOf[b] # d
  <2>1. git'[DeclarationOf[b]] = git[DeclarationOf[b]]
    BY <1>3, <1>8, HandlerStepFrame
  <2>2. ShowsIn(b)'
    BY <1>1, <1>3, <2>1 DEF TreeInv, ShowsIn
  <2> QED
    BY <1>1, <1>3, <1>5, <1>6, <1>7, <2>1, <2>2 DEF TreeInv
<1>9. CASE DeclarationOf[b] = d
  <2>1. PICK s \in GitStates : s = git[d]
    BY WorkerSees
  <2>2. PICK t : t = git'[d]
    OBVIOUS
  <2>3. NextInstruction(op) \in LocalEffects \cup {"step", "unseen", "remote", "other"}
        /\ op # Origin /\ op # Untracked /\ s["head"] # op /\ s["head"] # Untracked
        /\ Untracked \notin Ops
        /\ (NextInstruction(op) \in {"head", "upstream"} => s["upstream"] # op)
    BY <2>1, WorkerSees, HandlerStepFrame
  <2>4. ~HeadOf(op) /\ ~IndexOf(op) /\ ~SentFrom(op)
        /\ (NextInstruction(op) = "upstream" => ~FetchedBy(op) /\ ToolOf[op] \in Fetchers)
    <3>1. ~HeadOf(op) /\ ~IndexOf(op) /\ ~SentFrom(op)
          /\ (FetchedBy(op) => ToolOf[op] = "prepare_branch" /\ prog[op] > 1)
      BY <1>1, UnfinishedLeftNothing
    <3> QED
      BY <1>1, <3>1, InstructionTells DEF Fetchers
  <2>5. ASSUME b \in Begun
        PROVE  /\ pre["head"] # op /\ pre["index"] # op
               /\ NextInstruction(op) = "upstream" => pre["upstream"] # op
    BY <1>6, <2>3, <2>4, <2>5 DEF Explained
  <2>6. NextInstruction(op) = "track" =>
           /\ ToolOf[op] = "git_push" /\ prog[op] = 2
           /\ s["upstream"] \in Ops => ToolOf[s["upstream"]] \notin Fetchers
    <3>1. NextInstruction(op) = "track" => ToolOf[op] = "git_push" /\ prog[op] = 2
      BY <1>1, InstructionTells
    <3>2. ToolOf[op] = "git_push" /\ prog[op] = 2 => FastForward(op)
      BY WorkerSees DEF WorksOn
    <3> QED
      BY <2>1, <3>1, <3>2 DEF FastForward, Fetchers
  <2>7. ASSUME prog[b] > 0, ToolOf[b] \in Stagers
        PROVE  t["index"] # pre["index"]
    <3>1. s["index"] # pre["index"] /\ b \in Begun
      BY <1>2, <1>3, <1>9, <2>1, <2>7 DEF TreeInv, ShowsIn
    <3>2. t["index"] \in {s["index"], op}
      BY <2>1, <2>2, <2>3, HandlerWrites DEF LocalEffects, Facets
    <3> QED
      BY <2>5, <3>1, <3>2
  <2>8. ASSUME prog[b] > 0, ToolOf[b] = "git_commit"
        PROVE  t["head"] # pre["head"]
    <3>1. s["head"] # pre["head"] /\ b \in Begun
      BY <1>2, <1>3, <1>9, <2>1, <2>8 DEF TreeInv, ShowsIn
    <3>2. t["head"] \in {s["head"], op}
      BY <2>1, <2>2, <2>3, HandlerWrites DEF LocalEffects, Facets
    <3> QED
      BY <2>5, <3>1, <3>2
  <2>9. ASSUME prog[b] > 0, ToolOf[b] = "git_fetch", pre["upstream"] # Untracked
        PROVE  /\ t["upstream"] # pre["upstream"]
               /\ t["upstream"] = Untracked
                  \/ (t["upstream"] \in Ops /\ ToolOf[t["upstream"]] \in Fetchers)
    <3>1. /\ s["upstream"] # pre["upstream"] /\ b \in Begun
          /\ s["upstream"] = Untracked
             \/ (s["upstream"] \in Ops /\ ToolOf[s["upstream"]] \in Fetchers)
      BY <1>2, <1>3, <1>9, <2>1, <2>9 DEF TreeInv, ShowsIn
    <3>2. CASE NextInstruction(op) = "upstream"
      <4>1. t["upstream"] = op \/ t["upstream"] = Untracked
        BY <2>1, <2>2, <3>2, HandlerWrites
      <4> QED
        BY <2>4, <2>5, <2>9, <3>1, <3>2, <4>1
    <3>3. CASE NextInstruction(op) = "track"
      <4>1. s["upstream"] = Untracked
        BY <2>6, <3>1, <3>3
      <4>2. t["upstream"] = Untracked
        BY <2>1, <2>2, <3>3, <4>1, HandlerWrites
      <4> QED
        BY <2>9, <4>2
    <3>4. CASE NextInstruction(op) = "switch"
      BY <2>1, <2>2, <2>9, <3>4, HandlerWrites
    <3>5. CASE NextInstruction(op) \in {"step", "unseen", "remote", "other", "index", "head"}
      <4>1. t["upstream"] = s["upstream"]
        BY <2>1, <2>2, <3>5, HandlerWrites
      <4> QED
        BY <3>1, <4>1
    <3> QED
      BY <2>3, <3>2, <3>3, <3>4, <3>5 DEF LocalEffects, Facets
  <2>10. ShowsIn(b)'
    BY <1>1, <1>2, <1>9, <2>2, <2>7, <2>8, <2>9 DEF ShowsIn
  <2>11. ASSUME b \in wire, ToolOf[b] = "git_push", t["upstream"] = t["head"]
         PROVE  t["head"] = pre["head"] \/ Overtaken(b)'
    <3>1. s["upstream"] = s["head"] => s["head"] = pre["head"] \/ Overtaken(b)
      BY <1>2, <1>3, <1>9, <2>1, <2>11 DEF TreeInv
    <3>2. CASE NextInstruction(op) \in {"step", "unseen", "remote", "other", "index"}
      <4>1. t["upstream"] = s["upstream"] /\ t["head"] = s["head"]
        BY <2>1, <2>2, <3>2, HandlerWrites
      <4> QED
        BY <1>5, <2>11, <3>1, <4>1
    <3>3. CASE NextInstruction(op) = "head"
      <4>1. t["upstream"] = s["upstream"] /\ t["head"] = op
        BY <2>1, <2>2, <3>3, HandlerWrites
      <4> QED
        BY <2>3, <2>11, <3>3, <4>1
    <3>4. CASE NextInstruction(op) = "upstream"
      <4>1. t["upstream"] \in {op, Untracked} /\ t["head"] = s["head"]
        BY <2>1, <2>2, <3>4, HandlerWrites
      <4> QED
        BY <2>3, <2>11, <4>1
    <3>5. CASE NextInstruction(op) = "switch"
      <4>1. t["upstream"] = Untracked /\ t["head"] = op
        BY <2>1, <2>2, <3>5, HandlerWrites
      <4> QED
        BY <2>3, <2>11, <4>1
    <3>6. CASE NextInstruction(op) = "track"
      <4>1. ToolOf[op] = "git_push" /\ prog'[op] > 1
        BY <1>1, <2>6, <3>6
      <4>2. b \in Begun
        BY <1>3, <2>11 DEF TreeInv, CallInv
      <4>3. entry[b].startedAt < entry[op].startedAt
        BY <1>1, <4>2 DEF HistoryInv, OrderInv, ChildRuns
      <4>4. Overtaken(b)'
        BY <1>1, <1>9, <4>1, <4>3 DEF Overtaken
      <4> QED
        BY <4>4
    <3> QED
      BY <2>3, <3>2, <3>3, <3>4, <3>5, <3>6 DEF LocalEffects, Facets
  <2> QED
    BY <1>1, <1>2, <1>6, <1>7, <1>9, <2>2, <2>10, <2>11 DEF TreeInv
<1> QED
  BY <1>8, <1>9

\* A late landing of the branch checked out moves only the remote, and only where
\* no later push has; one of another branch moves nothing that is followed.
LEMMA LateLandingKeepsHistory ==
  ASSUME ServiceInv, HistoryInv, NEW op \in Ops, LateLanding(op)
  PROVE  HistoryInv'
<1> DEFINE d == DeclarationOf[op]
           lands == NextInstruction(op) = "remote"
<1>1. /\ op \in wire /\ wire' = wire \ {op} /\ Advance(op)
      /\ IF lands THEN ~Overtaken(op) /\ remote' = [remote EXCEPT ![d] = Pushed(op)]
                  ELSE NextInstruction(op) = "other" /\ remote' = remote
      /\ UNCHANGED <<git, entry, pc, handler>>
  BY DEF LateLanding, LandPush, LandElsewhere, callVars, journalVars, treeVars
<1>2. /\ prog \in [Ops -> Nat] /\ d \in Declarations /\ entry \in [Ops -> [state : EntryStates,
                                         pre : GitStates, steps : Nat, startedAt : Nat]]
      /\ remote \in [Declarations -> Ops \cup {Origin, Untracked}]
      /\ git \in [Declarations -> GitStates]
  BY DeclarationIsDeclared DEF ServiceInv, DataTypeOK, JournalTypeOK
<1>3. ToolOf[op] \in Pushes /\ prog[op] = 1 /\ handler[op] = "ended"
  BY <1>1 DEF ServiceInv, CallInv
<1>4. Unfinished(op) /\ (lands <=> ToolOf[op] = "git_push")
  <2>1. CASE ToolOf[op] = "git_push"
    <3>1. ProgramOf(op) = <<"step", "remote", "track">>
      BY <2>1, ProgramShape
    <3> QED
      BY <1>3, <2>1, <3>1 DEF Unfinished, NextInstruction
  <2>2. CASE ToolOf[op] = "push_elsewhere"
    <3>1. ProgramOf(op) = <<"step", "other", "unseen">>
      BY <2>2, ProgramShape
    <3> QED
      BY <1>3, <2>2, <3>1 DEF Unfinished, NextInstruction
  <2> QED
    BY <1>3, <2>1, <2>2 DEF Pushes
<1>5. /\ prog'[op] = 2 /\ \A b \in Ops \ {op} : prog'[b] = prog[b]
      /\ \A b \in Ops : prog'[b] >= prog[b] /\ prog'[b] \in Nat
      /\ remote'[d] = IF lands THEN entry[op].pre["head"] ELSE remote[d]
      /\ \A e \in Declarations \ {d} : remote'[e] = remote[e]
  BY <1>1, <1>2, <1>3 DEF Advance, Pushed
<1>6. \A e \in Declarations, state \in GitStates : Explained(e, state) => Explained(e, state)'
  BY <1>1, <1>2, <1>4, WritersStay
<1>7. Begun' = Begun
  BY <1>1 DEF Begun
<1>8. OrderInv'
  BY <1>1, <1>7 DEF HistoryInv, OrderInv
<1>9. ASSUME NEW e \in Declarations
      PROVE  RemoteInv(e)'
  <2>1. RemoteInv(e) /\ git[e] \in GitStates
    BY <1>2 DEF HistoryInv
  <2>2. Explained(e, git[e])'
    BY <1>1, <1>6, <2>1 DEF RemoteInv
  <2>3. CASE e # d
    BY <1>1, <1>5, <2>1, <2>2, <2>3 DEF RemoteInv
  <2>4. CASE e = d
    <3>1. lands /\ git[d]["upstream"] = git[d]["head"] => git[d]["head"] = entry[op].pre["head"]
      BY <1>1, <1>4 DEF HistoryInv, TreeInv
    <3>2. git'[d] = git[d] /\ (git[d]["upstream"] = git[d]["head"] => remote[d] = git[d]["head"])
      BY <1>1, <2>1, <2>4 DEF RemoteInv
    <3> QED
      BY <1>5, <2>2, <2>4, <3>1, <3>2 DEF RemoteInv
  <2> QED
    BY <2>3, <2>4
<1>10. ASSUME NEW b \in Ops
       PROVE  TreeInv(b)'
  <2>1. TreeInv(b) /\ entry[b].pre \in GitStates /\ DeclarationOf[b] \in Declarations
    BY <1>2, DeclarationIsDeclared DEF HistoryInv
  <2>2. b \in Begun => (Explained(DeclarationOf[b], entry[b].pre)
                        /\ \A f \in Facets : entry[b].pre[f] # b)'
    BY <1>1, <1>6, <2>1 DEF TreeInv
  <2>3. Overtaken(b) => Overtaken(b)'
    BY <1>1, <1>2, <1>5 DEF Overtaken
  <2>4. ShowsIn(b)'
    BY <1>1, <1>3, <1>5, <2>1 DEF TreeInv, ShowsIn, Stagers, Pushes
  <2>5. StepsFirst(b)' /\ (prog'[b] > 0 => b \in Begun')
    BY <1>1, <1>3, <1>5, <1>7, <2>1 DEF TreeInv, StepsFirst
  <2>6. ASSUME ChildRuns(b)'
        PROVE  WorksOn(b)'
    <3>1. ChildRuns(b) /\ b # op /\ WorksOn(b)
      BY <1>1, <1>3, <2>1, <2>6 DEF ChildRuns, TreeInv
    <3>2. CASE DeclarationOf[b] # d \/ ~lands
      <4>1. remote'[DeclarationOf[b]] = remote[DeclarationOf[b]]
        BY <1>1, <1>5, <2>1, <3>2
      <4> QED
        BY <1>1, <1>5, <3>1, <4>1 DEF WorksOn, FastForward
    <3>3. CASE DeclarationOf[b] = d /\ lands
      <4>1. ToolOf[b] = "git_push" => prog[b] # 2
        <5>1. op \in Begun
          BY <1>3 DEF HistoryInv, TreeInv
        <5>2. entry[op].startedAt < entry[b].startedAt
          BY <3>1, <5>1 DEF HistoryInv, OrderInv, ChildRuns
        <5> QED
          BY <1>1, <3>3, <5>2 DEF Overtaken
      <4> QED
        BY <1>1, <1>5, <3>1, <4>1 DEF WorksOn
    <3> QED
      BY <3>2, <3>3
  <2> QED
    BY <1>1, <1>7, <2>1, <2>2, <2>3, <2>4, <2>5, <2>6 DEF TreeInv
<1> QED
  BY <1>8, <1>9, <1>10 DEF HistoryInv

\* Before anything has happened there is nothing to explain.
LEMMA InitHasHistoryInv == Init => HistoryInv
<1> SUFFICES ASSUME Init
             PROVE  HistoryInv
  OBVIOUS
<1>1. /\ \A op \in Ops : pc[op] = "idle" /\ prog[op] = 0 /\ op \notin wire
                         /\ entry[op].state = "none"
      /\ git = [d \in Declarations |-> Pristine] /\ remote = [d \in Declarations |-> Origin]
  BY DEF Init, DispatchInit, JournalInit, NoEntry
<1>2. Begun = {}
  BY <1>1 DEF Begun
<1>3. OrderInv
  BY <1>1, <1>2 DEF OrderInv
<1>4. ASSUME NEW op \in Ops
      PROVE  TreeInv(op)
  <2>1. ~ChildRuns(op) /\ ~(prog[op] > 0) /\ op \notin wire /\ op \notin Begun
    BY <1>1, <1>2 DEF ChildRuns
  <2> QED
    BY <2>1 DEF TreeInv, ShowsIn, StepsFirst
<1>5. \A d \in Declarations : RemoteInv(d)
  <2>1. \A d \in Declarations : git[d] = Pristine /\ remote[d] = Origin
    BY <1>1
  <2>2. Pristine["head"] = Origin /\ Pristine["index"] = Origin /\ Pristine["upstream"] = Origin
    BY DEF Pristine, Facets
  <2>3. Origin \notin Ops /\ Untracked # Origin
    BY ToolsAssumption
  <2> QED
    BY <2>1, <2>2, <2>3 DEF RemoteInv, Explained
<1> QED
  BY <1>3, <1>4, <1>5 DEF HistoryInv

\* Every step of the service keeps the history.
LEMMA StepKeepsHistoryInv == ServiceInv /\ HistoryInv /\ [Next]_serviceVars => HistoryInv'
<1> SUFFICES ASSUME ServiceInv, HistoryInv, [Next]_serviceVars
             PROVE  HistoryInv'
  OBVIOUS
<1>1. ASSUME NEW op \in Ops, HandlerStep(op)
      PROVE  HistoryInv'
  <2>1. /\ UNCHANGED pc
        /\ \A b \in Ops : /\ entry'[b].startedAt = entry[b].startedAt
                          /\ entry'[b].state = entry[b].state
    BY <1>1, HandlerStepFrame
  <2>2. Begun' = Begun
    BY <2>1 DEF Begun
  <2>3. OrderInv'
    BY <2>1, <2>2 DEF HistoryInv, OrderInv, Begun
  <2>4. \A b \in Ops : TreeInv(b)'
    BY <1>1, HandlerStepKeepsOwnTree, HandlerStepKeepsOtherTrees
  <2>5. ASSUME NEW e \in Declarations
        PROVE  RemoteInv(e)'
    <3>1. CASE e = DeclarationOf[op]
      BY <1>1, <3>1, HandlerStepExplains
    <3>2. CASE e # DeclarationOf[op]
      <4>1. git'[e] = git[e] /\ remote'[e] = remote[e]
        BY <1>1, <3>2, HandlerStepFrame
      <4>2. PICK s \in GitStates : s = git[e]
        BY DEF ServiceInv, DataTypeOK
      <4>3. Unfinished(op) /\ Advance(op) /\ prog \in [Ops -> Nat]
        BY <1>1 DEF HandlerStep, ServiceInv, DataTypeOK
      <4>4. RemoteInv(e) /\ Explained(e, s)
        BY <4>2 DEF HistoryInv, RemoteInv
      <4>5. Explained(e, s)'
        BY <4>3, <4>4, WritersStay
      <4>6. Explained(e, git[e])'
        BY <4>1, <4>2, <4>5 DEF Explained
      <4> QED
        BY <4>1, <4>4, <4>6 DEF RemoteInv
    <3> QED
      BY <3>1, <3>2
  <2> QED
    BY <2>3, <2>4, <2>5 DEF HistoryInv
<1> QED
  BY <1>1, StepsKeepHistory, SameHistoryKeepsInv, BeginKeepsHistory, LateLandingKeepsHistory

\* What the calls have left in their clones is always explained.
LEMMA HistoryInvariant == Spec => [](ServiceInv /\ HistoryInv)
<1>1. Init => ServiceInv /\ HistoryInv
  BY InitHasServiceInv, InitHasHistoryInv
<1>2. ServiceInv /\ HistoryInv /\ [Next]_serviceVars => (ServiceInv /\ HistoryInv)'
  BY StepKeepsServiceInv, StepKeepsHistoryInv
<1> QED
  BY <1>1, <1>2, PTL DEF Spec

-----------------------------------------------------------------------------
\* What recovery forgets.

\* What no observation shows: a base that is brought up to date, and a fetch on a
\* branch that tracks nothing.
Unseen(op) ==
    \/ ToolOf[op] = "sync_base"
    \/ ToolOf[op] = "git_fetch" /\ entry[op].pre["upstream"] = Untracked

\* A call of which nothing is at work any more, here or on its way to the remote.
Over(op) == pc[op] \in Ended /\ handler[op] \in {"none", "ended"} /\ op \notin wire

\* It stays over, and what it has done stays what it was.
LEMMA OverStaysOver ==
  ASSUME ServiceInv, [Next]_serviceVars, NEW b \in Ops, Over(b)
  PROVE  Over(b)' /\ prog'[b] = prog[b]
<1> USE DEF Over
<1>1. ASSUME NEW op \in Ops, CallStep(op)
      PROVE  Over(b)' /\ prog'[b] = prog[b]
  <2>1. CASE b # op
    <3>1. SameCall(b)
      BY <1>1, <2>1, CallsMoveAlone DEF ServiceInv, LockInv
    <3> QED
      BY <3>1 DEF SameCall
  <2>2. CASE b = op
    <3>1. WriteAudit(op) /\ pc[op] # "audit"
      BY <1>1, <2>2 DEF CallStep, Arrive, ArriveFirst, ArriveRecovering, GiveUpMaterialisation,
            Ensured, RefuseHolding, GiveUpMutation, BeginCall, HandlerStep, ChildRuns, LateLanding,
            HandlerReturns, RawAudits, LimitFires, SettleCall, ParkCall, MarkCall, RawFinishes,
            RawReturns, RawLimitFires, WriteAudit, Ended
    <3> QED
      BY <2>2, <3>1 DEF WriteAudit, handlerVars, ServiceInv, LockInv
  <2> QED
    BY <2>1, <2>2
<1>2. ASSUME NEW d \in Declarations, PassStep(d)
      PROVE  Over(b)' /\ prog'[b] = prog[b]
  BY <1>2, PassStaysInFrame DEF PassFrame, LetIn, Ended
<1>3. ASSUME NEW o \in Operators, NEW op \in Ops, ResolveParked(o, op)
      PROVE  Over(b)' /\ prog'[b] = prog[b]
  BY <1>3 DEF ResolveParked, handlerVars
<1>4. ASSUME NEW o \in Operators, ClearParked(o)
      PROVE  Over(b)' /\ prog'[b] = prog[b]
  BY <1>4 DEF ClearParked, handlerVars
<1>5. CASE CrashAndBoot
  BY <1>5 DEF CrashAndBoot, OnTheWire
<1>6. CASE UNCHANGED serviceVars
  BY <1>6 DEF serviceVars, dispatchVars, callVars, handlerVars
<1> QED
  BY <1>1, <1>2, <1>3, <1>4, <1>5, <1>6 DEF Next, Idle

\* Only a pass settles an entry as forgotten or as completed: the one it is at.
LEMMA VerdictsComeFromPasses ==
  ASSUME ServiceInv, [Next]_serviceVars, NEW b \in Ops, closedBy'[b] # closedBy[b],
         closedBy'[b] \in {"forgotten", "completed"}
  PROVE  \E d \in Declarations :
            /\ PassStep(d) /\ b = Current(d) /\ b \in pass[d].todo
            /\ \/ ForgetEntry(d) /\ closedBy'[b] = "forgotten"
               \/ CompleteEntry(d) /\ closedBy'[b] = "completed"
               \/ ResumeEnds(d) /\ Classify(b, git[d]) = "completed"
                  /\ closedBy'[b] = "completed"
<1>0. closedBy \in [Ops -> {"nobody", "call", "forgotten", "completed", "human"}]
  BY DEF ServiceInv, DataTypeOK
<1>1. ASSUME NEW op \in Ops, CallStep(op)
      PROVE  FALSE
  <2>1. UNCHANGED closedBy \/ SettledBy(op, "call")
    BY <1>1 DEF CallStep, Arrive, ArriveFirst, ArriveRecovering, GiveUpMaterialisation,
            Ensured, RefuseHolding, GiveUpMutation, BeginCall, HandlerStep, LateLanding,
            HandlerReturns, RawAudits, LimitFires, SettleCall, ParkCall, MarkCall, RawFinishes,
            RawReturns, RawLimitFires, WriteAudit
  <2> QED
    BY <1>0, <2>1 DEF SettledBy
<1>2. ASSUME NEW o \in Operators, NEW op \in Ops, ResolveParked(o, op)
      PROVE  FALSE
  BY <1>0, <1>2 DEF ResolveParked, SettledBy
<1>3. ASSUME NEW o \in Operators, ClearParked(o)
      PROVE  FALSE
  BY <1>3 DEF ClearParked
<1>4. CASE CrashAndBoot \/ UNCHANGED serviceVars
  BY <1>4 DEF CrashAndBoot, serviceVars, dispatchVars
<1>5. ASSUME NEW d \in Declarations, PassStep(d)
      PROVE  /\ b = Current(d) /\ b \in pass[d].todo
             /\ \/ ForgetEntry(d) /\ closedBy'[b] = "forgotten"
                \/ CompleteEntry(d) /\ closedBy'[b] = "completed"
                \/ ResumeEnds(d) /\ Classify(b, git[d]) = "completed"
                   /\ closedBy'[b] = "completed"
  <2>1. b = Current(d) /\ b \in pass[d].todo
    BY <1>5, PassStaysInFrame DEF PassFrame, DecidesCurrent
  <2>2. \/ ForgetEntry(d) /\ SettledBy(Current(d), "forgotten")
        \/ CompleteEntry(d) /\ SettledBy(Current(d), "completed")
        \/ ResumeEnds(d) /\ Classify(Current(d), git[d]) = "completed"
           /\ SettledBy(Current(d), "completed")
    BY <1>5 DEF PassStep, FirstUse, SweepVisits, RemarkParked, ForgetEntry, CompleteEntry,
                SettleEntry, ParkEntry, ParkCurrent, ObservationFails, MarkEntry, ResumeEntry,
                ResumeEnds, PassEnds, PassDone, dispatchVars
  <2> QED
    BY <1>0, <2>1, <2>2 DEF SettledBy
<1> QED
  BY <1>1, <1>2, <1>3, <1>4, <1>5 DEF Next, Idle

\* A call without a step whose clone is as it found it has done nothing that is
\* observed.
LEMMA ForgottenShowsNothing ==
  ASSUME ServiceInv, HistoryInv, NEW b \in Ops, entry[b].steps = 0,
         git[DeclarationOf[b]] = entry[b].pre
  PROVE  prog[b] = 0 \/ Unseen(b)
<1>1. ShowsIn(b) /\ StepsFirst(b) /\ prog[b] \in Nat
  BY DEF HistoryInv, TreeInv, ServiceInv, DataTypeOK
<1>2. ToolOf[b] \in Stagers \cup {"git_commit", "git_fetch", "git_push", "push_elsewhere",
                                  "sync_base", "prepare_branch", "git_raw",
                                  "pr_enable_auto_merge"}
  BY ProgramShape
<1> QED
  BY <1>1, <1>2 DEF ShowsIn, StepsFirst, Unseen, Pushes

\* The entry a pass forgets is one of those.
LEMMA ForgettingTells ==
  ASSUME ServiceInv, NEW d \in Declarations, ForgetEntry(d), NEW b \in Ops, b = Current(d),
         b \in pass[d].todo
  PROVE  DeclarationOf[b] = d /\ entry[b].steps = 0 /\ git[d] = entry[b].pre /\ Over(b)
         /\ b \in Begun
<1>1. Verdict(d) = "nothing-happened"
  BY DEF ForgetEntry, SettleEntry
<1>2. entry[b].steps = 0 /\ git[d] = entry[b].pre
  BY <1>1 DEF Verdict, Classify
<1>3. DeclarationOf[b] = d /\ pc[b] \in Ended /\ handler[b] \in {"none", "ended"} /\ b \in Begun
  BY DEF ServiceInv, PassInv, Begun
<1>4. b \notin wire
  BY <1>2 DEF ServiceInv, CallInv
<1> QED
  BY <1>2, <1>3, <1>4 DEF Over

\* What is true of a call whose entry was forgotten.
ForgottenTells(op) ==
    closedBy[op] = "forgotten" => Over(op) /\ op \in Begun /\ (prog[op] = 0 \/ Unseen(op))

\* What has been forgotten stays as it was.
LEMMA StepKeepsForgotten ==
  ASSUME ServiceInv, HistoryInv, [Next]_serviceVars, NEW b \in Ops, ForgottenTells(b)
  PROVE  ForgottenTells(b)'
<1>1. CASE closedBy'[b] # "forgotten"
  BY <1>1 DEF ForgottenTells
<1>2. ASSUME Over(b), b \in Begun, prog[b] = 0 \/ Unseen(b)
      PROVE  Over(b)' /\ b \in Begun' /\ (prog'[b] = 0 \/ Unseen(b)')
  <2>1. Over(b)' /\ prog'[b] = prog[b]
    BY <1>2, OverStaysOver
  <2>2. entry'[b].pre = entry[b].pre /\ (entry'[b].state = "none" <=> entry[b].state = "none")
    <3>1. CASE SameHistory
      BY <3>1 DEF SameHistory, SameRecord
    <3>2. ASSUME NEW op \in Ops, CallStep(op),
                 BeginCall(op) \/ HandlerStep(op) \/ LateLanding(op)
          PROVE  entry'[b] = entry[b]
      <4>1. op # b
        BY <1>2, <3>2 DEF Over, BeginCall, HandlerStep, ChildRuns, LateLanding, Ended
      <4>2. SameCall(b)
        BY <3>2, <4>1, CallsMoveAlone DEF ServiceInv, LockInv
      <4> QED
        BY <4>2 DEF SameCall
    <3> QED
      BY <3>1, <3>2, StepsKeepHistory
  <2> QED
    BY <1>2, <2>1, <2>2 DEF Begun, Unseen
<1>3. CASE closedBy'[b] = "forgotten" /\ closedBy[b] = "forgotten"
  BY <1>2, <1>3 DEF ForgottenTells
<1>4. CASE closedBy'[b] = "forgotten" /\ closedBy[b] # "forgotten"
  <2>1. PICK d \in Declarations : ForgetEntry(d) /\ b = Current(d) /\ b \in pass[d].todo
    BY <1>4, VerdictsComeFromPasses
  <2>2. Over(b) /\ b \in Begun /\ (prog[b] = 0 \/ Unseen(b))
    BY <2>1, ForgettingTells, ForgottenShowsNothing
  <2> QED
    BY <1>2, <2>2 DEF ForgottenTells
<1> QED
  BY <1>1, <1>3, <1>4

\* It is always true.
LEMMA ForgottenInvariant == Spec => [](\A op \in Ops : ForgottenTells(op))
<1>1. Init => \A op \in Ops : ForgottenTells(op)
  BY DEF Init, DispatchInit, ForgottenTells
<1>2. ServiceInv /\ HistoryInv /\ (\A op \in Ops : ForgottenTells(op)) /\ [Next]_serviceVars
         => (\A op \in Ops : ForgottenTells(op))'
  BY StepKeepsForgotten
<1> QED
  BY <1>1, <1>2, HistoryInvariant, PTL DEF Spec

\* A call whose entry recovery settles as `nothing-happened` has no push on its way
\* and has done nothing, unless what it did is in no observation: a base brought
\* up to date, or a fetch on a branch that tracks nothing (journal.classify).
OnlyUnseenForgotten ==
    \A op \in Ops : closedBy[op] = "forgotten" => op \notin wire /\ (~Touched(op) \/ Unseen(op))

\* Recovery forgets nothing else, for any calls, faults and crashes.
THEOREM OnlyTheUnseenIsForgotten == Spec => []OnlyUnseenForgotten
<1>1. (\A op \in Ops : ForgottenTells(op)) => OnlyUnseenForgotten
  BY DEF ForgottenTells, OnlyUnseenForgotten, Over, Touched
<1> QED
  BY <1>1, ForgottenInvariant, PTL

\* The calls whose effects an observation shows: no base is synchronised, and no
\* declaration has both a fetch and a composite that leaves it on a branch that
\* tracks nothing.
EffectsAreSeen ==
    \A op \in Ops :
       /\ ToolOf[op] # "sync_base"
       /\ ToolOf[op] = "git_fetch" =>
             \A p \in Ops : DeclarationOf[p] = DeclarationOf[op] => ToolOf[p] # "prepare_branch"

\* Of those recovery settles as `nothing-happened` only one that changed nothing,
\* and whose push is not on its way, whatever failed and however often the process
\* died (journal.classify).
THEOREM NoActIsForgotten ==
  ASSUME EffectsAreSeen
  PROVE  Spec => []ForgottenNeverActed
<1>1. ServiceInv /\ HistoryInv /\ (\A op \in Ops : ForgottenTells(op)) => ForgottenNeverActed
  <2> SUFFICES ASSUME HistoryInv, NEW op \in Ops, ForgottenTells(op), closedBy[op] = "forgotten"
               PROVE  ~Touched(op) /\ op \notin wire
    BY DEF ForgottenNeverActed
  <2>1. Over(op) /\ op \in Begun /\ (prog[op] = 0 \/ Unseen(op))
    BY DEF ForgottenTells
  <2>2. Explained(DeclarationOf[op], entry[op].pre)
    BY <2>1 DEF HistoryInv, TreeInv
  <2>3. ~Unseen(op)
    BY <2>2 DEF Unseen, Explained, EffectsAreSeen
  <2> QED
    BY <2>1, <2>3 DEF Touched, Over
<1> QED
  BY <1>1, ForgottenInvariant, HistoryInvariant, PTL

-----------------------------------------------------------------------------
\* What recovery completes.

\* An entry still to be closed, of a call that does not close it itself.
LeftOpen(op) == ToolOf[op] # "git_raw" /\ InState(op, {"intended", "applied"})

\* What a pass read as parked, or has parked, is not open again, and what else it
\* has to decide is open still; only a composite is run again.
SnapshotInv(d) ==
    /\ \A op \in pass[d].wasParked : InState(op, {"attention", "settled"})
    /\ \A op \in pass[d].todo \ pass[d].wasParked :
          IF pass[d].state = "marking" /\ op = Current(d)
          THEN InState(op, {"attention", "settled"})
          ELSE InState(op, {"intended", "applied"})
    /\ pass[d].state = "resuming" => ToolOf[Current(d)] = "prepare_branch"

\* Where every write succeeded, a call leaves its entry open only by dying, and the
\* pass decides it before another call acts on its clone, save the composite run
\* again in its place.
OpenInv(op) ==
    LeftOpen(op) =>
       LET p == pass[DeclarationOf[op]] IN
       /\ pc[op] \in Ended => p.state = "none" \/ (op \in p.todo /\ p.state # "done")
       /\ pc[op] # "mark"
       /\ ToolOf[op] # "prepare_branch" =>
             /\ prog[op] = 0 => git[DeclarationOf[op]] = entry[op].pre
             /\ \A o \in Ops \ {op} :
                   DeclarationOf[o] = DeclarationOf[op] => ~LeftOpen(o)

\* An entry closed or parked is not open again, and only a call that begins opens one.
LEMMA StatesMoveOn ==
  ASSUME ServiceInv, [Next]_serviceVars, NEW b \in Ops
  PROVE  /\ InState(b, {"attention", "settled"}) => InState(b, {"attention", "settled"})'
         /\ InState(b, {"intended", "applied"})' => InState(b, {"intended", "applied"}) \/ BeginCall(b)
<1>1. CASE SameHistory
  BY <1>1 DEF SameHistory, SameRecord, InState
<1>2. ASSUME NEW op \in Ops, CallStep(op), BeginCall(op) \/ HandlerStep(op) \/ LateLanding(op)
      PROVE  /\ InState(b, {"attention", "settled"}) => InState(b, {"attention", "settled"})'
             /\ InState(b, {"intended", "applied"})' =>
                   InState(b, {"intended", "applied"}) \/ BeginCall(b)
  <2>1. CASE b # op
    <3>1. SameCall(b)
      BY <1>2, <2>1, CallsMoveAlone DEF ServiceInv, LockInv
    <3> QED
      BY <3>1 DEF SameCall, InState
  <2>2. CASE b = op
    <3>1. HandlerStep(op) \/ LateLanding(op) => entry'[op].state = entry[op].state
      BY HandlerStepFrame DEF LateLanding, LandPush, LandElsewhere, journalVars
    <3>2. BeginCall(op) => entry[op].state = "none"
      BY DEF BeginCall, Begin
    <3> QED
      BY <1>2, <2>2, <3>1, <3>2 DEF InState
  <2> QED
    BY <2>1, <2>2
<1> QED
  BY <1>1, <1>2, StepsKeepHistory

\* No step of a call changes what a pass has to decide.
LEMMA DeadRecordsStay ==
  ASSUME ServiceInv, NEW op \in Ops, CallStep(op), NEW b \in Ops,
         pc[b] \in Ended, handler[b] \in {"none", "ended"}
  PROVE  entry'[b] = entry[b]
<1>1. CASE b # op
  BY <1>1, CallsMoveAlone DEF ServiceInv, LockInv, SameCall
<1>2. CASE b = op
  <2>1. WriteAudit(op) \/ LateLanding(op)
    BY <1>2 DEF CallStep, Arrive, ArriveFirst, ArriveRecovering, GiveUpMaterialisation,
          Ensured, RefuseHolding, GiveUpMutation, BeginCall, HandlerStep, ChildRuns,
          HandlerReturns, RawAudits, LimitFires, SettleCall, ParkCall, MarkCall, RawFinishes,
          RawReturns, RawLimitFires, Ended
  <2> QED
    BY <2>1 DEF WriteAudit, LateLanding, LandPush, LandElsewhere, journalVars
<1> QED
  BY <1>1, <1>2

\* A pass that a step does not touch.
LEMMA UntouchedSnapshotInv ==
  ASSUME ServiceInv, [Next]_serviceVars, NEW d \in Declarations, SnapshotInv(d), pass'[d] = pass[d],
         \A b \in pass[d].todo :
            \/ entry'[b] = entry[b]
            \/ /\ entry'[b].startedAt = entry[b].startedAt
               /\ entry[b].state = "attention" /\ entry'[b].state = "settled"
  PROVE  SnapshotInv(d)'
<1>1. Current(d)' = Current(d)
  BY CurrentStays
<1>2. pass[d].wasParked \subseteq Ops
  BY DEF ServiceInv, RecoveryTypeOK
<1>3. \A b \in pass[d].wasParked : InState(b, {"attention", "settled"})'
  BY <1>2, StatesMoveOn DEF SnapshotInv
<1> QED
  BY <1>1, <1>3 DEF SnapshotInv, InState

\* The entry a pass was at is decided, and the others are as they were.
LEMMA NextEntryKeepsSnapshotInv ==
  ASSUME ServiceInv, [Next]_serviceVars, NEW d \in Declarations, SnapshotInv(d), PassFrame(d),
         NextEntry(d)
  PROVE  SnapshotInv(d)'
<1>1. pass'[d] = [pass[d] EXCEPT !.state = "running", !.todo = @ \ {Current(d)}, !.step = Nobody]
  BY DEF NextEntry, ServiceInv, RecoveryTypeOK
<1>2. /\ pass'[d].state = "running"
      /\ pass'[d].todo = pass[d].todo \ {Current(d)}
      /\ pass'[d].wasParked = pass[d].wasParked
      /\ pass[d].todo \subseteq Ops /\ pass[d].wasParked \subseteq Ops
  BY <1>1 DEF ServiceInv, RecoveryTypeOK
<1>3. \A b \in pass'[d].todo : entry'[b] = entry[b]
  BY <1>2 DEF PassFrame, DecidesCurrent
<1>4. \A b \in pass[d].wasParked : InState(b, {"attention", "settled"})'
  BY <1>2, StatesMoveOn DEF SnapshotInv
<1> QED
  BY <1>2, <1>3, <1>4 DEF SnapshotInv, InState

\* The entry a pass is at has just been parked.
LEMMA ParkingKeepsSnapshotInv ==
  ASSUME ServiceInv, [Next]_serviceVars, NEW d \in Declarations, SnapshotInv(d), PassFrame(d),
         pass[d].todo # {}, pass[d].state # "marking", Park(Current(d)),
         pass'[d].state = "marking", pass'[d].todo = pass[d].todo,
         pass'[d].wasParked = pass[d].wasParked
  PROVE  SnapshotInv(d)'
<1>1. Current(d) \in pass[d].todo /\ Current(d) \in Ops
      /\ pass[d].todo \subseteq Ops /\ pass[d].wasParked \subseteq Ops
  BY CurrentIsToDo DEF ServiceInv, DataTypeOK, RecoveryTypeOK
<1>2. Current(d)' = Current(d)
  BY <1>1, CurrentStays DEF PassFrame, DecidesCurrent
<1>3. InState(Current(d), {"attention", "settled"})'
  BY <1>1, <1>2 DEF Park, InState, journalVars, ServiceInv, DataTypeOK, JournalTypeOK
<1>4. \A b \in pass[d].todo : b # Current(d) => entry'[b] = entry[b]
  BY <1>1 DEF PassFrame, DecidesCurrent
<1>5. \A b \in pass[d].wasParked : InState(b, {"attention", "settled"})'
  BY <1>1, StatesMoveOn DEF SnapshotInv
<1> QED
  BY <1>2, <1>3, <1>4, <1>5 DEF SnapshotInv, InState

\* Every step of a pass keeps what is true of its snapshot.
LEMMA PassStepKeepsSnapshotInv ==
  ASSUME ServiceInv, [Next]_serviceVars, NEW d \in Declarations, SnapshotInv(d), PassStep(d)
  PROVE  SnapshotInv(d)'
<1>0. PassInv(d) /\ PassFrame(d)
      /\ pass \in [Declarations -> [state : {"none", "running", "marking", "resuming", "done"},
                                    todo : SUBSET Ops, wasParked : SUBSET Ops,
                                    step : Ops \cup {Nobody}]]
  BY PassStaysInFrame DEF ServiceInv, RecoveryTypeOK
<1>1. CASE PassFails(d)
  <2>1. pass'[d] = NoPass
    BY <1>0, <1>1 DEF PassFails
  <2> QED
    BY <2>1 DEF SnapshotInv, NoPass
<1>2. CASE NextEntry(d)
  BY <1>0, <1>2, NextEntryKeepsSnapshotInv
<1>3. CASE pass' = [pass EXCEPT ![d] = Snapshot(d)] /\ UNCHANGED entry
  <2>1. pass'[d].todo = UnsettledOf(d) /\ pass'[d].wasParked = Parked(d)
        /\ pass'[d].state = "running"
    BY <1>0, <1>3 DEF Snapshot
  <2> QED
    BY <1>3, <2>1 DEF SnapshotInv, UnsettledOf, Parked, InState, Unsettled
<1>4. CASE /\ Park(Current(d)) /\ pass[d].todo # {} /\ pass[d].state # "marking"
           /\ \/ pass' = [pass EXCEPT ![d].state = "marking", ![d].step = Nobody]
              \/ pass' = [pass EXCEPT ![d].state = "marking"]
  <2>1. pass'[d].state = "marking" /\ pass'[d].todo = pass[d].todo
        /\ pass'[d].wasParked = pass[d].wasParked
    BY <1>0, <1>4
  <2> QED
    BY <1>0, <1>4, <2>1, ParkingKeepsSnapshotInv
<1>5. ASSUME NEW op \in Ops, ResumeEntry(d, op)
      PROVE  SnapshotInv(d)'
  <2>1. /\ pass[d].state = "running" /\ pass[d].todo # {} /\ UNCHANGED entry
        /\ Verdict(d) = "resume"
        /\ pass' = [pass EXCEPT ![d].state = "resuming", ![d].step = op]
    BY <1>5 DEF ResumeEntry, AtEntry, journalVars
  <2>2. pass'[d].state = "resuming" /\ pass'[d].todo = pass[d].todo
        /\ pass'[d].wasParked = pass[d].wasParked
    BY <1>0, <2>1
  <2>3. ToolOf[Current(d)] = "prepare_branch"
    BY <2>1 DEF Verdict, Classify, Resumable
  <2>4. Current(d)' = Current(d)
    BY <2>1, <2>2, CurrentStays
  <2> QED
    BY <2>1, <2>2, <2>3, <2>4 DEF SnapshotInv, InState
<1>6. CASE PassEnds(d)
  <2>1. pass'[d].state = "done" /\ pass'[d].todo = {} /\ pass'[d].wasParked = {}
    BY <1>0, <1>6 DEF PassEnds
  <2> QED
    BY <2>1 DEF SnapshotInv
<1>7. CASE pass'[d] = pass[d] /\ UNCHANGED entry
  BY <1>7, UntouchedSnapshotInv
<1>8. CASE ParkCurrent(d) /\ pass[d].todo # {} /\ pass[d].state # "marking"
  BY <1>1, <1>4, <1>8 DEF ParkCurrent
<1>9. CASE FirstUse(d) \/ SweepVisits(d)
  BY <1>1, <1>3, <1>7, <1>9 DEF FirstUse, SweepVisits, dispatchVars, journalVars
<1>10. CASE RemarkParked(d) \/ ForgetEntry(d) \/ CompleteEntry(d)
  BY <1>2, <1>10 DEF RemarkParked, ForgetEntry, CompleteEntry, SettleEntry
<1>11. CASE ParkEntry(d) \/ ObservationFails(d)
  BY <1>4, <1>8, <1>11 DEF ParkEntry, ObservationFails, AtEntry
<1>12. CASE MarkEntry(d)
  BY <1>1, <1>2, <1>12 DEF MarkEntry
<1>13. CASE ResumeEnds(d)
  <2>1. pass[d].state = "resuming" /\ pass[d].todo # {}
    BY <1>0, <1>13 DEF ResumeEnds, PassInv
  <2> QED
    BY <1>2, <1>8, <1>13, <2>1 DEF ResumeEnds
<1>14. ASSUME NEW op \in Ops, PassDone(op)
       PROVE  SnapshotInv(d)'
  BY <1>7, <1>14 DEF PassDone, journalVars, passVars
<1> QED
  BY <1>5, <1>6, <1>9, <1>10, <1>11, <1>12, <1>13, <1>14 DEF PassStep

\* As does every other step of the service.
LEMMA StepKeepsSnapshotInv ==
  ASSUME ServiceInv, \A e \in Declarations : SnapshotInv(e), [Next]_serviceVars,
         NEW d \in Declarations
  PROVE  SnapshotInv(d)'
<1>0. PassInv(d) /\ SnapshotInv(d) /\ pass[d].todo \subseteq Ops
  BY DEF ServiceInv, RecoveryTypeOK
<1>1. ASSUME NEW op \in Ops, CallStep(op), UNCHANGED passVars
      PROVE  SnapshotInv(d)'
  <2>1. \A b \in pass[d].todo : entry'[b] = entry[b]
    BY <1>0, <1>1, DeadRecordsStay DEF PassInv
  <2> QED
    BY <1>0, <1>1, <2>1, UntouchedSnapshotInv DEF passVars
<1>2. ASSUME NEW e \in Declarations, PassStep(e)
      PROVE  SnapshotInv(d)'
  <2>1. CASE e = d
    BY <1>0, <1>2, <2>1, PassStepKeepsSnapshotInv
  <2>2. CASE e # d
    <3>1. PassFrame(e) /\ PassInv(e)
      BY <1>2, PassStaysInFrame DEF ServiceInv
    <3>2. \A b \in pass[d].todo : entry'[b] = entry[b]
      BY <1>0, <2>2, <3>1 DEF PassFrame, PassInv, DecidesCurrent
    <3> QED
      BY <1>0, <2>2, <3>1, <3>2, UntouchedSnapshotInv DEF PassFrame
  <2> QED
    BY <2>1, <2>2
<1>3. ASSUME NEW o \in Operators, NEW op \in Ops, ResolveParked(o, op)
      PROVE  SnapshotInv(d)'
  <2>1. UNCHANGED pass /\ Settle(op) /\ entry[op].state = "attention"
    BY <1>3 DEF ResolveParked, SettledBy, passVars, Parked, InState
  <2>2. \A b \in Ops : \/ entry'[b] = entry[b]
                       \/ /\ entry'[b].startedAt = entry[b].startedAt
                          /\ entry[b].state = "attention" /\ entry'[b].state = "settled"
    BY <2>1 DEF Settle, ServiceInv, DataTypeOK, JournalTypeOK
  <2> QED
    BY <1>0, <2>1, <2>2, UntouchedSnapshotInv
<1>4. ASSUME NEW o \in Operators, ClearParked(o)
      PROVE  SnapshotInv(d)'
  BY <1>0, <1>4, UntouchedSnapshotInv DEF ClearParked, passVars, journalVars
<1>5. CASE CrashAndBoot
  <2>1. pass'[d] = NoPass
    BY <1>5 DEF CrashAndBoot
  <2> QED
    BY <2>1 DEF SnapshotInv, NoPass
<1>6. CASE UNCHANGED serviceVars
  BY <1>0, <1>6, UntouchedSnapshotInv DEF serviceVars, dispatchVars, passVars, journalVars
<1> QED
  BY <1>1, <1>2, <1>3, <1>4, <1>5, <1>6 DEF Next, Idle

\* A step under which nothing failed is one that met no failing write.
LEMMA FaultsAreCounted ==
  ASSUME ServiceInv, [Next]_serviceVars, faults' = 0
  PROVE  faults = 0 /\ ~Fails
<1>1. faults \in Nat
  BY DEF ServiceInv, DataTypeOK
<1>2. ASSUME NEW op \in Ops, CallStep(op)
      PROVE  UNCHANGED faults \/ Fails
  BY <1>2 DEF CallStep, Arrive, ArriveFirst, ArriveRecovering, GiveUpMaterialisation, Ensured,
         RefuseHolding, GiveUpMutation, BeginCall, HandlerStep, LateLanding, HandlerReturns,
         RawAudits, LimitFires, WriteAudit, SettleCall, ParkCall, MarkCall, RawFinishes,
         RawReturns, RawLimitFires
<1>3. ASSUME NEW d \in Declarations, PassStep(d)
      PROVE  UNCHANGED faults \/ Fails
  BY <1>3 DEF PassStep, FirstUse, SweepVisits, RemarkParked, ForgetEntry, CompleteEntry,
         SettleEntry, ParkEntry, ParkCurrent, ObservationFails, MarkEntry, ResumeEntry,
         ResumeEnds, PassEnds, PassDone, dispatchVars
<1>4. ASSUME NEW o \in Operators, NEW op \in Ops, ResolveParked(o, op)
      PROVE  UNCHANGED faults
  BY <1>4 DEF ResolveParked
<1>5. ASSUME NEW o \in Operators, ClearParked(o)
      PROVE  UNCHANGED faults
  BY <1>5 DEF ClearParked
<1>6. CrashAndBoot \/ UNCHANGED serviceVars => UNCHANGED faults
  BY DEF CrashAndBoot, serviceVars, dispatchVars
<1>7. UNCHANGED faults \/ Fails
  BY <1>2, <1>3, <1>4, <1>5, <1>6 DEF Next, Idle
<1> QED
  BY <1>1, <1>7 DEF Fails

\* A call that holds its clone is alone with it: what was open there is decided,
\* or the call is the composite that a pass runs again in the place of another.
LEMMA WorkerIsAlone ==
  ASSUME ServiceInv, \A d \in Declarations : SnapshotInv(d), \A b \in Ops : OpenInv(b),
         NEW op \in Ops, pc[op] \in {"mutWait"} \cup Held,
         NEW o \in Ops \ {op}, DeclarationOf[o] = DeclarationOf[op], LeftOpen(o)
  PROVE  ToolOf[o] = "prepare_branch" /\ ToolOf[op] = "prepare_branch"
<1> DEFINE d == DeclarationOf[op]
<1>1. d \in Declarations /\ PassInv(d) /\ SnapshotInv(d) /\ OpenInv(o)
  BY DeclarationIsDeclared DEF ServiceInv
<1>2. pc[o] \in Ended
  <2>1. pc[o] \notin NotBegun /\ pc[o] \in Steps
    BY DEF ServiceInv, LockInv, CallInv, LeftOpen, InState
  <2>2. pc[o] \notin {"mutWait"} \cup Held
    BY DEF ServiceInv, LockInv, HoldsWhatItShould
  <2> QED
    BY <2>1, <2>2 DEF Steps, NotBegun, Ended, Held
<1>3. pass[d].state = "none" \/ (o \in pass[d].todo /\ pass[d].state # "done")
  BY <1>1, <1>2 DEF OpenInv
<1>4. ~Quiet(op)
  BY DEF Quiet, Held, Ended
<1>5. /\ pass[d].state = "resuming" /\ op = pass[d].step /\ o \in pass[d].todo
      /\ ToolOf[op] = "prepare_branch" /\ Current(d) \notin pass[d].wasParked
  BY <1>1, <1>3, <1>4 DEF PassInv
<1>6. Current(d) \in pass[d].todo /\ Current(d) \in Ops
  BY <1>1, <1>5, CurrentIsToDo DEF ServiceInv, DataTypeOK
<1>7. LeftOpen(Current(d)) /\ DeclarationOf[Current(d)] = d /\ ToolOf[Current(d)] = "prepare_branch"
  BY <1>1, <1>5, <1>6 DEF SnapshotInv, PassInv, LeftOpen
<1> QED
  BY <1>1, <1>5, <1>6, <1>7 DEF OpenInv

\* Where every write succeeds no call ends with its entry open.
LEMMA CallEndsClosed ==
  ASSUME ServiceInv, NEW op \in Ops, CallStep(op), ~Fails, LeftOpen(op), LeftOpen(op)',
         pc[op] # "mark"
  PROVE  (pc'[op] \in Ended => pc[op] \in Ended) /\ pc'[op] # "mark"
<1>1. DataTypeOK /\ pc \in [Ops -> Steps] /\ CallInv(op) /\ ToolOf[op] # "git_raw"
      /\ entry[op].state \in {"intended", "applied"} /\ entry'[op].state \in {"intended", "applied"}
  BY DEF ServiceInv, LockInv, LeftOpen, InState
<1>2. pc[op] \notin NotBegun
  BY <1>1 DEF CallInv
<1>3. ~(\/ Arrive(op) \/ ArriveFirst(op) \/ ArriveRecovering(op) \/ GiveUpMaterialisation(op)
        \/ Ensured(op) \/ RefuseHolding(op) \/ GiveUpMutation(op) \/ BeginCall(op))
  BY <1>2 DEF Arrive, ArriveFirst, ArriveRecovering, GiveUpMaterialisation,
              Ensured, RefuseHolding, GiveUpMutation, BeginCall, NotBegun
<1>4. CASE HandlerStep(op) \/ LateLanding(op) \/ RawFinishes(op)
  BY <1>4 DEF HandlerStep, LateLanding, RawFinishes, callVars
<1>5. CASE LimitFires(op) \/ \E outcome \in {"ok", "failed", "unknown"} : HandlerReturns(op, outcome)
  <2>1. pc'[op] = "audit"
    BY <1>1, <1>5 DEF LimitFires, HandlerReturns, Goto
  <2> QED
    BY <2>1 DEF Ended
<1>6. CASE WriteAudit(op)
  <2>1. pc'[op] = IF pc[op] = "audit" THEN AfterAudit(op) ELSE pc[op]
    BY <1>1, <1>6 DEF WriteAudit
  <2> QED
    BY <2>1 DEF AfterAudit, Ended
<1>7. CASE SettleCall(op)
  <2>1. Settle(op)
    BY <1>7 DEF SettleCall, SettledBy
  <2> QED
    BY <1>1, <2>1 DEF Settle, DataTypeOK, JournalTypeOK
<1>8. CASE ParkCall(op)
  <2>1. Park(op)
    BY <1>8 DEF ParkCall
  <2> QED
    BY <1>1, <2>1 DEF Park, InState, DataTypeOK, JournalTypeOK
<1> QED
  BY <1>1, <1>3, <1>4, <1>5, <1>6, <1>7, <1>8
     DEF CallStep, MarkCall, RawAudits, RawReturns, RawLimitFires

\* A step of a call keeps what is true of the open entries.
LEMMA CallStepKeepsOpenInv ==
  ASSUME ServiceInv, \A d \in Declarations : SnapshotInv(d), \A b \in Ops : OpenInv(b),
         [Next]_serviceVars, NEW op \in Ops, CallStep(op), UNCHANGED passVars, ~Fails,
         NEW b \in Ops
  PROVE  OpenInv(b)'
<1> SUFFICES ASSUME LeftOpen(b)'
             PROVE  OpenInv(b)'
  BY DEF OpenInv
<1> DEFINE d == DeclarationOf[b]
<1>1. d \in Declarations /\ UNCHANGED pass /\ DataTypeOK /\ pc \in [Ops -> Steps]
  BY DeclarationIsDeclared DEF passVars, ServiceInv, LockInv
<1>2. \A o \in Ops \ {op} : SameCall(o)
  BY <1>1, CallsMoveAlone
<1>3. \A o \in Ops \ {op} : LeftOpen(o)' => LeftOpen(o)
  BY <1>2 DEF SameCall, LeftOpen, InState
<1>4. LeftOpen(op)' => LeftOpen(op) \/ BeginCall(op)
  BY StatesMoveOn DEF LeftOpen
<1>5. CASE b # op
  <2>1. SameCall(b) /\ LeftOpen(b) /\ OpenInv(b)
    BY <1>2, <1>3, <1>5
  <2>2. ASSUME ToolOf[b] # "prepare_branch", prog[b] = 0
        PROVE  git'[d] = entry[b].pre
    <3>1. git[d] = entry[b].pre
      BY <2>1, <2>2 DEF OpenInv
    <3>2. ASSUME git'[d] # git[d]
          PROVE  FALSE
      <4>1. DeclarationOf[op] = d /\ ChildRuns(op)
        BY <1>1, <3>2, CloneChangesUnderIntent
      <4> QED
        BY <1>5, <2>1, <2>2, <4>1, WorkerIsAlone DEF ChildRuns, Held
    <3> QED
      BY <3>1, <3>2
  <2>3. ASSUME ToolOf[b] # "prepare_branch", NEW o \in Ops \ {b}, DeclarationOf[o] = d, LeftOpen(o)'
        PROVE  FALSE
    <3>1. ~LeftOpen(o)
      BY <2>1, <2>3 DEF OpenInv
    <3>2. o = op /\ BeginCall(op)
      BY <1>3, <1>4, <2>3, <3>1
    <3>3. pc[op] = "mutWait"
      BY <3>2 DEF BeginCall
    <3> QED
      BY <1>5, <2>1, <2>3, <3>2, <3>3, WorkerIsAlone
  <2> QED
    BY <1>1, <2>1, <2>2, <2>3 DEF OpenInv, SameCall
<1>6. CASE b = op /\ BeginCall(op)
  <2>1. pc[op] = "mutWait" /\ pc'[op] = "running" /\ git'[d] = git[d] /\ entry'[op].pre = git[d]
    BY <1>1, <1>6 DEF BeginCall, Begin, Goto, treeVars, DataTypeOK, JournalTypeOK
  <2>2. ASSUME ToolOf[b] # "prepare_branch", NEW o \in Ops \ {b}, DeclarationOf[o] = d, LeftOpen(o)'
        PROVE  FALSE
    BY <1>3, <1>6, <2>1, <2>2, WorkerIsAlone
  <2> QED
    BY <1>6, <2>1, <2>2 DEF OpenInv, Ended
<1>7. CASE b = op /\ ~BeginCall(op)
  <2>1. LeftOpen(op) /\ OpenInv(op)
    BY <1>4, <1>7
  <2>2. pc[op] # "mark"
    BY <2>1 DEF OpenInv
  <2>3. (pc'[op] \in Ended => pc[op] \in Ended) /\ pc'[op] # "mark"
    BY <1>7, <2>1, <2>2, CallEndsClosed
  <2>4. ASSUME ToolOf[op] # "prepare_branch", prog'[op] = 0
        PROVE  git'[d] = entry'[op].pre
    <3>1. ~HandlerStep(op) /\ ~LateLanding(op)
      <4>1. prog[op] \in Nat
        BY <1>1 DEF DataTypeOK
      <4> QED
        BY <1>1, <2>4, <4>1 DEF HandlerStep, LateLanding, Advance, DataTypeOK
    <3>2. SameHistory
      BY <1>7, <3>1, OtherCallStepsKeepHistory
    <3> QED
      BY <1>7, <2>1, <2>4, <3>2 DEF SameHistory, SameRecord, OpenInv
  <2>5. ASSUME ToolOf[op] # "prepare_branch", NEW o \in Ops \ {op}, DeclarationOf[o] = d, LeftOpen(o)'
        PROVE  FALSE
    BY <1>3, <1>7, <2>1, <2>5 DEF OpenInv
  <2> QED
    BY <1>1, <1>7, <2>1, <2>3, <2>4, <2>5 DEF OpenInv
<1> QED
  BY <1>5, <1>6, <1>7

\* Where every write succeeds a pass does not end, nor go on to its next entry,
\* before it has closed or parked the one it is at.
LEMMA PassKeepsOpenToDo ==
  ASSUME ServiceInv, NEW d \in Declarations, SnapshotInv(d), PassStep(d), ~Fails,
         NEW b \in Ops, DeclarationOf[b] = d, InState(b, {"intended", "applied"}),
         entry'[b] = entry[b],
         pass[d].state = "none" \/ (b \in pass[d].todo /\ pass[d].state # "done")
  PROVE  pass'[d].state = "none" \/ (b \in pass'[d].todo /\ pass'[d].state # "done")
<1>0. PassInv(d) /\ PassFrame(d) /\ JournalTypeOK
      /\ pass \in [Declarations -> [state : {"none", "running", "marking", "resuming", "done"},
                                    todo : SUBSET Ops, wasParked : SUBSET Ops,
                                    step : Ops \cup {Nobody}]]
  BY PassStaysInFrame DEF ServiceInv, RecoveryTypeOK, DataTypeOK
<1>1. CASE pass' = [pass EXCEPT ![d] = Snapshot(d)]
  BY <1>0, <1>1 DEF Snapshot, UnsettledOf, InState, Unsettled
<1>2. CASE /\ pass[d].state \in {"running", "marking", "resuming"}
           /\ NextEntry(d) /\ b # Current(d)
  <2>1. pass'[d].state = "running" /\ pass'[d].todo = pass[d].todo \ {Current(d)}
    BY <1>0, <1>2 DEF NextEntry
  <2> QED
    BY <1>2, <2>1
<1>3. CASE pass[d].state \in {"running", "resuming"} /\ ParkCurrent(d)
  <2>1. pass' = [pass EXCEPT ![d].state = "marking", ![d].step = Nobody]
    BY <1>3 DEF ParkCurrent
  <2>2. pass'[d].state = "marking" /\ pass'[d].todo = pass[d].todo
    BY <1>0, <2>1
  <2> QED
    BY <1>3, <2>2
<1>4. ASSUME NEW who, SettledBy(Current(d), who)
      PROVE  b # Current(d)
  BY <1>0, <1>4 DEF SettledBy, Settle, InState, JournalTypeOK
<1>5. CASE pass'[d] = pass[d]
  BY <1>5
<1>6. CASE FirstUse(d) \/ SweepVisits(d)
  BY <1>1, <1>5, <1>6 DEF FirstUse, SweepVisits
<1>7. CASE RemarkParked(d)
  <2>1. Current(d) \in pass[d].wasParked
    BY <1>7 DEF RemarkParked, Verdict, Classify
  <2>2. b # Current(d)
    BY <2>1 DEF SnapshotInv, InState
  <2> QED
    BY <1>2, <1>7, <2>2 DEF RemarkParked, AtEntry
<1>8. CASE ForgetEntry(d) \/ CompleteEntry(d)
  BY <1>2, <1>4, <1>8 DEF ForgetEntry, CompleteEntry, SettleEntry, AtEntry
<1>9. CASE ParkEntry(d)
  BY <1>3, <1>9 DEF ParkEntry, AtEntry
<1>10. CASE MarkEntry(d)
  <2>1. pass[d].state = "marking" /\ NextEntry(d) /\ pass[d].todo # {}
    BY <1>0, <1>10 DEF MarkEntry, PassInv
  <2>2. Current(d) \in pass[d].todo
    BY <1>0, <2>1, CurrentIsToDo DEF ServiceInv
  <2>3. InState(Current(d), {"attention", "settled"})
    BY <2>1, <2>2 DEF SnapshotInv
  <2> QED
    BY <1>2, <2>1, <2>3 DEF InState
<1>11. ASSUME NEW op \in Ops, ResumeEntry(d, op)
       PROVE  pass'[d].state = "none" \/ (b \in pass'[d].todo /\ pass'[d].state # "done")
  <2>1. pass[d].state = "running" /\ pass' = [pass EXCEPT ![d].state = "resuming", ![d].step = op]
    BY <1>11 DEF ResumeEntry, AtEntry
  <2>2. pass'[d].state = "resuming" /\ pass'[d].todo = pass[d].todo
    BY <1>0, <2>1
  <2> QED
    BY <2>1, <2>2
<1>12. CASE ResumeEnds(d)
  BY <1>2, <1>3, <1>4, <1>12 DEF ResumeEnds
<1>13. ~PassEnds(d) /\ ~ObservationFails(d)
  BY DEF PassEnds, ObservationFails
<1>14. ASSUME NEW op \in Ops, PassDone(op)
       PROVE  pass'[d] = pass[d]
  BY <1>14 DEF PassDone, passVars
<1> QED
  BY <1>5, <1>6, <1>7, <1>8, <1>9, <1>10, <1>11, <1>12, <1>13, <1>14 DEF PassStep

\* What is true of an open entry stays true while its call, its clone and its pass
\* do not change, and no other entry of its declaration opens.
LEMMA StillOpenInv ==
  ASSUME NEW b \in Ops, OpenInv(b), UNCHANGED <<git, prog>>, entry'[b] = entry[b],
         pc'[b] \in Ended => pc[b] \in Ended, pc'[b] = "mark" => pc[b] = "mark",
         \A o \in Ops : LeftOpen(o)' => LeftOpen(o),
         LET d == DeclarationOf[b] IN
            pass[d].state = "none" \/ (b \in pass[d].todo /\ pass[d].state # "done")
               => pass'[d].state = "none" \/ (b \in pass'[d].todo /\ pass'[d].state # "done")
  PROVE  OpenInv(b)'
<1>1. LeftOpen(b)' => LeftOpen(b)
  OBVIOUS
<1> QED
  BY <1>1 DEF OpenInv

\* A step of a pass keeps what is true of the open entries.
LEMMA PassStepKeepsOpenInv ==
  ASSUME ServiceInv, \A d \in Declarations : SnapshotInv(d), \A b \in Ops : OpenInv(b),
         NEW e \in Declarations, PassStep(e), ~Fails, NEW b \in Ops
  PROVE  OpenInv(b)'
<1> SUFFICES ASSUME LeftOpen(b)'
             PROVE  OpenInv(b)'
  BY DEF OpenInv
<1> DEFINE d == DeclarationOf[b]
<1>1. PassFrame(e) /\ d \in Declarations
  BY PassStaysInFrame, DeclarationIsDeclared
<1>2. \A o \in Ops : LeftOpen(o)' => entry'[o] = entry[o] /\ LeftOpen(o)
  BY <1>1 DEF PassFrame, DecidesCurrent, LeftOpen, InState
<1>3. entry'[b] = entry[b] /\ LeftOpen(b) /\ OpenInv(b)
  BY <1>2
<1>4. pc'[b] = pc[b]
  <2>1. entry[b].state # "none"
    BY <1>3 DEF LeftOpen, InState
  <2> QED
    BY <1>1, <2>1 DEF PassFrame, LetIn, ServiceInv, CallInv, NotBegun
<1>5. CASE e = d
  BY <1>1, <1>2, <1>3, <1>4, <1>5, PassKeepsOpenToDo, StillOpenInv DEF PassFrame, LeftOpen
<1>6. CASE e # d
  BY <1>1, <1>2, <1>3, <1>4, <1>6, StillOpenInv DEF PassFrame
<1> QED
  BY <1>5, <1>6

\* As does every other step, a crash included, as long as no write has failed.
LEMMA StepKeepsOpenInv ==
  ASSUME ServiceInv, \A d \in Declarations : SnapshotInv(d), \A b \in Ops : OpenInv(b),
         [Next]_serviceVars, faults' = 0, NEW b \in Ops
  PROVE  OpenInv(b)'
<1>0. ~Fails /\ OpenInv(b) /\ JournalTypeOK
  BY FaultsAreCounted DEF ServiceInv, DataTypeOK
<1>1. ASSUME NEW op \in Ops, CallStep(op), UNCHANGED passVars
      PROVE  OpenInv(b)'
  BY <1>0, <1>1, CallStepKeepsOpenInv
<1>2. ASSUME NEW d \in Declarations, PassStep(d)
      PROVE  OpenInv(b)'
  BY <1>0, <1>2, PassStepKeepsOpenInv
<1>3. ASSUME NEW o \in Operators, NEW op \in Ops, ResolveParked(o, op)
      PROVE  OpenInv(b)'
  <2>1. UNCHANGED <<pass, pc, git, prog>> /\ Settle(op)
    BY <1>3 DEF ResolveParked, SettledBy, passVars, handlerVars, treeVars
  <2>2. \A v \in Ops : LeftOpen(v)' => LeftOpen(v) /\ v # op /\ entry'[v] = entry[v]
    BY <1>0, <2>1 DEF Settle, LeftOpen, InState, JournalTypeOK
  <2>3. CASE LeftOpen(b)'
    BY <1>0, <2>1, <2>2, <2>3, StillOpenInv
  <2>4. CASE ~LeftOpen(b)'
    BY <2>4 DEF OpenInv
  <2> QED
    BY <2>3, <2>4
<1>4. ASSUME NEW o \in Operators, ClearParked(o)
      PROVE  OpenInv(b)'
  <2>1. UNCHANGED <<pass, pc, git, prog, entry>>
    BY <1>4 DEF ClearParked, passVars, handlerVars, treeVars, journalVars
  <2>2. \A v \in Ops : LeftOpen(v)' => LeftOpen(v)
    BY <2>1 DEF LeftOpen, InState
  <2> QED
    BY <1>0, <2>1, <2>2, StillOpenInv
<1>5. CASE CrashAndBoot
  <2>1. UNCHANGED <<git, prog, entry>>
    BY <1>5 DEF CrashAndBoot, handlerVars, treeVars, journalVars
  <2>2. pass'[DeclarationOf[b]].state = "none"
    BY <1>5, DeclarationIsDeclared DEF CrashAndBoot, NoPass
  <2>3. pc'[b] # "mark"
    BY <1>5 DEF CrashAndBoot, Ended
  <2>4. \A v \in Ops : LeftOpen(v)' => LeftOpen(v)
    BY <2>1 DEF LeftOpen, InState
  <2> QED
    BY <1>0, <2>1, <2>2, <2>3, <2>4 DEF OpenInv
<1>6. CASE UNCHANGED serviceVars
  <2>1. UNCHANGED <<pass, pc, git, prog, entry>>
    BY <1>6 DEF serviceVars, dispatchVars, passVars, callVars, handlerVars, treeVars, journalVars
  <2>2. \A v \in Ops : LeftOpen(v)' => LeftOpen(v)
    BY <2>1 DEF LeftOpen, InState
  <2> QED
    BY <1>0, <2>1, <2>2, StillOpenInv
<1> QED
  BY <1>1, <1>2, <1>3, <1>4, <1>5, <1>6 DEF Next, Idle

\* What passes have read is decided in order; and as long as no write has failed,
\* an open entry is that of the one call its clone knows of.
VerdictInv ==
    /\ \A d \in Declarations : SnapshotInv(d)
    /\ faults = 0 => \A op \in Ops : OpenInv(op)

\* It is an invariant of the service.
LEMMA VerdictInvariant == Spec => []VerdictInv
<1>1. Init => VerdictInv
  <2> SUFFICES ASSUME Init
               PROVE  VerdictInv
    OBVIOUS
  <2>1. \A d \in Declarations : SnapshotInv(d)
    BY DEF Init, RecoveryInit, NoPass, SnapshotInv
  <2>2. \A op \in Ops : OpenInv(op)
    BY DEF Init, DispatchInit, JournalInit, NoEntry, OpenInv, LeftOpen, InState
  <2> QED
    BY <2>1, <2>2 DEF VerdictInv
<1>2. ServiceInv /\ VerdictInv /\ [Next]_serviceVars => VerdictInv'
  <2> SUFFICES ASSUME ServiceInv, VerdictInv, [Next]_serviceVars
               PROVE  VerdictInv'
    OBVIOUS
  <2>1. (\A d \in Declarations : SnapshotInv(d))'
    BY StepKeepsSnapshotInv DEF VerdictInv
  <2>2. ASSUME faults' = 0
        PROVE  (\A op \in Ops : OpenInv(op))'
    <3>1. faults = 0
      BY <2>2, FaultsAreCounted
    <3> QED
      BY <2>2, <3>1, StepKeepsOpenInv DEF VerdictInv
  <2> QED
    BY <2>1, <2>2 DEF VerdictInv
<1> QED
  BY <1>1, <1>2, ServiceInvariant, PTL DEF Spec

\* An entry is completed on an observation of its clone that shows its effect: its
\* tool is not one that runs again, for that one has no state it is done in.
LEMMA CompletingTells ==
  ASSUME ServiceInv, VerdictInv, [Next]_serviceVars, NEW b \in Ops,
         closedBy'[b] # closedBy[b], closedBy'[b] = "completed"
  PROVE  LET d == DeclarationOf[b] IN
         /\ ExpectedPostState(b, entry[b].pre, git[d])
         /\ InState(b, {"intended", "applied"})
<1>1. PICK d \in Declarations :
         /\ b = Current(d) /\ b \in pass[d].todo
         /\ CompleteEntry(d) \/ (ResumeEnds(d) /\ Classify(b, git[d]) = "completed")
  BY VerdictsComeFromPasses
<1>2. PassInv(d) /\ SnapshotInv(d) /\ DeclarationOf[b] = d
  BY <1>1 DEF ServiceInv, VerdictInv, PassInv
<1>3. b \notin pass[d].wasParked /\ Classify(b, git[d]) = "completed"
      /\ pass[d].state \in {"running", "resuming"}
  BY <1>1, <1>2 DEF CompleteEntry, SettleEntry, AtEntry, Verdict, ResumeEnds, PassInv
<1>4. ExpectedPostState(b, entry[b].pre, git[d])
  BY <1>3 DEF Classify
<1> QED
  BY <1>1, <1>2, <1>3, <1>4 DEF SnapshotInv

\* A push of the branch checked out whose entry recovery settles as `completed` is
\* at the remote: the ref the clone's branch tracks is where the clone's head is,
\* whatever failed and however often the process died (the push's expectedPostState).
CompletedPushIsThere ==
    [][\A op \in Ops :
          ToolOf[op] = "git_push" /\ closedBy'[op] = "completed" /\ closedBy[op] # "completed"
             => remote[DeclarationOf[op]] = git[DeclarationOf[op]]["head"]]_serviceVars

\* It holds for every set of calls, with no proviso on the faults.
THEOREM CompletedPushesArrived == Spec => CompletedPushIsThere
<1>1. ServiceInv /\ HistoryInv /\ VerdictInv /\ [Next]_serviceVars =>
         [\A op \in Ops :
            ToolOf[op] = "git_push" /\ closedBy'[op] = "completed" /\ closedBy[op] # "completed"
               => remote[DeclarationOf[op]] = git[DeclarationOf[op]]["head"]]_serviceVars
  <2> SUFFICES ASSUME ServiceInv, HistoryInv, VerdictInv, [Next]_serviceVars, NEW op \in Ops,
                      ToolOf[op] = "git_push", closedBy'[op] = "completed",
                      closedBy[op] # "completed"
               PROVE  remote[DeclarationOf[op]] = git[DeclarationOf[op]]["head"]
    OBVIOUS
  <2>1. ExpectedPostState(op, entry[op].pre, git[DeclarationOf[op]])
    BY CompletingTells
  <2>2. git[DeclarationOf[op]]["upstream"] = git[DeclarationOf[op]]["head"]
    BY <2>1 DEF ExpectedPostState, Pushes
  <2> QED
    BY <2>2, DeclarationIsDeclared DEF HistoryInv, RemoteInv
<1> QED
  BY <1>1, HistoryInvariant, VerdictInvariant, PTL DEF Spec, CompletedPushIsThere

\* As long as no store write has failed, recovery settles as `completed` only a
\* call whose effect is there, a push that names another branch than the one
\* checked out apart: what its descriptor sees differ from what the call
\* found is the call's own doing (journal.classify; the descriptors'
\* expectedPostState).
THEOREM CompletedCallsActed == Spec => CompletedIsTrue
<1>1. ServiceInv /\ HistoryInv /\ VerdictInv /\ [Next]_serviceVars =>
         [\A op \in Ops :
            faults = 0 /\ ToolOf[op] # "push_elsewhere"
                /\ closedBy[op] = "nobody" /\ closedBy'[op] = "completed"
               => EffectPresent(op)]_serviceVars
  <2> SUFFICES ASSUME ServiceInv, HistoryInv, VerdictInv, [Next]_serviceVars, NEW op \in Ops,
                      faults = 0, ToolOf[op] # "push_elsewhere", closedBy[op] = "nobody",
                      closedBy'[op] = "completed"
               PROVE  EffectPresent(op)
    OBVIOUS
  <2> DEFINE d == DeclarationOf[op]
  <2>1. ExpectedPostState(op, entry[op].pre, git[d]) /\ InState(op, {"intended", "applied"})
    BY CompletingTells
  <2>2. CASE ToolOf[op] = "git_push"
    <3>1. git[d]["upstream"] = git[d]["head"]
      BY <2>1, <2>2 DEF ExpectedPostState, Pushes
    <3> QED
      BY <2>2, <3>1, DeclarationIsDeclared DEF HistoryInv, RemoteInv, EffectPresent
  <2>3. CASE ToolOf[op] # "git_push"
    <3>1. ToolOf[op] \in Stagers \cup {"git_commit", "git_fetch"}
          /\ \E f \in Facets : git[d][f] # entry[op].pre[f]
      BY <2>1, <2>3 DEF ExpectedPostState, Stagers, Facets, Pushes
    <3>2. OpenInv(op) /\ LeftOpen(op) /\ ToolOf[op] # "prepare_branch"
      BY <2>1, <3>1 DEF VerdictInv, LeftOpen, Stagers
    <3>3. prog[op] # 0
      BY <3>1, <3>2 DEF OpenInv
    <3>4. Len(ProgramOf(op)) = 1
      BY <3>1, ProgramShape DEF Stagers
    <3>5. prog[op] \in Nat /\ prog[op] <= Len(ProgramOf(op))
      BY DEF ServiceInv, DataTypeOK, CallInv
    <3> QED
      BY <2>3, <3>3, <3>4, <3>5 DEF EffectPresent
  <2> QED
    BY <2>2, <2>3
<1> QED
  BY <1>1, HistoryInvariant, VerdictInvariant, PTL DEF Spec, CompletedIsTrue
=============================================================================
