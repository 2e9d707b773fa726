---------------------------- MODULE ClonesProofs ----------------------------
(***************************************************************************)
(* Proofs about the clones and what is done in them.                       *)
(*                                                                         *)
(* The clone store: for any number of calls, eras and crashes, where       *)
(* passes, removals and row writes go the easy way that Orderly names      *)
(* (Tidy), whoever uses the clone has it whole, work is deleted only when  *)
(* it is at the remote and nobody needs it, and a mark is the operator's   *)
(* to take.  None of the three is inductive.  What they rest on is that    *)
(* row and tree agree (RowInv) at every stage of making a clone            *)
(* (MakingInv) because one call at a time makes it (HolderInv); that users *)
(* and unsettled entries are of the row's own generation (UseInv); and     *)
(* that what a pass or a removal read before it waited is still so         *)
(* (PassInv, RemoverInv).                                                  *)
(*                                                                         *)
(* The watcher: for any number of files, restarts, failures and changes by *)
(* others, a file is delivered once, survives, is committed within its     *)
(* plan, and its pull request is followed.                                 *)
(*                                                                         *)
(* The composites: for any number of branches, bases, commits, kills and   *)
(* merges by others, no commit is lost, no answer is untrue and a branch   *)
(* the origin has is never rewritten.  A step of a composite rests on what *)
(* the steps before it looked at, which is still so because the call holds *)
(* the clone (PrepareInv, ReconcileInv), and on what a rebase that was     *)
(* left behind may have changed (RebaseInv).                               *)
(***************************************************************************)
EXTENDS CloneStore, Watcher, Composites, FiniteSetTheorems, SequenceTheorems, WellFoundedInduction, TLAPS

-----------------------------------------------------------------------------
(* The clone store. *)

Tidy == Orderly = {"derive", "remove", "quarantine", "deleted", "eras"}

\* What the row says of a clone that calls are served.
There == State \in {"ready", "attention"}

Evicting == pass.step \in {"check", "delete"}

HolderInv ==
    /\ \A c \in Calls : phase[c] \notin {"idle", "wait"} /\ (c \in Readers => phase[c] # "use")
                           => lock = c
    /\ Evicting => lock = "evict"

MakingAt(c) ==
    /\ phase[c] = "room" => tree = "none"
    /\ phase[c] = "clone" => tree \in {"none", "partial", "broken"}
    /\ phase[c] \in {"identity", "cloned"} => tree \in {"partial", "broken"}
    /\ phase[c] \in {"room", "adopt", "adopted"} => State \in {"absent", "evicted"}
    /\ phase[c] \in {"clone", "identity", "cloned"} => State = "materialising"
    /\ phase[c] = "adopted" => tree # "none"

MakingInv == \A c \in Calls : MakingAt(c)

RowInv ==
    /\ There => tree \notin {"none", "partial"}
    /\ State = "materialising" => tree \in {"none", "partial", "remains", "broken"}
    /\ tree = "partial" => State = "materialising"

UseInv ==
    /\ \A c \in Calls : era[c] = gen
    /\ entries \subseteq {gen}
    /\ Pins # {} \/ entries # {} => There /\ row.gen = gen

PassInv ==
    /\ Evicting => /\ Pins = {} /\ pass.seen \in Rows
                   /\ entries # {} => pass.seen.gen = gen
    /\ pass.step = "delete" => entries = {} /\ tree # "dirty"
    /\ pass.step \in {"derive", "probe"} =>
          ~Making /\ remover.step = "idle" /\ row = pass.seen /\ row \in Rows
    /\ pass.step = "probe" => tree # "none" /\ row.state # "materialising"

RemoverInv ==
    /\ remover.step # "idle" => ~Making /\ (entries # {} => remover.gen = gen)
    /\ remover.step = "delete" => tree # "dirty"

CloneInv == TypeOK /\ HolderInv /\ MakingInv /\ RowInv /\ UseInv /\ PassInv /\ RemoverInv

-----------------------------------------------------------------------------
(***************************************************************************)
(* What the invariant says where it is used most.                          *)
(***************************************************************************)
LEMMA InitIsGood == Init => CloneInv
<1> SUFFICES ASSUME Init PROVE CloneInv
  OBVIOUS
<1>1. Pins = {} /\ State = "absent" /\ ~Making
  BY DEF Init, Pins, State, Making
<1>2. TypeOK
  BY CloneStoreAssumption DEF Init, TypeOK, Resting, NotRemoving, Trees, Phases
<1>3. HolderInv /\ MakingInv
  BY DEF Init, HolderInv, MakingInv, MakingAt, Evicting, Resting
<1>4. RowInv /\ UseInv
  BY <1>1 DEF Init, RowInv, UseInv, There
<1>5. PassInv /\ RemoverInv
  BY DEF Init, PassInv, RemoverInv, Evicting, Resting, NotRemoving
<1> QED BY <1>2, <1>3, <1>4, <1>5 DEF CloneInv

\* A call that makes the clone, or mutates in it, is alone with it.
LEMMA Alone ==
  ASSUME CloneInv, NEW c \in Calls, phase[c] \notin {"idle", "wait"},
         c \in Readers => phase[c] # "use"
  PROVE  /\ lock = c /\ ~Evicting
         /\ \A b \in Calls \ {c} :
               phase[b] \in {"idle", "wait"} \/ (b \in Readers /\ phase[b] = "use")
BY CloneStoreAssumption DEF CloneInv, HolderInv, Evicting, Calls

LEMMA MakingMeansNoUse ==
  ASSUME CloneInv, NEW c \in Calls, phase[c] \notin {"idle", "wait", "use"}
  PROVE  /\ Pins = {} /\ entries = {} /\ ~There /\ ~Evicting
         /\ pass.step = "idle" /\ remover.step = "idle"
<1>1. ~There
  BY DEF CloneInv, TypeOK, Phases, MakingInv, MakingAt, There
<1>2. Pins = {} /\ entries = {}
  BY <1>1 DEF CloneInv, UseInv
<1>3. ~Evicting
  BY Alone
<1>4. Making
  BY DEF Making
<1> QED BY <1>1, <1>2, <1>3, <1>4 DEF CloneInv, TypeOK, PassInv, RemoverInv, Evicting

\* Where no call is under way between two eras, every call is of the present one.
LEMMA Captured ==
  ASSUME CloneInv, NEW c \in Calls
  PROVE  era[c] = gen /\ gen \in 1..MaxGeneration
BY DEF CloneInv, UseInv, TypeOK

\* Whatever a removal leaves is no half cloned tree.
LEMMA Removal ==
  ASSUME Removed, tree \in Trees
  PROVE  /\ tree' \in Trees \ {"partial"}
         /\ tree \notin {"clean", "dirty"} => tree' \in {"none", "remains", "broken"}
         /\ tree \notin {"dirty"} => tree' # "dirty"
         /\ tree = "none" => tree' = "none"
BY DEF Removed, Trees, Pieces

LEMMA Moves ==
  ASSUME TypeOK, NEW c \in Calls, NEW p \in Phases, Goto(c, p)
  PROVE  /\ phase' \in [Calls -> Phases] /\ phase'[c] = p
         /\ \A b \in Calls : b # c => phase'[b] = phase[b]
BY DEF TypeOK, Goto

LEMMA RowFields ==
  ASSUME NEW state \in {"absent", "materialising", "ready", "attention", "evicted"},
         NEW g \in 1..MaxGeneration
  PROVE  Row(state, g) \in Rows /\ Row(state, g) # NoRow
         /\ Row(state, g).state = state /\ Row(state, g).gen = g
BY NoRowAssumption DEF Row, Rows

-----------------------------------------------------------------------------
(***************************************************************************)
(* ensure.                                                                 *)
(***************************************************************************)
LEMMA WaitingKeeps ==
  ASSUME CloneInv, NEW c \in Calls, Arrive(c) \/ GiveUp(c)
  PROVE  CloneInv'
<1>1. /\ phase[c] \in {"idle", "wait"} /\ phase'[c] \in {"idle", "wait"}
      /\ phase' \in [Calls -> Phases]
      /\ \A b \in Calls : b # c => phase'[b] = phase[b]
      /\ UNCHANGED <<row, tree, lock, entries, gen, era, pass, remover, crashes>>
  <2>1. era \in [Calls -> 1..MaxGeneration] /\ era[c] = gen
    BY Captured DEF CloneInv, TypeOK
  <2>2. era' = era
    BY <2>1 DEF Arrive, GiveUp
  <2> QED BY <2>2, Moves DEF Arrive, GiveUp, CloneInv, Phases
<1>2. /\ Pins' = Pins /\ State' = State
      /\ (There' <=> There) /\ (Making' <=> Making) /\ (Evicting' <=> Evicting)
  <2>1. Pins' = Pins
    BY <1>1 DEF Pins
  <2>2. Making' <=> Making
    BY <1>1 DEF Making
  <2>3. State' = State
    BY <1>1 DEF State
  <2>4. (There' <=> There) /\ (Evicting' <=> Evicting)
    BY <1>1, <2>3 DEF There, Evicting
  <2> QED BY <2>1, <2>2, <2>3, <2>4
<1>3. TypeOK'
  BY <1>1 DEF CloneInv, TypeOK
<1>4. HolderInv' /\ MakingInv'
  BY <1>1, <1>2 DEF CloneInv, HolderInv, MakingInv, MakingAt
<1>5. RowInv' /\ UseInv'
  BY <1>1, <1>2 DEF CloneInv, RowInv, UseInv
<1>6. PassInv' /\ RemoverInv'
  BY <1>1, <1>2 DEF CloneInv, PassInv, RemoverInv
<1> QED BY <1>3, <1>4, <1>5, <1>6 DEF CloneInv

\* A call that comes to the lock finds nobody making, nor the pass evicting.
LEMMA AtTheLock ==
  ASSUME CloneInv, lock = None
  PROVE  ~Making /\ ~Evicting /\ \A c \in Calls : phase[c] \in {"idle", "wait"}
                                              \/ (c \in Readers /\ phase[c] = "use")
BY CloneStoreAssumption DEF CloneInv, HolderInv, Making, Evicting, Calls

LEMMA HandOverKeeps ==
  ASSUME Tidy, CloneInv, NEW c \in Calls, Ensure(c), HandOver(c)
  PROVE  CloneInv'
<1>1. /\ There /\ row \in Rows /\ row # NoRow /\ State = row.state /\ gen \in 1..MaxGeneration
      /\ lock = None /\ phase[c] = "wait"
  BY DEF Ensure, HandOver, CloneInv, TypeOK, There, State
<1>2. /\ phase'[c] = "use" /\ phase' \in [Calls -> Phases]
      /\ \A b \in Calls : b # c => phase'[b] = phase[b]
      /\ lock' = IF c \in Readers THEN None ELSE c
  BY Moves DEF HandOver, Served, CloneInv, Phases
<1>3. /\ row' \in Rows /\ row' # NoRow /\ row'.state = row.state /\ row'.gen = gen
  BY <1>1, RowFields, Captured DEF HandOver, Rows, There
<1>4. UNCHANGED <<tree, entries, gen, era, pass, remover, crashes>>
  BY DEF Ensure, HandOver
<1>5. /\ ~Making /\ ~Evicting
      /\ \A b \in Calls : phase[b] \in {"idle", "wait"} \/ (b \in Readers /\ phase[b] = "use")
  BY <1>1, AtTheLock
<1>6. State' = State /\ There' /\ ~Making' /\ ~Evicting'
  <2>1. State' = State
    BY <1>1, <1>3 DEF State
  <2> QED BY <1>1, <1>2, <1>4, <1>5, <2>1 DEF There, Making, Evicting
<1>7. pass.step \in {"derive", "probe"} => row' = row
  <2> SUFFICES ASSUME pass.step \in {"derive", "probe"} PROVE row' = row
    OBVIOUS
  <2>1. row.gen = era[c]
    BY DEF HandOver, Deriving, Tidy
  <2>2. row = [state |-> row.state, gen |-> row.gen]
    BY <1>1 DEF Rows
  <2> QED BY <2>1, <2>2 DEF HandOver, Row
<1>8. TypeOK'
  BY <1>1, <1>2, <1>3, <1>4 DEF CloneInv, TypeOK
<1>9. HolderInv' /\ MakingInv'
  BY <1>2, <1>5, <1>6, CloneStoreAssumption DEF CloneInv, HolderInv, MakingInv, MakingAt
<1>10. RowInv' /\ UseInv'
  BY <1>1, <1>3, <1>4, <1>6 DEF CloneInv, RowInv, UseInv
<1>11. PassInv' /\ RemoverInv'
  BY <1>3, <1>4, <1>5, <1>6, <1>7 DEF CloneInv, PassInv, RemoverInv
<1> QED BY <1>8, <1>9, <1>10, <1>11 DEF CloneInv

\* Whoever makes the clone moves alone: nobody uses it, no entry needs it, and
\* neither a pass nor a removal is under way.
LEMMA MakerMoves ==
  ASSUME CloneInv, TypeOK', NEW c \in Calls,
         Pins = {}, entries = {}, pass.step = "idle", remover.step = "idle",
         \A b \in Calls : b # c => phase[b] \in {"idle", "wait"} /\ phase'[b] = phase[b],
         phase'[c] = "idle" \/ lock' = c \/ (c \in Readers /\ phase'[c] = "use"),
         phase'[c] = "use" => There' /\ row'.gen = gen,
         MakingAt(c)', RowInv', UNCHANGED <<entries, gen, era, pass, remover>>
  PROVE  CloneInv'
<1>1. HolderInv'
  BY DEF HolderInv, Evicting
<1>2. MakingInv'
  BY DEF MakingInv, MakingAt
<1>3. UseInv'
  <2>1. Pins' # {} => phase'[c] = "use"
    BY DEF Pins
  <2> QED BY <2>1 DEF CloneInv, UseInv
<1>4. PassInv' /\ RemoverInv'
  BY DEF PassInv, RemoverInv, Evicting
<1> QED BY <1>1, <1>2, <1>3, <1>4 DEF CloneInv

\* What a maker's step has to show.
LEMMA MakingStep ==
  ASSUME CloneInv, NEW c \in Calls, phase[c] \notin {"idle", "wait", "use"},
         row' \in Rows \cup {NoRow}, tree' \in Trees, NEW p \in Phases, Goto(c, p),
         \/ p = "idle" /\ lock' = None
         \/ p # "idle" /\ p # "use" /\ lock' = lock
         \/ p = "use" /\ lock' = (IF c \in Readers THEN None ELSE c) /\ There' /\ row'.gen = gen,
         MakingAt(c)', RowInv', UNCHANGED <<entries, gen, era, pass, remover, crashes>>
  PROVE  CloneInv'
<1>1. Pins = {} /\ entries = {} /\ pass.step = "idle" /\ remover.step = "idle"
  BY MakingMeansNoUse
<1>2. lock = c /\ \A b \in Calls \ {c} : phase[b] \in {"idle", "wait"}
  BY <1>1, Alone DEF Pins
<1>3. /\ phase' \in [Calls -> Phases] /\ phase'[c] = p
      /\ \A b \in Calls : b # c => phase'[b] = phase[b]
  BY Moves DEF CloneInv
<1>4. TypeOK'
  BY <1>2, <1>3 DEF CloneInv, TypeOK
<1> QED BY <1>1, <1>2, <1>3, <1>4, MakerMoves

LEMMA AfreshKeeps ==
  ASSUME Tidy, CloneInv, NEW c \in Calls, Ensure(c), ClearAway(c) \/ StartAfresh(c)
  PROVE  CloneInv'
<1>1. /\ State \in {"absent", "evicted", "materialising"} /\ ~There
      /\ lock = None /\ phase[c] = "wait" /\ gen \in 1..MaxGeneration
  BY DEF Ensure, ClearAway, StartAfresh, There, CloneInv, TypeOK
<1>2. Pins = {} /\ entries = {}
  BY <1>1 DEF CloneInv, UseInv
<1>3. pass.step = "idle" /\ remover.step = "idle"
  <2>1. ~Evicting
    BY <1>1, AtTheLock
  <2>2. pass.step \notin {"derive", "probe"} /\ remover.step = "idle"
    BY DEF ClearAway, StartAfresh, Deriving, Removing, Tidy
  <2> QED BY <2>1, <2>2 DEF CloneInv, TypeOK, Evicting
<1>4. \A b \in Calls : phase[b] \in {"idle", "wait"}
  BY <1>1, <1>2, AtTheLock DEF Pins
<1>5. UNCHANGED <<entries, gen, era, pass, remover, crashes>>
  BY DEF Ensure
<1>6. CASE ClearAway(c)
  <2> DEFINE p == IF tree' = "none" THEN "room" ELSE "adopt"
  <2>1. /\ tree' \in Trees /\ tree' \in {"none", "remains", "broken"}
        /\ State = "materialising" /\ row # NoRow
    <3>1. State = "materialising" /\ row # NoRow /\ Removed
      BY <1>6 DEF ClearAway, State
    <3>2. tree \in Trees /\ tree \notin {"clean", "dirty"}
      BY <3>1 DEF CloneInv, TypeOK, RowInv
    <3> QED BY <3>1, <3>2, Removal
  <2>2. CASE row' = Row("absent", era[c]) /\ Goto(c, p) /\ lock' = c
    <3> HIDE DEF p
    <3>1. row' \in Rows /\ State' = "absent"
      BY <1>1, <2>2, RowFields, Captured DEF State
    <3>2. p \in {"room", "adopt"} /\ p \in Phases /\ (p = "room" => tree' = "none")
      BY DEF Phases, p
    <3>3. /\ phase' \in [Calls -> Phases] /\ phase'[c] = p
          /\ \A b \in Calls : b # c => phase'[b] = phase[b]
      BY <2>2, <3>2, Moves DEF CloneInv
    <3>4. TypeOK'
      BY <1>5, <2>1, <2>2, <3>1, <3>3 DEF CloneInv, TypeOK
    <3>5. MakingAt(c)' /\ RowInv'
      BY <2>1, <3>1, <3>2, <3>3 DEF MakingAt, RowInv, There
    <3> QED BY <1>2, <1>3, <1>4, <1>5, <2>2, <3>2, <3>3, <3>4, <3>5, MakerMoves
  <2>3. CASE UNCHANGED row /\ Refused(c)
    <3>1. State' = "materialising"
      BY <2>1, <2>3 DEF State
    <3>2. /\ phase' \in [Calls -> Phases] /\ phase'[c] = "idle" /\ lock' = None
          /\ \A b \in Calls : b # c => phase'[b] = phase[b]
      BY <2>3, Moves DEF CloneInv, Phases, Refused
    <3>3. TypeOK'
      BY <1>5, <2>1, <2>3, <3>2 DEF CloneInv, TypeOK
    <3>4. MakingAt(c)' /\ RowInv'
      BY <2>1, <3>1, <3>2 DEF MakingAt, RowInv, There
    <3> QED BY <1>2, <1>3, <1>4, <1>5, <3>2, <3>3, <3>4, MakerMoves
  <2> QED BY <1>6, <2>2, <2>3 DEF ClearAway
<1>7. CASE StartAfresh(c)
  <2> DEFINE p == IF tree = "none" THEN "room" ELSE "adopt"
  <2>1. /\ State \in {"absent", "evicted"} /\ UNCHANGED <<row, tree>> /\ lock' = c /\ Goto(c, p)
    BY <1>7 DEF StartAfresh
  <2>2. p \in Phases /\ (p = "room" => tree = "none") /\ p \in {"room", "adopt"}
    BY DEF Phases
  <2> HIDE DEF p
  <2>3. /\ phase' \in [Calls -> Phases] /\ phase'[c] = p
        /\ \A b \in Calls : b # c => phase'[b] = phase[b]
    BY <2>1, <2>2, Moves DEF CloneInv
  <2>4. State' = State
    BY <2>1 DEF State
  <2>5. TypeOK'
    BY <1>5, <2>1, <2>3 DEF CloneInv, TypeOK
  <2>6. MakingAt(c)' /\ RowInv'
    BY <2>1, <2>2, <2>3, <2>4 DEF MakingAt, RowInv, There, CloneInv
  <2> QED BY <1>2, <1>3, <1>4, <1>5, <2>1, <2>2, <2>3, <2>5, <2>6, MakerMoves
<1> QED BY <1>6, <1>7

\* The row that is written, and what it then says.
LEMMA RowWritten ==
  ASSUME NEW state \in {"absent", "materialising", "ready", "attention", "evicted"},
         NEW g \in 1..MaxGeneration, row' = Row(state, g)
  PROVE  row' \in Rows /\ row' # NoRow /\ State' = state /\ row'.gen = g
BY RowFields DEF State

LEMMA MeasuredKeeps ==
  ASSUME CloneInv, NEW c \in Calls, Measured(c)
  PROVE  CloneInv'
<1>1. /\ phase[c] = "room" /\ gen \in 1..MaxGeneration /\ tree = "none" /\ ~There
      /\ State \in {"absent", "evicted"}
      /\ row \in Rows \cup {NoRow} /\ tree \in Trees
      /\ UNCHANGED <<tree, entries, gen, era, pass, remover, crashes>>
  BY DEF Measured, CloneInv, TypeOK, MakingInv, MakingAt, There
<1>2. CASE Refused(c) /\ UNCHANGED row
  <2>1. State' = State /\ Goto(c, "idle") /\ lock' = None /\ phase'[c] = "idle"
    BY <1>2, Moves DEF State, Refused, CloneInv, Phases
  <2>2. MakingAt(c)' /\ RowInv'
    BY <1>1, <2>1 DEF MakingAt, RowInv, There
  <2> QED BY <1>1, <1>2, <2>1, <2>2, MakingStep DEF Phases
<1>3. CASE row' = Row("materialising", era[c]) /\ Goto(c, "clone") /\ UNCHANGED lock
  <2>1. row' \in Rows /\ State' = "materialising" /\ phase'[c] = "clone"
    BY <1>1, <1>3, RowWritten, Captured, Moves DEF CloneInv, Phases
  <2>2. MakingAt(c)' /\ RowInv'
    BY <1>1, <2>1 DEF MakingAt, RowInv, There
  <2> QED BY <1>1, <1>3, <2>1, <2>2, MakingStep DEF Phases
<1> QED BY <1>2, <1>3 DEF Measured

LEMMA AppearsKeeps ==
  ASSUME CloneInv, NEW c \in Calls, CloneAppears(c)
  PROVE  CloneInv'
<1>1. /\ phase[c] = "clone" /\ State = "materialising" /\ row \in Rows \cup {NoRow}
      /\ tree' = "partial" /\ UNCHANGED <<row, lock, phase, entries, gen, era, pass, remover, crashes>>
  BY DEF CloneAppears, CloneInv, TypeOK, MakingInv, MakingAt
<1>2. Goto(c, "clone") /\ State' = State
  BY <1>1 DEF CloneInv, TypeOK, Goto, State
<1>3. MakingAt(c)' /\ RowInv'
  BY <1>1, <1>2 DEF MakingAt, RowInv, There
<1> QED BY <1>1, <1>2, <1>3, MakingStep DEF Phases, Trees

\* Given up: the partial tree goes, the row says so or still says materialising.
LEMMA UndoneKeeps ==
  ASSUME CloneInv, NEW c \in Calls, phase[c] \in {"clone", "identity"}, Undone(c),
         UNCHANGED <<entries, gen, era, pass, remover, crashes>>
  PROVE  CloneInv'
<1>1. /\ State = "materialising" /\ Removed /\ tree \in Trees /\ Goto(c, "idle") /\ lock' = None
      /\ row' \in {row, Row("absent", gen)} /\ row \in Rows \cup {NoRow} /\ gen \in 1..MaxGeneration
  BY Captured DEF Undone, Refused, CloneInv, TypeOK, MakingInv, MakingAt
<1>2. row' \in Rows \cup {NoRow} /\ State' \in {"materialising", "absent"}
  <2>1. CASE row' = row
    BY <1>1, <2>1 DEF State
  <2>2. CASE row' = Row("absent", gen)
    BY <1>1, <2>2, RowWritten
  <2> QED BY <1>1, <2>1, <2>2
<1>3. phase'[c] = "idle"
  BY <1>1, Moves DEF CloneInv, Phases
<1>4. tree' \in Trees /\ tree' \in {"none", "remains", "broken"}
  <2>1. tree \notin {"clean", "dirty"}
    BY <1>1 DEF CloneInv, RowInv
  <2> QED BY <1>1, <2>1, Removal
<1>5. MakingAt(c)' /\ RowInv'
  BY <1>1, <1>2, <1>3, <1>4 DEF MakingAt, RowInv, There
<1> QED BY <1>1, <1>2, <1>4, <1>5, MakingStep DEF Phases

LEMMA CloningKeeps ==
  ASSUME CloneInv, NEW c \in Calls, CloneEnds(c) \/ IdentitySet(c)
  PROVE  CloneInv'
<1>1. /\ phase[c] \in {"clone", "identity"} /\ State = "materialising"
      /\ row \in Rows \cup {NoRow} /\ tree \in Trees
      /\ UNCHANGED <<entries, gen, era, pass, remover, crashes>>
  BY DEF CloneEnds, IdentitySet, CloneInv, TypeOK, MakingInv, MakingAt
<1>2. CASE Undone(c)
  BY <1>1, <1>2, UndoneKeeps
<1>3. ASSUME NEW p \in {"identity", "cloned"}, Goto(c, p), UNCHANGED <<row, tree, lock>>,
             tree \in {"partial", "broken"}
      PROVE  CloneInv'
  <2>1. p \in Phases /\ phase'[c] = p /\ State' = State
    BY <1>3, Moves DEF Phases, State, CloneInv
  <2>2. MakingAt(c)' /\ RowInv'
    BY <1>1, <1>3, <2>1 DEF MakingAt, RowInv, There
  <2> QED BY <1>1, <1>3, <2>1, <2>2, MakingStep
<1>4. phase[c] = "identity" => tree \in {"partial", "broken"}
  BY DEF CloneInv, MakingInv, MakingAt
<1> QED BY <1>2, <1>3, <1>4 DEF CloneEnds, IdentitySet

LEMMA ProbedKeeps ==
  ASSUME CloneInv, NEW c \in Calls, AdoptionProbed(c)
  PROVE  CloneInv'
<1>1. /\ phase[c] = "adopt" /\ State \in {"absent", "evicted"}
      /\ row \in Rows \cup {NoRow} /\ tree \in Trees
      /\ UNCHANGED <<row, tree, entries, gen, era, pass, remover, crashes>>
  BY DEF AdoptionProbed, CloneInv, TypeOK, MakingInv, MakingAt
<1>2. State' = State /\ RowInv'
  BY <1>1 DEF State, CloneInv, RowInv, There
<1>3. CASE Refused(c)
  <2>1. Goto(c, "idle") /\ lock' = None /\ phase'[c] = "idle"
    BY <1>3, Moves DEF Refused, CloneInv, Phases
  <2>2. MakingAt(c)'
    BY <2>1 DEF MakingAt
  <2> QED BY <1>1, <1>2, <2>1, <2>2, MakingStep DEF Phases
<1>4. CASE tree \notin {"none", "broken"} /\ Goto(c, "adopted") /\ UNCHANGED lock
  <2>1. phase'[c] = "adopted"
    BY <1>4, Moves DEF CloneInv, Phases
  <2>2. MakingAt(c)'
    BY <1>1, <1>2, <1>4, <2>1 DEF MakingAt
  <2> QED BY <1>1, <1>2, <1>4, <2>2, MakingStep DEF Phases
<1> QED BY <1>3, <1>4 DEF AdoptionProbed

\* What was cloned is whole now, and what was adopted is not a partial clone.
LEMMA MaterialisedKeeps ==
  ASSUME CloneInv, NEW c \in Calls, Materialised(c)
  PROVE  CloneInv'
<1>1. /\ phase[c] \in {"cloned", "adopted"} /\ row \in Rows \cup {NoRow} /\ tree \in Trees
      /\ gen \in 1..MaxGeneration
      /\ UNCHANGED <<entries, gen, era, pass, remover, crashes>>
  BY DEF Materialised, CloneInv, TypeOK
<1>2. CASE UNCHANGED <<row, tree>> /\ Refused(c)
  <2>1. Goto(c, "idle") /\ lock' = None /\ phase'[c] = "idle" /\ State' = State
    BY <1>2, Moves DEF Refused, CloneInv, Phases, State
  <2>2. MakingAt(c)' /\ RowInv'
    BY <1>2, <2>1 DEF MakingAt, RowInv, There, CloneInv
  <2> QED BY <1>1, <1>2, <2>1, <2>2, MakingStep DEF Phases
<1>3. CASE /\ row' = Row("ready", era[c]) /\ Served(c)
           /\ tree' = IF phase[c] = "cloned" /\ tree = "partial" THEN "clean" ELSE tree
  <2>1. row' \in Rows /\ State' = "ready" /\ row'.gen = gen /\ There'
    BY <1>1, <1>3, RowWritten, Captured DEF There
  <2>2. Goto(c, "use") /\ lock' = (IF c \in Readers THEN None ELSE c) /\ phase'[c] = "use"
    BY <1>3, Moves DEF Served, CloneInv, Phases
  <2>3. tree' \in Trees /\ tree' \notin {"none", "partial"}
    <3>1. phase[c] = "cloned" => tree \in {"partial", "broken"}
      BY DEF CloneInv, MakingInv, MakingAt
    <3>2. phase[c] = "adopted" => tree \notin {"none", "partial"}
      BY DEF CloneInv, MakingInv, MakingAt, RowInv
    <3> QED BY <1>1, <1>3, <3>1, <3>2 DEF Trees
  <2>4. MakingAt(c)' /\ RowInv'
    BY <2>1, <2>2, <2>3 DEF MakingAt, RowInv, There
  <2> QED BY <1>1, <2>1, <2>2, <2>3, <2>4, MakingStep DEF Phases
<1> QED BY <1>2, <1>3 DEF Materialised

-----------------------------------------------------------------------------
(***************************************************************************)
(* The use of a clone, its marks, its eras.                                *)
(***************************************************************************)
LEMMA UsersAreServed ==
  ASSUME CloneInv, Pins # {} \/ entries # {}
  PROVE  /\ There /\ State = row.state /\ row \in Rows /\ row # NoRow /\ row.gen = gen /\ ~Making
         /\ tree \in {"clean", "dirty", "remains", "broken"}
<1>1. There /\ row.gen = gen
  BY DEF CloneInv, UseInv
<1>2. row \in Rows /\ row # NoRow /\ State = row.state
  BY <1>1 DEF There, State, CloneInv, TypeOK
<1>3. ~Making
  BY <1>1, MakingMeansNoUse DEF Making
<1>4. tree \in {"clean", "dirty", "remains", "broken"}
  BY <1>1 DEF CloneInv, RowInv, TypeOK, Trees
<1> QED BY <1>1, <1>2, <1>3, <1>4

\* A writer keeps passes that evict away.
LEMMA WriterAlone ==
  ASSUME CloneInv, NEW c \in Writers, phase[c] = "use"
  PROVE  /\ c \in Calls /\ Pins # {} /\ lock = c /\ ~Evicting /\ ~Making
         /\ There /\ row.gen = gen
<1>1. c \in Calls /\ c \notin Readers
  BY CloneStoreAssumption DEF Calls
<1>2. Pins # {}
  BY <1>1 DEF Pins
<1> QED BY <1>1, <1>2, Alone, UsersAreServed

LEMMA BeginKeeps ==
  ASSUME Tidy, CloneInv, NEW c \in Calls, Begin(c)
  PROVE  CloneInv'
<1>1. /\ c \in Writers /\ phase[c] = "use" /\ remover.step = "idle" /\ entries' = entries \cup {gen}
      /\ UNCHANGED <<row, tree, lock, phase, gen, era, pass, remover, crashes>>
  BY Captured DEF Begin, Removing, Tidy
<1>2. ~Evicting /\ There /\ row.gen = gen
  BY <1>1, WriterAlone
<1>3. (There' <=> There) /\ (Making' <=> Making) /\ Pins' = Pins /\ State' = State
  BY <1>1 DEF There, Making, Pins, State
<1>4. TypeOK'
  BY <1>1 DEF CloneInv, TypeOK
<1>5. HolderInv' /\ MakingInv'
  BY <1>1, <1>3 DEF CloneInv, HolderInv, MakingInv, MakingAt, Evicting
<1>6. RowInv' /\ UseInv'
  BY <1>1, <1>2, <1>3 DEF CloneInv, RowInv, UseInv
<1>7. PassInv' /\ RemoverInv'
  BY <1>1, <1>2, <1>3 DEF CloneInv, PassInv, RemoverInv, Evicting
<1> QED BY <1>4, <1>5, <1>6, <1>7 DEF CloneInv

LEMMA WorkKeeps ==
  ASSUME Tidy, CloneInv, NEW c \in Calls, Work(c)
  PROVE  CloneInv'
<1>1. /\ c \in Writers /\ phase[c] = "use" /\ remover.step = "idle" /\ tree' \in {"clean", "dirty"}
      /\ UNCHANGED <<row, lock, phase, entries, gen, era, pass, remover, crashes>>
  BY Captured DEF Work, Removing, Tidy
<1>2. ~Evicting /\ ~Making /\ There
  BY <1>1, WriterAlone
<1>3. (There' <=> There) /\ (Making' <=> Making) /\ Pins' = Pins /\ State' = State
  BY <1>1 DEF There, Making, Pins, State
<1>4. TypeOK'
  BY <1>1 DEF CloneInv, TypeOK, Trees
<1>5. HolderInv' /\ MakingInv'
  BY <1>1, <1>2, <1>3 DEF CloneInv, HolderInv, MakingInv, MakingAt, Evicting, Making
<1>6. RowInv' /\ UseInv'
  BY <1>1, <1>2, <1>3 DEF CloneInv, RowInv, UseInv, There
<1>7. PassInv' /\ RemoverInv'
  BY <1>1, <1>2, <1>3 DEF CloneInv, PassInv, RemoverInv, Evicting
<1> QED BY <1>4, <1>5, <1>6, <1>7 DEF CloneInv

\* Calls that end, entries that go and a row that is marked or cleared, of a
\* clone that is there and that no pass is deriving.
LEMMA MarkKeeps ==
  ASSUME Tidy, CloneInv, There, ~Making, TypeOK', HolderInv',
         /\ entries' \subseteq entries
         /\ \A b \in Calls : phase'[b] = phase[b] \/ phase'[b] = "idle"
         /\ UNCHANGED <<tree, gen, era, pass, remover>>
         /\ \/ UNCHANGED row
            \/ \E state \in {"ready", "attention"} : row' = Row(state, row.gen) /\ ~Deriving
  PROVE  CloneInv'
<1>1. row \in Rows /\ row # NoRow /\ row.gen \in 1..MaxGeneration
  BY DEF There, State, CloneInv, TypeOK, Rows
<1>2. There' /\ row'.gen = row.gen
  BY <1>1, RowWritten DEF There, State
<1>3. ~Making' /\ Pins' \subseteq Pins
  BY DEF Making, Pins
<1>4. row' = row \/ pass.step \notin {"derive", "probe"}
  BY DEF Deriving, Tidy
<1>5. MakingInv'
  BY DEF Making, MakingInv, MakingAt
<1>6. RowInv' /\ UseInv'
  BY <1>2, <1>3 DEF CloneInv, RowInv, UseInv, There
<1>7. PassInv'
  BY <1>1, <1>2, <1>3, <1>4 DEF CloneInv, PassInv, Evicting
<1>8. RemoverInv'
  BY <1>3 DEF CloneInv, RemoverInv
<1> QED BY <1>5, <1>6, <1>7, <1>8 DEF CloneInv

LEMMA UseEndsKeeps ==
  ASSUME Tidy, CloneInv, NEW c \in Calls, WriterEnds(c) \/ ReaderEnds(c)
  PROVE  CloneInv'
<1>1. /\ phase[c] = "use" /\ Goto(c, "idle") /\ UNCHANGED <<tree, gen, era, pass, remover, crashes>>
      /\ entries' \subseteq entries
      /\ \/ UNCHANGED row
         \/ row # NoRow /\ row' = Row("attention", row.gen) /\ ~Deriving
  BY DEF WriterEnds, ReaderEnds, Refused, Deriving
<1>2. Pins # {}
  BY <1>1 DEF Pins
<1>3. There /\ ~Making /\ row \in Rows /\ row.gen \in 1..MaxGeneration
  BY <1>2, UsersAreServed DEF CloneInv, TypeOK, Rows
<1>4. /\ phase' \in [Calls -> Phases] /\ phase'[c] = "idle"
      /\ \A b \in Calls : b # c => phase'[b] = phase[b]
  BY <1>1, Moves DEF CloneInv, Phases
<1>5. lock' \in {lock, None}
  BY DEF WriterEnds, ReaderEnds, Refused
<1>6. TypeOK'
  BY <1>1, <1>3, <1>4, <1>5, RowFields DEF CloneInv, TypeOK
<1>7. HolderInv'
  <2>1. CASE WriterEnds(c)
    <3>1. ~Evicting /\ ~Making /\ \A b \in Calls \ {c} : phase[b] \in {"idle", "wait"}
                                                     \/ (b \in Readers /\ phase[b] = "use")
      BY <1>1, <2>1, WriterAlone, Alone, CloneStoreAssumption DEF WriterEnds, Calls
    <3> QED BY <1>1, <1>4, <3>1 DEF HolderInv, Evicting
  <2>2. CASE ReaderEnds(c)
    BY <1>1, <1>4, <2>2 DEF ReaderEnds, CloneInv, HolderInv, Evicting
  <2> QED BY <2>1, <2>2
<1> QED BY <1>1, <1>3, <1>4, <1>6, <1>7, MarkKeeps

\* An entry that is unsettled means that the clone is there.
LEMMA SettlingKeeps ==
  ASSUME Tidy, CloneInv, (\E g \in 1..MaxGeneration : Recover(g)) \/ ClearAttention
  PROVE  CloneInv'
<1>1. /\ UNCHANGED <<tree, lock, phase, gen, era, pass, remover, crashes>>
      /\ entries' \subseteq entries
      /\ entries # {} \/ State = "attention"
      /\ \/ UNCHANGED row
         \/ row' = Row("attention", row.gen) /\ ~Deriving
         \/ row' = Row("ready", row.gen) /\ ~Deriving
  BY DEF Recover, ClearAttention, Deriving
<1>2. There
  BY <1>1, UsersAreServed DEF There
<1>3. ~Making /\ row \in Rows /\ row.gen \in 1..MaxGeneration
  BY <1>2, MakingMeansNoUse DEF Making, There, State, CloneInv, TypeOK, Rows
<1>4. TypeOK'
  BY <1>1, <1>3, RowFields DEF CloneInv, TypeOK
<1>5. HolderInv'
  BY <1>1 DEF CloneInv, HolderInv, Evicting
<1> QED BY <1>1, <1>2, <1>3, <1>4, <1>5, MarkKeeps

\* A new era begins with no call under way and nothing unsettled.
LEMMA RedeclareKeeps ==
  ASSUME Tidy, CloneInv, Redeclare
  PROVE  CloneInv'
<1>1. /\ gen' \in 1..MaxGeneration /\ entries = {} /\ Pins = {}
      /\ era' \in [Calls -> 1..MaxGeneration] /\ \A c \in Calls : era'[c] = gen'
      /\ UNCHANGED <<row, tree, lock, phase, entries, pass, remover, crashes>>
  <2>1. \A c \in Calls : phase[c] = "idle"
    BY DEF Redeclare, Tidy
  <2>2. gen' = gen + 1 /\ gen' \in 1..MaxGeneration /\ era' = [c \in Calls |-> gen']
    BY <2>1, CloneStoreAssumption DEF Redeclare, CloneInv, TypeOK
  <2>3. Pins = {}
    BY <2>1 DEF Pins
  <2>4. entries = {}
    BY DEF Redeclare, SafeToAdopt, CloneInv, UseInv, There
  <2> QED BY <2>2, <2>3, <2>4 DEF Redeclare
<1>2. Pins' = Pins /\ State' = State /\ (There' <=> There) /\ (Making' <=> Making)
  BY <1>1 DEF Pins, State, There, Making
<1>3. TypeOK'
  BY <1>1 DEF CloneInv, TypeOK
<1>4. HolderInv' /\ MakingInv'
  BY <1>1, <1>2 DEF CloneInv, HolderInv, MakingInv, MakingAt, Evicting
<1>5. RowInv' /\ UseInv'
  BY <1>1, <1>2 DEF CloneInv, RowInv, UseInv
<1>6. PassInv' /\ RemoverInv'
  BY <1>1, <1>2 DEF CloneInv, PassInv, RemoverInv, Evicting
<1> QED BY <1>3, <1>4, <1>5, <1>6 DEF CloneInv

LEMMA SpoilKeeps ==
  ASSUME CloneInv, Spoil
  PROVE  CloneInv'
<1>1. /\ tree \in {"clean", "dirty", "partial", "remains"} /\ tree' = "broken"
      /\ UNCHANGED <<row, lock, phase, entries, gen, era, pass, remover, crashes>>
  BY DEF Spoil, Pieces
<1>2. Pins' = Pins /\ State' = State /\ (There' <=> There) /\ (Making' <=> Making)
  BY <1>1 DEF Pins, State, There, Making
<1>3. TypeOK'
  BY <1>1 DEF CloneInv, TypeOK, Trees
<1>4. HolderInv' /\ MakingInv'
  BY <1>1, <1>2 DEF CloneInv, HolderInv, MakingInv, MakingAt, Evicting
<1>5. RowInv' /\ UseInv'
  BY <1>1, <1>2 DEF CloneInv, RowInv, UseInv
<1>6. PassInv' /\ RemoverInv'
  BY <1>1, <1>2 DEF CloneInv, PassInv, RemoverInv, Evicting
<1> QED BY <1>3, <1>4, <1>5, <1>6 DEF CloneInv

-----------------------------------------------------------------------------
(***************************************************************************)
(* The pass that derives rows, and boot, which does so too.                *)
(***************************************************************************)

\* Passes and removals move no call, and change the row of a clone that is not
\* being made.
LEMMA PassesKeep ==
  ASSUME CloneInv, ~Making, UNCHANGED <<phase, entries, gen, era, crashes>>,
         row' \in Rows \cup {NoRow}, tree' \in Trees,
         lock' = lock \/ lock' = None \/ lock' = "evict",
         pass' \in [step : {"idle", "derive", "probe", "check", "delete"}, seen : Rows \cup {NoRow}],
         remover' \in [step : {"idle", "readable", "status", "delete"}, gen : 1..MaxGeneration],
         RowInv', Pins # {} \/ entries # {} => There' /\ row'.gen = gen,
         HolderInv', PassInv', RemoverInv'
  PROVE  CloneInv'
<1>1. Pins' = Pins /\ ~Making'
  BY DEF Pins, Making
<1>2. TypeOK'
  BY DEF CloneInv, TypeOK
<1>3. MakingInv'
  BY <1>1 DEF Making, MakingInv, MakingAt
<1>4. UseInv'
  BY <1>1 DEF CloneInv, UseInv
<1> QED BY <1>2, <1>3, <1>4 DEF CloneInv

\* What derivation makes of a row: a clone that is there stays there.
LEMMA Derived ==
  ASSUME CloneInv, row # NoRow,
         \/ tree = "none" /\ row' = Missing(row) /\ tree' = tree
         \/ row.state = "materialising" /\ Removed /\ row' = Row("absent", row.gen)
         \/ tree # "none" /\ row.state # "materialising" /\ row' \in Probed(row) /\ tree' = tree
  PROVE  /\ row' \in Rows /\ tree' \in Trees /\ RowInv'
         /\ There => There' /\ row'.gen = row.gen
<1>1. /\ row \in Rows /\ State = row.state /\ row.gen \in 1..MaxGeneration /\ tree \in Trees
      /\ row.state \in {"absent", "materialising", "ready", "attention", "evicted"}
  BY DEF CloneInv, TypeOK, State, Rows
<1>2. CASE tree = "none" /\ row' = Missing(row) /\ tree' = tree
  <2>1. ~There
    BY <1>2 DEF CloneInv, RowInv
  <2>2. CASE row.state \in {"absent", "evicted"}
    <3>1. row' = row /\ State' = State
      BY <1>2, <2>2 DEF Missing, State
    <3> QED BY <1>1, <1>2, <2>1, <3>1 DEF RowInv, There
  <2>3. CASE row.state \notin {"absent", "evicted"}
    <3>1. row' \in Rows /\ State' = "absent"
      BY <1>1, <1>2, <2>3, RowWritten DEF Missing
    <3> QED BY <1>1, <1>2, <2>1, <3>1 DEF RowInv, There
  <2> QED BY <2>2, <2>3
<1>3. CASE row.state = "materialising" /\ Removed /\ row' = Row("absent", row.gen)
  <2>1. row' \in Rows /\ State' = "absent" /\ ~There
    BY <1>1, <1>3, RowWritten DEF There
  <2>2. tree' \in Trees \ {"partial"}
    BY <1>1, <1>3, Removal
  <2> QED BY <2>1, <2>2 DEF RowInv, There
<1>4. CASE tree # "none" /\ row.state # "materialising" /\ row' \in Probed(row) /\ tree' = tree
  <2>1. tree \notin {"none", "partial"}
    BY <1>1, <1>4 DEF CloneInv, RowInv
  <2>2. row' = Row("attention", row.gen) \/ row' = Row("ready", row.gen)
    BY <1>4 DEF Probed
  <2>3. row' \in Rows /\ State' \in {"ready", "attention"} /\ row'.gen = row.gen
    BY <1>1, <2>2, RowWritten
  <2> QED BY <1>1, <1>4, <2>1, <2>3 DEF RowInv, There
<1> QED BY <1>2, <1>3, <1>4

LEMMA ReadKeeps ==
  ASSUME Tidy, CloneInv, DeriveReads
  PROVE  CloneInv'
<1>1. /\ ~Making /\ remover.step = "idle" /\ row \in Rows
      /\ pass' = [step |-> "derive", seen |-> row]
      /\ UNCHANGED <<row, tree, lock, phase, entries, gen, era, remover, crashes>>
  BY DEF DeriveReads, Apart, Removing, Tidy, CloneInv, TypeOK
<1>2. pass'.step = "derive" /\ pass'.seen = row /\ ~Evicting'
  BY <1>1 DEF Evicting
<1>3. Pins' = Pins /\ State' = State /\ (There' <=> There) /\ (Making' <=> Making)
  BY <1>1 DEF Pins, State, There, Making
<1>4. TypeOK'
  BY <1>1 DEF CloneInv, TypeOK
<1>5. HolderInv' /\ MakingInv'
  BY <1>1, <1>2, <1>3 DEF CloneInv, HolderInv, MakingInv, MakingAt
<1>6. RowInv' /\ UseInv'
  BY <1>1, <1>3 DEF CloneInv, RowInv, UseInv
<1>7. PassInv' /\ RemoverInv'
  BY <1>1, <1>2, <1>3 DEF CloneInv, PassInv, RemoverInv
<1> QED BY <1>4, <1>5, <1>6, <1>7 DEF CloneInv

\* What the pass read is still so when it comes to write.
LEMMA DeriveKeeps ==
  ASSUME Tidy, CloneInv, DeriveLooks \/ DeriveWrites
  PROVE  CloneInv'
<1>1. /\ pass.step \in {"derive", "probe"} /\ ~Making /\ remover.step = "idle"
      /\ row = pass.seen /\ row \in Rows /\ row # NoRow
      /\ UNCHANGED <<lock, phase, entries, gen, era, remover, crashes>>
  BY NoRowAssumption DEF DeriveLooks, DeriveWrites, CloneInv, PassInv
<1>2. /\ tree \in Trees
      /\ pass \in [step : {"idle", "derive", "probe", "check", "delete"}, seen : Rows \cup {NoRow}]
      /\ remover' \in [step : {"idle", "readable", "status", "delete"}, gen : 1..MaxGeneration]
  BY <1>1 DEF CloneInv, TypeOK
<1>3. Pins # {} \/ entries # {} => There /\ row.gen = gen
  BY DEF CloneInv, UseInv
<1>4. \A c \in Calls : phase[c] \notin {"idle", "wait"} /\ (c \in Readers => phase[c] # "use")
                         => lock = c
  BY DEF CloneInv, HolderInv
<1>5. ~Making'
  BY <1>1 DEF Making
<1>6. CASE pass' = Resting
  <2>1. /\ ~Evicting' /\ pass'.step = "idle"
        /\ pass' \in [step : {"idle", "derive", "probe", "check", "delete"}, seen : Rows \cup {NoRow}]
    BY <1>6 DEF Resting, Evicting
  <2>2. HolderInv' /\ PassInv' /\ RemoverInv'
    BY <1>1, <1>4, <2>1 DEF HolderInv, PassInv, RemoverInv
  <2>3. CASE row' = row /\ tree' = tree
    <3>1. State' = State
      BY <2>3 DEF State
    <3>2. RowInv'
      BY <2>3, <3>1 DEF CloneInv, RowInv, There
    <3> QED BY <1>1, <1>2, <1>3, <2>1, <2>2, <2>3, <3>1, <3>2, PassesKeep DEF There
  <2>4. CASE ~(row' = row /\ tree' = tree)
    <3>1. \/ tree = "none" /\ row' = Missing(row) /\ tree' = tree
          \/ row.state = "materialising" /\ Removed /\ row' = Row("absent", row.gen)
          \/ tree # "none" /\ row.state # "materialising" /\ row' \in Probed(row) /\ tree' = tree
      <4>1. CASE DeriveLooks
        BY <1>1, <1>6, <2>1, <2>4, <4>1 DEF DeriveLooks
      <4>2. CASE DeriveWrites
        <5>1. tree # "none" /\ row.state # "materialising"
          BY <4>2 DEF DeriveWrites, CloneInv, PassInv
        <5> QED BY <1>1, <4>2, <5>1 DEF DeriveWrites
      <4> QED BY <4>1, <4>2
    <3>2. /\ row' \in Rows /\ tree' \in Trees /\ RowInv'
          /\ There => There' /\ row'.gen = row.gen
      BY <1>1, <3>1, Derived
    <3> QED BY <1>1, <1>2, <1>3, <2>1, <2>2, <3>2, PassesKeep
  <2> QED BY <2>3, <2>4
<1>7. CASE pass' # Resting
  <2>1. /\ pass' = [pass EXCEPT !.step = "probe"] /\ UNCHANGED <<row, tree>>
        /\ tree # "none" /\ row.state # "materialising"
    BY <1>1, <1>7 DEF DeriveLooks, DeriveWrites
  <2>2. /\ pass' \in [step : {"idle", "derive", "probe", "check", "delete"}, seen : Rows \cup {NoRow}]
        /\ pass'.step = "probe" /\ pass'.seen = row /\ ~Evicting'
    BY <1>1, <1>2, <2>1 DEF Evicting
  <2>3. HolderInv' /\ PassInv' /\ RemoverInv'
    BY <1>1, <1>4, <1>5, <2>1, <2>2 DEF HolderInv, PassInv, RemoverInv
  <2>4. State' = State
    BY <2>1 DEF State
  <2>5. RowInv'
    BY <2>1, <2>4 DEF CloneInv, RowInv, There
  <2> QED BY <1>1, <1>2, <1>3, <2>1, <2>2, <2>3, <2>4, <2>5, PassesKeep DEF There
<1> QED BY <1>6, <1>7

\* A crash leaves no call, pass or removal; what was unsettled had its clone,
\* and has it still.
LEMMA CrashKeeps ==
  ASSUME CloneInv, CrashAndBoot
  PROVE  CloneInv'
<1>1. /\ crashes' = crashes + 1 /\ crashes < MaxCrashes /\ lock' = None
      /\ phase' = [c \in Calls |-> "idle"] /\ pass' = Resting /\ remover' = NotRemoving
      /\ UNCHANGED <<entries, gen, era>>
  BY DEF CrashAndBoot
<1>2. /\ row' \in Rows \cup {NoRow} /\ tree' \in Trees /\ RowInv'
      /\ There => There' /\ row'.gen = row.gen
  <2>1. CASE row = NoRow
    <3>1. row' = row /\ tree' = tree /\ State' = State
      BY <2>1 DEF CrashAndBoot, State
    <3> QED BY <3>1 DEF CloneInv, TypeOK, RowInv, There
  <2>2. CASE row # NoRow
    <3>1. \/ tree = "none" /\ row' = Missing(row) /\ tree' = tree
          \/ row.state = "materialising" /\ Removed /\ row' = Row("absent", row.gen)
          \/ tree # "none" /\ row.state # "materialising" /\ row' \in Probed(row) /\ tree' = tree
      BY <2>2 DEF CrashAndBoot
    <3> QED BY <2>2, <3>1, Derived
  <2> QED BY <2>1, <2>2
<1>3. Pins' = {} /\ ~Making' /\ ~Evicting' /\ pass'.step = "idle" /\ remover'.step = "idle"
  BY <1>1 DEF Pins, Making, Evicting, Resting, NotRemoving
<1>4. TypeOK'
  <2>1. crashes' \in 0..MaxCrashes
    BY <1>1, CloneStoreAssumption DEF CloneInv, TypeOK
  <2>2. phase' \in [Calls -> Phases]
    BY <1>1 DEF Phases
  <2>3. pass' \in [step : {"idle", "derive", "probe", "check", "delete"}, seen : Rows \cup {NoRow}]
    BY <1>1 DEF Resting
  <2>4. remover' \in [step : {"idle", "readable", "status", "delete"}, gen : 1..MaxGeneration]
    BY <1>1, CloneStoreAssumption DEF NotRemoving
  <2> QED BY <1>1, <1>2, <2>1, <2>2, <2>3, <2>4 DEF CloneInv, TypeOK
<1>5. HolderInv' /\ MakingInv'
  BY <1>1, <1>3 DEF HolderInv, MakingInv, MakingAt
<1>6. UseInv'
  BY <1>1, <1>2, <1>3 DEF CloneInv, UseInv
<1>7. PassInv' /\ RemoverInv'
  BY <1>3 DEF PassInv, RemoverInv
<1> QED BY <1>2, <1>4, <1>5, <1>6, <1>7 DEF CloneInv

-----------------------------------------------------------------------------
(***************************************************************************)
(* Eviction, which holds the lock from before it looks until it is done,   *)
(* and removal, which deletes in the turn in which it asks.                *)
(***************************************************************************)
LEMMA EvictStartsKeeps ==
  ASSUME CloneInv, EvictStarts
  PROVE  CloneInv'
<1>1. /\ Pins = {} /\ lock = None /\ lock' = "evict" /\ row # NoRow
      /\ pass' = [step |-> "check", seen |-> row]
      /\ UNCHANGED <<row, tree, phase, entries, gen, era, remover, crashes>>
  BY DEF EvictStarts, TakesLock, State
<1>2. /\ ~Making /\ row \in Rows
      /\ \A c \in Calls : phase[c] \in {"idle", "wait"} \/ (c \in Readers /\ phase[c] = "use")
  BY <1>1, AtTheLock DEF CloneInv, TypeOK
<1>3. /\ pass'.step = "check" /\ pass'.seen = row
      /\ pass' \in [step : {"idle", "derive", "probe", "check", "delete"}, seen : Rows \cup {NoRow}]
  BY <1>1, <1>2
<1>4. Pins' = {} /\ ~Making' /\ State' = State
  BY <1>1, <1>2 DEF Pins, Making, State
<1>5. HolderInv'
  BY <1>1, <1>2 DEF HolderInv
<1>6. RowInv'
  BY <1>1, <1>4 DEF CloneInv, RowInv, There
<1>7. Pins # {} \/ entries # {} => There' /\ row'.gen = gen
  BY <1>1, <1>4 DEF CloneInv, UseInv, There
<1>8. PassInv' /\ RemoverInv'
  BY <1>1, <1>2, <1>3, <1>4, <1>7 DEF CloneInv, PassInv, RemoverInv
<1> QED BY <1>1, <1>2, <1>3, <1>5, <1>6, <1>7, <1>8, PassesKeep DEF CloneInv, TypeOK

\* Nothing is made while the pass holds the lock.
LEMMA EvictingIsAlone ==
  ASSUME CloneInv, Evicting
  PROVE  /\ lock = "evict" /\ ~Making /\ Pins = {} /\ pass.seen \in Rows
         /\ \A c \in Calls : phase[c] \in {"idle", "wait"} \/ (c \in Readers /\ phase[c] = "use")
BY CloneStoreAssumption DEF CloneInv, HolderInv, PassInv, Making, Evicting, Calls

LEMMA EvictKeeps ==
  ASSUME Tidy, CloneInv, EvictChecks \/ EvictDeletes
  PROVE  CloneInv'
<1>1. Evicting /\ UNCHANGED <<phase, entries, gen, era, remover, crashes>>
  BY DEF EvictChecks, EvictDeletes, Evicting
<1>2. /\ lock = "evict" /\ ~Making /\ Pins = {}
      /\ \A c \in Calls : phase[c] \in {"idle", "wait"} \/ (c \in Readers /\ phase[c] = "use")
      /\ pass.seen.gen \in 1..MaxGeneration
  BY <1>1, EvictingIsAlone DEF Rows
<1>3. /\ entries \subseteq {gen} /\ (entries # {} => pass.seen.gen = gen)
      /\ entries # {} => There /\ row.gen = gen
  BY <1>1 DEF CloneInv, UseInv, PassInv
<1>4. /\ row \in Rows \cup {NoRow} /\ tree \in Trees
      /\ pass \in [step : {"idle", "derive", "probe", "check", "delete"}, seen : Rows \cup {NoRow}]
      /\ remover' \in [step : {"idle", "readable", "status", "delete"}, gen : 1..MaxGeneration]
  BY <1>1 DEF CloneInv, TypeOK
<1>5. Pins' = {} /\ ~Making'
  BY <1>1, <1>2 DEF Pins, Making
<1>6. CASE pass' = Resting /\ LetGo /\ UNCHANGED <<row, tree>>
  <2>1. /\ ~Evicting' /\ pass'.step = "idle" /\ State' = State /\ lock' = None
        /\ pass' \in [step : {"idle", "derive", "probe", "check", "delete"}, seen : Rows \cup {NoRow}]
    BY <1>2, <1>6 DEF Resting, Evicting, State, LetGo
  <2>2. HolderInv' /\ PassInv'
    BY <1>1, <1>2, <2>1 DEF HolderInv, PassInv
  <2>3. RowInv' /\ RemoverInv'
    BY <1>1, <1>5, <1>6, <2>1 DEF CloneInv, RowInv, RemoverInv, There
  <2> QED BY <1>1, <1>2, <1>3, <1>4, <1>6, <2>1, <2>2, <2>3, PassesKeep DEF There
<1>7. CASE /\ EvictChecks /\ NoBlockers(pass.seen.gen) /\ UNCHANGED lock
           /\ pass' = [pass EXCEPT !.step = "delete"]
  <2>1. /\ pass'.step = "delete" /\ pass'.seen = pass.seen
        /\ pass' \in [step : {"idle", "derive", "probe", "check", "delete"}, seen : Rows \cup {NoRow}]
        /\ UNCHANGED <<row, tree>> /\ State' = State
    BY <1>4, <1>7 DEF EvictChecks, State
  <2>2. entries = {} /\ tree # "dirty"
    BY <1>3, <1>7 DEF NoBlockers, Pieces
  <2>3. HolderInv'
    BY <1>1, <1>2, <1>7 DEF HolderInv
  <2>4. PassInv'
    BY <1>1, <1>5, <2>1, <2>2, EvictingIsAlone DEF PassInv
  <2>5. RowInv' /\ RemoverInv'
    BY <1>1, <1>5, <2>1 DEF CloneInv, RowInv, RemoverInv, There
  <2> QED BY <1>1, <1>2, <1>4, <1>7, <2>1, <2>2, <2>3, <2>4, <2>5, PassesKeep
<1>8. CASE EvictDeletes
  <2>1. /\ Removed /\ row' = Row("evicted", pass.seen.gen) /\ pass' = Resting
        /\ lock' = None /\ entries = {} /\ tree # "dirty"
    BY <1>2, <1>8 DEF EvictDeletes, Written, Tidy, LetGo, CloneInv, PassInv
  <2>2. row' \in Rows /\ State' = "evicted" /\ tree' \in Trees \ {"partial"} /\ tree' # "dirty"
    BY <1>2, <1>4, <2>1, RowWritten, Removal
  <2>3. /\ ~Evicting' /\ pass'.step = "idle"
        /\ pass' \in [step : {"idle", "derive", "probe", "check", "delete"}, seen : Rows \cup {NoRow}]
    BY <2>1 DEF Resting, Evicting
  <2>4. HolderInv' /\ PassInv'
    BY <1>1, <1>2, <2>3 DEF HolderInv, PassInv
  <2>5. RowInv' /\ RemoverInv'
    BY <1>1, <1>5, <2>1, <2>2 DEF CloneInv, RowInv, RemoverInv, There
  <2> QED BY <1>1, <1>2, <1>4, <2>1, <2>2, <2>3, <2>4, <2>5, PassesKeep
<1> QED BY <1>6, <1>7, <1>8 DEF EvictChecks

LEMMA RemoveStartsKeeps ==
  ASSUME Tidy, CloneInv, RemoveStarts
  PROVE  CloneInv'
<1>1. /\ ~Making /\ pass.step \notin {"derive", "probe"}
      /\ UNCHANGED <<tree, lock, phase, entries, gen, era, pass, crashes>>
  BY DEF RemoveStarts, Apart, Deriving, Tidy
<1>2. /\ row \in Rows \cup {NoRow} /\ gen \in 1..MaxGeneration /\ tree \in Trees
      /\ pass' \in [step : {"idle", "derive", "probe", "check", "delete"}, seen : Rows \cup {NoRow}]
      /\ remover \in [step : {"idle", "readable", "status", "delete"}, gen : 1..MaxGeneration]
  BY <1>1 DEF CloneInv, TypeOK
<1>3. Pins' = Pins /\ ~Making'
  BY <1>1 DEF Pins, Making
<1>4. HolderInv' /\ PassInv'
  BY <1>1, <1>3 DEF CloneInv, HolderInv, PassInv, Evicting
<1>5. CASE State \in {"absent", "evicted"} /\ row' = NoRow /\ UNCHANGED remover
  <2>1. State' = "absent" /\ Pins = {} /\ entries = {}
    BY <1>5 DEF State, CloneInv, UseInv, There
  <2>2. RowInv' /\ RemoverInv'
    BY <1>1, <1>3, <1>5, <2>1 DEF CloneInv, RowInv, RemoverInv, There
  <2> QED BY <1>1, <1>2, <1>4, <1>5, <2>1, <2>2, PassesKeep
<1>6. CASE /\ remover' = [step |-> "readable", gen |-> IF row = NoRow THEN gen ELSE row.gen]
           /\ UNCHANGED row
  <2>1. /\ remover'.step = "readable" /\ (row # NoRow => remover'.gen = row.gen)
        /\ remover' \in [step : {"idle", "readable", "status", "delete"}, gen : 1..MaxGeneration]
    BY <1>2, <1>6 DEF Rows
  <2>2. State' = State
    BY <1>6 DEF State
  <2>3. Pins # {} \/ entries # {} => There' /\ row'.gen = gen /\ row # NoRow
    BY <1>6, <2>2, UsersAreServed DEF There, CloneInv, UseInv
  <2>4. RowInv' /\ RemoverInv'
    BY <1>1, <1>3, <1>6, <2>1, <2>2, <2>3 DEF CloneInv, RowInv, RemoverInv, There
  <2> QED BY <1>1, <1>2, <1>4, <1>6, <2>1, <2>3, <2>4, PassesKeep
<1> QED BY <1>5, <1>6 DEF RemoveStarts

LEMMA RemoveKeeps ==
  ASSUME Tidy, CloneInv, RemoveProbes \/ RemoveInspects \/ RemoveDeletes
  PROVE  CloneInv'
<1>1. /\ remover.step # "idle" /\ UNCHANGED <<lock, phase, entries, gen, era, pass, crashes>>
  BY DEF RemoveProbes, RemoveInspects, RemoveDeletes
<1>2. /\ ~Making /\ (entries # {} => remover.gen = gen) /\ entries \subseteq {gen}
      /\ pass.step \notin {"derive", "probe"}
      /\ Pins # {} \/ entries # {} => There /\ row.gen = gen
  BY <1>1 DEF CloneInv, RemoverInv, PassInv, UseInv
<1>3. /\ row \in Rows \cup {NoRow} /\ tree \in Trees
      /\ pass' \in [step : {"idle", "derive", "probe", "check", "delete"}, seen : Rows \cup {NoRow}]
      /\ remover \in [step : {"idle", "readable", "status", "delete"}, gen : 1..MaxGeneration]
  BY <1>1 DEF CloneInv, TypeOK
<1>4. /\ NotRemoving \in [step : {"idle", "readable", "status", "delete"}, gen : 1..MaxGeneration]
      /\ NotRemoving.step = "idle"
  BY CloneStoreAssumption DEF NotRemoving
<1>5. Pins' = Pins /\ ~Making' /\ HolderInv'
  BY <1>1, <1>2 DEF Pins, Making, CloneInv, HolderInv, Evicting
<1>6. CASE /\ tree' \in Trees \ {"partial", "dirty"} /\ row' = NoRow
           /\ remover' = NotRemoving /\ Pins = {} /\ entries = {}
  <2>1. State' = "absent"
    BY <1>6 DEF State
  <2>2. RowInv' /\ RemoverInv' /\ PassInv' /\ tree' \in Trees
    BY <1>1, <1>2, <1>4, <1>5, <1>6, <2>1 DEF CloneInv, RowInv, RemoverInv, PassInv, There, Evicting, Trees
  <2> QED BY <1>1, <1>2, <1>3, <1>4, <1>5, <1>6, <2>2, PassesKeep
<1>7. CASE UNCHANGED <<row, tree>>
  <2>1. State' = State
    BY <1>7 DEF State
  <2>2. RowInv' /\ PassInv'
    BY <1>1, <1>2, <1>5, <1>7, <2>1 DEF CloneInv, RowInv, PassInv, There, Evicting
  <2>3. /\ remover' \in [step : {"idle", "readable", "status", "delete"}, gen : 1..MaxGeneration]
        /\ RemoverInv'
    <3>1. CASE remover' = NotRemoving
      BY <1>4, <3>1 DEF RemoverInv
    <3>2. CASE \E step \in {"status", "delete"} :
                 /\ remover' = [remover EXCEPT !.step = step]
                 /\ step = "delete" => tree # "dirty"
      <4>1. PICK step \in {"status", "delete"} : /\ remover' = [remover EXCEPT !.step = step]
                                                 /\ step = "delete" => tree # "dirty"
        BY <3>2
      <4>2. /\ remover'.step = step /\ remover'.gen = remover.gen
            /\ remover' \in [step : {"idle", "readable", "status", "delete"}, gen : 1..MaxGeneration]
        BY <1>3, <4>1
      <4> QED BY <1>1, <1>2, <1>5, <1>7, <4>1, <4>2 DEF RemoverInv
    <3> QED BY <1>1, <1>7, <3>1, <3>2 DEF RemoveProbes, RemoveInspects, RemoveDeletes, Pieces
  <2> QED BY <1>1, <1>2, <1>3, <1>5, <1>7, <2>1, <2>2, <2>3, PassesKeep DEF There
<1>8. CASE ~UNCHANGED <<row, tree>>
  <2>1. CASE RemoveProbes
    BY <1>8, <2>1, <1>6 DEF RemoveProbes, Written, Tidy, Trees
  <2>2. CASE RemoveDeletes
    <3>1. Pins = {} /\ remover.gen \notin entries /\ Removed /\ tree # "dirty"
      BY <1>8, <2>2 DEF RemoveDeletes, CloneInv, RemoverInv
    <3>2. entries = {} /\ tree' \in Trees \ {"partial", "dirty"}
      BY <1>2, <1>3, <3>1, Removal
    <3> QED BY <2>2, <3>1, <3>2, <1>6 DEF RemoveDeletes, Written, Tidy
  <2>3. CASE RemoveInspects
    BY <1>8, <2>3 DEF RemoveInspects
  <2> QED BY <2>1, <2>2, <2>3
<1> QED BY <1>7, <1>8

-----------------------------------------------------------------------------
(***************************************************************************)
(* Every step keeps the invariant, and what follows from it.               *)
(***************************************************************************)
LEMMA CallStepKeeps ==
  ASSUME Tidy, CloneInv, NEW c \in Calls,
         \/ Arrive(c) \/ GiveUp(c) \/ Ensure(c) \/ Measured(c)
         \/ CloneAppears(c) \/ CloneEnds(c) \/ IdentitySet(c) \/ AdoptionProbed(c)
         \/ Materialised(c) \/ Begin(c) \/ Work(c) \/ WriterEnds(c) \/ ReaderEnds(c)
  PROVE  CloneInv'
<1>1. CASE Arrive(c) \/ GiveUp(c)
  BY <1>1, WaitingKeeps
<1>2. CASE Ensure(c)
  BY <1>2, HandOverKeeps, AfreshKeeps DEF Ensure
<1>3. CASE Measured(c) \/ CloneAppears(c)
  BY <1>3, MeasuredKeeps, AppearsKeeps
<1>4. CASE CloneEnds(c) \/ IdentitySet(c)
  BY <1>4, CloningKeeps
<1>5. CASE AdoptionProbed(c) \/ Materialised(c)
  BY <1>5, ProbedKeeps, MaterialisedKeeps
<1>6. CASE Begin(c) \/ Work(c)
  BY <1>6, BeginKeeps, WorkKeeps
<1>7. CASE WriterEnds(c) \/ ReaderEnds(c)
  BY <1>7, UseEndsKeeps
<1> QED BY <1>1, <1>2, <1>3, <1>4, <1>5, <1>6, <1>7

LEMMA CloneKept ==
  ASSUME Tidy, CloneInv, [Next]_vars
  PROVE  CloneInv'
<1>1. CASE UNCHANGED vars
  <2>1. /\ Pins' = Pins /\ State' = State /\ (There' <=> There) /\ (Making' <=> Making)
        /\ (Evicting' <=> Evicting)
    BY <1>1 DEF vars, Pins, State, There, Making, Evicting
  <2>2. TypeOK'
    BY <1>1 DEF CloneInv, TypeOK, vars
  <2>3. HolderInv' /\ MakingInv' /\ RowInv' /\ UseInv'
    BY <1>1, <2>1 DEF CloneInv, HolderInv, MakingInv, MakingAt, RowInv, UseInv, vars
  <2>4. PassInv' /\ RemoverInv'
    BY <1>1, <2>1 DEF CloneInv, PassInv, RemoverInv, vars
  <2> QED BY <2>2, <2>3, <2>4 DEF CloneInv
<1>2. CASE DeriveReads \/ DeriveLooks \/ DeriveWrites
  BY <1>2, ReadKeeps, DeriveKeeps
<1>3. CASE EvictStarts \/ EvictChecks \/ EvictDeletes
  BY <1>3, EvictStartsKeeps, EvictKeeps
<1>4. CASE RemoveStarts \/ RemoveProbes \/ RemoveInspects \/ RemoveDeletes
  BY <1>4, RemoveStartsKeeps, RemoveKeeps
<1>5. CASE (\E g \in 1..MaxGeneration : Recover(g)) \/ ClearAttention
  BY <1>5, SettlingKeeps
<1>6. CASE Redeclare \/ Spoil \/ CrashAndBoot
  BY <1>6, RedeclareKeeps, SpoilKeeps, CrashKeeps
<1> QED BY <1>1, <1>2, <1>3, <1>4, <1>5, <1>6, CallStepKeeps DEF Next

\* The row, the tree, the lock, the pins and the entries agree in every state
\* that ensure, the maintenance pass, removal and boot can reach
\* (clone-store.ts), where nothing goes the hard way of Orderly.
THEOREM CloneAgrees ==
  ASSUME Tidy
  PROVE  Spec => []CloneInv
<1>1. CloneInv /\ [Next]_vars => CloneInv'
  BY CloneKept DEF Tidy
<1> QED BY <1>1, InitIsGood, PTL DEF Spec

\* Whoever has the pin has a clone that no call is still making, though perhaps what
\* is left of one that could not be deleted, and no eviction, removal or pass takes it
\* from under it (clone-store.ts, ensure, removePartial, evictIfSafe, remove).
THEOREM UsersAlwaysHaveTree ==
  ASSUME Tidy
  PROVE  Spec => []UsersHaveTree
<1>1. CloneInv => UsersHaveTree
  BY DEF CloneInv, UseInv, RowInv, UsersHaveTree
<1> QED BY <1>1, CloneAgrees, PTL

\* Nothing readable is deleted, wholly or in part, while it holds what is nowhere else, a call
\* uses it or an entry of any era needs it (clone-store.ts, computeBlockers,
\* evictIfSafe, remove, deriveAllStatesFromDisk).
THEOREM WorkAlwaysStays ==
  ASSUME Tidy
  PROVE  Spec => WorkStays
<1>0. \A t : t \in {"none"} \cup Pieces <=> t \in {"none", "partial", "remains"}
  BY DEF Pieces
<1> DEFINE Goes == tree \in {"clean", "dirty"} /\ tree' \in {"none"} \cup Pieces
<1>1. ASSUME CloneInv, Next, Goes
      PROVE  tree = "clean" /\ Pins = {} /\ entries = {}
  <2>1. State # "materialising" /\ tree' \in {"none", "partial", "remains"}
    BY <1>0, <1>1 DEF CloneInv, RowInv
  <2>2. ASSUME NEW c \in Calls
        PROVE  /\ ~Ensure(c) /\ ~CloneAppears(c) /\ ~CloneEnds(c) /\ ~IdentitySet(c)
               /\ ~Materialised(c) /\ ~Work(c)
    <3>1. ~Ensure(c)
      BY <1>1, <2>1 DEF Ensure, HandOver, ClearAway, StartAfresh
    <3>2. phase[c] \notin {"clone", "identity"}
      BY <2>1, <1>1 DEF CloneInv, MakingInv, MakingAt
    <3>3. ~Materialised(c)
      BY <1>1, <2>1, <3>2 DEF Materialised
    <3> QED BY <1>1, <2>1, <3>1, <3>2, <3>3 DEF CloneAppears, CloneEnds, IdentitySet, Work
  <2>3. ASSUME NEW c \in Calls
        PROVE  /\ ~Arrive(c) /\ ~GiveUp(c) /\ ~Measured(c) /\ ~AdoptionProbed(c)
               /\ ~Begin(c) /\ ~WriterEnds(c) /\ ~ReaderEnds(c)
    BY <1>1, <2>1 DEF Arrive, GiveUp, Measured, AdoptionProbed, Begin, WriterEnds, ReaderEnds
  <2>4. (\A g \in 1..MaxGeneration : ~Recover(g)) /\ ~ClearAttention /\ ~Redeclare /\ ~Spoil
    BY <1>1, <2>1 DEF Recover, ClearAttention, Redeclare, Spoil
  <2>5. ~DeriveReads /\ ~DeriveWrites /\ ~EvictStarts /\ ~EvictChecks
    BY <1>1, <2>1 DEF DeriveReads, DeriveWrites, EvictStarts, EvictChecks
  <2>6. ~DeriveLooks
    <3> SUFFICES ASSUME DeriveLooks PROVE FALSE
      OBVIOUS
    <3>1. row = pass.seen /\ row \in Rows
      BY <1>1 DEF CloneInv, PassInv, DeriveLooks
    <3>2. State = row.state
      BY <3>1, NoRowAssumption DEF State
    <3> QED BY <1>1, <2>1, <3>1, <3>2 DEF DeriveLooks
  <2>7. ~RemoveStarts /\ ~RemoveProbes /\ ~RemoveInspects
    BY <1>1, <2>1 DEF RemoveStarts, RemoveProbes, RemoveInspects, Pieces
  <2>8. ~CrashAndBoot
    BY <1>1, <2>1 DEF CrashAndBoot, State
  <2>9. CASE EvictDeletes
    BY <1>1, <2>9, EvictingIsAlone DEF EvictDeletes, CloneInv, PassInv, Evicting
  <2>10. CASE RemoveDeletes
    <3>1. Pins = {} /\ remover.gen \notin entries /\ tree # "dirty"
      BY <1>1, <2>1, <2>10 DEF RemoveDeletes, CloneInv, RemoverInv
    <3>2. entries = {}
      BY <1>1, <2>10, <3>1 DEF RemoveDeletes, CloneInv, RemoverInv, UseInv
    <3> QED BY <1>1, <3>1, <3>2
  <2> QED BY <1>1, <2>2, <2>3, <2>4, <2>5, <2>6, <2>7, <2>8, <2>9, <2>10 DEF Next
<1>2. CloneInv /\ [Next]_vars
        => [Goes => tree = "clean" /\ Pins = {} /\ entries = {}]_vars
  BY <1>1
<1> QED BY <1>2, CloneAgrees, PTL DEF Spec, WorkStays

\* Only the operator clears the mark of a clone that nothing tries to delete: no call that is
\* handed the clone, no pass that derives its row and no boot does
\* (clone-store.ts, ensure, deriveAllStatesFromDisk, clearAttention).
THEOREM MarksAlwaysSurvive ==
  ASSUME Tidy
  PROVE  Spec => MarksSurvive
<1> DEFINE Cleared == State = "attention" /\ State' # "attention"
<1>1. ASSUME CloneInv, Next, Cleared, tree' # "none", ~EvictDeletes, ~RemoveDeletes
      PROVE  ClearAttention
  <2>1. /\ There /\ row \in Rows /\ row # NoRow /\ State = row.state /\ row.state = "attention"
        /\ row.gen \in 1..MaxGeneration /\ gen \in 1..MaxGeneration
    BY <1>1 DEF There, State, CloneInv, TypeOK, Rows
  <2>2. row' # row
    BY <1>1 DEF State
  <2>3. \A g \in 1..MaxGeneration : row' # Row("attention", g)
    BY <1>1, RowWritten
  <2>4. ASSUME NEW c \in Calls
        PROVE  /\ ~Ensure(c) /\ ~Measured(c) /\ ~CloneEnds(c) /\ ~IdentitySet(c)
               /\ ~Materialised(c) /\ ~WriterEnds(c) /\ ~ReaderEnds(c)
    <3>1. ~Ensure(c)
      BY <1>1, <2>1, <2>2, <2>3, Captured DEF Ensure, HandOver, ClearAway, StartAfresh
    <3>2. phase[c] \in {"idle", "wait", "use"}
      BY <1>1, <2>1, MakingMeansNoUse
    <3> QED BY <2>1, <2>2, <2>3, <3>1, <3>2
            DEF Measured, CloneEnds, IdentitySet, Materialised, WriterEnds, ReaderEnds
  <2>5. ASSUME NEW c \in Calls
        PROVE  /\ ~Arrive(c) /\ ~GiveUp(c) /\ ~CloneAppears(c) /\ ~AdoptionProbed(c)
               /\ ~Begin(c) /\ ~Work(c)
    BY <2>2 DEF Arrive, GiveUp, CloneAppears, AdoptionProbed, Begin, Work
  <2>6. (\A g \in 1..MaxGeneration : ~Recover(g)) /\ ~Redeclare /\ ~Spoil
    BY <2>1, <2>2, <2>3 DEF Recover, Redeclare, Spoil
  <2>7. ~DeriveReads /\ ~EvictStarts /\ ~EvictChecks /\ ~EvictDeletes
    BY <1>1, <2>2 DEF DeriveReads, EvictStarts, EvictChecks, EvictDeletes
  <2>8. ~DeriveLooks /\ ~DeriveWrites
    <3>1. ~DeriveLooks
      <4> SUFFICES ASSUME DeriveLooks PROVE FALSE
        OBVIOUS
      <4>1. row = pass.seen
        BY <1>1 DEF DeriveLooks, CloneInv, PassInv
      <4> QED BY <1>1, <2>1, <2>2, <4>1 DEF DeriveLooks
    <3>2. ~DeriveWrites
      <4> SUFFICES ASSUME DeriveWrites PROVE FALSE
        OBVIOUS
      <4>1. row = pass.seen /\ tree # "none"
        BY <1>1 DEF DeriveWrites, CloneInv, PassInv
      <4> QED BY <2>1, <2>3, <4>1 DEF DeriveWrites, Probed
    <3> QED BY <3>1, <3>2
  <2>9. ~RemoveStarts /\ ~RemoveInspects /\ ~RemoveProbes /\ ~RemoveDeletes
    BY <1>1, <2>1, <2>2 DEF RemoveStarts, RemoveInspects, RemoveProbes, RemoveDeletes
  <2>10. ~CrashAndBoot
    BY <1>1, <2>1, <2>2, <2>3 DEF CrashAndBoot, Probed
  <2> QED BY <1>1, <2>4, <2>5, <2>6, <2>7, <2>8, <2>9, <2>10 DEF Next
<1>2. CloneInv /\ [Next]_vars
        => [Cleared => ClearAttention \/ tree' = "none" \/ EvictDeletes \/ RemoveDeletes]_vars
  BY <1>1
<1> QED BY <1>2, CloneAgrees, PTL DEF Spec, MarksSurvive
-----------------------------------------------------------------------------
(* The watcher. *)

\* Some number of a non-empty set of numbers is the least.
LEMMA LeastExists ==
  ASSUME NEW T, T \subseteq Nat, T # {}
  PROVE  \E x \in T : \A y \in T : x <= y
<1> DEFINE Below == {p \in Nat \X Nat : p[1] < p[2]}
<1> HIDE DEF Below
<1>1. IsWellFoundedOn(Below, Nat)
  BY NatLessThanWellFounded DEF OpToRel, Below
<1>2. PICK x \in T : \A y \in T : <<y, x>> \notin Below
  BY <1>1, WFMin
<1>3. ASSUME NEW y \in T
      PROVE  x <= y
  <2>1. <<y, x>> \notin Below /\ x \in Nat /\ y \in Nat
    BY <1>2
  <2> QED
    BY <2>1 DEF Below
<1> QED
  BY <1>3

\* The recursion by which the list is read, up to its n-th entry.
ReadUpTo(list, n, f) ==
    f = [k \in 0..n |-> IF k = 0 THEN <<>>
                        ELSE IF list[k] \in headless THEN f[k - 1]
                        ELSE Append(f[k - 1], list[k])]

\* It defines a function, by the least place at which it might not.
LEMMA ReadingIsDefined ==
  ASSUME NEW list \in Seq(Files)
  PROVE  \A n \in 0..Len(list) : \E f : ReadUpTo(list, n, f)
<1> DEFINE Bad == {n \in 0..Len(list) : ~ \E f : ReadUpTo(list, n, f)}
<1> SUFFICES ASSUME Bad # {} PROVE FALSE
  OBVIOUS
<1>1. Len(list) \in Nat
  OBVIOUS
<1>2. Bad \subseteq Nat
  BY <1>1
<1>3. PICK m \in Bad : \A n \in Bad : m <= n
  BY <1>2, LeastExists
<1>4. CASE m = 0
  <2>1. ReadUpTo(list, 0, [k \in 0..0 |-> <<>>])
    BY DEF ReadUpTo
  <2> QED
    BY <1>4, <2>1
<1>5. CASE m # 0
  <2>1. m \in Nat \ {0} /\ m - 1 \in 0..Len(list) /\ m - 1 \notin Bad
    BY <1>1, <1>2, <1>3, <1>5
  <2>2. PICK g : ReadUpTo(list, m - 1, g)
    BY <2>1
  <2> DEFINE last == IF list[m] \in headless THEN g[m - 1] ELSE Append(g[m - 1], list[m])
             f == [k \in 0..m |-> IF k = m THEN last ELSE g[k]]
  <2>3. \A k \in 0..m : f[k] = IF k = 0 THEN <<>>
                               ELSE IF list[k] \in headless THEN f[k - 1]
                               ELSE Append(f[k - 1], list[k])
    <3> SUFFICES ASSUME NEW k \in 0..m
                 PROVE  f[k] = IF k = 0 THEN <<>>
                               ELSE IF list[k] \in headless THEN f[k - 1]
                               ELSE Append(f[k - 1], list[k])
      OBVIOUS
    <3>1. CASE k = m
      BY <2>1, <3>1
    <3>2. CASE k # m
      <4>1. k \in 0..(m - 1) /\ (k # 0 => k - 1 \in 0..(m - 1))
        BY <2>1, <3>2
      <4>2. g[k] = IF k = 0 THEN <<>>
                   ELSE IF list[k] \in headless THEN g[k - 1]
                   ELSE Append(g[k - 1], list[k])
        BY <2>2, <4>1 DEF ReadUpTo
      <4>3. f[k] = g[k] /\ (k # 0 => f[k - 1] = g[k - 1])
        BY <2>1, <3>2, <4>1
      <4> QED
        BY <4>2, <4>3
    <3> QED
      BY <3>1, <3>2
  <2>4. f = [k \in 0..m |-> f[k]]
    OBVIOUS
  <2> HIDE DEF f
  <2>5. ReadUpTo(list, m, f)
    BY <2>3, <2>4 DEF ReadUpTo
  <2> QED
    BY <1>3, <2>5
<1> QED
  BY <1>4, <1>5

\* Range and type of a list with one more at its end (the writes of the list).
LEMMA AppendRange ==
  ASSUME NEW S, NEW s \in Seq(S), NEW e \in S
  PROVE  Append(s, e) \in Seq(S) /\ Range(Append(s, e)) = Range(s) \cup {e}
<1>1. Append(s, e) \in Seq(S) /\ Len(Append(s, e)) = Len(s) + 1 /\ Len(s) \in Nat
  OBVIOUS
<1>2. \A i \in 1..Len(s) : Append(s, e)[i] = s[i]
  OBVIOUS
<1>3. Append(s, e)[Len(s) + 1] = e
  OBVIOUS
<1>4. DOMAIN s = 1..Len(s) /\ DOMAIN Append(s, e) = 1..(Len(s) + 1)
  BY <1>1
<1>5. 1..(Len(s) + 1) = 1..Len(s) \cup {Len(s) + 1}
  BY <1>1
<1> QED
  BY <1>1, <1>2, <1>3, <1>4, <1>5 DEF Range

\* What can be read of the list are its entries that have the pushed head.
LEMMA ReadableEntries ==
  ASSUME NEW list \in Seq(Files)
  PROVE  Readable(list) \in Seq(Files) /\ Range(Readable(list)) = Range(list) \ headless
<1>1. PICK f : ReadUpTo(list, Len(list), f) /\ Readable(list) = f[Len(list)]
  <2>1. \E f : ReadUpTo(list, Len(list), f)
    BY ReadingIsDefined
  <2> QED
    BY <2>1 DEF ReadUpTo, Readable
<1>2. Len(list) \in Nat
  OBVIOUS
<1> DEFINE Right(n) == f[n] \in Seq(Files) /\ Range(f[n]) = {list[k] : k \in 1..n} \ headless
           Bad == {n \in 0..Len(list) : ~Right(n)}
<1>3. ASSUME NEW n \in 0..Len(list)
      PROVE  f[n] = IF n = 0 THEN <<>>
                    ELSE IF list[n] \in headless THEN f[n - 1]
                    ELSE Append(f[n - 1], list[n])
  BY <1>1 DEF ReadUpTo
<1>4. Right(0)
  <2>1. 0 \in 0..Len(list) /\ f[0] = <<>>
    BY <1>2, <1>3
  <2>2. Range(<<>>) = {} /\ <<>> \in Seq(Files)
    BY DEF Range
  <2>3. 1..0 = {}
    OBVIOUS
  <2> QED
    BY <2>1, <2>2, <2>3
<1>5. ASSUME NEW n \in 1..Len(list), Right(n - 1)
      PROVE  Right(n)
  <2>1. list[n] \in Files /\ n \in 0..Len(list) /\ n # 0 /\ n \in Nat
    BY <1>2
  <2>2. {list[k] : k \in 1..n} = {list[k] : k \in 1..(n - 1)} \cup {list[n]}
    BY <2>1
  <2>3. CASE list[n] \in headless
    BY <1>3, <1>5, <2>1, <2>2, <2>3
  <2>4. CASE list[n] \notin headless
    <3>1. f[n] = Append(f[n - 1], list[n])
      BY <1>3, <2>1, <2>4
    <3>2. f[n - 1] \in Seq(Files)
      BY <1>5
    <3>3. f[n] \in Seq(Files) /\ Range(f[n]) = Range(f[n - 1]) \cup {list[n]}
      BY <2>1, <3>1, <3>2, AppendRange
    <3> QED
      BY <1>5, <2>2, <2>4, <3>3
  <2> QED
    BY <2>3, <2>4
<1> HIDE DEF Right
<1>6. Bad = {}
  <2> SUFFICES ASSUME Bad # {} PROVE FALSE
    OBVIOUS
  <2>1. Bad \subseteq Nat
    BY <1>2
  <2>2. PICK m \in Bad : \A n \in Bad : m <= n
    BY <2>1, LeastExists
  <2>3. m # 0
    BY <1>4
  <2>4. m \in 1..Len(list) /\ m - 1 \in 0..Len(list) /\ m - 1 < m
    BY <1>2, <2>3
  <2>5. Right(m - 1)
    <3>1. m - 1 \notin Bad
      BY <2>1, <2>2, <2>4
    <3> QED
      BY <2>4, <3>1
  <2> QED
    BY <1>5, <2>4, <2>5
<1>7. f[Len(list)] \in Seq(Files) /\ Range(f[Len(list)]) = {list[k] : k \in 1..Len(list)} \ headless
  <2>1. Len(list) \in 0..Len(list)
    BY <1>2
  <2>2. Right(Len(list))
    BY <1>6, <2>1
  <2> QED
    BY <2>2 DEF Right
<1>8. {list[k] : k \in 1..Len(list)} = Range(list)
  BY DEF Range
<1> QED
  BY <1>1, <1>7, <1>8

\* What a list holds is what its head is and what its tail holds; two lists
\* put together hold what either held (the writes of the list).
LEMMA TailRange ==
  ASSUME NEW S, NEW s \in Seq(S), s # <<>>
  PROVE  /\ Head(s) \in S /\ Tail(s) \in Seq(S)
         /\ Range(s) \subseteq {Head(s)} \cup Range(Tail(s))
<1>1. Head(s) \in S /\ Tail(s) \in Seq(S) /\ Len(s) \in Nat \ {0} /\ Len(Tail(s)) = Len(s) - 1
  BY HeadTailProperties
<1>2. \A i \in 1..(Len(s) - 1) : Tail(s)[i] = s[i + 1]
  BY HeadTailProperties
<1>3. Head(s) = s[1]
  OBVIOUS
<1>4. ASSUME NEW i \in 1..Len(s)
      PROVE  s[i] \in {Head(s)} \cup Range(Tail(s))
  <2>1. CASE i = 1
    BY <1>3, <2>1
  <2>2. CASE i # 1
    <3>1. i - 1 \in 1..(Len(s) - 1) /\ (i - 1) + 1 = i
      BY <1>1, <2>2
    <3>2. Tail(s)[i - 1] = s[i]
      BY <1>2, <3>1
    <3>3. DOMAIN Tail(s) = 1..(Len(s) - 1)
      BY <1>1
    <3> QED
      BY <3>1, <3>2, <3>3 DEF Range
  <2> QED
    BY <2>1, <2>2
<1>5. DOMAIN s = 1..Len(s)
  OBVIOUS
<1> QED
  BY <1>1, <1>4, <1>5 DEF Range

LEMMA ConcatRange ==
  ASSUME NEW S, NEW s \in Seq(S), NEW t \in Seq(S)
  PROVE  s \o t \in Seq(S) /\ Range(s \o t) = Range(s) \cup Range(t)
<1>1. s \o t \in Seq(S) /\ Len(s \o t) = Len(s) + Len(t) /\ Len(s) \in Nat /\ Len(t) \in Nat
  BY ConcatProperties
<1>2. \A i \in 1..(Len(s) + Len(t)) : (s \o t)[i] = IF i <= Len(s) THEN s[i] ELSE t[i - Len(s)]
  BY ConcatProperties
<1>3. /\ DOMAIN s = 1..Len(s) /\ DOMAIN t = 1..Len(t)
      /\ DOMAIN (s \o t) = 1..(Len(s) + Len(t))
  BY <1>1
<1>4. ASSUME NEW i \in 1..(Len(s) + Len(t))
      PROVE  (s \o t)[i] \in Range(s) \cup Range(t)
  <2>1. CASE i <= Len(s)
    <3>1. i \in 1..Len(s) /\ (s \o t)[i] = s[i]
      BY <1>1, <1>2, <2>1
    <3> QED
      BY <1>3, <3>1 DEF Range
  <2>2. CASE ~(i <= Len(s))
    <3>1. i - Len(s) \in 1..Len(t) /\ (s \o t)[i] = t[i - Len(s)]
      BY <1>1, <1>2, <2>2
    <3> QED
      BY <1>3, <3>1 DEF Range
  <2> QED
    BY <2>1, <2>2
<1>5. ASSUME NEW i \in 1..Len(s)
      PROVE  s[i] \in Range(s \o t)
  <2>1. i \in 1..(Len(s) + Len(t)) /\ (s \o t)[i] = s[i]
    BY <1>1, <1>2
  <2> QED
    BY <1>3, <2>1 DEF Range
<1>6. ASSUME NEW i \in 1..Len(t)
      PROVE  t[i] \in Range(s \o t)
  <2>1. Len(s) + i \in 1..(Len(s) + Len(t)) /\ ~(Len(s) + i <= Len(s)) /\ (Len(s) + i) - Len(s) = i
    BY <1>1
  <2>2. (s \o t)[Len(s) + i] = t[i]
    BY <1>2, <2>1
  <2> QED
    BY <1>3, <2>1, <2>2 DEF Range
<1> QED
  BY <1>1, <1>3, <1>4, <1>5, <1>6 DEF Range

-----------------------------------------------------------------------------
\* There is always a counter that no file of the same name has in a
\* directory, and it is no higher than the number of files (uniqueTerminalName).
LEMMA FreeCopyIsFree ==
  ASSUME WatcherTypeOK, NEW f \in Files, NEW dir
  PROVE  /\ FreeCopy(f, dir) \in 0..Cardinality(Files)
         /\ \A g \in Files : place[g] = dir /\ NameOf[g] = NameOf[f]
                                => copy[g] # FreeCopy(f, dir)
<1> DEFINE N == Cardinality(Files)
           Taken == {g \in Files : place[g] = dir /\ NameOf[g] = NameOf[f]}
           Used == {copy[g] : g \in Taken}
           Open == (0..N) \ Used
           Number == [g \in Taken |-> copy[g]]
<1>1. N \in Nat /\ IsFiniteSet(Taken) /\ Cardinality(Taken) <= N
  BY WatcherAssumption, FS_CardinalityType, FS_Subset
<1>2. IsFiniteSet(Used) /\ Cardinality(Used) <= Cardinality(Taken)
  <2>1. Number \in Surjection(Taken, Used)
    BY DEF Surjection
  <2> QED
    BY <1>1, <2>1, FS_Surjection
<1>3. Open # {}
  <2> SUFFICES ASSUME Open = {} PROVE FALSE
    OBVIOUS
  <2>1. (0..N) \in SUBSET Used
    OBVIOUS
  <2>2. Cardinality(0..N) <= Cardinality(Used)
    BY <1>2, <2>1, FS_Subset
  <2>3. Cardinality(0..N) = N + 1
    <3>1. ASSUME NEW k \in Nat PROVE Cardinality(0..k) = k + 1
      <4>1. Cardinality(0..k) = IF 0 > k THEN 0 ELSE k - 0 + 1
        BY FS_Interval
      <4> QED
        BY <4>1
    <3> QED
      BY <1>1, <3>1
  <2>4. Cardinality(Used) \in Nat /\ Cardinality(Taken) \in Nat
    BY <1>1, <1>2, FS_CardinalityType
  <2> HIDE DEF N, Used, Taken
  <2> QED
    BY <1>1, <1>2, <2>2, <2>3, <2>4
<1>4. Open \subseteq Nat
  BY <1>1
<1>5. PICK n \in Open : \A m \in Open : n <= m
  BY <1>3, <1>4, LeastExists
<1>6. ASSUME NEW m \in 0..(n - 1)
      PROVE  m \in Used
  <2>1. n \in 0..N /\ m \in 0..N /\ ~(n <= m)
    BY <1>1, <1>5
  <2>2. m \notin Open
    BY <1>5, <2>1
  <2> QED
    BY <2>1, <2>2
<1> DEFINE Is(k) == /\ \A g \in Files : place[g] = dir /\ NameOf[g] = NameOf[f] => copy[g] # k
                    /\ \A m \in 0..(k - 1) : \E g \in Files :
                          place[g] = dir /\ NameOf[g] = NameOf[f] /\ copy[g] = m
<1>7. n \in 0..N /\ Is(n)
  BY <1>5, <1>6
<1>8. FreeCopy(f, dir) = CHOOSE k \in 0..N : Is(k)
  BY DEF FreeCopy
<1> HIDE DEF Is, N
<1>9. FreeCopy(f, dir) \in 0..N /\ Is(FreeCopy(f, dir))
  BY <1>7, <1>8
<1> QED
  BY <1>9 DEF Is, N

-----------------------------------------------------------------------------
\* The types of the watcher.

\* The steps of a tick.
Stations == {"idle", "follow", "reconcile", "reconciled", "gate", "ensure", "clean",
             "record", "move", "tell", "recover", "recovered"} \cup Dispatches

\* A tick is its step and what it carries.
LEMMA TickShape ==
  /\ AtRest \in Ticks
  /\ \A p \in Ticks, s \in Stations :
        /\ [p EXCEPT !.at = s] \in Ticks
        /\ [p EXCEPT !.at = s].at = s
        /\ [p EXCEPT !.at = s].file = p.file
        /\ [p EXCEPT !.at = s].rest = p.rest
        /\ [p EXCEPT !.at = s].kept = p.kept
        /\ [p EXCEPT !.at = s].declared = p.declared
  /\ \A s \in Stations : [AtRest EXCEPT !.at = s] \in Ticks /\ [AtRest EXCEPT !.at = s].at = s
<1>1. AtRest \in Ticks
  <2>1. <<>> \in Seq(Files)
    OBVIOUS
  <2> QED
    BY <2>1 DEF AtRest, Ticks
<1>2. ASSUME NEW p \in Ticks, NEW s \in Stations
      PROVE  /\ [p EXCEPT !.at = s] \in Ticks
             /\ [p EXCEPT !.at = s].at = s
             /\ [p EXCEPT !.at = s].file = p.file
             /\ [p EXCEPT !.at = s].rest = p.rest
             /\ [p EXCEPT !.at = s].kept = p.kept
             /\ [p EXCEPT !.at = s].declared = p.declared
  BY DEF Ticks, Stations
<1> QED
  BY <1>1, <1>2

\* The end of a tick, its next step and its report are ticks.
LEMMA EndedKeepsType ==
  ASSUME Ended
  PROVE  poll' \in Ticks /\ inFlight' \in BOOLEAN /\ poll'.at = "idle"
  BY TickShape DEF Ended, AtRest

LEMMA GoOnKeepsType ==
  ASSUME WatcherTypeOK, NEW s \in Stations, GoOn(s)
  PROVE  /\ poll' \in Ticks /\ inFlight' \in BOOLEAN /\ poll'.at = s
         /\ poll'.file = poll.file /\ poll'.rest = poll.rest /\ poll'.kept = poll.kept
         /\ poll'.declared = poll.declared
  BY TickShape DEF GoOn, WatcherTypeOK

LEMMA TellingKeepsType ==
  ASSUME WatcherTypeOK, Telling
  PROVE  poll' \in Ticks /\ inFlight' \in BOOLEAN /\ poll'.at = "tell"
  BY TickShape DEF Telling, WatcherTypeOK, Stations

\* A renamed file, and one that could not be moved, lie somewhere (renameSync).
LEMMA RenameKeepsType ==
  ASSUME WatcherTypeOK, NEW f \in Files, NEW dir \in Directories \cup {"inbox"},
         NEW n \in 0..Cardinality(Files), Rename(f, dir, n)
  PROVE  /\ place' \in [Files -> {"outside", "inbox", "gone"} \cup Directories]
         /\ copy' \in [Files -> 0..Cardinality(Files)]
         /\ place'[f] = dir
         /\ \A g \in Files \ {f} :
               place'[g] = IF place[g] = dir /\ NameOf[g] = NameOf[f] /\ copy[g] = n
                           THEN "gone" ELSE place[g]
  BY DEF WatcherTypeOK, Rename

\* A move puts the file where it goes or leaves it, and harms no other (D6).
LEMMA MoveHarmsNone ==
  ASSUME WatcherTypeOK, NEW f \in Files, NEW dir \in Directories, Move(f, dir)
  PROVE  /\ place' \in [Files -> {"outside", "inbox", "gone"} \cup Directories]
         /\ copy' \in [Files -> 0..Cardinality(Files)]
         /\ place'[f] \in {place[f], dir}
         /\ \A g \in Files \ {f} : place'[g] = place[g]
<1>1. CASE UNCHANGED <<place, copy>>
  BY <1>1 DEF WatcherTypeOK
<1>2. CASE Rename(f, dir, FreeCopy(f, dir))
  <2>1. /\ FreeCopy(f, dir) \in 0..Cardinality(Files)
        /\ \A g \in Files : place[g] = dir /\ NameOf[g] = NameOf[f]
                               => copy[g] # FreeCopy(f, dir)
    BY FreeCopyIsFree
  <2> QED
    BY <1>2, <2>1, RenameKeepsType
<1> QED
  BY <1>1, <1>2 DEF Move

\* A tick that delivers holds the file it delivers; one that reconciles has an
\* entry of the list that it does it for.
Holding ==
    /\ poll.at \in Dispatches \cup {"record", "move"} =>
          poll.file \in Files /\ place[poll.file] = "processing"
    /\ poll.at \in {"reconcile", "reconciled"} => poll.rest # <<>>

\* What of the watcher is well formed apart from the tick and the directories.
WorldTyped ==
    /\ headless \subseteq Older
    /\ pending \in Seq(Files)
    /\ pr \in [Files -> {"none", "open", "merged", "closed"}]
    /\ clone \in {"absent", "ready", "attention"}
    /\ worktree \in [Paths -> {"same", "changed", "staged"}]
    /\ tampered \subseteq Directories
    /\ opened \in [Files -> Nat] /\ reconciles \in [Files -> Nat]
    /\ strayed \subseteq (Files \cup {NoFile}) \X Paths
    /\ intruded \subseteq (Files \cup {NoFile}) \X Paths
    /\ dropped \subseteq Files

TickTyped ==
    /\ place \in [Files -> {"outside", "inbox", "gone"} \cup Directories]
    /\ copy \in [Files -> 0..Cardinality(Files)]
    /\ poll \in Ticks
    /\ inFlight \in BOOLEAN

\* One more of something counted by file.
LEMMA CountsOn ==
  ASSUME NEW c \in [Files -> Nat], NEW f
  PROVE  [c EXCEPT ![f] = @ + 1] \in [Files -> Nat]
<1>1. CASE f \in Files
  BY <1>1
<1>2. CASE f \notin Files
  BY <1>2
<1> QED
  BY <1>1, <1>2

\* A claim and a handler's work change no more than they say (claim, apply).
LEMMA ClaimFrame ==
  ASSUME ClaimFile
  PROVE  UNCHANGED <<pending, world, history>>
  BY Zenon DEF ClaimFile

LEMMA ApplyFrame ==
  ASSUME Protocol, Apply
  PROVE  UNCHANGED <<disk, headless, pr, clone, tampered, opened, reconciles, strayed, intruded, dropped, inFlight>>
  BY Zenon DEF Protocol, Apply, disk

\* The world and the list stay well formed (TickStarts to Restart).
LEMMA WorldStaysTyped ==
  ASSUME WatcherTypeOK, Holding, WatcherNext
  PROVE  WorldTyped'
<1>0. WorldTyped /\ poll \in Ticks
  BY DEF WatcherTypeOK, WorldTyped
<1>a. poll.rest \in Seq(Files) /\ poll.kept \in Seq(Files)
  BY <1>0 DEF Ticks
<1> USE <1>0 DEF WorldTyped, disk, world, history, bounds
<1>1. CASE TickStarts
  <2>1. headless \subseteq Files /\ Readable(pending) \in Seq(Files)
    BY ReadableEntries, WatcherAssumption
  <2>2. pending' \in Seq(Files) /\ dropped' \subseteq Files
    BY <1>1, <2>1 DEF TickStarts
  <2> QED
    BY <1>1, <2>2 DEF TickStarts
<1>2. CASE StatusRead
  <2>1. Head(poll.rest) \in Files /\ Tail(poll.rest) \in Seq(Files)
    BY <1>2, <1>a, TailRange DEF StatusRead
  <2>2. Append(poll.kept, Head(poll.rest)) \in Seq(Files)
    BY <2>1, <1>a
  <2>3. /\ poll.kept \o Tail(poll.rest) \in Seq(Files)
        /\ Append(poll.kept, Head(poll.rest)) \o Tail(poll.rest) \in Seq(Files)
    BY <1>a, <2>1, <2>2, ConcatRange
  <2>4. pending' \in Seq(Files) /\ dropped' \subseteq Files
    BY <1>2, <2>1, <2>3 DEF StatusRead, Advance, WriteList
  <2> QED
    BY <1>2, <2>4 DEF StatusRead
<1>3. CASE Reconcile
  <2>1. reconciles' \in [Files -> Nat]
    <3>1. reconciles' = [reconciles EXCEPT ![Head(poll.rest)] = @ + 1]
      BY <1>3 DEF Reconcile
    <3> QED
      BY <3>1, CountsOn
  <2>2. clone' \in {"absent", "ready", "attention"}
    BY <1>3 DEF Reconcile
  <2> QED
    BY <1>3, <2>1, <2>2 DEF Reconcile
<1>4. CASE Reconciled
  <2>1. poll.rest # <<>>
    BY <1>4 DEF Reconciled, Holding
  <2>2. Tail(poll.rest) \in Seq(Files)
    BY <1>a, <2>1, TailRange
  <2>3. pending' \in Seq(Files)
    BY <1>4, <1>a, <2>2, ConcatRange DEF Reconciled, Advance, WriteList
  <2> QED
    BY <1>4, <2>3 DEF Reconciled
<1>5. CASE Followed \/ Gate \/ ClaimFile \/ Throws \/ Tell \/ RecoverInterruptedClaim \/ Recovered
  <2>1. UNCHANGED <<pending, world, history>>
    <3>1. CASE Followed
      BY <3>1 DEF Followed
    <3>2. CASE Gate
      BY <3>2 DEF Gate
    <3>3. CASE ClaimFile
      BY <3>3, ClaimFrame
    <3>4. CASE Throws
      BY <3>4 DEF Throws
    <3>5. CASE Tell
      BY <3>5 DEF Tell
    <3>6. CASE RecoverInterruptedClaim
      BY <3>6 DEF RecoverInterruptedClaim
    <3>7. CASE Recovered
      BY <3>7 DEF Recovered
    <3> QED
      BY <1>5, <3>1, <3>2, <3>3, <3>4, <3>5, <3>6, <3>7
  <2> QED
    BY <2>1
<1>6. CASE MaterialiseClone
  BY <1>6 DEF MaterialiseClone
<1>7. CASE Protocol
  <2>1. CASE Plan \/ PrepareBranch \/ Look \/ Push \/ EnableAutoMerge
    BY <1>7, <2>1 DEF Protocol, Plan, PrepareBranch, Look, Push, EnableAutoMerge
  <2>2. CASE Apply
    <3>1. PICK actual \in SUBSET Paths :
             worktree' = [p \in Paths |-> IF p \in actual THEN "changed" ELSE worktree[p]]
      BY <2>2 DEF Apply
    <3>2. worktree' \in [Paths -> {"same", "changed", "staged"}]
      BY <3>1
    <3>3. UNCHANGED <<pending, headless, pr, clone, tampered, opened, reconciles, strayed, intruded, dropped>>
      BY <1>7, <2>2, ApplyFrame
    <3> QED
      BY <3>2, <3>3
  <2>3. CASE Stage
    BY <1>7, <2>3 DEF Protocol, Stage
  <2>4. CASE Commit
    <3>1. /\ UNCHANGED <<pending, headless, pr, clone, tampered, opened, reconciles, intruded, dropped>>
          /\ worktree' = [p \in Paths |-> IF p \in Staged THEN "same" ELSE worktree[p]]
          /\ strayed' = strayed \cup ({poll.file} \X (Staged \ Permitted))
      BY <1>7, <2>4 DEF Protocol, Commit
    <3>2. poll.file \in Files \cup {NoFile} /\ Staged \subseteq Paths
      BY DEF WatcherTypeOK, Ticks, Staged
    <3>3. strayed' \subseteq (Files \cup {NoFile}) \X Paths
      BY <3>1, <3>2
    <3>4. worktree' \in [Paths -> {"same", "changed", "staged"}]
      BY <3>1
    <3> QED
      BY <3>1, <3>3, <3>4
  <2>5. CASE PrOpen
    <3>1. opened' = [opened EXCEPT ![poll.file] = @ + 1] /\ pr' = [pr EXCEPT ![poll.file] = "open"]
      BY <2>5 DEF PrOpen, HostOpens
    <3>2. opened' \in [Files -> Nat]
      BY <3>1, CountsOn
    <3>3. pr' \in [Files -> {"none", "open", "merged", "closed"}]
      BY <3>1
    <3> QED
      BY <1>7, <2>5, <3>2, <3>3 DEF Protocol, PrOpen
  <2> QED
    BY <1>7, <2>1, <2>2, <2>3, <2>4, <2>5 DEF Protocol
<1>8. CASE Rejected
  <2>1. worktree' \in [Paths -> {"same", "changed", "staged"}]
    BY <1>8 DEF Rejected
  <2>2. opened' \in [Files -> Nat] /\ pr' \in [Files -> {"none", "open", "merged", "closed"}]
    <3>1. CASE HostOpens(poll.file)
      <4>1. opened' = [opened EXCEPT ![poll.file] = @ + 1] /\ pr' = [pr EXCEPT ![poll.file] = "open"]
        BY <3>1 DEF HostOpens
      <4>2. opened' \in [Files -> Nat]
        BY <4>1, CountsOn
      <4>3. pr' \in [Files -> {"none", "open", "merged", "closed"}]
        BY <4>1
      <4> QED
        BY <4>2, <4>3
    <3>2. CASE ~HostOpens(poll.file)
      BY <1>8, <3>2 DEF Rejected
    <3> QED
      BY <3>1, <3>2
  <2>3. clone' \in {"absent", "ready", "attention"}
    BY <1>8 DEF Rejected
  <2> QED
    BY <1>8, <2>1, <2>2, <2>3 DEF Rejected
<1>9. CASE Deliver
  <2>1. CASE poll.at = "record"
    <3>1. poll.file \in Files
      BY <2>1 DEF Holding
    <3>2. pending' = Append(pending, poll.file)
      BY <1>9, <2>1 DEF Deliver, Delivered
    <3>3. pending' \in Seq(Files)
      BY <3>1, <3>2, AppendRange
    <3> QED
      BY <1>9, <3>3 DEF Deliver
  <2>2. CASE poll.at = "move"
    BY <1>9, <2>2 DEF Deliver, Delivered
  <2> QED
    BY <1>9, <2>1, <2>2 DEF Deliver, Delivered
<1>10. ASSUME NEW f \in Files, Drop(f) \/ HostResolves(f)
       PROVE  WorldTyped'
  BY <1>10 DEF Drop, HostResolves
<1>11. ASSUME NEW p \in Paths, Meddle(p)
       PROVE  WorldTyped'
  <2>1. PICK s \in {"changed", "staged"} :
           /\ worktree' = [worktree EXCEPT ![p] = s]
           /\ intruded' = IF s = "staged" /\ poll.at = "commit"
                             THEN intruded \cup {<<poll.file, p>>} ELSE intruded
    BY <1>11, Zenon DEF Meddle
  <2>2. UNCHANGED <<pending, headless, pr, clone, tampered, opened, reconciles, strayed, dropped>>
    BY <1>11, Zenon DEF Meddle, disk
  <2>3. poll.file \in Files \cup {NoFile}
    BY DEF WatcherTypeOK, Ticks
  <2>4. intruded' \subseteq (Files \cup {NoFile}) \X Paths
    BY <2>1, <2>3
  <2> QED
    BY <2>1, <2>2, <2>4
<1>12. ASSUME NEW dir \in Directories, Tamper(dir)
       PROVE  WorldTyped'
  BY <1>12 DEF Tamper
<1>13. CASE Repair
  BY <1>13 DEF Repair
<1>14. CASE Evict \/ RunRetention \/ Restart
  BY <1>14 DEF Evict, RunRetention, Restart
<1> QED
  BY <1>1, <1>2, <1>3, <1>4, <1>5, <1>6, <1>7, <1>8, <1>9, <1>10, <1>11, <1>12, <1>13, <1>14
     DEF WatcherNext, Step

\* A call of the protocol moves no file, and the tick goes on with the file it
\* holds (runProtocol).
LEMMA ProtocolFrame ==
  ASSUME Protocol
  PROVE  UNCHANGED <<disk, headless, tampered, inFlight, reconciles, dropped, bounds>>
<1>1. UNCHANGED <<disk, headless, tampered, reconciles, dropped, bounds>>
  BY Zenon DEF Protocol
<1>2. UNCHANGED inFlight
  BY Zenon DEF Protocol, Plan, PrepareBranch, Apply, Stage, Look, Commit, Push, PrOpen,
              EnableAutoMerge, GoOn
<1> QED
  BY <1>1, <1>2

LEMMA ProtocolGoesOn ==
  ASSUME WatcherTypeOK, Protocol
  PROVE  /\ poll.at \in Dispatches /\ poll'.file = poll.file /\ poll' \in Ticks
         /\ poll'.at \in Dispatches \cup {"record"}
<1>0. poll \in Ticks
  BY DEF WatcherTypeOK
<1>1. ASSUME NEW s \in Dispatches \cup {"record"}, GoOn(s)
      PROVE  poll'.file = poll.file /\ poll' \in Ticks /\ poll'.at \in Dispatches \cup {"record"}
  BY <1>1, GoOnKeepsType DEF Stations
<1>2. CASE Plan \/ PrepareBranch \/ Stage \/ Commit \/ Push \/ PrOpen \/ EnableAutoMerge
  <2>1. poll.at \in Dispatches
    BY <1>2 DEF Plan, PrepareBranch, Stage, Commit, Push, PrOpen, EnableAutoMerge, Dispatches
  <2>2. \E s \in Dispatches \cup {"record"} : GoOn(s)
    BY <1>2 DEF Plan, PrepareBranch, Stage, Commit, Push, PrOpen, EnableAutoMerge, Dispatches
  <2> QED
    BY <1>1, <2>1, <2>2
<1>3. CASE Apply
  <2>1. PICK said \in SUBSET Paths : poll' = [poll EXCEPT !.at = "look", !.declared = said]
    BY <1>3, Zenon DEF Apply
  <2>2. poll.at \in Dispatches
    BY <1>3, Zenon DEF Apply, Dispatches
  <2> QED
    BY <1>0, <2>1, <2>2 DEF Ticks, Dispatches
<1>4. CASE Look
  BY <1>0, <1>4 DEF Look, Ticks, Dispatches
<1> QED
  BY <1>2, <1>3, <1>4, Zenon DEF Protocol

\* What a claim does: the tick ends, or a file of the inbox is in processing/
\* and the tick holds it (claim).
LEMMA ClaimTakes ==
  ASSUME ClaimFile
  PROVE  \/ Ended /\ UNCHANGED <<place, copy>>
         \/ \E f \in Inbox :
               /\ Rename(f, "processing", 0)
               /\ poll' = [AtRest EXCEPT !.at = "plan", !.file = f]
               /\ UNCHANGED inFlight
  BY Zenon DEF ClaimFile

\* What the recovery does with a file it finds (recoverInterruptedClaims).
LEMMA RecoveryTakes ==
  ASSUME RecoverInterruptedClaim
  PROVE  \E f \in poll.todo :
            /\ Move(f, "failed")
            /\ poll' = [poll EXCEPT !.todo = @ \ {f}, !.at = "recovered", !.file = f]
            /\ UNCHANGED inFlight
  BY Zenon DEF RecoverInterruptedClaim, Interrupted

\* The tick and the directories stay well formed, and the tick holds what it
\* works on (TickStarts to Restart).
LEMMA TickStaysTyped ==
  ASSUME WatcherTypeOK, Holding, WatcherNext
  PROVE  TickTyped' /\ Holding'
<1>0. TickTyped /\ poll.rest \in Seq(Files) /\ poll.kept \in Seq(Files)
  BY DEF WatcherTypeOK, TickTyped, Ticks
<1> USE <1>0 DEF TickTyped, disk, world, history, bounds
<1> DEFINE Unheld == Dispatches \cup {"record", "move", "reconcile", "reconciled"}
<1>a. ASSUME poll'.at \notin Unheld
      PROVE  Holding'
  BY <1>a DEF Holding
<1>b. ASSUME UNCHANGED <<place, copy>>, poll' \in Ticks, inFlight' \in BOOLEAN
      PROVE  TickTyped'
  BY <1>b
<1>c. {"idle", "tell", "follow", "gate", "ensure", "clean", "recover", "recovered"} \cap Unheld = {}
  BY DEF Dispatches
<1> HIDE DEF TickTyped, Unheld
<1>1. CASE TickStarts
  <2>1. UNCHANGED <<place, copy>>
    BY <1>1 DEF TickStarts
  <2>2. CASE UNCHANGED <<poll, inFlight>>
    BY <1>1, <1>b, <2>1, <2>2 DEF TickStarts, TickTyped, Holding
  <2>3. CASE ~UNCHANGED <<poll, inFlight>>
    <3>1. inFlight' = TRUE /\ poll' = [AtRest EXCEPT !.at = "follow", !.rest = Readable(pending)]
      BY <1>1, <2>3 DEF TickStarts
    <3>2. Readable(pending) \in Seq(Files)
      BY ReadableEntries DEF WatcherTypeOK
    <3>3. poll' \in Ticks /\ poll'.at = "follow"
      BY <3>1, <3>2, TickShape DEF Ticks, AtRest
    <3> QED
      BY <1>a, <1>b, <1>c, <2>1, <3>1, <3>3
  <2> QED
    BY <2>2, <2>3
<1>2. ASSUME NEW kept \in Seq(Files), Advance(kept), poll.rest # <<>>
      PROVE  poll' \in Ticks /\ inFlight' \in BOOLEAN /\ poll'.at = "follow"
  <2>1. Tail(poll.rest) \in Seq(Files)
    BY <1>2, TailRange
  <2> QED
    BY <1>2, <2>1 DEF Advance, Ticks, TickTyped
<1>3. CASE StatusRead
  <2>1. UNCHANGED <<place, copy>> /\ poll.rest # <<>> /\ Head(poll.rest) \in Files
    BY <1>3, TailRange DEF StatusRead
  <2>2. Append(poll.kept, Head(poll.rest)) \in Seq(Files)
    BY <2>1
  <2>3. CASE GoOn("reconcile")
    BY <1>b, <2>1, <2>3, GoOnKeepsType DEF Stations, Holding, Dispatches
  <2>4. CASE ~GoOn("reconcile")
    <3>1. poll' \in Ticks /\ inFlight' \in BOOLEAN /\ poll'.at = "follow"
      BY <1>2, <1>3, <2>1, <2>2, <2>4 DEF StatusRead
    <3> QED
      BY <1>a, <1>b, <1>c, <2>1, <3>1
  <2> QED
    BY <2>3, <2>4
<1>4. CASE Reconcile
  BY <1>4, <1>b, GoOnKeepsType DEF Reconcile, Stations, Holding, Dispatches
<1>5. CASE Reconciled
  <2>1. poll' \in Ticks /\ inFlight' \in BOOLEAN /\ poll'.at = "follow"
    BY <1>2, <1>5 DEF Reconciled, Holding
  <2> QED
    BY <1>5, <1>a, <1>b, <1>c, <2>1 DEF Reconciled
<1>6. CASE Followed
  BY <1>6, <1>a, <1>b, <1>c, GoOnKeepsType DEF Followed, Stations
<1>7. CASE Gate
  <2>1. UNCHANGED <<place, copy>>
    BY <1>7 DEF Gate
  <2>2. Ended \/ GoOn("ensure") \/ GoOn("clean")
    BY <1>7 DEF Gate
  <2> QED
    BY <1>a, <1>b, <1>c, <2>1, <2>2, EndedKeepsType, GoOnKeepsType DEF Stations
<1>8. CASE MaterialiseClone
  <2>1. UNCHANGED <<place, copy>>
    BY <1>8 DEF MaterialiseClone
  <2>2. Ended \/ GoOn("clean")
    BY <1>8 DEF MaterialiseClone
  <2> QED
    BY <1>a, <1>b, <1>c, <2>1, <2>2, EndedKeepsType, GoOnKeepsType DEF Stations
<1>9. CASE ClaimFile
  <2>1. CASE Ended /\ UNCHANGED <<place, copy>>
    BY <1>a, <1>b, <1>c, <2>1, EndedKeepsType
  <2>2. CASE ~(Ended /\ UNCHANGED <<place, copy>>)
    <3>1. PICK f \in Inbox : /\ Rename(f, "processing", 0)
                             /\ poll' = [AtRest EXCEPT !.at = "plan", !.file = f]
                             /\ UNCHANGED inFlight
      BY <1>9, <2>2, ClaimTakes, Zenon
    <3>2. f \in Files /\ 0 \in 0..Cardinality(Files)
      BY <3>1, WatcherAssumption, FS_CardinalityType DEF Inbox
    <3>3. /\ place' \in [Files -> {"outside", "inbox", "gone"} \cup Directories]
          /\ copy' \in [Files -> 0..Cardinality(Files)] /\ place'[f] = "processing"
      BY <3>1, <3>2, RenameKeepsType DEF Directories
    <3>4. poll' \in Ticks /\ poll'.file = f /\ poll'.at = "plan"
      BY <3>1, <3>2, TickShape DEF Ticks, AtRest, Dispatches
    <3>5. TickTyped'
      BY <3>1, <3>3, <3>4 DEF TickTyped
    <3> QED
      BY <3>2, <3>3, <3>4, <3>5 DEF Holding
  <2> QED
    BY <2>1, <2>2
<1>10. CASE Protocol
  <2>1. UNCHANGED <<place, copy, inFlight>>
    BY <1>10, ProtocolFrame
  <2>2. poll.at \in Dispatches /\ poll'.file = poll.file /\ poll' \in Ticks
        /\ poll'.at \in Dispatches \cup {"record"}
    BY <1>10, ProtocolGoesOn
  <2>3. poll.file \in Files /\ place[poll.file] = "processing"
    BY <2>2 DEF Holding
  <2>4. Holding'
    BY <2>1, <2>2, <2>3 DEF Holding, Dispatches
  <2> QED
    BY <1>b, <2>1, <2>2, <2>4 DEF TickTyped
<1>11. CASE Rejected
  <2>1. poll.file \in Files /\ Move(poll.file, "failed") /\ Telling
    BY <1>11 DEF Rejected, Holding
  <2>2. poll' \in Ticks /\ inFlight' \in BOOLEAN /\ poll'.at = "tell"
    BY <2>1, TellingKeepsType
  <2>3. /\ place' \in [Files -> {"outside", "inbox", "gone"} \cup Directories]
        /\ copy' \in [Files -> 0..Cardinality(Files)]
    BY <2>1, MoveHarmsNone DEF Directories
  <2> QED
    BY <1>a, <1>c, <2>2, <2>3 DEF TickTyped
<1>12. CASE Throws
  BY <1>12, <1>a, <1>b, <1>c, TellingKeepsType DEF Throws
<1>13. CASE Deliver
  <2>1. poll.file \in Files /\ place[poll.file] = "processing"
    BY <1>13 DEF Deliver, Delivered, Holding
  <2>2. CASE poll.at = "record"
    <3>1. GoOn("move") /\ UNCHANGED <<place, copy>>
      BY <1>13, <2>2 DEF Deliver, Delivered
    <3> QED
      BY <1>b, <2>1, <3>1, GoOnKeepsType DEF Stations, Holding
  <2>3. CASE poll.at = "move"
    <3>1. Move(poll.file, "processed") /\ Telling
      BY <1>13, <2>3 DEF Deliver, Delivered
    <3>2. poll' \in Ticks /\ inFlight' \in BOOLEAN /\ poll'.at = "tell"
      BY <3>1, TellingKeepsType
    <3>3. /\ place' \in [Files -> {"outside", "inbox", "gone"} \cup Directories]
          /\ copy' \in [Files -> 0..Cardinality(Files)]
      BY <2>1, <3>1, MoveHarmsNone DEF Directories
    <3> QED
      BY <1>a, <1>c, <3>2, <3>3 DEF TickTyped
  <2> QED
    BY <1>13, <2>2, <2>3 DEF Deliver, Delivered
<1>14. CASE Tell
  BY <1>14, <1>a, <1>b, <1>c, EndedKeepsType DEF Tell
<1>15. CASE RecoverInterruptedClaim
  <2>1. PICK f \in poll.todo :
           /\ Move(f, "failed")
           /\ poll' = [poll EXCEPT !.todo = @ \ {f}, !.at = "recovered", !.file = f]
           /\ UNCHANGED inFlight
    BY <1>15, RecoveryTakes, Zenon
  <2>2. f \in Files
    BY DEF TickTyped, Ticks
  <2>3. poll' \in Ticks /\ poll'.at = "recovered"
    BY <2>1, <2>2 DEF TickTyped, Ticks
  <2>4. /\ place' \in [Files -> {"outside", "inbox", "gone"} \cup Directories]
        /\ copy' \in [Files -> 0..Cardinality(Files)]
    BY <2>1, <2>2, MoveHarmsNone DEF Directories
  <2> QED
    BY <1>a, <1>c, <2>1, <2>3, <2>4 DEF TickTyped
<1>16. CASE Recovered
  <2>1. UNCHANGED <<place, copy>> /\ (Ended \/ GoOn("recover"))
    BY <1>16 DEF Recovered
  <2> QED
    BY <1>a, <1>b, <1>c, <2>1, EndedKeepsType, GoOnKeepsType DEF Stations
<1>17. ASSUME NEW f \in Files, Drop(f) \/ HostResolves(f)
       PROVE  TickTyped' /\ Holding'
  <2>1. CASE Drop(f)
    BY <2>1 DEF Drop, TickTyped, Holding
  <2>2. CASE HostResolves(f)
    BY <2>2 DEF HostResolves, TickTyped, Holding
  <2> QED
    BY <1>17, <2>1, <2>2
<1>18. ASSUME NEW p \in Paths, Meddle(p)
       PROVE  TickTyped' /\ Holding'
  BY <1>18 DEF Meddle, TickTyped, Holding
<1>19. ASSUME NEW dir \in Directories, Tamper(dir)
       PROVE  TickTyped' /\ Holding'
  BY <1>19 DEF Tamper, TickTyped, Holding
<1>20. CASE Repair \/ Evict
  BY <1>20 DEF Repair, Evict, TickTyped, Holding
<1>21. CASE RunRetention
  BY <1>21 DEF RunRetention, TickTyped, Holding
<1>22. CASE Restart
  <2>1. Processing \subseteq Files
    BY DEF Processing
  <2>2. poll' \in Ticks /\ poll'.at = "recover" /\ inFlight' \in BOOLEAN
    BY <1>22, <2>1, TickShape DEF Restart, Ticks, AtRest
  <2> QED
    BY <1>22, <1>a, <1>b, <1>c, <2>2 DEF Restart
<1> QED
  BY <1>1, <1>3, <1>4, <1>5, <1>6, <1>7, <1>8, <1>9, <1>10, <1>11, <1>12, <1>13, <1>14, <1>15,
     <1>16, <1>17, <1>18, <1>19, <1>20, <1>21, <1>22 DEF WatcherNext, Step

LEMMA WatcherStartsTyped ==
  ASSUME WatcherInit
  PROVE  WatcherTypeOK /\ Holding
<1>1. Cardinality(Files) \in Nat /\ Older \subseteq Files /\ Cardinality(Older) \in Nat
  BY WatcherAssumption, FS_CardinalityType, FS_Subset
<1>2. pending \in Seq(Files)
  <2>1. pending \in [1..Cardinality(Older) -> Files]
    BY <1>1 DEF WatcherInit
  <2> QED
    BY <1>1, <2>1
<1>3. poll \in Ticks /\ poll.at = "idle"
  BY TickShape DEF WatcherInit, AtRest
<1>4. place \in [Files -> {"outside", "inbox", "gone"} \cup Directories]
  BY DEF WatcherInit, Directories
<1>5. copy \in [Files -> 0..Cardinality(Files)]
  BY <1>1 DEF WatcherInit
<1>6. Holding
  BY <1>3 DEF Holding, Dispatches
<1>7. opened \in [Files -> Nat] /\ reconciles \in [Files -> Nat]
  BY DEF WatcherInit
<1>8. /\ pr \in [Files -> {"none", "open", "merged", "closed"}]
      /\ worktree \in [Paths -> {"same", "changed", "staged"}]
  BY DEF WatcherInit
<1>9. /\ headless \subseteq Older /\ clone \in {"absent", "ready", "attention"}
      /\ tampered \subseteq Directories /\ inFlight \in BOOLEAN
      /\ strayed \subseteq (Files \cup {NoFile}) \X Paths
      /\ intruded \subseteq (Files \cup {NoFile}) \X Paths /\ dropped \subseteq Files
  BY DEF WatcherInit
<1> QED
  BY <1>2, <1>3, <1>4, <1>5, <1>6, <1>7, <1>8, <1>9 DEF WatcherTypeOK

\* The watcher's state is well formed in every state it reaches, and a tick
\* that delivers holds the file it delivers, in processing/ (watcher.ts, claim,
\* runProtocol).
THEOREM WatcherTypeCorrect == WatcherSpec => [](WatcherTypeOK /\ Holding)
<1>1. WatcherInit => WatcherTypeOK /\ Holding
  BY WatcherStartsTyped
<1>2. WatcherTypeOK /\ Holding /\ [WatcherNext]_watcherVars => (WatcherTypeOK /\ Holding)'
  <2> SUFFICES ASSUME WatcherTypeOK, Holding, [WatcherNext]_watcherVars
               PROVE  (WatcherTypeOK /\ Holding)'
    OBVIOUS
  <2>1. CASE WatcherNext
    BY <2>1, WorldStaysTyped, TickStaysTyped DEF WatcherTypeOK, WorldTyped, TickTyped
  <2>2. CASE UNCHANGED watcherVars
    BY <2>2 DEF watcherVars, disk, world, history, WatcherTypeOK, Holding
  <2> QED
    BY <2>1, <2>2
<1> QED
  BY <1>1, <1>2, PTL DEF WatcherSpec

-----------------------------------------------------------------------------
\* A file opens one pull request at most.

\* A pull request is opened for a file that is neither in the inbox nor yet to
\* come, and once: what is being delivered has none before its call.
DeliveryInv ==
    /\ \A f \in Files : opened[f] <= 1
    /\ \A f \in Files : place[f] \in {"outside", "inbox"} => opened[f] = 0
    /\ poll.at \in Dispatches \ {"merge"} => opened[poll.file] = 0

\* Nothing else moves a file than a drop, a claim, a move and retention.
LEMMA MovesAreFew ==
  ASSUME WatcherNext, ~ClaimFile, ~Rejected, ~Deliver, ~RecoverInterruptedClaim, ~RunRetention,
         \A f \in Files : ~Drop(f)
  PROVE  UNCHANGED <<place, copy>>
<1>1. CASE TickStarts \/ StatusRead \/ Reconcile \/ Reconciled \/ Followed
  BY <1>1 DEF TickStarts, StatusRead, Reconcile, Reconciled, Followed, disk
<1>2. CASE Gate \/ MaterialiseClone \/ Throws \/ Tell \/ Recovered
  BY <1>2 DEF Gate, MaterialiseClone, Throws, Tell, Recovered, disk
<1>3. CASE Protocol
  BY <1>3, ProtocolFrame DEF disk
<1>4. ASSUME NEW f \in Files, HostResolves(f)
      PROVE  UNCHANGED <<place, copy>>
  BY <1>4 DEF HostResolves, disk
<1>5. ASSUME NEW p \in Paths, Meddle(p)
      PROVE  UNCHANGED <<place, copy>>
  BY <1>5 DEF Meddle, disk
<1>6. ASSUME NEW dir \in Directories, Tamper(dir)
      PROVE  UNCHANGED <<place, copy>>
  BY <1>6 DEF Tamper, disk
<1>7. CASE Repair \/ Evict \/ Restart
  BY <1>7 DEF Repair, Evict, Restart, disk
<1> QED
  BY <1>1, <1>2, <1>3, <1>4, <1>5, <1>6, <1>7 DEF WatcherNext, Step

\* Nothing else opens a pull request than the call that does, answered or not.
LEMMA OpensAreFew ==
  ASSUME WatcherNext, ~Protocol, ~Rejected
  PROVE  UNCHANGED opened
<1>1. CASE TickStarts \/ StatusRead \/ Reconcile \/ Reconciled \/ Followed
  BY <1>1 DEF TickStarts, StatusRead, Reconcile, Reconciled, Followed, history
<1>2. CASE Gate \/ MaterialiseClone \/ Throws \/ Tell \/ Recovered \/ Deliver
  BY <1>2 DEF Gate, MaterialiseClone, Throws, Tell, Recovered, Deliver, history
<1>3. CASE ClaimFile
  BY <1>3, ClaimFrame DEF history
<1>4. CASE RecoverInterruptedClaim
  BY <1>4, Zenon DEF RecoverInterruptedClaim, history
<1>5. ASSUME NEW f \in Files, Drop(f) \/ HostResolves(f)
      PROVE  UNCHANGED opened
  BY <1>5 DEF Drop, HostResolves, history
<1>6. ASSUME NEW p \in Paths, Meddle(p)
      PROVE  UNCHANGED opened
  BY <1>6 DEF Meddle, history
<1>7. ASSUME NEW dir \in Directories, Tamper(dir)
      PROVE  UNCHANGED opened
  BY <1>7 DEF Tamper, history
<1>8. CASE Repair \/ Evict \/ RunRetention \/ Restart
  BY <1>8 DEF Repair, Evict, RunRetention, Restart, history
<1> QED
  BY <1>1, <1>2, <1>3, <1>4, <1>5, <1>6, <1>7, <1>8 DEF WatcherNext, Step

\* The steps at which a tick holds a file.
Deliveries == Dispatches \cup {"record", "move"}

\* A tick comes to deliver only by a claim and by the calls before.
LEMMA DeliveriesComeFromClaims ==
  ASSUME WatcherTypeOK, WatcherNext, ~ClaimFile, ~Protocol, ~Deliver
  PROVE  poll'.at \notin Deliveries \/ UNCHANGED poll
<1>a. \A s \in {"idle", "follow", "reconcile", "reconciled", "gate", "ensure", "clean", "tell",
                "recover", "recovered"} : s \notin Deliveries
  BY DEF Dispatches, Deliveries
<1>b. poll \in Ticks /\ AtRest \in Ticks
  BY TickShape DEF WatcherTypeOK
<1>c. ASSUME NEW s \in Stations, GoOn(s) PROVE poll'.at = s
  BY <1>c, GoOnKeepsType
<1>1. CASE TickStarts
  BY <1>1, <1>a, <1>b DEF TickStarts, Ticks
<1>2. ASSUME NEW kept, Advance(kept) PROVE poll'.at = "follow"
  BY <1>2, <1>b DEF Advance, Ticks
<1>3. CASE StatusRead
  BY <1>3, <1>2, <1>a, <1>c DEF StatusRead, Stations
<1>4. CASE Reconcile \/ Followed
  BY <1>4, <1>a, <1>c DEF Reconcile, Followed, Stations
<1>5. CASE Reconciled
  BY <1>5, <1>2, <1>a DEF Reconciled
<1>6. CASE Gate \/ MaterialiseClone \/ Recovered
  <2>1. Ended \/ GoOn("ensure") \/ GoOn("clean") \/ GoOn("recover")
    BY <1>6 DEF Gate, MaterialiseClone, Recovered
  <2> QED
    BY <2>1, <1>a, <1>c, EndedKeepsType DEF Stations
<1>7. CASE Rejected \/ Throws
  BY <1>7, <1>a, TellingKeepsType DEF Rejected, Throws
<1>8. CASE Tell
  BY <1>8, <1>a, EndedKeepsType DEF Tell
<1>9. CASE RecoverInterruptedClaim
  <2>1. PICK f \in poll.todo :
           poll' = [poll EXCEPT !.todo = @ \ {f}, !.at = "recovered", !.file = f]
    BY <1>9, RecoveryTakes, Zenon
  <2> QED
    BY <2>1, <1>a, <1>b DEF Ticks
<1>10. ASSUME NEW f \in Files, Drop(f) \/ HostResolves(f) PROVE UNCHANGED poll
  BY <1>10 DEF Drop, HostResolves
<1>11. ASSUME NEW p \in Paths, Meddle(p) PROVE UNCHANGED poll
  BY <1>11 DEF Meddle
<1>12. ASSUME NEW dir \in Directories, Tamper(dir) PROVE UNCHANGED poll
  BY <1>12 DEF Tamper
<1>13. CASE Repair \/ Evict \/ RunRetention
  BY <1>13 DEF Repair, Evict, RunRetention
<1>14. CASE Restart
  BY <1>14, <1>a, <1>b DEF Restart, Ticks
<1> QED
  BY <1>1, <1>3, <1>4, <1>5, <1>6, <1>7, <1>8, <1>9, <1>10, <1>11, <1>12, <1>13, <1>14
     DEF WatcherNext, Step

LEMMA DeliveryStarts ==
  ASSUME WatcherInit
  PROVE  DeliveryInv
<1>1. poll.at \notin Dispatches
  BY DEF WatcherInit, AtRest, Dispatches
<1>2. \A f \in Files : opened[f] <= 1 /\ (place[f] \in {"outside", "inbox"} => opened[f] = 0)
  BY DEF WatcherInit
<1> QED
  BY <1>1, <1>2 DEF DeliveryInv

\* A file whose pull request may be open is never to be claimed again, and a
\* call is made once for each claim (claim, runProtocol, recoverInterruptedClaims).
LEMMA DeliveryGoesOn ==
  ASSUME WatcherTypeOK, Holding, DeliveryInv, WatcherNext
  PROVE  DeliveryInv'
<1>0. /\ opened \in [Files -> Nat] /\ poll \in Ticks
      /\ place \in [Files -> {"outside", "inbox", "gone"} \cup Directories]
  BY DEF WatcherTypeOK
<1>1. CASE ClaimFile
  <2>1. UNCHANGED opened
    BY <1>1, ClaimFrame DEF history
  <2>2. CASE Ended /\ UNCHANGED <<place, copy>>
    BY <2>1, <2>2, EndedKeepsType DEF DeliveryInv, Dispatches
  <2>3. CASE ~(Ended /\ UNCHANGED <<place, copy>>)
    <3>1. PICK f \in Inbox : /\ Rename(f, "processing", 0)
                             /\ poll' = [AtRest EXCEPT !.at = "plan", !.file = f]
                             /\ UNCHANGED inFlight
      BY <1>1, <2>3, ClaimTakes, Zenon
    <3>2. f \in Files /\ place[f] = "inbox" /\ 0 \in 0..Cardinality(Files)
      BY <3>1, WatcherAssumption, FS_CardinalityType DEF Inbox
    <3>3. poll'.file = f /\ opened[f] = 0
      BY <3>1, <3>2 DEF DeliveryInv, AtRest
    <3>4. \A g \in Files : place'[g] \in {place[g], "gone", "processing"}
      BY <3>1, <3>2, RenameKeepsType DEF Directories
    <3> QED
      BY <2>1, <3>3, <3>4 DEF DeliveryInv
  <2> QED
    BY <2>2, <2>3
<1>2. CASE Protocol
  <2>1. UNCHANGED place /\ poll'.file = poll.file
    BY <1>2, ProtocolFrame, ProtocolGoesOn DEF disk
  <2>2. CASE PrOpen
    <3>1. opened' = [opened EXCEPT ![poll.file] = @ + 1] /\ poll.at = "open" /\ GoOn("merge")
      BY <2>2 DEF PrOpen, HostOpens
    <3>2. poll'.at = "merge"
      BY <3>1, GoOnKeepsType DEF Stations, Dispatches
    <3>3. /\ poll.file \in Files /\ place[poll.file] = "processing" /\ opened[poll.file] = 0
      BY <3>1 DEF Holding, DeliveryInv, Dispatches
    <3>4. opened'[poll.file] = 1 /\ \A f \in Files \ {poll.file} : opened'[f] = opened[f]
      BY <1>0, <3>1, <3>3
    <3> QED
      BY <2>1, <3>2, <3>3, <3>4 DEF DeliveryInv
  <2>3. CASE ~PrOpen
    <3>1. UNCHANGED opened
      BY <1>2, <2>3, Zenon DEF Protocol, Plan, PrepareBranch, Apply, Stage, Look, Commit, Push,
                          EnableAutoMerge
    <3>2. CASE EnableAutoMerge
      <4>1. poll'.at = "record"
        BY <3>2, GoOnKeepsType DEF EnableAutoMerge, Stations
      <4> QED
        BY <2>1, <3>1, <4>1 DEF DeliveryInv, Dispatches
    <3>3. CASE ~EnableAutoMerge
      <4>1. poll.at \in Dispatches /\ poll.at # "merge"
        BY <1>2, <2>3, <3>3, Zenon DEF Protocol, Plan, PrepareBranch, Apply, Stage, Look, Commit, Push,
                            Dispatches
      <4> QED
        BY <2>1, <3>1, <4>1 DEF DeliveryInv
    <3> QED
      BY <3>2, <3>3
  <2> QED
    BY <2>2, <2>3
<1>3. CASE Rejected
  <2>1. /\ poll.file \in Files /\ Move(poll.file, "failed") /\ Telling
        /\ place[poll.file] = "processing" /\ opened[poll.file] = 0
    BY <1>3 DEF Rejected, Holding, DeliveryInv
  <2>2. opened' = opened \/ opened' = [opened EXCEPT ![poll.file] = @ + 1]
    BY <1>3 DEF Rejected, HostOpens
  <2>3. opened'[poll.file] <= 1 /\ \A f \in Files \ {poll.file} : opened'[f] = opened[f]
    BY <1>0, <2>1, <2>2
  <2>4. /\ \A f \in Files \ {poll.file} : place'[f] = place[f]
        /\ place'[poll.file] \notin {"outside", "inbox"}
    BY <2>1, MoveHarmsNone DEF Directories
  <2>5. poll'.at = "tell"
    BY <2>1, TellingKeepsType
  <2> QED
    BY <2>3, <2>4, <2>5 DEF DeliveryInv, Dispatches
<1>4. CASE Deliver
  <2>1. UNCHANGED opened
    BY <1>4 DEF Deliver, history
  <2>2. poll.file \in Files /\ place[poll.file] = "processing"
    BY <1>4 DEF Deliver, Delivered, Holding
  <2>3. UNCHANGED place \/ Move(poll.file, "processed")
    BY <1>4 DEF Deliver, Delivered
  <2>4. \A f \in Files : place'[f] \in {place[f], "processed"}
    BY <1>0, <2>2, <2>3, MoveHarmsNone DEF Directories
  <2>5. poll'.at \in {"move", "tell"}
    BY <1>4, TellingKeepsType, GoOnKeepsType DEF Deliver, Delivered, Stations
  <2> QED
    BY <2>1, <2>4, <2>5 DEF DeliveryInv, Dispatches
<1>5. ASSUME UNCHANGED opened, poll'.at \notin Deliveries \/ UNCHANGED poll,
             \A f \in Files : place'[f] \in {"outside", "inbox"} => place[f] \in {"outside", "inbox"}
      PROVE  DeliveryInv'
  BY <1>5 DEF DeliveryInv, Deliveries
<1>6. CASE ~ClaimFile /\ ~Protocol /\ ~Rejected /\ ~Deliver
  <2>1. UNCHANGED opened
    BY <1>6, OpensAreFew
  <2>2. poll'.at \notin Deliveries \/ UNCHANGED poll
    BY <1>6, DeliveriesComeFromClaims
  <2>3. ASSUME NEW f \in Files, place'[f] \in {"outside", "inbox"}
        PROVE  place[f] \in {"outside", "inbox"}
    <3>1. CASE RecoverInterruptedClaim
      <4>1. PICK g \in poll.todo : Move(g, "failed")
        BY <3>1, RecoveryTakes, Zenon
      <4>2. g \in Files
        BY <1>0 DEF Ticks
      <4> QED
        BY <2>3, <4>1, <4>2, MoveHarmsNone DEF Directories
    <3>2. CASE RunRetention
      BY <1>0, <2>3, <3>2 DEF RunRetention
    <3>3. CASE \E g \in Files : Drop(g)
      BY <1>0, <2>3, <3>3 DEF Drop
    <3>4. CASE ~RecoverInterruptedClaim /\ ~RunRetention /\ \A g \in Files : ~Drop(g)
      BY <1>6, <2>3, <3>4, MovesAreFew
    <3> QED
      BY <3>1, <3>2, <3>3, <3>4
  <2> QED
    BY <1>5, <2>1, <2>2, <2>3
<1> QED
  BY <1>1, <1>2, <1>3, <1>4, <1>6

\* A dropped file opens one pull request at most, over any restarts and failures
\* while it is delivered (watcher.ts, recoverInterruptedClaims).
THEOREM DeliveriesHappenOnce == WatcherSpec => []DeliveredOnce
<1>1. WatcherInit => DeliveryInv
  BY DeliveryStarts
<1>2. WatcherTypeOK /\ Holding /\ DeliveryInv /\ [WatcherNext]_watcherVars => DeliveryInv'
  <2> SUFFICES ASSUME WatcherTypeOK, Holding, DeliveryInv, [WatcherNext]_watcherVars
               PROVE  DeliveryInv'
    OBVIOUS
  <2>1. CASE WatcherNext
    BY <2>1, DeliveryGoesOn
  <2>2. CASE UNCHANGED watcherVars
    BY <2>2 DEF watcherVars, disk, history, DeliveryInv
  <2> QED
    BY <2>1, <2>2
<1>3. DeliveryInv => DeliveredOnce
  BY DEF DeliveryInv, DeliveredOnce
<1> QED
  BY <1>1, <1>2, <1>3, WatcherTypeCorrect, PTL DEF WatcherSpec

-----------------------------------------------------------------------------
\* No file is lost.

\* A name stands for one file in the inbox and in processing/ together.
NamesInv ==
    \A f, g \in Files : f # g /\ NameOf[f] = NameOf[g] /\ place[f] \in {"inbox", "processing"}
                           => place[g] \notin {"inbox", "processing"}

LEMMA NamesStart ==
  ASSUME WatcherInit
  PROVE  NamesInv
  BY DEF WatcherInit, NamesInv

\* What a step does to the places of files: one is claimed, over no other; one
\* is dropped where its name is free; retention deletes; or some go to
\* processed/ and failed/ (claim, moveToProcessed, moveToFailed, runRetention).
LEMMA PlacesChange ==
  ASSUME WatcherTypeOK, Holding, NamesInv, "redrop" \in Careful, WatcherNext
  PROVE  \/ \E f \in Files : /\ place[f] = "inbox" /\ place'[f] = "processing"
                             /\ \A g \in Files \ {f} : place'[g] = place[g]
         \/ \E f \in Files : /\ place[f] = "outside" /\ place'[f] = "inbox"
                             /\ \A g \in Files \ {f} : place'[g] = place[g]
                             /\ \A g \in Files : NameOf[g] = NameOf[f]
                                   => place[g] \notin {"inbox", "processing"}
         \/ \E f \in Files : /\ place[f] = "processed" /\ place'[f] = "gone" /\ UNCHANGED poll
                             /\ \A g \in Files \ {f} : place'[g] = place[g]
         \/ \A g \in Files : place'[g] \in {place[g], "processed", "failed"}
<1>0. place \in [Files -> {"outside", "inbox", "gone"} \cup Directories] /\ poll \in Ticks
  BY DEF WatcherTypeOK
<1>1. CASE ClaimFile
  <2>1. CASE UNCHANGED <<place, copy>>
    BY <2>1
  <2>2. CASE ~UNCHANGED <<place, copy>>
    <3>1. PICK f \in Inbox : Rename(f, "processing", 0)
      BY <1>1, <2>2, ClaimTakes, Zenon
    <3>2. f \in Files /\ place[f] = "inbox" /\ 0 \in 0..Cardinality(Files)
      BY <3>1, WatcherAssumption, FS_CardinalityType DEF Inbox
    <3>3. /\ place'[f] = "processing"
          /\ \A g \in Files \ {f} :
                place'[g] = IF place[g] = "processing" /\ NameOf[g] = NameOf[f] /\ copy[g] = 0
                            THEN "gone" ELSE place[g]
      BY <3>1, <3>2, RenameKeepsType DEF Directories
    <3>4. ASSUME NEW g \in Files \ {f}
          PROVE  ~(place[g] = "processing" /\ NameOf[g] = NameOf[f])
      BY <3>2 DEF NamesInv
    <3> QED
      BY <3>2, <3>3, <3>4
  <2> QED
    BY <2>1, <2>2
<1>2. ASSUME NEW f \in Files, Drop(f)
      PROVE  /\ place[f] = "outside" /\ place'[f] = "inbox"
             /\ \A g \in Files \ {f} : place'[g] = place[g]
             /\ \A g \in Files : NameOf[g] = NameOf[f]
                   => place[g] \notin {"inbox", "processing"}
  <2>1. place[f] = "outside" /\ place' = [place EXCEPT ![f] = "inbox"]
    BY <1>2 DEF Drop
  <2>2. \A g \in Files : NameOf[g] = NameOf[f] => place[g] \notin {"inbox", "processing"}
    BY <1>2 DEF Drop
  <2> QED
    BY <1>0, <2>1, <2>2
<1>3. CASE RunRetention
  <2>1. PICK f \in Files : place[f] = "processed" /\ place' = [place EXCEPT ![f] = "gone"]
    BY <1>3 DEF RunRetention
  <2>2. UNCHANGED poll
    BY <1>3 DEF RunRetention
  <2> QED
    BY <1>0, <2>1, <2>2
<1>4. ASSUME NEW f \in Files, NEW dir \in {"processed", "failed"}, Move(f, dir)
      PROVE  \A g \in Files : place'[g] \in {place[g], "processed", "failed"}
  BY <1>4, MoveHarmsNone DEF Directories
<1>5. CASE Rejected
  BY <1>5, <1>4 DEF Rejected, Holding
<1>6. CASE Deliver
  <2>1. poll.file \in Files /\ (UNCHANGED place \/ Move(poll.file, "processed"))
    BY <1>6 DEF Deliver, Delivered, Holding
  <2> QED
    BY <2>1, <1>4
<1>7. CASE RecoverInterruptedClaim
  <2>1. PICK g \in poll.todo : Move(g, "failed")
    BY <1>7, RecoveryTakes, Zenon
  <2>2. g \in Files
    BY <1>0 DEF Ticks
  <2> QED
    BY <2>1, <2>2, <1>4
<1>8. CASE ~ClaimFile /\ ~Rejected /\ ~Deliver /\ ~RecoverInterruptedClaim /\ ~RunRetention
           /\ \A f \in Files : ~Drop(f)
  BY <1>8, MovesAreFew
<1> QED
  BY <1>1, <1>2, <1>3, <1>5, <1>6, <1>7, <1>8

\* No file that was handed over is lost, over any restarts and failures, where
\* nobody drops a file under the name of one that is being delivered: nothing is
\* moved onto another file, and retention deletes what was delivered (watcher.ts,
\* claim, moveToFailed, moveToProcessed).
THEOREM FilesAlwaysSurvive ==
  ASSUME "redrop" \in Careful
  PROVE  WatcherSpec => FilesSurvive
<1>1. WatcherInit => NamesInv
  BY NamesStart
<1>2. WatcherTypeOK /\ Holding /\ NamesInv /\ [WatcherNext]_watcherVars => NamesInv'
  <2> SUFFICES ASSUME WatcherTypeOK, Holding, NamesInv, [WatcherNext]_watcherVars
               PROVE  NamesInv'
    OBVIOUS
  <2>1. CASE WatcherNext
    BY <2>1, PlacesChange DEF NamesInv
  <2>2. CASE UNCHANGED watcherVars
    BY <2>2 DEF watcherVars, disk, NamesInv
  <2> QED
    BY <2>1, <2>2
<1>3. WatcherTypeOK /\ Holding /\ NamesInv /\ [WatcherNext]_watcherVars =>
         [\A f \in Files : place[f] # "gone" /\ place'[f] = "gone" =>
             place[f] = "processed" /\ UNCHANGED poll]_watcherVars
  <2> SUFFICES ASSUME WatcherTypeOK, Holding, NamesInv, WatcherNext,
                      NEW f \in Files, place[f] # "gone", place'[f] = "gone"
               PROVE  place[f] = "processed" /\ UNCHANGED poll
    OBVIOUS
  <2> QED
    BY PlacesChange
<1> QED
  BY <1>1, <1>2, <1>3, WatcherTypeCorrect, PTL DEF WatcherSpec, FilesSurvive

-----------------------------------------------------------------------------
\* What is committed is within the plan.

\* What was declared is permitted once the first look agreed with it, and what is
\* staged once the second did, save what others staged since.
PlanInv ==
    /\ poll.at \in {"stage", "lookAgain"} => poll.declared \subseteq Permitted
    /\ poll.at = "commit" =>
          \A p \in Staged : p \in Permitted \/ <<poll.file, p>> \in intruded
    /\ strayed \subseteq intruded

\* Each call of the protocol keeps to the plan (runProtocol).
LEMMA ProtocolKeepsPlan ==
  ASSUME WatcherTypeOK, PlanInv, Protocol
  PROVE  PlanInv'
<1>0. poll \in Ticks
  BY DEF WatcherTypeOK
<1>a. \A s \in Dispatches \cup {"record"} : GoOn(s) => poll'.at = s /\ poll'.declared = poll.declared
  BY GoOnKeepsType DEF Stations
<1>b. UNCHANGED intruded
  BY Zenon DEF Protocol
<1>1. CASE Plan \/ PrepareBranch \/ Push \/ PrOpen \/ EnableAutoMerge
  <2>1. UNCHANGED <<strayed, intruded>>
    BY <1>1, <1>b DEF Plan, PrepareBranch, Push, PrOpen, EnableAutoMerge
  <2>2. poll'.at \in {"branch", "apply", "open", "merge", "record"}
    BY <1>1, <1>a DEF Plan, PrepareBranch, Push, PrOpen, EnableAutoMerge, Dispatches
  <2> QED
    BY <2>1, <2>2 DEF PlanInv
<1>2. CASE Apply
  <2>1. PICK said \in SUBSET Paths : poll' = [poll EXCEPT !.at = "look", !.declared = said]
    BY <1>2, Zenon DEF Apply
  <2>2. UNCHANGED strayed
    BY <1>2, Zenon DEF Apply
  <2>3. poll'.at = "look"
    BY <1>0, <2>1 DEF Ticks
  <2> QED
    BY <1>b, <2>2, <2>3 DEF PlanInv
<1>3. CASE Stage
  BY <1>3, <1>a, <1>b DEF Stage, PlanInv, Dispatches
<1>4. CASE Look
  <2>1. UNCHANGED <<strayed, intruded, worktree>>
    BY <1>4, <1>b DEF Look
  <2>2. CASE poll.at = "look"
    <3>1. poll' = [poll EXCEPT !.at = "stage"] /\ Changed = poll.declared /\ Changed \subseteq Permitted
      BY <1>4, <2>2 DEF Look, SeenAsDeclared
    <3>2. poll'.at = "stage" /\ poll'.declared = poll.declared
      BY <1>0, <3>1 DEF Ticks
    <3> QED
      BY <2>1, <3>1, <3>2 DEF PlanInv
  <2>3. CASE poll.at = "lookAgain"
    <3>1. poll' = [poll EXCEPT !.at = "commit", !.declared = {}] /\ Staged = poll.declared
      BY <1>4, <2>3 DEF Look, SeenAsDeclared
    <3>2. poll'.at = "commit" /\ Staged' = Staged
      BY <1>0, <2>1, <3>1 DEF Ticks, Staged
    <3> QED
      BY <2>1, <2>3, <3>1, <3>2 DEF PlanInv
  <2> QED
    BY <1>4, <2>2, <2>3 DEF Look
<1>5. CASE Commit
  <2>1. strayed' = strayed \cup ({poll.file} \X (Staged \ Permitted)) /\ GoOn("push")
    BY <1>5 DEF Commit
  <2>2. {poll.file} \X (Staged \ Permitted) \subseteq intruded
    BY <1>5 DEF Commit, PlanInv
  <2>3. poll'.at = "push"
    BY <2>1, <1>a DEF Dispatches
  <2> QED
    BY <1>b, <2>1, <2>2, <2>3 DEF PlanInv
<1> QED
  BY <1>1, <1>2, <1>3, <1>4, <1>5, Zenon DEF Protocol

\* No other step commits, and none stages behind the last look.
LEMMA OthersKeepPlan ==
  ASSUME WatcherTypeOK, PlanInv, WatcherNext, ~Protocol
  PROVE  PlanInv'
<1>0. poll \in Ticks
  BY DEF WatcherTypeOK
<1>a. ASSUME UNCHANGED <<worktree, strayed, intruded, poll>>
      PROVE  PlanInv'
  BY <1>a DEF PlanInv, Staged
<1>b. ASSUME UNCHANGED <<strayed, intruded>>, poll'.at \notin Dispatches \/ poll'.at = "plan"
      PROVE  PlanInv'
  BY <1>b DEF PlanInv, Dispatches
<1>1. CASE ClaimFile
  <2>1. CASE Ended
    BY <1>1, <1>b, <2>1, ClaimFrame, EndedKeepsType DEF history, Dispatches
  <2>2. CASE ~Ended
    <3>1. PICK f \in Inbox : poll' = [AtRest EXCEPT !.at = "plan", !.file = f]
      BY <1>1, <2>2, ClaimTakes, Zenon
    <3>2. poll'.at = "plan"
      BY <3>1 DEF AtRest
    <3> QED
      BY <1>1, <1>b, <3>2, ClaimFrame DEF history
  <2> QED
    BY <2>1, <2>2
<1>2. CASE Deliver
  <2>1. poll'.at \in {"move", "tell"}
    BY <1>2, TellingKeepsType, GoOnKeepsType DEF Deliver, Delivered, Stations
  <2> QED
    BY <1>2, <1>b, <2>1 DEF Deliver, history, Dispatches
<1>3. ASSUME NEW p \in Paths, Meddle(p)
      PROVE  PlanInv'
  <2>1. PICK s \in {"changed", "staged"} :
           /\ worktree' = [worktree EXCEPT ![p] = s]
           /\ intruded' = IF s = "staged" /\ poll.at = "commit"
                             THEN intruded \cup {<<poll.file, p>>} ELSE intruded
    BY <1>3, Zenon DEF Meddle
  <2>2. UNCHANGED <<strayed, poll>>
    BY <1>3, Zenon DEF Meddle
  <2>3. ASSUME poll.at = "commit", NEW q \in Staged'
        PROVE  q \in Permitted \/ <<poll.file, q>> \in intruded'
    <3>1. CASE q \in Staged
      BY <2>1, <2>3, <3>1 DEF PlanInv
    <3>2. CASE q \notin Staged
      <4>1. q = p /\ s = "staged"
        BY <2>1, <2>3, <3>2 DEF Staged, WatcherTypeOK
      <4> QED
        BY <2>1, <2>3, <4>1
    <3> QED
      BY <3>1, <3>2
  <2> QED
    BY <2>1, <2>2, <2>3 DEF PlanInv
<1>4. CASE Repair
  BY <1>4 DEF Repair, history, PlanInv
<1>5. ASSUME NEW f \in Files, Drop(f) \/ HostResolves(f)
      PROVE  PlanInv'
  BY <1>5, <1>a DEF Drop, HostResolves, world, history
<1>6. ASSUME NEW dir \in Directories, Tamper(dir)
      PROVE  PlanInv'
  BY <1>6, <1>a DEF Tamper, history
<1>7. CASE Evict \/ RunRetention
  BY <1>7, <1>a DEF Evict, RunRetention, world, history
<1>8. CASE MaterialiseClone
  <2>1. UNCHANGED <<strayed, intruded>> /\ (Ended \/ GoOn("clean"))
    BY <1>8 DEF MaterialiseClone, history
  <2>2. poll'.at \in {"idle", "clean"}
    BY <2>1, EndedKeepsType, GoOnKeepsType DEF Stations
  <2> QED
    BY <1>b, <2>1, <2>2 DEF Dispatches
<1>9. CASE Rejected
  <2>1. UNCHANGED <<strayed, intruded>> /\ poll'.at = "tell"
    BY <1>9, TellingKeepsType DEF Rejected
  <2> QED
    BY <1>b, <2>1 DEF Dispatches
<1>10. CASE RecoverInterruptedClaim
  <2>1. UNCHANGED <<worktree, strayed, intruded>>
    BY <1>10, Zenon DEF RecoverInterruptedClaim, world, history
  <2>2. PICK f \in poll.todo :
           poll' = [poll EXCEPT !.todo = @ \ {f}, !.at = "recovered", !.file = f]
    BY <1>10, RecoveryTakes, Zenon
  <2>3. poll'.at = "recovered"
    BY <1>0, <2>2 DEF Ticks
  <2> QED
    BY <1>b, <2>1, <2>3 DEF Dispatches
<1>11. CASE /\ ~ClaimFile /\ ~Deliver
            /\ \/ TickStarts \/ StatusRead \/ Reconcile \/ Reconciled \/ Followed
               \/ Gate \/ Throws \/ Tell \/ Recovered \/ Restart
  <2>1. UNCHANGED <<worktree, strayed, intruded>>
    BY <1>11 DEF TickStarts, StatusRead, Reconcile, Reconciled, Followed, Gate, Throws, Tell,
                 Recovered, Restart, world, history
  <2>2. poll'.at \notin Deliveries \/ UNCHANGED poll
    BY <1>11, DeliveriesComeFromClaims
  <2> QED
    BY <1>a, <1>b, <2>1, <2>2 DEF Deliveries
<1> QED
  BY <1>1, <1>2, <1>3, <1>4, <1>5, <1>6, <1>7, <1>8, <1>9, <1>10, <1>11 DEF WatcherNext, Step

\* What the watcher commits outside a plan was staged by another session between the
\* watcher's last look and its commit: however wrong the consumer's handler is about
\* what it changed, and whatever other calls do to the clone between any two of the
\* watcher's (watcher.ts, runProtocol).
THEOREM CommitsStayWithinPlan == WatcherSpec => []CommitsWithinPlan
<1>1. WatcherInit => PlanInv
  BY DEF WatcherInit, AtRest, PlanInv
<1>2. WatcherTypeOK /\ PlanInv /\ [WatcherNext]_watcherVars => PlanInv'
  <2> SUFFICES ASSUME WatcherTypeOK, PlanInv, [WatcherNext]_watcherVars
               PROVE  PlanInv'
    OBVIOUS
  <2>1. CASE Protocol
    BY <2>1, ProtocolKeepsPlan
  <2>2. CASE WatcherNext /\ ~Protocol
    BY <2>2, OthersKeepPlan
  <2>3. CASE UNCHANGED watcherVars
    BY <2>3 DEF watcherVars, world, history, PlanInv, Staged
  <2> QED
    BY <2>1, <2>2, <2>3
<1>3. PlanInv => CommitsWithinPlan
  BY DEF PlanInv, CommitsWithinPlan
<1> QED
  BY <1>1, <1>2, <1>3, WatcherTypeCorrect, PTL DEF WatcherSpec

-----------------------------------------------------------------------------
\* Open pull requests are followed.

\* While the list is gone through, what was read of it and what was kept make it
\* up; what is reconciled is merged; and a file that is about to be moved has its
\* pull request in the list.
FollowInv ==
    /\ poll.at \in {"follow", "reconcile", "reconciled"} =>
          Range(pending) \subseteq Range(poll.kept) \cup Range(poll.rest)
    /\ poll.at \in {"reconcile", "reconciled"} => pr[Head(poll.rest)] = "merged"
    /\ poll.at = "move" => poll.file \in Range(pending)
    /\ OpenIsFollowed

LEMMA FollowingStarts ==
  ASSUME WatcherInit
  PROVE  FollowInv
<1>1. poll.at = "idle"
  BY DEF WatcherInit, AtRest
<1>2. Range(pending) = Older
  BY DEF WatcherInit
<1>3. ASSUME NEW f \in Files, place[f] = "processed"
      PROVE  f \in Older
  BY <1>3 DEF WatcherInit
<1> QED
  BY <1>1, <1>2, <1>3 DEF FollowInv, OpenIsFollowed

\* A list advanced by one entry, which is kept, given up or merged, holds what it
\* must still follow (tickOneDeclaration).
LEMMA AdvanceFollows ==
  ASSUME WatcherTypeOK, FollowInv, NEW kept \in Seq(Files), poll.rest # <<>>,
         poll.at \in {"follow", "reconciled"}, Advance(kept), UNCHANGED <<place, pr>>,
         Range(poll.kept) \subseteq Range(kept), dropped \subseteq dropped',
         \/ Head(poll.rest) \in Range(kept)
         \/ Head(poll.rest) \in dropped'
         \/ pr[Head(poll.rest)] = "merged"
  PROVE  FollowInv'
<1>1. poll \in Ticks /\ poll.rest \in Seq(Files) /\ poll.kept \in Seq(Files)
  BY DEF WatcherTypeOK, Ticks
<1>2. Tail(poll.rest) \in Seq(Files) /\ Range(poll.rest) \subseteq {Head(poll.rest)} \cup Range(Tail(poll.rest))
  BY <1>1, TailRange
<1>3. poll'.rest = Tail(poll.rest) /\ poll'.kept = kept /\ poll'.at = "follow"
  BY <1>1 DEF Advance, Ticks
<1>4. pending' = kept \o Tail(poll.rest)
  BY DEF Advance, WriteList
<1>5. Range(pending') = Range(kept) \cup Range(Tail(poll.rest))
  <2>1. Range(kept \o Tail(poll.rest)) = Range(kept) \cup Range(Tail(poll.rest))
    <3>1. \A s, t \in Seq(Files) : Range(s \o t) = Range(s) \cup Range(t)
      BY ConcatRange
    <3>2. kept \in Seq(Files) /\ Tail(poll.rest) \in Seq(Files)
      BY <1>2
    <3> QED
      BY <3>1, <3>2, Zenon
  <2> QED
    BY <1>4, <2>1
<1>6. OpenIsFollowed'
  <2> SUFFICES ASSUME NEW f \in Files, place[f] = "processed", pr[f] = "open", f \notin dropped'
               PROVE  f \in Range(pending')
    BY DEF OpenIsFollowed
  <2>1. f \in Range(pending)
    BY DEF FollowInv, OpenIsFollowed
  <2>2. f \in Range(poll.kept) \cup Range(poll.rest)
    BY <2>1 DEF FollowInv
  <2> QED
    BY <1>2, <1>5, <2>2
<1> QED
  BY <1>3, <1>5, <1>6 DEF FollowInv

LEMMA StatusReadFollows ==
  ASSUME WatcherTypeOK, FollowInv, StatusRead
  PROVE  FollowInv'
<1>1. poll \in Ticks /\ poll.rest \in Seq(Files) /\ poll.kept \in Seq(Files)
  BY DEF WatcherTypeOK, Ticks
<1>2. /\ poll.at = "follow" /\ poll.rest # <<>> /\ UNCHANGED <<place, pr>>
      /\ Head(poll.rest) \in Files
  BY <1>1, TailRange DEF StatusRead, world
<1>3. CASE Advance(Append(poll.kept, Head(poll.rest))) /\ UNCHANGED dropped
  <2>1. /\ Append(poll.kept, Head(poll.rest)) \in Seq(Files)
        /\ Range(Append(poll.kept, Head(poll.rest))) = Range(poll.kept) \cup {Head(poll.rest)}
    BY <1>1, <1>2, AppendRange
  <2> QED
    BY <1>2, <1>3, <2>1, AdvanceFollows
<1>4. CASE Advance(poll.kept) /\ dropped' = dropped \cup {Head(poll.rest)}
  BY <1>1, <1>2, <1>4, AdvanceFollows
<1>5. CASE GoOn("reconcile") /\ pr[Head(poll.rest)] = "merged" /\ UNCHANGED <<pending, dropped>>
  <2>1. poll'.at = "reconcile" /\ poll'.rest = poll.rest /\ poll'.kept = poll.kept
    BY <1>5, GoOnKeepsType DEF Stations
  <2> QED
    BY <1>2, <1>5, <2>1 DEF FollowInv, OpenIsFollowed
<1> QED
  BY <1>3, <1>4, <1>5 DEF StatusRead

\* A step that touches neither the list nor the pull requests, brings no file to
\* processed/ and starts no round of the list leaves the following as it was.
LEMMA FollowingUndisturbed ==
  ASSUME FollowInv, UNCHANGED <<pending, pr, dropped>>,
         \A f \in Files : place'[f] = "processed" => place[f] = "processed",
         poll'.at \notin {"follow", "reconcile", "reconciled", "move"} \/ UNCHANGED poll
  PROVE  FollowInv'
  BY DEF FollowInv, OpenIsFollowed

LEMMA FollowingGoesOn ==
  ASSUME WatcherTypeOK, Holding, FollowInv, WatcherNext
  PROVE  FollowInv'
<1>0. /\ poll \in Ticks /\ poll.rest \in Seq(Files) /\ poll.kept \in Seq(Files)
      /\ place \in [Files -> {"outside", "inbox", "gone"} \cup Directories]
      /\ pr \in [Files -> {"none", "open", "merged", "closed"}]
  BY DEF WatcherTypeOK, Ticks
<1> DEFINE Rounds == {"follow", "reconcile", "reconciled", "move"}
<1>1. CASE TickStarts
  <2>1. UNCHANGED <<place, pr>>
    BY <1>1 DEF TickStarts, world
  <2>2. CASE UNCHANGED <<pending, poll, inFlight, dropped>>
    BY <2>1, <2>2, FollowingUndisturbed
  <2>3. CASE ~UNCHANGED <<pending, poll, inFlight, dropped>>
    <3>1. /\ pending' = Readable(pending)
          /\ dropped' = dropped \cup (headless \cap Range(pending))
          /\ poll' = [AtRest EXCEPT !.at = "follow", !.rest = Readable(pending)]
      BY <1>1, <2>3 DEF TickStarts
    <3>2. Range(pending') = Range(pending) \ headless
      BY <3>1, ReadableEntries DEF WatcherTypeOK
    <3>3. poll'.at = "follow" /\ poll'.rest = pending'
      BY <3>1 DEF AtRest
    <3>4. OpenIsFollowed'
      BY <2>1, <3>1, <3>2 DEF FollowInv, OpenIsFollowed
    <3> QED
      BY <3>3, <3>4 DEF FollowInv
  <2> QED
    BY <2>2, <2>3
<1>2. CASE StatusRead
  BY <1>2, StatusReadFollows
<1>3. CASE Reconcile
  <2>1. UNCHANGED <<place, pending, pr, dropped>>
    BY <1>3 DEF Reconcile, disk
  <2>2. poll.at = "reconcile" /\ poll'.at = "reconciled" /\ poll'.rest = poll.rest /\ poll'.kept = poll.kept
    BY <1>3, GoOnKeepsType DEF Reconcile, Stations
  <2> QED
    BY <2>1, <2>2 DEF FollowInv, OpenIsFollowed
<1>4. CASE Reconciled
  <2>1. poll.at = "reconciled" /\ Advance(poll.kept) /\ UNCHANGED <<place, pr, dropped>>
    BY <1>4 DEF Reconciled, world, history
  <2>2. poll.rest # <<>> /\ pr[Head(poll.rest)] = "merged"
    BY <2>1 DEF Holding, FollowInv
  <2> QED
    BY <1>0, <2>1, <2>2, AdvanceFollows
<1>5. CASE ClaimFile
  <2>1. UNCHANGED <<pending, pr, dropped>>
    BY <1>5, ClaimFrame DEF world, history
  <2>2. CASE Ended /\ UNCHANGED <<place, copy>>
    BY <2>1, <2>2, EndedKeepsType, FollowingUndisturbed
  <2>3. CASE ~(Ended /\ UNCHANGED <<place, copy>>)
    <3>1. PICK f \in Inbox : /\ Rename(f, "processing", 0)
                             /\ poll' = [AtRest EXCEPT !.at = "plan", !.file = f]
                             /\ UNCHANGED inFlight
      BY <1>5, <2>3, ClaimTakes, Zenon
    <3>2. f \in Files /\ 0 \in 0..Cardinality(Files)
      BY <3>1, WatcherAssumption, FS_CardinalityType DEF Inbox
    <3>3. \A g \in Files : place'[g] = "processed" => place[g] = "processed"
      BY <3>1, <3>2, RenameKeepsType DEF Directories
    <3>4. poll'.at = "plan"
      BY <3>1 DEF AtRest
    <3> QED
      BY <2>1, <3>3, <3>4, FollowingUndisturbed
  <2> QED
    BY <2>2, <2>3
<1>6. CASE Protocol
  <2>1. UNCHANGED <<place, pending, dropped>> /\ poll'.at \notin Rounds /\ poll.at \in Dispatches
    BY <1>6, ProtocolFrame, ProtocolGoesOn DEF disk, Dispatches
  <2>2. poll.file \in Files /\ place[poll.file] = "processing"
    BY <2>1 DEF Holding
  <2>3. CASE UNCHANGED pr
    BY <2>1, <2>3, FollowingUndisturbed
  <2>4. CASE PrOpen
    <3>1. pr' = [pr EXCEPT ![poll.file] = "open"]
      BY <2>4 DEF PrOpen, HostOpens
    <3>2. OpenIsFollowed'
      BY <1>0, <2>1, <2>2, <3>1 DEF FollowInv, OpenIsFollowed
    <3> QED
      BY <2>1, <3>2 DEF FollowInv
  <2> QED
    BY <1>6, <2>3, <2>4, Zenon DEF Protocol, Plan, PrepareBranch, Apply, Stage, Look, Commit, Push,
                                   EnableAutoMerge
<1>7. CASE Rejected
  <2>1. /\ poll.file \in Files /\ Move(poll.file, "failed") /\ Telling
        /\ place[poll.file] = "processing" /\ UNCHANGED <<pending, dropped>>
    BY <1>7 DEF Rejected, Holding
  <2>2. pr' = pr \/ pr' = [pr EXCEPT ![poll.file] = "open"]
    BY <1>7 DEF Rejected, HostOpens
  <2>3. \A g \in Files : place'[g] = "processed" => place[g] = "processed" /\ g # poll.file
    BY <2>1, MoveHarmsNone DEF Directories
  <2>4. OpenIsFollowed'
    BY <1>0, <2>1, <2>2, <2>3 DEF FollowInv, OpenIsFollowed
  <2>5. poll'.at = "tell"
    BY <2>1, TellingKeepsType
  <2> QED
    BY <2>4, <2>5 DEF FollowInv
<1>8. CASE Deliver
  <2>1. poll.file \in Files /\ UNCHANGED <<pr, dropped>>
    BY <1>8 DEF Deliver, Delivered, Holding, world, history
  <2>2. CASE poll.at = "record"
    <3>1. pending' = Append(pending, poll.file) /\ UNCHANGED place /\ GoOn("move")
      BY <1>8, <2>2 DEF Deliver, Delivered
    <3>2. Range(pending') = Range(pending) \cup {poll.file}
      BY <2>1, <3>1, AppendRange DEF WatcherTypeOK
    <3>3. poll'.at = "move" /\ poll'.file = poll.file
      BY <3>1, GoOnKeepsType DEF Stations
    <3> QED
      BY <2>1, <3>1, <3>2, <3>3 DEF FollowInv, OpenIsFollowed
  <2>3. CASE poll.at = "move"
    <3>1. Move(poll.file, "processed") /\ Telling /\ UNCHANGED pending
      BY <1>8, <2>3 DEF Deliver, Delivered
    <3>2. \A g \in Files \ {poll.file} : place'[g] = place[g]
      BY <2>1, <3>1, MoveHarmsNone DEF Directories
    <3>3. poll'.at = "tell"
      BY <3>1, TellingKeepsType
    <3>4. poll.file \in Range(pending)
      BY <2>3 DEF FollowInv
    <3> QED
      BY <2>1, <3>1, <3>2, <3>3, <3>4 DEF FollowInv, OpenIsFollowed
  <2> QED
    BY <1>8, <2>2, <2>3 DEF Deliver, Delivered
<1>9. CASE RecoverInterruptedClaim
  <2>1. PICK f \in poll.todo :
           /\ Move(f, "failed")
           /\ poll' = [poll EXCEPT !.todo = @ \ {f}, !.at = "recovered", !.file = f]
           /\ UNCHANGED inFlight
    BY <1>9, RecoveryTakes, Zenon
  <2>2. f \in Files /\ poll'.at = "recovered"
    BY <1>0, <2>1 DEF Ticks
  <2>3. UNCHANGED <<pending, pr, dropped>>
    BY <1>9, Zenon DEF RecoverInterruptedClaim, world, history
  <2>4. \A g \in Files : place'[g] = "processed" => place[g] = "processed"
    BY <2>1, <2>2, MoveHarmsNone DEF Directories
  <2> QED
    BY <2>2, <2>3, <2>4, FollowingUndisturbed
<1>10. CASE Followed \/ Gate \/ MaterialiseClone \/ Recovered
  <2>1. UNCHANGED <<place, pending, pr, dropped>>
    BY <1>10 DEF Followed, Gate, MaterialiseClone, Recovered, disk, world, history
  <2>2. Ended \/ GoOn("gate") \/ GoOn("ensure") \/ GoOn("clean") \/ GoOn("recover")
    BY <1>10 DEF Followed, Gate, MaterialiseClone, Recovered
  <2>3. poll'.at \notin Rounds
    BY <2>2, EndedKeepsType, GoOnKeepsType DEF Stations
  <2> QED
    BY <2>1, <2>3, FollowingUndisturbed
<1>11. CASE Throws \/ Tell \/ Restart
  <2>1. UNCHANGED <<place, pending, pr, dropped>>
    BY <1>11 DEF Throws, Tell, Restart, disk, world, history
  <2>2. poll'.at \in {"tell", "idle", "recover"}
    BY <1>11, EndedKeepsType, TellingKeepsType DEF Throws, Tell, Restart, AtRest
  <2> QED
    BY <2>1, <2>2, FollowingUndisturbed
<1>12. ASSUME NEW f \in Files, Drop(f)
       PROVE  FollowInv'
  BY <1>0, <1>12, FollowingUndisturbed DEF Drop, world, history
<1>13. ASSUME NEW f \in Files, HostResolves(f)
       PROVE  FollowInv'
  <2>1. UNCHANGED <<place, pending, dropped, poll>>
    BY <1>13 DEF HostResolves, disk, history
  <2>2. pr[f] = "open" /\ \A g \in Files \ {f} : pr'[g] = pr[g]
    BY <1>0, <1>13 DEF HostResolves
  <2>3. pr'[f] # "open"
    BY <1>0, <1>13 DEF HostResolves
  <2>4. OpenIsFollowed'
    BY <2>1, <2>2, <2>3 DEF FollowInv, OpenIsFollowed
  <2>5. poll.at \in {"reconcile", "reconciled"} => Head(poll.rest) \in Files
    BY <1>0, TailRange DEF Holding
  <2> QED
    BY <2>1, <2>2, <2>4, <2>5 DEF FollowInv
<1>14. ASSUME NEW p \in Paths, Meddle(p)
       PROVE  FollowInv'
  BY <1>14, FollowingUndisturbed DEF Meddle, disk, history
<1>15. ASSUME NEW dir \in Directories, Tamper(dir)
       PROVE  FollowInv'
  BY <1>15, FollowingUndisturbed DEF Tamper, disk, history
<1>16. CASE Repair \/ Evict
  BY <1>16, FollowingUndisturbed DEF Repair, Evict, disk, history
<1>17. CASE RunRetention
  <2>1. UNCHANGED <<pending, pr, dropped, poll>>
    BY <1>17 DEF RunRetention, world, history
  <2>2. \A g \in Files : place'[g] = "processed" => place[g] = "processed"
    BY <1>0, <1>17 DEF RunRetention
  <2> QED
    BY <2>1, <2>2, FollowingUndisturbed
<1> QED
  BY <1>1, <1>2, <1>3, <1>4, <1>5, <1>6, <1>7, <1>8, <1>9, <1>10, <1>11, <1>12, <1>13, <1>14,
     <1>15, <1>16, <1>17 DEF WatcherNext, Step

\* An open pull request of a delivered file stays in the list that the watcher
\* follows, over restarts, refused moves and entries that cannot be read, unless
\* the watcher gave it up (watcher.ts, tickOneDeclaration).
THEOREM OpenAlwaysFollowed == WatcherSpec => []OpenIsFollowed
<1>1. WatcherInit => FollowInv
  BY FollowingStarts
<1>2. WatcherTypeOK /\ Holding /\ FollowInv /\ [WatcherNext]_watcherVars => FollowInv'
  <2> SUFFICES ASSUME WatcherTypeOK, Holding, FollowInv, [WatcherNext]_watcherVars
               PROVE  FollowInv'
    OBVIOUS
  <2>1. CASE WatcherNext
    BY <2>1, FollowingGoesOn
  <2>2. CASE UNCHANGED watcherVars
    BY <2>2 DEF watcherVars, disk, world, history, FollowInv, OpenIsFollowed
  <2> QED
    BY <2>1, <2>2
<1>3. FollowInv => OpenIsFollowed
  BY DEF FollowInv
<1> QED
  BY <1>1, <1>2, <1>3, WatcherTypeCorrect, PTL DEF WatcherSpec

-----------------------------------------------------------------------------
(* The composites. *)

\* What the origin has at most and at least: what was landed stays in its base.
LandedInv ==
    /\ \A k, l \in Bases : k <= l => landed[k] \subseteq landed[l]
    /\ tracking.base <= origin.base /\ call.remote <= origin.base
    /\ \A m \in {request.last, call.status} :
          m.commit # Unmerged => /\ m.head # NoBranch /\ m.commit \in 0..origin.base
                                 /\ m.head.adds \subseteq landed[m.commit]

\* What a rebase that was killed would go back to is the branch, if that is there,
\* and only a rebase leaves the head without a branch.
RebaseInv ==
    /\ rebasing # NoBranch => feature \in {rebasing, NoBranch}
    /\ head = "detached" => rebasing # NoBranch
    /\ head = "feature" => feature # NoBranch /\ rebasing = NoBranch

\* How far a branch is prepared: no rebase is left open, a branch that is not there
\* has nothing to lose, one that takes the base's commits over has them, and one
\* that is checked out stands on the base it was prepared on.
PrepareInv ==
    call.op = "prepare" =>
       /\ call.at \in {"clean", "fetch", "published", "materialize", "create", "free", "move",
                       "rebase", "checkout"} => rebasing = NoBranch
       /\ call.at = "create" => feature = NoBranch
       /\ call.at \in {"free", "move"} => feature # NoBranch /\ base.adds \subseteq feature.adds
       /\ call.at \in {"rebase", "checkout"} => feature # NoBranch
       /\ call.at = "checkout" => Holds(feature, call.remote)

\* How far a merge is reconciled: it was found in the base, the base is checked
\* out, and holds what was fetched once it was advanced.
ReconcileInv ==
    call.op = "reconcile" =>
       /\ call.at \in {"switch", "advance", "delete"} => call.status.commit \in 0..call.remote
       /\ call.at \in {"advance", "delete"} => head = "base"
       /\ call.at = "delete" => Holds(base, call.remote)

\* Where killed pushes have arrived before a composite begins, a branch that is
\* prepared is not at the origin once the fetch has not found it there.
UnpublishedInv ==
    /\ call.op \in Composite => origin.wire = NoBranch
    /\ At("prepare", "published") =>
          (origin.feature # NoBranch => tracking.feature # NoBranch)
    /\ call.op = "prepare" /\ call.at \in {"materialize", "create", "free", "move", "rebase", "checkout"}
          => origin.feature = NoBranch

CallShape == [op : Ops, at : Points, remote : Bases, status : Merges]

LEMMA NoBranchIsNoCommit == NoBranch \notin Commits
<1> SUFFICES ASSUME NoBranch \in Commits PROVE FALSE
  OBVIOUS
<1>1. DOMAIN NoBranch = {"on", "adds"}
  BY DEF Commits
<1>2. DOMAIN NoBranch = {"none"}
  BY DEF NoBranch
<1> QED
  BY <1>1, <1>2

LEMMA CompositesConstants ==
  /\ MaxBase \in Nat /\ MaxChanges \in Nat /\ MaxKills \in Nat
  /\ 0 \in Bases /\ Bases \subseteq Nat /\ Changes \subseteq Nat
  /\ NoMerge \in Merges /\ NoMerge.head = NoBranch /\ NoMerge.commit = Unmerged
  /\ Unmerged \notin Bases /\ Unmerged \notin Nat
  BY CompositesAssumption DEF Bases, Changes, NoMerge, Merges, Unmerged

\* A call that goes on, begins or ends.
LEMMA CallSteps ==
  ASSUME CompositesTypeOK
  PROVE  /\ \A at \in Points : Proceed(at) =>
               /\ call' \in CallShape /\ call'.op = call.op /\ call'.at = at
               /\ call'.remote = call.remote /\ call'.status = call.status
         /\ End => /\ call' \in CallShape /\ call'.op = "none" /\ call'.at = "idle"
                   /\ call'.remote = 0 /\ call'.status = NoMerge
         /\ call \in CallShape
<1>1. call \in CallShape
  BY DEF CompositesTypeOK, CallShape
<1>2. Idle \in CallShape
  BY CompositesConstants DEF Idle, CallShape, Ops, Points
<1> QED
  BY <1>1, <1>2 DEF Proceed, End, CallShape, Idle

LEMMA StartSteps ==
  ASSUME NEW op \in Ops, NEW at \in Points, Start(op, at)
  PROVE  /\ call' \in CallShape /\ call'.op = op /\ call'.at = at /\ call'.remote = 0
         /\ call'.status = NoMerge /\ call = Idle
         /\ UNCHANGED <<origin, landed, request, tracking, base, feature, head, rebasing, dirty, made, kills>>
  BY CompositesConstants DEF Start, Idle, CallShape, Ops, Points, originVars, cloneVars

LEMMA CommitShapes ==
  /\ \A k \in Bases : Plain(k) \in Commits /\ Plain(k).on = k /\ Plain(k).adds = {}
  /\ \A k \in Bases, c \in Commits :
        /\ Onto(k, c) \in Commits /\ Onto(k, c).on = k /\ Onto(k, c).adds = c.adds \ landed[k]
  /\ \A c \in Commits, n \in Changes :
        /\ [c EXCEPT !.adds = @ \cup {n}] \in Commits
        /\ [c EXCEPT !.adds = @ \cup {n}].on = c.on
        /\ [c EXCEPT !.adds = @ \cup {n}].adds = c.adds \cup {n}
  BY DEF Plain, Onto, Commits

LEMMA CompositesStartTyped ==
  ASSUME CompositesInit
  PROVE  CompositesTypeOK
<1>1. request \in [open : BOOLEAN, last : Merges]
  <2>1. request = [open |-> FALSE, last |-> NoMerge]
    BY DEF CompositesInit
  <2> QED
    BY <2>1, CompositesConstants
<1>2. call \in CallShape
  BY CompositesConstants DEF CompositesInit, Idle, CallShape, Ops, Points
<1>3. landed \in [Bases -> SUBSET Changes]
  BY DEF CompositesInit
<1>4. base \in Commits
  BY CompositesConstants DEF CompositesInit, Commits
<1>5. /\ origin \in [base : Bases, feature : Commits \cup {NoBranch}, wire : Commits \cup {NoBranch}]
      /\ tracking \in [base : Bases, feature : Commits \cup {NoBranch}]
  BY CompositesConstants DEF CompositesInit
<1>6. made \in 0..MaxChanges /\ kills \in 0..MaxKills
  BY CompositesConstants DEF CompositesInit
<1> QED
  BY <1>1, <1>2, <1>3, <1>4, <1>5, <1>6 DEF CompositesInit, CompositesTypeOK, CallShape

\* The state of the branches, of the origin and of the call stays well formed
\* (prepareBranch, reconcileAfterMerge, and the git tools).
LEMMA CompositesStayTyped ==
  ASSUME CompositesTypeOK, RebaseInv, PrepareInv, CompositesNext
  PROVE  CompositesTypeOK'
<1> DEFINE Tips == Commits \cup {NoBranch}
           OriginShape == [base : Bases, feature : Tips, wire : Tips]
           TrackShape == [base : Bases, feature : Tips]
<1>a. /\ origin \in OriginShape /\ landed \in [Bases -> SUBSET Changes]
      /\ request \in [open : BOOLEAN, last : Merges] /\ tracking \in TrackShape
      /\ base \in Commits /\ feature \in Tips /\ head \in {"base", "feature", "detached"}
      /\ rebasing \in Tips /\ dirty \in BOOLEAN /\ call \in CallShape
      /\ made \in 0..MaxChanges /\ kills \in 0..MaxKills
  BY DEF CompositesTypeOK, CallShape
<1>b. ASSUME origin' \in OriginShape, landed' \in [Bases -> SUBSET Changes],
             request' \in [open : BOOLEAN, last : Merges], tracking' \in TrackShape,
             base' \in Commits, feature' \in Tips, head' \in {"base", "feature", "detached"},
             rebasing' \in Tips, dirty' \in BOOLEAN, call' \in CallShape,
             made' \in 0..MaxChanges, kills' \in 0..MaxKills
      PROVE  CompositesTypeOK'
  BY <1>b DEF CompositesTypeOK, CallShape
<1>c. /\ call.remote \in Bases /\ call.status \in Merges /\ call.op \in Ops /\ call.at \in Points
      /\ origin.base \in Bases /\ origin.feature \in Tips /\ origin.wire \in Tips
      /\ tracking.base \in Bases /\ tracking.feature \in Tips
  BY <1>a DEF CallShape
<1>d. NoBranch \in Tips /\ Commits \subseteq Tips
  OBVIOUS
<1> HIDE DEF Tips, OriginShape, TrackShape
<1> USE <1>a, <1>c, <1>d DEF originVars, cloneVars
<1>e. \A at \in Points : Proceed(at) => call' \in CallShape
  BY CallSteps
<1>f. End => call' \in CallShape
  BY CallSteps
<1>g. {"idle", "start", "clean", "fetch", "published", "read", "materialize", "create", "free",
       "move", "rebase", "checkout", "confirm", "merged", "switch", "advance", "delete", "send",
       "track"} \subseteq Points
  BY DEF Points
<1>1. CASE Start("prepare", "start") \/ Start("reconcile", "confirm") \/ Start("push", "send")
           \/ Start("sync", "send")
  BY <1>1, <1>b, StartSteps DEF Ops, Points
<1>2. CASE AbortStaleRebase
  BY <1>2, <1>b, <1>e, <1>g DEF AbortStaleRebase
<1>3. CASE CheckClean
  BY <1>3, <1>b, <1>e, <1>f, <1>g DEF CheckClean
<1>4. CASE CheckPublished
  <2>1. call' \in CallShape
    <3>1. [call EXCEPT !.at = "materialize", !.remote = tracking.base] \in CallShape
      BY DEF CallShape, Points
    <3> QED
      BY <1>4, <1>f, <3>1 DEF CheckPublished
  <2> QED
    BY <1>4, <1>b, <2>1 DEF CheckPublished
<1>5. CASE Reuse
  BY <1>5, <1>b, <1>e, <1>g DEF Reuse
<1>6. CASE AdvanceFirst \/ Create \/ MoveBase
  BY <1>6, <1>b, <1>e, <1>g, CommitShapes DEF AdvanceFirst, Create, MoveBase
<1>7. CASE Preserve \/ FreeBase
  BY <1>7, <1>b, <1>e, <1>g DEF Preserve, FreeBase
<1>8. CASE Checkout
  BY <1>8, <1>b, <1>f DEF Checkout
<1>9. ASSUME NEW conflict \in BOOLEAN, Rebase(conflict)
      PROVE  CompositesTypeOK'
  <2>1. feature \in Commits
    BY <1>9, <1>a DEF Rebase, At, PrepareInv, Tips
  <2>2. feature' \in Tips
    BY <1>9, <2>1, CommitShapes DEF Rebase
  <2>3. call' \in CallShape
    BY <1>9, <1>e, <1>f, <1>g DEF Rebase
  <2> QED
    BY <1>9, <1>b, <2>2, <2>3 DEF Rebase
<1>10. CASE ConfirmMerged
  <2>1. call' \in CallShape
    <3>1. [call EXCEPT !.at = "clean", !.status = request.last] \in CallShape
      BY DEF CallShape, Points
    <3> QED
      BY <1>10, <1>f, <3>1 DEF ConfirmMerged
  <2> QED
    BY <1>10, <1>b, <2>1 DEF ConfirmMerged
<1>11. CASE CheckReachable
  <2>1. call' \in CallShape
    <3>1. [call EXCEPT !.at = "switch", !.remote = tracking.base] \in CallShape
      BY DEF CallShape, Points
    <3> QED
      BY <1>11, <1>f, <3>1 DEF CheckReachable
  <2> QED
    BY <1>11, <1>b, <2>1 DEF CheckReachable
<1>12. CASE SwitchToBase
  BY <1>12, <1>b, <1>e, <1>g DEF SwitchToBase
<1>13. CASE AdvanceBase
  BY <1>13, <1>b, <1>e, <1>f, <1>g, CommitShapes DEF AdvanceBase, FastForwarded
<1>14. CASE DeleteMergedBranch
  BY <1>14, <1>b, <1>f DEF DeleteMergedBranch
<1>15. CASE Fetch
  <2>1. tracking' \in TrackShape
    BY <1>15 DEF Fetch, Fetched, TrackShape
  <2>2. call' \in CallShape
    BY <1>15, <1>e, <1>g DEF Fetch
  <2> QED
    BY <1>15, <1>b, <2>1, <2>2 DEF Fetch
<1>16. CASE SendPush
  <2>1. origin' \in OriginShape
    BY <1>16 DEF SendPush, OriginShape
  <2> QED
    BY <1>16, <1>b, <1>e, <1>f, <1>g, <2>1 DEF SendPush
<1>17. CASE TrackPush
  <2>1. tracking' \in TrackShape
    BY <1>17 DEF TrackPush, TrackShape
  <2> QED
    BY <1>17, <1>b, <1>f, <2>1 DEF TrackPush
<1>18. CASE FetchBase
  <2>1. tracking' \in TrackShape
    BY <1>18 DEF FetchBase, TrackShape
  <2>2. call' \in CallShape
    <3>1. [call EXCEPT !.at = "advance", !.remote = origin.base] \in CallShape
      BY DEF CallShape, Points
    <3> QED
      BY <1>18, <3>1 DEF FetchBase
  <2> QED
    BY <1>18, <1>b, <2>1, <2>2 DEF FetchBase
<1>19. CASE SyncBase
  BY <1>19, <1>b, <1>f, CommitShapes DEF SyncBase
<1>20. CASE GitCommit
  <2>1. made + 1 \in Changes /\ made + 1 \in 0..MaxChanges
    BY <1>20, CompositesConstants DEF GitCommit, Changes
  <2>2. feature' \in Tips
    <3>1. CASE head = "feature"
      <4>1. feature \in Commits
        BY <1>a, <3>1 DEF RebaseInv, Tips
      <4> QED
        BY <1>20, <2>1, <3>1, <4>1, CommitShapes DEF GitCommit
    <3>2. CASE head # "feature"
      BY <1>20, <3>2 DEF GitCommit
    <3> QED
      BY <3>1, <3>2
  <2> QED
    BY <1>20, <1>b, <2>1, <2>2 DEF GitCommit
<1>21. CASE StrandCommit
  <2>1. made + 1 \in Changes /\ made + 1 \in 0..MaxChanges
    BY <1>21, CompositesConstants DEF StrandCommit, Changes
  <2>2. base' \in Commits
    BY <1>21, <2>1, CommitShapes DEF StrandCommit
  <2> QED
    BY <1>21, <1>b, <2>1, <2>2 DEF StrandCommit
<1>22. CASE SwitchBranch("base") \/ SwitchBranch("feature")
  BY <1>22, <1>b DEF SwitchBranch
<1>23. CASE Edit
  BY <1>23, <1>b DEF Edit
<1>24. ASSUME NEW crash \in BOOLEAN, Kill(crash)
       PROVE  CompositesTypeOK'
  <2>1. kills' \in 0..MaxKills
    BY <1>24, CompositesConstants DEF Kill
  <2>2. call' \in CallShape
    <3>1. Idle \in CallShape
      BY CompositesConstants DEF Idle, CallShape, Ops, Points
    <3>2. [Idle EXCEPT !.op = call.op, !.at = Beginning] \in CallShape
      BY <3>1 DEF CallShape, Beginning, Points
    <3> QED
      BY <1>24, <3>1, <3>2 DEF Kill
  <2>3. origin' \in OriginShape
    BY <1>24 DEF Kill, OriginShape
  <2>4. rebasing' \in Tips /\ head' \in {"base", "feature", "detached"}
    BY <1>24 DEF Kill
  <2> QED
    BY <1>24, <1>b, <2>1, <2>2, <2>3, <2>4 DEF Kill
<1>25. CASE ChildFails
  BY <1>25, <1>b, <1>f DEF ChildFails
<1>26. CASE PushLands
  <2>1. origin' \in OriginShape
    BY <1>26 DEF PushLands, OriginShape
  <2> QED
    BY <1>26, <1>b, <2>1 DEF PushLands
<1>27. ASSUME NEW changes \in SUBSET Changes, origin.base < MaxBase, Land(changes)
       PROVE  origin' \in OriginShape /\ landed' \in [Bases -> SUBSET Changes]
  <2>1. origin.base + 1 \in Bases
    BY <1>27, CompositesConstants DEF Bases
  <2>2. origin' \in OriginShape
    BY <1>27, <2>1 DEF Land, OriginShape
  <2>3. landed' \in [Bases -> SUBSET Changes]
    BY <1>27 DEF Land
  <2> QED
    BY <2>2, <2>3
<1>28. CASE OthersLand
  BY <1>28, <1>b, <1>27 DEF OthersLand
<1>29. CASE OpenRequest
  <2>1. request' \in [open : BOOLEAN, last : Merges]
    BY <1>29 DEF OpenRequest
  <2> QED
    BY <1>29, <1>b, <2>1 DEF OpenRequest
<1>30. CASE DropBranch
  <2>1. origin' \in OriginShape
    BY <1>30 DEF DropBranch, OriginShape
  <2> QED
    BY <1>30, <1>b, <2>1 DEF DropBranch
<1>31. ASSUME NEW other \in BOOLEAN, MergeRequest(other)
       PROVE  CompositesTypeOK'
  <2>1. origin.feature \in Commits /\ origin.feature.adds \in SUBSET Changes
    BY <1>31, <1>c DEF MergeRequest, Tips, Commits
  <2>2. origin' \in OriginShape /\ landed' \in [Bases -> SUBSET Changes]
    BY <1>31, <1>27, <2>1 DEF MergeRequest
  <2>3. ~other => origin.base + 1 \in Bases
    BY <1>31, CompositesConstants DEF MergeRequest, Bases
  <2>4. request' \in [open : BOOLEAN, last : Merges]
    BY <1>31, <2>3 DEF MergeRequest, Merges, Tips
  <2> QED
    BY <1>31, <1>b, <2>2, <2>4 DEF MergeRequest
<1> QED
  BY <1>1, <1>2, <1>3, <1>4, <1>5, <1>6, <1>7, <1>8, <1>9, <1>10, <1>11, <1>12, <1>13, <1>14,
     <1>15, <1>16, <1>17, <1>18, <1>19, <1>20, <1>21, <1>22, <1>23, <1>24, <1>25, <1>26, <1>28,
     <1>29, <1>30, <1>31 DEF CompositesNext, PrepareStep, ReconcileStep

\* What is landed stays landed, and no clone has read further than the origin is
\* (fetch, prStatus).
LEMMA LandedStays ==
  ASSUME CompositesTypeOK, LandedInv, CompositesNext
  PROVE  LandedInv'
<1>a. /\ origin.base \in Bases /\ tracking.base \in Bases /\ call.remote \in Bases
      /\ landed \in [Bases -> SUBSET Changes] /\ call \in CallShape
      /\ origin \in [base : Bases, feature : Commits \cup {NoBranch}, wire : Commits \cup {NoBranch}]
      /\ tracking \in [base : Bases, feature : Commits \cup {NoBranch}]
      /\ request \in [open : BOOLEAN, last : Merges]
  BY DEF CompositesTypeOK, CallShape
<1>b. ASSUME origin'.base = origin.base, landed' = landed,
             tracking'.base \in {tracking.base, origin.base},
             call'.remote \in {0, call.remote, tracking.base, origin.base},
             request'.last = request.last,
             call'.status \in {NoMerge, call.status, request.last}
      PROVE  LandedInv'
  <2>1. \A k, l \in Bases : k <= l => landed'[k] \subseteq landed'[l]
    BY <1>b DEF LandedInv
  <2>0. /\ origin.base \in Nat /\ tracking.base \in Nat /\ call.remote \in Nat
        /\ tracking.base <= origin.base /\ call.remote <= origin.base
    BY <1>a, CompositesConstants DEF LandedInv
  <2>2. tracking'.base <= origin'.base
    BY <1>b, <2>0
  <2>3. call'.remote <= origin'.base
    BY <1>b, <2>0
  <2>4. ASSUME NEW m \in {request'.last, call'.status}, m.commit # Unmerged
        PROVE  /\ m.head # NoBranch /\ m.commit \in 0..origin'.base
               /\ m.head.adds \subseteq landed'[m.commit]
    <3>1. m \in {request.last, call.status}
      BY <1>b, <2>4, CompositesConstants
    <3> QED
      BY <1>b, <2>4, <3>1 DEF LandedInv
  <2> QED
    BY <2>1, <2>2, <2>3, <2>4 DEF LandedInv
<1>e. ASSUME origin'.base = origin.base + 1, UNCHANGED <<tracking, call>>,
             \A k \in 0..origin.base : landed'[k] = landed[k],
             \A k, l \in Bases : k <= l => landed'[k] \subseteq landed'[l],
             \/ UNCHANGED request
             \/ /\ request'.last.head = origin.feature /\ origin.feature # NoBranch
                /\ request'.last.commit = origin'.base
                /\ origin.feature.adds \subseteq landed'[origin'.base]
      PROVE  LandedInv'
  <2>1. origin.base \in Nat /\ tracking.base \in Nat /\ call.remote \in Nat
    BY <1>a, CompositesConstants
  <2>2. tracking'.base <= origin'.base /\ call'.remote <= origin'.base
    BY <1>e, <2>1 DEF LandedInv
  <2>3. ASSUME NEW m \in {request.last, call.status}, m.commit # Unmerged
        PROVE  /\ m.head # NoBranch /\ m.commit \in 0..origin'.base
               /\ m.head.adds \subseteq landed'[m.commit]
    <3>1. /\ m.head # NoBranch /\ m.commit \in 0..origin.base
          /\ m.head.adds \subseteq landed[m.commit]
      BY <2>3 DEF LandedInv
    <3> QED
      BY <1>e, <2>1, <3>1
  <2>4. ASSUME NEW m \in {request'.last, call'.status}, m.commit # Unmerged
        PROVE  /\ m.head # NoBranch /\ m.commit \in 0..origin'.base
               /\ m.head.adds \subseteq landed'[m.commit]
    <3>1. CASE m \in {request.last, call.status}
      BY <2>3, <2>4, <3>1
    <3>2. CASE m.head = origin.feature /\ m.commit = origin'.base /\ ~UNCHANGED request
      <4>1. origin'.base \in 0..origin'.base
        BY <1>e, <2>1
      <4>2. m.head # NoBranch /\ m.head.adds \subseteq landed'[origin'.base]
        BY <1>e, <3>2
      <4> QED
        BY <3>2, <4>1, <4>2
    <3> QED
      BY <1>e, <2>4, <3>1, <3>2
  <2> QED
    BY <1>e, <2>2, <2>4 DEF LandedInv
<1>c. \A at \in Points : Proceed(at) => call'.remote = call.remote /\ call'.status = call.status
  BY CallSteps
<1>d. End => call'.remote = 0 /\ call'.status = NoMerge
  BY CallSteps
<1>g. {"idle", "start", "clean", "fetch", "published", "read", "materialize", "create", "free",
       "move", "rebase", "checkout", "confirm", "merged", "switch", "advance", "delete", "send",
       "track"} \subseteq Points
  BY DEF Points
<1> USE DEF originVars, cloneVars
<1>1. CASE Start("prepare", "start") \/ Start("reconcile", "confirm") \/ Start("push", "send")
           \/ Start("sync", "send")
  BY <1>1, <1>b, StartSteps DEF Ops, Points
<1>2. CASE \/ AbortStaleRebase \/ CheckClean \/ Reuse \/ AdvanceFirst \/ Create \/ Preserve
           \/ FreeBase \/ MoveBase \/ Checkout \/ SwitchToBase \/ AdvanceBase
           \/ DeleteMergedBranch \/ SyncBase \/ ChildFails
  <2>1. UNCHANGED <<origin, landed, request, tracking>>
    BY <1>2 DEF AbortStaleRebase, CheckClean, Reuse, AdvanceFirst, Create, Preserve, FreeBase,
                MoveBase, Checkout, SwitchToBase, AdvanceBase, DeleteMergedBranch, SyncBase, ChildFails
  <2>2. End \/ \E at \in Points : Proceed(at)
    BY <1>2, <1>g DEF AbortStaleRebase, CheckClean, Reuse, AdvanceFirst, Create, Preserve, FreeBase,
                MoveBase, Checkout, SwitchToBase, AdvanceBase, DeleteMergedBranch, SyncBase, ChildFails
  <2> QED
    BY <1>b, <1>c, <1>d, <2>1, <2>2
<1>3. CASE CheckPublished
  <2>1. call'.remote \in {0, tracking.base} /\ call'.status \in {NoMerge, call.status}
    BY <1>3, <1>a, <1>d DEF CheckPublished, CallShape
  <2> QED
    BY <1>3, <1>b, <2>1 DEF CheckPublished
<1>4. ASSUME NEW conflict \in BOOLEAN, Rebase(conflict)
      PROVE  LandedInv'
  BY <1>4, <1>b, <1>c, <1>d, <1>g DEF Rebase
<1>5. CASE ConfirmMerged
  <2>1. call'.remote \in {0, call.remote} /\ call'.status \in {NoMerge, request.last}
    BY <1>5, <1>a, <1>d DEF ConfirmMerged, CallShape
  <2> QED
    BY <1>5, <1>b, <2>1 DEF ConfirmMerged
<1>6. CASE CheckReachable
  <2>1. call'.remote \in {0, tracking.base} /\ call'.status \in {NoMerge, call.status}
    BY <1>6, <1>a, <1>d DEF CheckReachable, CallShape
  <2> QED
    BY <1>6, <1>b, <2>1 DEF CheckReachable
<1>7. CASE Fetch
  <2>1. tracking'.base = origin.base
    BY <1>7, <1>a DEF Fetch, Fetched
  <2>2. \E at \in Points : Proceed(at)
    BY <1>7, <1>g DEF Fetch
  <2> QED
    BY <1>7, <1>b, <1>c, <2>1, <2>2 DEF Fetch
<1>8. CASE SendPush
  <2>1. origin'.base = origin.base
    BY <1>8, <1>a DEF SendPush
  <2>2. End \/ Proceed("track")
    BY <1>8 DEF SendPush
  <2> QED
    BY <1>8, <1>b, <1>c, <1>d, <1>g, <2>1, <2>2 DEF SendPush
<1>9. CASE TrackPush
  <2>1. tracking'.base = tracking.base
    BY <1>9, <1>a DEF TrackPush
  <2> QED
    BY <1>9, <1>b, <1>d, <2>1 DEF TrackPush
<1>10. CASE FetchBase
  <2>1. tracking'.base = origin.base /\ call'.remote = origin.base /\ call'.status = call.status
    BY <1>10, <1>a DEF FetchBase, CallShape
  <2> QED
    BY <1>10, <1>b, <2>1 DEF FetchBase
<1>11. CASE GitCommit \/ StrandCommit \/ SwitchBranch("base") \/ SwitchBranch("feature") \/ Edit
  BY <1>11, <1>b DEF GitCommit, StrandCommit, SwitchBranch, Edit
<1>12. ASSUME NEW crash \in BOOLEAN, Kill(crash)
       PROVE  LandedInv'
  <2>1. origin'.base = origin.base
    BY <1>12, <1>a DEF Kill
  <2>2. call'.remote = 0 /\ call'.status = NoMerge
    BY <1>12 DEF Kill, Idle
  <2> QED
    BY <1>12, <1>b, <2>1, <2>2 DEF Kill
<1>13. CASE PushLands
  <2>1. origin'.base = origin.base
    BY <1>13, <1>a DEF PushLands
  <2> QED
    BY <1>13, <1>b, <2>1 DEF PushLands
<1>14. ASSUME NEW changes \in SUBSET Changes, origin.base < MaxBase, Land(changes)
       PROVE  /\ origin'.base = origin.base + 1 /\ origin'.base \in Bases
              /\ landed'[origin'.base] = landed[origin.base] \cup changes
              /\ \A k \in 0..origin.base : landed'[k] = landed[k]
              /\ \A k, l \in Bases : k <= l => landed'[k] \subseteq landed'[l]
  <2>1. origin'.base = origin.base + 1 /\ origin.base + 1 \in Bases /\ origin.base \in Nat
    BY <1>14, <1>a, CompositesConstants DEF Land, Bases
  <2>2. \A k \in Bases : landed'[k] = IF k > origin.base THEN landed[origin.base] \cup changes
                                                        ELSE landed[k]
    BY <1>14 DEF Land
  <2>3. landed'[origin'.base] = landed[origin.base] \cup changes
    BY <2>1, <2>2
  <2>4. \A k, l \in Bases : k <= l => landed'[k] \subseteq landed'[l]
    <3> SUFFICES ASSUME NEW k \in Bases, NEW l \in Bases, k <= l
                 PROVE  landed'[k] \subseteq landed'[l]
      OBVIOUS
    <3>1. k \in Nat /\ l \in Nat
      BY CompositesConstants
    <3>2. CASE ~(l > origin.base)
      <4>1. ~(k > origin.base)
        BY <2>1, <3>1, <3>2
      <4> QED
        BY <2>2, <3>2, <4>1 DEF LandedInv
    <3>3. CASE k > origin.base
      <4>1. l > origin.base
        BY <2>1, <3>1, <3>3
      <4> QED
        BY <2>2, <3>3, <4>1
    <3>4. CASE l > origin.base /\ ~(k > origin.base)
      <4>1. landed[k] \subseteq landed[origin.base]
        BY <1>a, <2>1, <3>1, <3>4 DEF LandedInv
      <4> QED
        BY <2>2, <3>4, <4>1
    <3> QED
      BY <3>2, <3>3, <3>4
  <2>5. \A k \in 0..origin.base : landed'[k] = landed[k]
    <3> SUFFICES ASSUME NEW k \in 0..origin.base PROVE landed'[k] = landed[k]
      OBVIOUS
    <3>1. k \in Bases /\ ~(k > origin.base)
      BY <1>a, <2>1, CompositesConstants DEF Bases
    <3> QED
      BY <2>2, <3>1
  <2> QED
    BY <2>1, <2>3, <2>4, <2>5
<1>15. CASE OthersLand
  <2>1. /\ origin'.base = origin.base + 1
        /\ landed'[origin'.base] = landed[origin.base] \cup {}
        /\ \A k \in 0..origin.base : landed'[k] = landed[k]
        /\ \A k, l \in Bases : k <= l => landed'[k] \subseteq landed'[l]
    BY <1>14, <1>15 DEF OthersLand
  <2>2. UNCHANGED <<request, call, tracking>>
    BY <1>15 DEF OthersLand
  <2> QED
    BY <1>e, <2>1, <2>2
<1>16. CASE OpenRequest
  <2>1. request'.last = request.last
    BY <1>16, <1>a DEF OpenRequest
  <2> QED
    BY <1>16, <1>b, <2>1 DEF OpenRequest
<1>17. CASE DropBranch
  <2>1. origin'.base = origin.base
    BY <1>17, <1>a DEF DropBranch
  <2> QED
    BY <1>17, <1>b, <2>1 DEF DropBranch
<1>18. ASSUME NEW other \in BOOLEAN, MergeRequest(other)
       PROVE  LandedInv'
  <2>1. /\ UNCHANGED <<call, tracking>>
        /\ request'.last = [head |-> origin.feature,
                            commit |-> IF other THEN Unmerged ELSE origin.base + 1]
    BY <1>18 DEF MergeRequest
  <2>2. origin.feature \in Commits /\ origin.feature.adds \in SUBSET Changes
        /\ origin.feature # NoBranch
    BY <1>18, <1>a DEF MergeRequest, Commits
  <2>3. CASE other
    <3>1. UNCHANGED <<origin, landed>> /\ request'.last.commit = Unmerged
      BY <1>18, <2>1, <2>3 DEF MergeRequest
    <3> QED
      BY <2>1, <3>1 DEF LandedInv
  <2>4. CASE ~other
    <3>1. /\ origin'.base = origin.base + 1
          /\ landed'[origin'.base] = landed[origin.base] \cup origin.feature.adds
          /\ \A k \in 0..origin.base : landed'[k] = landed[k]
          /\ \A k, l \in Bases : k <= l => landed'[k] \subseteq landed'[l]
      BY <1>14, <1>18, <2>2, <2>4 DEF MergeRequest
    <3>2. request'.last.head = origin.feature /\ request'.last.commit = origin'.base
      BY <2>1, <2>4, <3>1
    <3> QED
      BY <1>e, <2>1, <2>2, <3>1, <3>2
  <2> QED
    BY <2>3, <2>4
<1> QED
  BY <1>1, <1>2, <1>3, <1>4, <1>5, <1>6, <1>7, <1>8, <1>9, <1>10, <1>11, <1>12, <1>13, <1>15,
     <1>16, <1>17, <1>18 DEF CompositesNext, PrepareStep, ReconcileStep

\* What was merged is in the origin's base (mergePullRequest).
LEMMA MergedIsLanded ==
  ASSUME CompositesTypeOK, LandedInv, NEW m \in {request.last, call.status}, m.commit # Unmerged
  PROVE  m.head # NoBranch /\ m.head.adds \subseteq landed[origin.base]
<1>1. /\ m.head # NoBranch /\ m.commit \in 0..origin.base /\ origin.base \in Bases
      /\ m.head.adds \subseteq landed[m.commit]
  BY DEF LandedInv, CompositesTypeOK
<1>2. m.commit \in Bases /\ m.commit <= origin.base
  BY <1>1, CompositesConstants DEF Bases
<1>3. landed[m.commit] \subseteq landed[origin.base]
  BY <1>1, <1>2 DEF LandedInv
<1> QED
  BY <1>1, <1>3

\* Where each branch is while a composite runs: what prepareBranch and
\* reconcileAfterMerge established at a step still holds at the next, since nothing
\* else changes the clone meanwhile.
LEMMA CompositesKeepTheirWay ==
  ASSUME CompositesTypeOK, RebaseInv, PrepareInv, ReconcileInv, CompositesNext
  PROVE  RebaseInv' /\ PrepareInv' /\ ReconcileInv'
<1>a. /\ origin.base \in Bases /\ tracking.base \in Bases /\ call.remote \in Bases
      /\ base \in Commits /\ feature \in Commits \cup {NoBranch} /\ call \in CallShape
      /\ head \in {"base", "feature", "detached"}
  BY DEF CompositesTypeOK, CallShape
<1>b. ASSUME call'.op \notin Composite
      PROVE  PrepareInv' /\ ReconcileInv'
  BY <1>b DEF PrepareInv, ReconcileInv, Composite
<1>c. \A at \in Points : Proceed(at) => /\ call'.op = call.op /\ call'.at = at
                                        /\ call'.remote = call.remote /\ call'.status = call.status
  BY CallSteps
<1>d. End => call'.op = "none"
  BY CallSteps
<1>e. ASSUME UNCHANGED <<feature, head, rebasing>>
      PROVE  RebaseInv'
  BY <1>e DEF RebaseInv
<1>f. End => PrepareInv' /\ ReconcileInv'
  BY <1>b, <1>d DEF Composite
<1>g. {"idle", "start", "clean", "fetch", "published", "read", "materialize", "create", "free",
       "move", "rebase", "checkout", "confirm", "merged", "switch", "advance", "delete", "send",
       "track"} \subseteq Points
  BY DEF Points
<1>h. call = Idle => call.op = "none"
  BY DEF Idle
<1>i. NoBranch \notin Commits
  BY NoBranchIsNoCommit
<1>j. call.remote \in Nat /\ call.remote <= call.remote
  <2>1. Bases \subseteq Nat
    BY CompositesConstants
  <2>2. call.remote \in Nat
    BY <1>a, <2>1
  <2> QED
    BY <2>2
<1> USE DEF originVars, cloneVars
<1>1. CASE Start("prepare", "start") \/ Start("reconcile", "confirm") \/ Start("push", "send")
           \/ Start("sync", "send")
  <2>1. /\ UNCHANGED <<feature, head, rebasing>>
        /\ \/ call'.op = "prepare" /\ call'.at = "start"
           \/ call'.op = "reconcile" /\ call'.at = "confirm"
           \/ call'.op \in {"push", "sync"}
    BY <1>1, StartSteps DEF Ops, Points
  <2> QED
    BY <1>b, <1>e, <2>1 DEF PrepareInv, ReconcileInv, Composite
<1>2. CASE AbortStaleRebase
  <2>1. call.op = "prepare" /\ call'.op = "prepare" /\ call'.at = "clean" /\ rebasing' = NoBranch
    BY <1>2, <1>c, <1>g DEF AbortStaleRebase, At
  <2>2. RebaseInv'
    BY <1>2, <1>a DEF AbortStaleRebase, RebaseInv
  <2> QED
    BY <2>1, <2>2 DEF PrepareInv, ReconcileInv
<1>3. CASE CheckClean
  <2>1. UNCHANGED <<feature, head, rebasing>> /\ call.at = "clean" /\ (End \/ Proceed("fetch"))
    BY <1>3 DEF CheckClean
  <2>2. CASE Proceed("fetch")
    <3>1. call'.op = call.op /\ call'.at = "fetch"
      BY <1>c, <1>g, <2>2
    <3> QED
      BY <1>e, <2>1, <3>1 DEF PrepareInv, ReconcileInv
  <2> QED
    BY <1>e, <1>f, <2>1, <2>2
<1>4. CASE Fetch
  <2>1. /\ UNCHANGED <<feature, head, rebasing>> /\ call.at = "fetch"
        /\ Proceed(IF call.op = "prepare" THEN "published" ELSE "merged")
    BY <1>4 DEF Fetch
  <2>2. call'.op = call.op /\ call'.at = IF call.op = "prepare" THEN "published" ELSE "merged"
    BY <1>c, <1>g, <2>1
  <2> QED
    BY <1>e, <2>1, <2>2 DEF PrepareInv, ReconcileInv
<1>5. CASE CheckPublished
  <2>1. UNCHANGED <<feature, head, rebasing>> /\ call.op = "prepare" /\ call.at = "published"
    BY <1>5 DEF CheckPublished, At
  <2>2. CASE call' = [call EXCEPT !.at = "materialize", !.remote = tracking.base]
    <3>1. call'.op = call.op /\ call'.at = "materialize"
      BY <1>a, <2>2 DEF CallShape
    <3> QED
      BY <1>e, <2>1, <3>1 DEF PrepareInv, ReconcileInv
  <2> QED
    BY <1>5, <1>e, <1>f, <2>1, <2>2 DEF CheckPublished
<1>6. CASE Reuse
  <2>1. /\ UNCHANGED <<feature, head, rebasing>> /\ call.op = "prepare" /\ call.at = "materialize"
        /\ feature # NoBranch
        /\ Proceed(IF Holds(feature, call.remote) THEN "checkout" ELSE "rebase")
    BY <1>6 DEF Reuse, At
  <2>2. /\ call'.op = call.op /\ call'.remote = call.remote
        /\ call'.at = IF Holds(feature, call.remote) THEN "checkout" ELSE "rebase"
    BY <1>c, <1>g, <2>1
  <2> QED
    BY <1>e, <2>1, <2>2 DEF PrepareInv, ReconcileInv, Holds
<1>7. CASE AdvanceFirst
  <2>1. /\ UNCHANGED <<feature, head, rebasing>> /\ call.op = "prepare" /\ call.at = "materialize"
        /\ feature = NoBranch /\ Proceed("create")
    BY <1>7 DEF AdvanceFirst, At
  <2>2. call'.op = call.op /\ call'.at = "create"
    BY <1>c, <1>g, <2>1
  <2> QED
    BY <1>e, <2>1, <2>2 DEF PrepareInv, ReconcileInv
<1>8. CASE Create
  <2>1. /\ UNCHANGED <<head, rebasing>> /\ call.op = "prepare" /\ call.at = "create"
        /\ feature' = Plain(call.remote) /\ Proceed("checkout")
    BY <1>8 DEF Create, At
  <2>2. call'.op = call.op /\ call'.at = "checkout" /\ call'.remote = call.remote
    BY <1>c, <1>g, <2>1
  <2>3. feature' \in Commits /\ feature'.on = call.remote /\ feature' # NoBranch /\ rebasing = NoBranch
    BY <1>a, <1>i, <2>1, CommitShapes DEF PrepareInv
  <2>4. call'.remote <= feature'.on
    BY <1>j, <2>2, <2>3
  <2>5. RebaseInv'
    BY <2>1, <2>3 DEF RebaseInv
  <2>6. Holds(feature, call.remote)'
    BY <2>4 DEF Holds
  <2> QED
    BY <2>1, <2>2, <2>3, <2>5, <2>6 DEF PrepareInv, ReconcileInv
<1>9. CASE Preserve
  <2>1. /\ UNCHANGED <<base, head, rebasing>> /\ call.op = "prepare" /\ call.at = "materialize"
        /\ feature' = base /\ Proceed("free") /\ feature = NoBranch
    BY <1>9 DEF Preserve, At
  <2>2. call'.op = call.op /\ call'.at = "free"
    BY <1>c, <1>g, <2>1
  <2>3. feature' # NoBranch /\ rebasing = NoBranch
    BY <1>a, <1>i, <2>1 DEF PrepareInv
  <2> QED
    BY <2>1, <2>2, <2>3 DEF RebaseInv, PrepareInv, ReconcileInv
<1>10. CASE FreeBase
  <2>1. /\ UNCHANGED <<base, feature, rebasing>> /\ call.op = "prepare" /\ call.at = "free"
        /\ Proceed("move") /\ head' \in {head, "feature"}
    BY <1>10 DEF FreeBase, At
  <2>2. call'.op = call.op /\ call'.at = "move"
    BY <1>c, <1>g, <2>1
  <2>3. feature # NoBranch /\ rebasing = NoBranch
    BY <2>1 DEF PrepareInv
  <2> QED
    BY <2>1, <2>2, <2>3 DEF RebaseInv, PrepareInv, ReconcileInv
<1>11. CASE MoveBase
  <2>1. /\ UNCHANGED <<feature, head, rebasing>> /\ call.op = "prepare" /\ call.at = "move"
        /\ Proceed("rebase")
    BY <1>11 DEF MoveBase, At
  <2>2. call'.op = call.op /\ call'.at = "rebase"
    BY <1>c, <1>g, <2>1
  <2> QED
    BY <1>e, <2>1, <2>2 DEF PrepareInv, ReconcileInv
<1>12. ASSUME NEW conflict \in BOOLEAN, Rebase(conflict)
       PROVE  RebaseInv' /\ PrepareInv' /\ ReconcileInv'
  <2>1. /\ UNCHANGED rebasing /\ call.op = "prepare" /\ call.at = "rebase" /\ head' = "feature"
    BY <1>12 DEF Rebase, At
  <2>2. feature \in Commits /\ feature # NoBranch /\ rebasing = NoBranch
    BY <1>a, <2>1 DEF PrepareInv
  <2>3. CASE conflict
    <3>1. UNCHANGED feature /\ End
      BY <1>12, <2>3 DEF Rebase
    <3> QED
      BY <1>f, <2>1, <2>2, <3>1 DEF RebaseInv
  <2>4. CASE ~conflict
    <3>1. feature' = Onto(call.remote, feature) /\ Proceed("checkout")
      BY <1>12, <2>4 DEF Rebase
    <3>2. call'.op = call.op /\ call'.at = "checkout" /\ call'.remote = call.remote
      BY <1>c, <1>g, <3>1
    <3>3. feature' \in Commits /\ feature'.on = call.remote /\ feature' # NoBranch
      BY <1>a, <1>i, <2>2, <3>1, CommitShapes
    <3>4. Holds(feature, call.remote)'
      <4>1. call'.remote <= feature'.on
        BY <1>j, <3>2, <3>3
      <4> QED
        BY <4>1 DEF Holds
    <3>5. RebaseInv'
      BY <2>1, <2>2, <3>3 DEF RebaseInv
    <3> QED
      BY <2>1, <2>2, <3>2, <3>3, <3>4, <3>5 DEF PrepareInv, ReconcileInv
  <2> QED
    BY <2>3, <2>4
<1>13. CASE Checkout
  <2>1. UNCHANGED <<feature, rebasing>> /\ head' = "feature" /\ End
        /\ call.op = "prepare" /\ call.at = "checkout"
    BY <1>13 DEF Checkout, At
  <2>2. feature # NoBranch /\ rebasing = NoBranch
    BY <2>1 DEF PrepareInv
  <2> QED
    BY <1>f, <2>1, <2>2 DEF RebaseInv
<1>14. CASE ConfirmMerged
  <2>1. UNCHANGED <<feature, head, rebasing>> /\ call.op = "reconcile"
    BY <1>14 DEF ConfirmMerged, At
  <2>2. CASE call' = [call EXCEPT !.at = "clean", !.status = request.last]
    <3>1. call'.op = call.op /\ call'.at = "clean"
      BY <1>a, <2>2 DEF CallShape
    <3> QED
      BY <1>e, <2>1, <3>1 DEF PrepareInv, ReconcileInv
  <2> QED
    BY <1>14, <1>e, <1>f, <2>1, <2>2 DEF ConfirmMerged
<1>15. CASE CheckReachable
  <2>1. UNCHANGED <<feature, head, rebasing>> /\ call.op = "reconcile"
    BY <1>15 DEF CheckReachable, At
  <2>2. CASE /\ call.status.commit \in 0..tracking.base
             /\ call' = [call EXCEPT !.at = "switch", !.remote = tracking.base]
    <3>1. /\ call'.op = call.op /\ call'.at = "switch" /\ call'.remote = tracking.base
          /\ call'.status = call.status
      BY <1>a, <2>2 DEF CallShape
    <3> QED
      BY <1>e, <2>1, <2>2, <3>1 DEF PrepareInv, ReconcileInv
  <2> QED
    BY <1>15, <1>e, <1>f, <2>1, <2>2 DEF CheckReachable, Reachable
<1>16. CASE SwitchToBase
  <2>1. /\ UNCHANGED <<feature, rebasing>> /\ call.op = "reconcile" /\ call.at = "switch"
        /\ head' = "base" /\ Proceed("advance")
    BY <1>16 DEF SwitchToBase, At
  <2>2. /\ call'.op = call.op /\ call'.at = "advance" /\ call'.remote = call.remote
        /\ call'.status = call.status
    BY <1>c, <1>g, <2>1
  <2> QED
    BY <2>1, <2>2 DEF RebaseInv, PrepareInv, ReconcileInv
<1>17. CASE AdvanceBase
  <2>1. UNCHANGED <<feature, head, rebasing>> /\ call.op = "reconcile" /\ call.at = "advance"
    BY <1>17 DEF AdvanceBase, At
  <2>2. CASE base' = FastForwarded(call.remote) /\ Proceed("delete")
    <3>1. /\ call'.op = call.op /\ call'.at = "delete" /\ call'.remote = call.remote
          /\ call'.status = call.status
      BY <1>c, <1>g, <2>2
    <3>2. Holds(base', call.remote)
      BY <1>j, <2>2 DEF FastForwarded, Plain, Holds
    <3>3. Holds(base, call.remote)'
      BY <3>1, <3>2 DEF Holds
    <3> QED
      BY <1>e, <2>1, <3>1, <3>3 DEF PrepareInv, ReconcileInv
  <2> QED
    BY <1>17, <1>e, <1>f, <2>1, <2>2 DEF AdvanceBase
<1>18. CASE DeleteMergedBranch
  <2>1. /\ UNCHANGED <<head, rebasing>> /\ End /\ feature' \in {feature, NoBranch}
        /\ call.op = "reconcile" /\ call.at = "delete"
    BY <1>18 DEF DeleteMergedBranch, At
  <2>2. head = "base"
    BY <2>1 DEF ReconcileInv
  <2> QED
    BY <1>f, <2>1, <2>2 DEF RebaseInv
<1>19. CASE SendPush
  <2>1. UNCHANGED <<feature, head, rebasing>> /\ call.op = "push" /\ (End \/ Proceed("track"))
    BY <1>19 DEF SendPush, At
  <2>2. call'.op \notin Composite
    BY <1>c, <1>d, <1>g, <2>1 DEF Composite
  <2> QED
    BY <1>b, <1>e, <2>1, <2>2
<1>20. CASE TrackPush \/ SyncBase \/ ChildFails
  <2>1. UNCHANGED <<feature, head, rebasing>> /\ End
    BY <1>20 DEF TrackPush, SyncBase, ChildFails
  <2> QED
    BY <1>e, <1>f, <2>1
<1>21. CASE FetchBase
  <2>1. UNCHANGED <<feature, head, rebasing>> /\ call'.op = "sync"
    BY <1>21, <1>a DEF FetchBase, At, CallShape
  <2> QED
    BY <1>b, <1>e, <2>1 DEF Composite
<1>22. CASE GitCommit
  <2>1. UNCHANGED <<head, rebasing, call>> /\ call.op = "none"
        /\ feature' = IF head = "feature" THEN [feature EXCEPT !.adds = @ \cup {made + 1}] ELSE feature
    BY <1>22, <1>h DEF GitCommit
  <2>2. made + 1 \in Changes
    BY <1>22, CompositesConstants DEF GitCommit, Changes, CompositesTypeOK
  <2>3. head = "feature" => feature' # NoBranch /\ rebasing = NoBranch
    BY <1>a, <1>i, <2>1, <2>2, CommitShapes DEF RebaseInv
  <2>4. RebaseInv'
    BY <2>1, <2>3 DEF RebaseInv
  <2> QED
    BY <1>b, <2>1, <2>4 DEF Composite
<1>23. CASE StrandCommit \/ Edit
  <2>1. UNCHANGED <<feature, head, rebasing, call>> /\ call.op = "none"
    BY <1>23, <1>h DEF StrandCommit, Edit
  <2> QED
    BY <1>b, <1>e, <2>1 DEF Composite
<1>24. CASE SwitchBranch("base") \/ SwitchBranch("feature")
  <2>1. /\ UNCHANGED <<feature, rebasing, call>> /\ call.op = "none" /\ rebasing = NoBranch
        /\ (head' = "base" \/ (head' = "feature" /\ feature # NoBranch))
    BY <1>24, <1>h DEF SwitchBranch
  <2>2. RebaseInv'
    BY <2>1 DEF RebaseInv
  <2> QED
    BY <1>b, <2>1, <2>2 DEF Composite
<1>25. ASSUME NEW crash \in BOOLEAN, Kill(crash)
       PROVE  RebaseInv' /\ PrepareInv' /\ ReconcileInv'
  <2>1. /\ call'.op \in Composite => call'.at \in {"start", "confirm"}
        /\ call'.op = "prepare" => call'.at = "start"
        /\ call'.op = "reconcile" => call'.at = "confirm"
    BY <1>25, <1>a DEF Kill, Beginning, Idle, Composite
  <2>2. RebaseInv'
    <3>1. CASE UNCHANGED <<head, rebasing>>
      BY <1>25, <3>1 DEF Kill, RebaseInv
    <3>2. CASE At("prepare", "rebase") /\ rebasing' = feature /\ head' = "detached"
      <4>1. feature # NoBranch /\ UNCHANGED feature
        BY <1>25, <3>2 DEF At, PrepareInv, Kill
      <4> QED
        BY <3>2, <4>1 DEF RebaseInv
    <3> QED
      BY <1>25, <3>1, <3>2 DEF Kill
  <2> QED
    BY <2>1, <2>2 DEF PrepareInv, ReconcileInv
<1>26. ASSUME UNCHANGED <<base, feature, head, rebasing, call>>
       PROVE  RebaseInv' /\ PrepareInv' /\ ReconcileInv'
  BY <1>26 DEF RebaseInv, PrepareInv, ReconcileInv, Holds, Plain
<1>27. CASE PushLands \/ OthersLand \/ OpenRequest \/ DropBranch
  BY <1>26, <1>27 DEF PushLands, OthersLand, OpenRequest, DropBranch
<1>28. ASSUME NEW other \in BOOLEAN, MergeRequest(other)
       PROVE  RebaseInv' /\ PrepareInv' /\ ReconcileInv'
  BY <1>26, <1>28 DEF MergeRequest
<1> QED
  BY <1>1, <1>2, <1>3, <1>4, <1>5, <1>6, <1>7, <1>8, <1>9, <1>10, <1>11, <1>12, <1>13, <1>14,
     <1>15, <1>16, <1>17, <1>18, <1>19, <1>20, <1>21, <1>22, <1>23, <1>24, <1>25, <1>27, <1>28
     DEF CompositesNext, PrepareStep, ReconcileStep

\* The branches, the origin and the composite under way agree at every step: the
\* invariants of what is landed, of rebases killed and of how far a composite came
\* (composites.ts, prepareBranch, reconcileAfterMerge).
THEOREM CompositesAgree ==
  CompositesSpec => [](CompositesTypeOK /\ LandedInv /\ RebaseInv /\ PrepareInv /\ ReconcileInv)
<1> DEFINE Inv == CompositesTypeOK /\ LandedInv /\ RebaseInv /\ PrepareInv /\ ReconcileInv
<1>1. CompositesInit => Inv
  <2> SUFFICES ASSUME CompositesInit PROVE Inv
    OBVIOUS
  <2>1. call.op = "none" /\ call.remote = 0 /\ call.status = NoMerge
    BY DEF CompositesInit, Idle
  <2>2. LandedInv
    <3>1. \A k \in Bases : landed[k] = {}
      BY DEF CompositesInit
    <3>2. tracking.base = 0 /\ origin.base = 0 /\ request.last = NoMerge
      BY DEF CompositesInit
    <3> QED
      BY <2>1, <3>1, <3>2, CompositesConstants DEF LandedInv
  <2>3. RebaseInv
    BY DEF CompositesInit, RebaseInv
  <2>4. PrepareInv /\ ReconcileInv
    BY <2>1 DEF PrepareInv, ReconcileInv
  <2> QED
    BY <2>2, <2>3, <2>4, CompositesStartTyped
<1>2. Inv /\ [CompositesNext]_compositeVars => Inv'
  <2> SUFFICES ASSUME Inv, [CompositesNext]_compositeVars PROVE Inv'
    OBVIOUS
  <2>1. CASE CompositesNext
    BY <2>1, CompositesStayTyped, LandedStays, CompositesKeepTheirWay
  <2>2. CASE UNCHANGED compositeVars
    BY <2>2 DEF compositeVars, originVars, cloneVars, CompositesTypeOK, LandedInv, RebaseInv,
                PrepareInv, ReconcileInv, Holds, Plain
  <2> QED
    BY <2>1, <2>2
<1> QED
  BY <1>1, <1>2, PTL DEF CompositesSpec

-----------------------------------------------------------------------------
\* No committed change is lost.

\* The changes that a tip holds, and those that any branch does.
Adds(tip) == IF tip = NoBranch THEN {} ELSE tip.adds
AllHeld ==
    base.adds \cup landed[origin.base] \cup Adds(feature) \cup Adds(origin.feature) \cup Adds(rebasing)

LEMMA HeldIsInAll == \A n : Held(n) <=> n \in AllHeld
<1> TAKE n
<1>1. n \in Adds(feature) <=> feature # NoBranch /\ n \in feature.adds
  BY DEF Adds
<1>2. n \in Adds(origin.feature) <=> origin.feature # NoBranch /\ n \in origin.feature.adds
  BY DEF Adds
<1>3. n \in Adds(rebasing) <=> rebasing # NoBranch /\ n \in rebasing.adds
  BY DEF Adds
<1>4. (\E tip \in {feature, origin.feature, rebasing} \ {NoBranch} : n \in tip.adds)
        <=> n \in Adds(feature) \cup Adds(origin.feature) \cup Adds(rebasing)
  BY <1>1, <1>2, <1>3
<1> QED
  BY <1>4 DEF Held, AllHeld

\* No step loses a change: what leaves one branch is on another, or landed
\* (rebaseOntoRemoteBase, deleteMergedBranch, abortStaleRebase, push).
LEMMA NothingIsLost ==
  ASSUME CompositesTypeOK, LandedInv, RebaseInv, PrepareInv, ReconcileInv, CompositesNext
  PROVE  AllHeld \subseteq AllHeld'
<1>a. /\ origin.base \in Bases /\ tracking.base \in Bases /\ call.remote \in Bases
      /\ base \in Commits /\ feature \in Commits \cup {NoBranch} /\ call \in CallShape
      /\ rebasing \in Commits \cup {NoBranch}
      /\ origin \in [base : Bases, feature : Commits \cup {NoBranch}, wire : Commits \cup {NoBranch}]
      /\ landed \in [Bases -> SUBSET Changes]
  BY DEF CompositesTypeOK, CallShape
<1>b. ASSUME base.adds \subseteq AllHeld', landed[origin.base] \subseteq AllHeld',
             Adds(feature) \subseteq AllHeld', Adds(origin.feature) \subseteq AllHeld',
             Adds(rebasing) \subseteq AllHeld'
      PROVE  AllHeld \subseteq AllHeld'
  BY <1>b DEF AllHeld
<1>c. /\ base'.adds \subseteq AllHeld' /\ landed'[origin'.base] \subseteq AllHeld'
      /\ Adds(feature') \subseteq AllHeld' /\ Adds(origin'.feature) \subseteq AllHeld'
      /\ Adds(rebasing') \subseteq AllHeld'
  BY DEF AllHeld, Adds
<1>d. ASSUME UNCHANGED <<base, landed, feature, origin, rebasing>>
      PROVE  AllHeld \subseteq AllHeld'
  BY <1>d DEF AllHeld, Adds
<1>e. NoBranch \notin Commits /\ Adds(NoBranch) = {} /\ \A c \in Commits : Adds(c) = c.adds
  BY NoBranchIsNoCommit DEF Adds
<1> USE DEF originVars, cloneVars
<1>1. CASE Start("prepare", "start") \/ Start("reconcile", "confirm") \/ Start("push", "send")
           \/ Start("sync", "send")
  BY <1>1, <1>d, StartSteps DEF Ops, Points
<1>2. CASE AbortStaleRebase
  <2>1. /\ UNCHANGED <<origin, landed, base>>
        /\ \/ UNCHANGED <<feature, rebasing>>
           \/ feature' = rebasing /\ rebasing # NoBranch
    BY <1>2 DEF AbortStaleRebase
  <2>2. Adds(feature) \subseteq AllHeld' /\ Adds(rebasing) \subseteq AllHeld'
    BY <1>c, <1>e, <2>1 DEF RebaseInv
  <2> QED
    BY <1>b, <1>c, <2>1, <2>2
<1>3. CASE \/ CheckClean \/ CheckPublished \/ Reuse \/ FreeBase \/ Checkout \/ ConfirmMerged
           \/ CheckReachable \/ SwitchToBase \/ Fetch \/ TrackPush \/ FetchBase
           \/ SwitchBranch("base") \/ SwitchBranch("feature") \/ Edit \/ ChildFails \/ OpenRequest
  BY <1>3, <1>d DEF CheckClean, CheckPublished, Reuse, FreeBase, Checkout, ConfirmMerged,
                    CheckReachable, SwitchToBase, Fetch, TrackPush, FetchBase, SwitchBranch, Edit,
                    ChildFails, OpenRequest
<1>4. ASSUME UNCHANGED <<landed, feature, origin, rebasing>>, base.adds = {} \/ UNCHANGED base
      PROVE  AllHeld \subseteq AllHeld'
  BY <1>4, <1>b, <1>c
<1>5. CASE AdvanceFirst
  BY <1>4, <1>5 DEF AdvanceFirst
<1>6. CASE AdvanceBase
  BY <1>4, <1>6 DEF AdvanceBase, FastForwardable, FastForwarded
<1>7. CASE SyncBase
  BY <1>4, <1>7 DEF SyncBase
<1>8. ASSUME UNCHANGED <<base, landed, origin, rebasing>>, Adds(feature) \subseteq AllHeld'
      PROVE  AllHeld \subseteq AllHeld'
  BY <1>8, <1>b, <1>c
<1>9. CASE Create
  <2>1. feature = NoBranch /\ UNCHANGED <<base, landed, origin, rebasing>>
    BY <1>9 DEF Create, At, PrepareInv
  <2> QED
    BY <1>8, <1>e, <2>1
<1>10. CASE Preserve
  <2>1. feature = NoBranch /\ UNCHANGED <<base, landed, origin, rebasing>>
    BY <1>10 DEF Preserve
  <2> QED
    BY <1>8, <1>e, <2>1
<1>11. CASE MoveBase
  <2>1. /\ UNCHANGED <<landed, feature, origin, rebasing>>
        /\ feature # NoBranch /\ base.adds \subseteq feature.adds
    BY <1>11 DEF MoveBase, At, PrepareInv
  <2>2. base.adds \subseteq AllHeld'
    BY <1>a, <1>c, <1>e, <2>1
  <2> QED
    BY <1>b, <1>c, <2>1, <2>2
<1>12. ASSUME NEW conflict \in BOOLEAN, Rebase(conflict)
       PROVE  AllHeld \subseteq AllHeld'
  <2>1. /\ UNCHANGED <<base, landed, origin, rebasing>> /\ feature # NoBranch
        /\ feature' \in {feature, Onto(call.remote, feature)}
    BY <1>12 DEF Rebase, At, PrepareInv
  <2>2. feature \in Commits /\ call.remote <= origin.base
    BY <1>a, <2>1 DEF LandedInv
  <2>3. CASE feature' = feature
    BY <1>8, <1>c, <2>1, <2>3
  <2>4. CASE feature' = Onto(call.remote, feature)
    <3>1. feature' \in Commits /\ feature'.adds = feature.adds \ landed[call.remote]
      BY <1>a, <2>2, <2>4, CommitShapes
    <3>2. landed[call.remote] \subseteq landed[origin.base]
      BY <1>a, <2>2 DEF LandedInv
    <3> QED
      BY <1>8, <1>c, <1>e, <2>1, <2>2, <3>1, <3>2
  <2> QED
    BY <2>1, <2>3, <2>4
<1>13. CASE DeleteMergedBranch
  <2>1. /\ UNCHANGED <<base, landed, origin, rebasing>> /\ call.op = "reconcile" /\ call.at = "delete"
        /\ \/ UNCHANGED feature
           \/ feature = call.status.head /\ feature # NoBranch
    BY <1>13 DEF DeleteMergedBranch, At, Deletable
  <2>2. CASE UNCHANGED feature
    BY <1>8, <1>c, <2>1, <2>2
  <2>3. CASE feature = call.status.head /\ feature # NoBranch
    <3>1. call.status.commit \in 0..call.remote
      BY <2>1 DEF ReconcileInv
    <3>2. call.status.commit # Unmerged
      BY <1>a, <3>1, CompositesConstants
    <3>3. feature.adds \subseteq landed[origin.base]
      BY <2>3, <3>2, MergedIsLanded
    <3> QED
      BY <1>8, <1>a, <1>c, <1>e, <2>1, <2>3, <3>3
  <2> QED
    BY <2>1, <2>2, <2>3
<1>14. CASE GitCommit
  <2>1. /\ UNCHANGED <<base, landed, origin, rebasing>>
        /\ feature' = IF head = "feature" THEN [feature EXCEPT !.adds = @ \cup {made + 1}] ELSE feature
    BY <1>14 DEF GitCommit
  <2>2. CASE head = "feature"
    <3>1. feature \in Commits /\ made + 1 \in Changes
      BY <1>14, <1>a, <2>2, CompositesConstants DEF RebaseInv, GitCommit, Changes, CompositesTypeOK
    <3>2. feature' \in Commits /\ feature'.adds = feature.adds \cup {made + 1}
      BY <2>1, <2>2, <3>1, CommitShapes
    <3> QED
      BY <1>8, <1>c, <1>e, <2>1, <3>1, <3>2
  <2>3. CASE head # "feature"
    BY <1>8, <1>c, <2>1, <2>3
  <2> QED
    BY <2>2, <2>3
<1>15. CASE StrandCommit
  <2>1. UNCHANGED <<landed, feature, origin, rebasing>> /\ base'.adds = base.adds \cup {made + 1}
    BY <1>15, <1>a DEF StrandCommit, Commits
  <2> QED
    BY <1>b, <1>c, <2>1
<1>16. ASSUME UNCHANGED <<base, landed, feature, rebasing>>, origin'.base = origin.base,
              Adds(origin.feature) \subseteq AllHeld'
       PROVE  AllHeld \subseteq AllHeld'
  BY <1>16, <1>b, <1>c
<1>17. ASSUME NEW tip \in Commits, Takes(tip)
       PROVE  Adds(origin.feature) \subseteq Adds(tip)
  BY <1>17, <1>a, <1>e DEF Takes, Descends
<1>18. CASE SendPush
  <2>1. /\ UNCHANGED <<base, landed, feature, rebasing>>
        /\ \/ UNCHANGED origin
           \/ /\ origin' = [origin EXCEPT !.feature = feature]
              /\ feature # NoBranch /\ Takes(feature)
    BY <1>18 DEF SendPush
  <2>2. CASE UNCHANGED origin
    BY <1>d, <2>1, <2>2
  <2>3. CASE origin' = [origin EXCEPT !.feature = feature] /\ feature # NoBranch /\ Takes(feature)
    <3>1. origin'.base = origin.base
      BY <1>a, <2>3
    <3>2. Adds(origin.feature) \subseteq Adds(feature)
      BY <1>17, <1>a, <2>3
    <3> QED
      BY <1>16, <1>c, <2>1, <3>1, <3>2
  <2> QED
    BY <2>1, <2>2, <2>3
<1>19. ASSUME NEW crash \in BOOLEAN, Kill(crash)
       PROVE  AllHeld \subseteq AllHeld'
  <2>1. /\ UNCHANGED <<base, landed, feature>>
        /\ origin'.base = origin.base /\ origin'.feature = origin.feature
    BY <1>19, <1>a DEF Kill
  <2>2. Adds(rebasing) \subseteq AllHeld'
    <3>1. CASE UNCHANGED rebasing
      BY <1>c, <3>1
    <3>2. CASE At("prepare", "rebase")
      <4>1. rebasing = NoBranch
        BY <3>2 DEF At, PrepareInv
      <4> QED
        BY <1>e, <4>1
    <3> QED
      BY <1>19, <3>1, <3>2 DEF Kill
  <2> QED
    BY <1>b, <1>c, <2>1, <2>2
<1>20. CASE PushLands
  <2>1. UNCHANGED <<base, landed, feature, rebasing>> /\ origin.wire \in Commits
    BY <1>20, <1>a DEF PushLands
  <2>2. /\ origin'.base = origin.base
        /\ origin'.feature = IF Takes(origin.wire) THEN origin.wire ELSE origin.feature
    BY <1>20, <1>a DEF PushLands
  <2>3. Adds(origin.feature) \subseteq Adds(origin'.feature)
    BY <1>17, <2>1, <2>2
  <2> QED
    BY <1>16, <1>c, <2>1, <2>2, <2>3
<1>21. ASSUME NEW changes, Land(changes), UNCHANGED <<base, feature, rebasing>>, origin.base < MaxBase
       PROVE  AllHeld \subseteq AllHeld'
  <2>1. /\ origin'.base = origin.base + 1 /\ origin.base + 1 \in Bases
        /\ origin.base + 1 > origin.base /\ origin'.feature = origin.feature
    BY <1>21, <1>a, CompositesConstants DEF Land, Bases
  <2>2. landed'[origin'.base] = landed[origin.base] \cup changes
    BY <1>21, <2>1 DEF Land
  <2> QED
    BY <1>21, <1>b, <1>c, <2>1, <2>2
<1>22. CASE OthersLand
  BY <1>21, <1>22 DEF OthersLand
<1>23. CASE DropBranch
  <2>1. /\ UNCHANGED <<base, landed, feature, rebasing>> /\ request.last.commit # Unmerged
        /\ origin.feature = request.last.head
    BY <1>23 DEF DropBranch
  <2>2. origin'.base = origin.base
    BY <1>23, <1>a DEF DropBranch
  <2>3. origin.feature # NoBranch /\ origin.feature.adds \subseteq landed[origin.base]
    BY <2>1, MergedIsLanded
  <2>4. Adds(origin.feature) \subseteq AllHeld'
    BY <1>a, <1>c, <1>e, <2>1, <2>2, <2>3
  <2> QED
    BY <1>16, <2>1, <2>2, <2>4
<1>24. ASSUME NEW other \in BOOLEAN, MergeRequest(other)
       PROVE  AllHeld \subseteq AllHeld'
  <2>1. UNCHANGED <<base, feature, rebasing>>
    BY <1>24 DEF MergeRequest
  <2>2. CASE other
    BY <1>24, <1>d, <2>1, <2>2 DEF MergeRequest
  <2>3. CASE ~other
    BY <1>24, <1>21, <2>1, <2>3 DEF MergeRequest
  <2> QED
    BY <2>2, <2>3
<1> QED
  BY <1>1, <1>2, <1>3, <1>5, <1>6, <1>7, <1>9, <1>10, <1>11, <1>12, <1>13, <1>14, <1>15, <1>18,
     <1>19, <1>20, <1>22, <1>23, <1>24 DEF CompositesNext, PrepareStep, ReconcileStep

\* A new change is on the branch it was committed on, where nobody commits while a
\* rebase is left open (commit, git.raw).
LEMMA CommitsAreHeld ==
  ASSUME CompositesTypeOK, RebaseInv, "onbranch" \in Avoided, CompositesNext
  PROVE  made' = made \/ (made' = made + 1 /\ made + 1 \in AllHeld')
<1>1. CASE GitCommit
  <2>1. rebasing = NoBranch /\ head # "base" /\ made' = made + 1
    BY <1>1 DEF GitCommit, Spared
  <2>2. head = "feature"
    BY <2>1 DEF CompositesTypeOK, RebaseInv
  <2>3. feature \in Commits /\ made + 1 \in Changes
    BY <1>1, <2>2, CompositesConstants DEF CompositesTypeOK, RebaseInv, GitCommit, Changes
  <2>4. feature' = [feature EXCEPT !.adds = @ \cup {made + 1}]
    BY <1>1, <2>2 DEF GitCommit
  <2>5. feature' \in Commits /\ made + 1 \in feature'.adds
    BY <2>3, <2>4, CommitShapes
  <2> QED
    BY <2>1, <2>5, NoBranchIsNoCommit DEF AllHeld, Adds
<1>2. CASE StrandCommit
  <2>1. made' = made + 1 /\ base' = [base EXCEPT !.adds = @ \cup {made + 1}]
    BY <1>2 DEF StrandCommit
  <2>2. made + 1 \in base'.adds
    BY <2>1 DEF CompositesTypeOK, Commits
  <2> QED
    BY <2>1, <2>2 DEF AllHeld
<1>3. CASE PrepareStep \/ ReconcileStep \/ Fetch
  <2>1. CASE PrepareStep
    BY <2>1 DEF PrepareStep, AbortStaleRebase, CheckClean, CheckPublished, Reuse, AdvanceFirst,
                Create, Preserve, FreeBase, MoveBase, Checkout, Rebase
  <2>2. CASE ReconcileStep \/ Fetch
    BY <2>2 DEF ReconcileStep, ConfirmMerged, CheckReachable, SwitchToBase, AdvanceBase,
                DeleteMergedBranch, Fetch
  <2> QED
    BY <1>3, <2>1, <2>2
<1>4. ASSUME NEW op, NEW at, Start(op, at)
      PROVE  made' = made
  BY <1>4 DEF Start
<1>5. CASE \/ SendPush \/ TrackPush \/ FetchBase \/ SyncBase \/ SwitchBranch("base")
           \/ SwitchBranch("feature") \/ Edit \/ ChildFails \/ PushLands \/ OthersLand
           \/ OpenRequest \/ DropBranch
  BY <1>5 DEF SendPush, TrackPush, FetchBase, SyncBase, SwitchBranch, Edit, ChildFails, PushLands,
              OthersLand, OpenRequest, DropBranch
<1>6. ASSUME NEW crash \in BOOLEAN, Kill(crash)
      PROVE  made' = made
  BY <1>6 DEF Kill
<1>7. ASSUME NEW other \in BOOLEAN, MergeRequest(other)
      PROVE  made' = made
  BY <1>7 DEF MergeRequest
<1> QED
  BY <1>1, <1>2, <1>3, <1>4, <1>5, <1>6, <1>7 DEF CompositesNext

\* Every committed change is on some branch of the clone or the origin, over any
\* number of kills, conflicts, merges and clean-ups, where nobody commits while a
\* rebase is left open (composites.ts, prepareBranch, reconcileAfterMerge).
THEOREM WorkAlwaysKept ==
  ASSUME "onbranch" \in Avoided
  PROVE  CompositesSpec => []WorkIsKept
<1> DEFINE Inv == CompositesTypeOK /\ LandedInv /\ RebaseInv /\ PrepareInv /\ ReconcileInv
<1>0. (\A n : Held(n) <=> n \in AllHeld)'
  BY HeldIsInAll, PTL
<1>1. CompositesInit => WorkIsKept
  BY DEF CompositesInit, WorkIsKept
<1>2. Inv /\ WorkIsKept /\ [CompositesNext]_compositeVars => WorkIsKept'
  <2> SUFFICES ASSUME Inv, WorkIsKept, [CompositesNext]_compositeVars, NEW n \in 1..made'
               PROVE  Held(n)'
    BY DEF WorkIsKept
  <2>1. made \in Nat
    BY CompositesConstants DEF CompositesTypeOK
  <2>2. AllHeld \subseteq AllHeld' /\ (made' = made \/ (made' = made + 1 /\ made + 1 \in AllHeld'))
    <3>1. CASE CompositesNext
      BY <3>1, NothingIsLost, CommitsAreHeld
    <3>2. CASE UNCHANGED compositeVars
      BY <3>2 DEF compositeVars, originVars, cloneVars, AllHeld, Adds
    <3> QED
      BY <3>1, <3>2
  <2>3. n \in AllHeld'
    <3>1. CASE n \in 1..made
      <4>1. n \in AllHeld
        BY <3>1, HeldIsInAll DEF WorkIsKept
      <4> QED
        BY <2>2, <4>1
    <3>2. CASE n \notin 1..made
      <4>1. made' = made + 1 /\ n = made + 1
        BY <2>1, <2>2, <3>2
      <4> QED
        BY <2>2, <4>1
    <3> QED
      BY <3>1, <3>2
  <2> QED
    BY <1>0, <2>3
<1> HIDE DEF Inv
<1>3. CompositesSpec => []Inv
  BY CompositesAgree DEF Inv
<1> QED
  BY <1>1, <1>2, <1>3, PTL DEF CompositesSpec

-----------------------------------------------------------------------------
\* What a composite answers is so, and published branches only grow.

\* A composite at its last child is the only one that changes the clone: it ends or
\* fails there, and changes no more than that child does.
LEMMA OnlyItsOwnStep ==
  ASSUME CompositesTypeOK, CompositesNext, kills' = kills
  PROVE  /\ At("prepare", "checkout") => UNCHANGED <<feature, rebasing>>
         /\ At("reconcile", "delete") => UNCHANGED <<base, head>>
<1> USE DEF originVars, cloneVars
<1>0. call = Idle => ~At("prepare", "checkout") /\ ~At("reconcile", "delete")
  BY DEF At, Idle
<1>1. CASE PrepareStep
  BY <1>1 DEF PrepareStep, AbortStaleRebase, CheckClean, CheckPublished, Reuse, AdvanceFirst,
              Create, Preserve, FreeBase, MoveBase, Checkout, Rebase, At
<1>2. CASE ReconcileStep \/ Fetch
  BY <1>2 DEF ReconcileStep, ConfirmMerged, CheckReachable, SwitchToBase, AdvanceBase,
              DeleteMergedBranch, Fetch, At
<1>3. ASSUME NEW op, NEW at, Start(op, at)
      PROVE  call = Idle
  BY <1>3 DEF Start
<1>4. CASE GitCommit \/ StrandCommit \/ SwitchBranch("base") \/ SwitchBranch("feature") \/ Edit
  BY <1>0, <1>4 DEF GitCommit, StrandCommit, SwitchBranch, Edit
<1>5. CASE SendPush \/ TrackPush \/ FetchBase \/ SyncBase
  BY <1>5 DEF SendPush, TrackPush, FetchBase, SyncBase, At
<1>6. CASE ChildFails \/ PushLands \/ OthersLand \/ OpenRequest \/ DropBranch
  BY <1>6 DEF ChildFails, PushLands, OthersLand, OpenRequest, DropBranch
<1>7. ASSUME NEW crash \in BOOLEAN, Kill(crash)
      PROVE  FALSE
  <2>1. kills' = kills + 1 /\ kills \in Nat
    BY <1>7, CompositesConstants DEF Kill, CompositesTypeOK
  <2> QED
    BY <2>1
<1>8. ASSUME NEW other \in BOOLEAN, MergeRequest(other)
      PROVE  UNCHANGED <<base, feature, head, rebasing>>
  BY <1>8 DEF MergeRequest
<1> QED
  BY <1>0, <1>1, <1>2, <1>3, <1>4, <1>5, <1>6, <1>7, <1>8 DEF CompositesNext

\* What a composite answers is so, for any number of kills and runs before: a
\* prepared branch holds the base it was prepared on, with no rebase left open,
\* and a reconciled merge is in the clone's base, which has nothing of its own and
\* is checked out (composites.ts, prepareBranch, reconcileAfterMerge).
THEOREM CompositesAlwaysTellTrue == CompositesSpec => CompositesTellTrue
<1> DEFINE Inv == CompositesTypeOK /\ LandedInv /\ RebaseInv /\ PrepareInv /\ ReconcileInv
           Says == kills' = kills =>
                      /\ At("prepare", "checkout") /\ call' = Idle
                            => Holds(feature', call.remote) /\ rebasing' = NoBranch
                      /\ At("reconcile", "delete") /\ call' = Idle
                            => /\ call.status.commit \in 0..base'.on /\ head' = "base"
                               /\ call.status.head.adds \subseteq landed[base'.on]
<1>1. Inv /\ [CompositesNext]_compositeVars => [Says]_compositeVars
  <2> SUFFICES ASSUME Inv, CompositesNext PROVE Says
    OBVIOUS
  <2>a. call \in CallShape /\ Idle.op = "none" /\ Idle.at = "idle"
    BY DEF CompositesTypeOK, CallShape, Idle
  <2>1. ASSUME kills' = kills, At("prepare", "checkout"), call' = Idle
        PROVE  Holds(feature', call.remote) /\ rebasing' = NoBranch
    <3>1. Holds(feature, call.remote) /\ rebasing = NoBranch
      BY <2>1 DEF At, PrepareInv
    <3>2. UNCHANGED <<feature, rebasing>>
      BY <2>1, <2>a, OnlyItsOwnStep
    <3> QED
      BY <3>1, <3>2 DEF Holds
  <2>2. ASSUME kills' = kills, At("reconcile", "delete"), call' = Idle
        PROVE  /\ call.status.commit \in 0..base'.on /\ head' = "base"
               /\ call.status.head.adds \subseteq landed[base'.on]
    <3>1. call.status.commit \in 0..call.remote /\ head = "base" /\ call.remote <= base.on
      BY <2>2 DEF At, ReconcileInv, Holds
    <3>2. UNCHANGED <<base, head>>
      BY <2>2, <2>a, OnlyItsOwnStep
    <3>3. call.remote \in Bases /\ base.on \in Bases
      BY DEF CompositesTypeOK, Commits
    <3>4. /\ call.status.commit \in Bases /\ call.status.commit <= base.on
          /\ base.on \in Nat /\ call.status.commit \in Nat
      BY <3>1, <3>3, CompositesConstants DEF Bases
    <3>5. call.status.head.adds \subseteq landed[call.status.commit]
      BY <3>4, CompositesConstants DEF LandedInv
    <3>6. landed[call.status.commit] \subseteq landed[base.on]
      BY <3>3, <3>4 DEF LandedInv
    <3>7. call.status.commit \in 0..base.on
      BY <3>4
    <3> QED
      BY <3>1, <3>2, <3>5, <3>6, <3>7
  <2> QED
    BY <2>1, <2>2
<1> HIDE DEF Inv
<1>2. CompositesSpec => []Inv
  BY CompositesAgree DEF Inv
<1> QED
  BY <1>1, <1>2, PTL DEF CompositesSpec, CompositesTellTrue

\* What was not found at the origin is not there while a branch is prepared: pushes
\* and composites take turns, and killed pushes have arrived before (prepareBranch).
LEMMA UnpublishedStays ==
  ASSUME CompositesTypeOK, UnpublishedInv, "prompt" \in Avoided, CompositesNext
  PROVE  UnpublishedInv'
<1>a. /\ call \in CallShape /\ request \in [open : BOOLEAN, last : Merges]
      /\ origin \in [base : Bases, feature : Commits \cup {NoBranch}, wire : Commits \cup {NoBranch}]
      /\ tracking \in [base : Bases, feature : Commits \cup {NoBranch}]
  BY DEF CompositesTypeOK, CallShape
<1> DEFINE Late == {"materialize", "create", "free", "move", "rebase", "checkout"}
<1>b. ASSUME call'.op \notin Composite
      PROVE  UnpublishedInv'
  BY <1>b DEF UnpublishedInv, At, Composite
<1>c. \A at \in Points : Proceed(at) => call'.op = call.op /\ call'.at = at
  BY CallSteps
<1>d. End => UnpublishedInv'
  BY <1>b, CallSteps DEF Composite
<1>e. ASSUME call'.op = call.op, UNCHANGED origin,
             call.op = "prepare" => (call'.at \in Late => call.at \in Late) /\ call'.at # "published"
      PROVE  UnpublishedInv'
  BY <1>e DEF UnpublishedInv, At
<1>g. {"idle", "start", "clean", "fetch", "published", "read", "materialize", "create", "free",
       "move", "rebase", "checkout", "confirm", "merged", "switch", "advance", "delete", "send",
       "track"} \subseteq Points
  BY DEF Points
<1>h. call = Idle => call.op = "none"
  BY DEF Idle
<1> USE DEF originVars, cloneVars
<1>1. CASE Start("prepare", "start") \/ Start("reconcile", "confirm") \/ Start("push", "send")
           \/ Start("sync", "send")
  <2>1. /\ UNCHANGED origin
        /\ \/ call'.op = "prepare" /\ call'.at = "start" /\ origin.wire = NoBranch
           \/ call'.op = "reconcile" /\ origin.wire = NoBranch
           \/ call'.op \in {"push", "sync"}
    BY <1>1, StartSteps DEF Ops, Points, Start, Spared, Composite
  <2> QED
    BY <1>b, <2>1 DEF UnpublishedInv, At, Composite
<1>2. CASE AbortStaleRebase \/ CheckClean
  <2>1. UNCHANGED origin /\ (End \/ Proceed("clean") \/ Proceed("fetch"))
    BY <1>2 DEF AbortStaleRebase, CheckClean
  <2> QED
    BY <1>c, <1>d, <1>e, <1>g, <2>1
<1>3. CASE Fetch
  <2>1. /\ UNCHANGED origin /\ tracking' = Fetched
        /\ Proceed(IF call.op = "prepare" THEN "published" ELSE "merged")
    BY <1>3 DEF Fetch
  <2>2. call'.op = call.op /\ call'.at = IF call.op = "prepare" THEN "published" ELSE "merged"
    BY <1>c, <1>g, <2>1
  <2>3. origin.feature # NoBranch => tracking'.feature # NoBranch
    BY <2>1 DEF Fetched
  <2> QED
    BY <2>1, <2>2, <2>3 DEF UnpublishedInv, At
<1>4. CASE CheckPublished
  <2>1. UNCHANGED origin /\ At("prepare", "published")
    BY <1>4 DEF CheckPublished
  <2>2. CASE /\ tracking.feature = NoBranch
             /\ call' = [call EXCEPT !.at = "materialize", !.remote = tracking.base]
    <3>1. call'.op = call.op /\ call'.at = "materialize"
      BY <1>a, <2>2 DEF CallShape
    <3> QED
      BY <2>1, <2>2, <3>1 DEF UnpublishedInv, At
  <2> QED
    BY <1>4, <1>d, <2>1, <2>2 DEF CheckPublished
<1>5. CASE Reuse \/ AdvanceFirst \/ Create \/ Preserve \/ FreeBase \/ MoveBase
  <2>1. UNCHANGED origin /\ call.op = "prepare" /\ call.at \in Late
    BY <1>5 DEF Reuse, AdvanceFirst, Create, Preserve, FreeBase, MoveBase, At
  <2>2. \E at \in Late : Proceed(at)
    BY <1>5 DEF Reuse, AdvanceFirst, Create, Preserve, FreeBase, MoveBase
  <2> QED
    BY <1>c, <1>e, <1>g, <2>1, <2>2
<1>6. ASSUME NEW conflict \in BOOLEAN, Rebase(conflict)
      PROVE  UnpublishedInv'
  <2>1. UNCHANGED origin /\ call.at \in Late /\ (End \/ Proceed("checkout"))
    BY <1>6 DEF Rebase, At
  <2> QED
    BY <1>c, <1>d, <1>e, <1>g, <2>1
<1>7. CASE \/ Checkout \/ DeleteMergedBranch \/ TrackPush \/ SyncBase \/ ChildFails
  BY <1>7, <1>d DEF Checkout, DeleteMergedBranch, TrackPush, SyncBase, ChildFails
<1>8. CASE ConfirmMerged \/ CheckReachable \/ SwitchToBase \/ AdvanceBase
  <2>1. UNCHANGED origin /\ call.op = "reconcile"
    BY <1>8 DEF ConfirmMerged, CheckReachable, SwitchToBase, AdvanceBase, At
  <2>2. End \/ call'.op = call.op
    BY <1>8, <1>a, <1>c, <1>g DEF ConfirmMerged, CheckReachable, SwitchToBase, AdvanceBase, CallShape
  <2> QED
    BY <1>d, <1>e, <2>1, <2>2
<1>9. CASE SendPush \/ FetchBase
  <2>1. call'.op \notin Composite
    <3>1. CASE SendPush
      BY <3>1, <1>c, <1>g, CallSteps DEF SendPush, At, Composite
    <3>2. CASE FetchBase
      BY <3>2, <1>a DEF FetchBase, At, Composite, CallShape
    <3> QED
      BY <1>9, <3>1, <3>2
  <2> QED
    BY <1>b, <2>1
<1>10. CASE GitCommit \/ StrandCommit \/ SwitchBranch("base") \/ SwitchBranch("feature") \/ Edit
  <2>1. UNCHANGED call /\ call.op = "none"
    BY <1>10, <1>h DEF GitCommit, StrandCommit, SwitchBranch, Edit
  <2> QED
    BY <1>b, <2>1 DEF Composite
<1>11. ASSUME NEW crash \in BOOLEAN, Kill(crash)
       PROVE  UnpublishedInv'
  <2>1. CASE call'.op \in Composite
    <3>1. call'.op = call.op /\ call'.at \in {"start", "confirm"}
      BY <1>11, <2>1 DEF Kill, Idle, Composite, Beginning
    <3>2. UNCHANGED origin
      BY <1>11, <2>1, <3>1 DEF Kill, At, Composite
    <3> QED
      BY <1>e, <3>1, <3>2
  <2> QED
    BY <1>b, <2>1
<1>12. CASE PushLands
  <2>1. origin.wire # NoBranch /\ UNCHANGED call
    BY <1>12 DEF PushLands
  <2> QED
    BY <1>b, <2>1 DEF UnpublishedInv
<1>13. ASSUME origin'.wire = origin.wire, UNCHANGED <<call, tracking>>,
              origin'.feature \in {origin.feature, NoBranch}
       PROVE  UnpublishedInv'
  BY <1>13 DEF UnpublishedInv, At
<1>14. CASE OthersLand \/ OpenRequest \/ DropBranch
  BY <1>13, <1>14, <1>a DEF OthersLand, Land, OpenRequest, DropBranch
<1>15. ASSUME NEW other \in BOOLEAN, MergeRequest(other)
       PROVE  UnpublishedInv'
  BY <1>13, <1>15, <1>a DEF MergeRequest, Land
<1> QED
  BY <1>1, <1>2, <1>3, <1>4, <1>5, <1>6, <1>7, <1>8, <1>9, <1>10, <1>11, <1>12, <1>14, <1>15
     DEF CompositesNext, PrepareStep, ReconcileStep

\* A branch of the clone changes only to one that descends from it, while the
\* origin has it (rebaseOntoRemoteBase, abortStaleRebase, commit).
LEMMA PublishedGrows ==
  ASSUME CompositesTypeOK, RebaseInv, PrepareInv, UnpublishedInv, CompositesNext,
         origin.feature # NoBranch, feature # NoBranch, feature' # NoBranch
  PROVE  Descends(feature', feature)
<1>a. feature \in Commits /\ call \in CallShape
  BY DEF CompositesTypeOK, CallShape
<1>b. UNCHANGED feature => Descends(feature', feature)
  BY DEF Descends
<1> USE DEF cloneVars
<1>1. CASE AbortStaleRebase
  <2>1. UNCHANGED feature \/ (feature' = rebasing /\ rebasing # NoBranch)
    BY <1>1 DEF AbortStaleRebase
  <2> QED
    BY <1>b, <2>1 DEF RebaseInv
<1>2. CASE Create
  BY <1>2 DEF Create, At, PrepareInv
<1>3. CASE Preserve
  BY <1>3 DEF Preserve
<1>4. ASSUME NEW conflict \in BOOLEAN, Rebase(conflict)
      PROVE  FALSE
  BY <1>4 DEF Rebase, At, UnpublishedInv
<1>5. CASE DeleteMergedBranch
  BY <1>5, <1>b DEF DeleteMergedBranch
<1>6. CASE GitCommit
  <2>1. made + 1 \in Changes
    BY <1>6, CompositesConstants DEF GitCommit, Changes, CompositesTypeOK
  <2>2. UNCHANGED feature \/ feature' = [feature EXCEPT !.adds = @ \cup {made + 1}]
    BY <1>6 DEF GitCommit
  <2>3. CASE feature' = [feature EXCEPT !.adds = @ \cup {made + 1}]
    <3>1. feature'.on = feature.on /\ feature'.adds = feature.adds \cup {made + 1}
      BY <1>a, <2>1, <2>3, CommitShapes
    <3> QED
      BY <3>1 DEF Descends
  <2> QED
    BY <1>b, <2>2, <2>3
<1>7. CASE \/ CheckClean \/ CheckPublished \/ Reuse \/ AdvanceFirst \/ FreeBase \/ MoveBase \/ Checkout
           \/ ConfirmMerged \/ CheckReachable \/ SwitchToBase \/ AdvanceBase \/ Fetch
  BY <1>7, <1>b DEF CheckClean, CheckPublished, Reuse, AdvanceFirst, FreeBase, MoveBase, Checkout,
                    ConfirmMerged, CheckReachable, SwitchToBase, AdvanceBase, Fetch
<1>8. CASE \/ SendPush \/ TrackPush \/ FetchBase \/ SyncBase \/ StrandCommit \/ SwitchBranch("base")
           \/ SwitchBranch("feature") \/ Edit \/ ChildFails \/ PushLands \/ OthersLand
           \/ OpenRequest \/ DropBranch
  BY <1>8, <1>b DEF SendPush, TrackPush, FetchBase, SyncBase, StrandCommit, SwitchBranch, Edit,
                    ChildFails, PushLands, OthersLand, OpenRequest, DropBranch
<1>9. ASSUME NEW op, NEW at, Start(op, at)
      PROVE  UNCHANGED feature
  BY <1>9 DEF Start
<1>10. ASSUME NEW crash \in BOOLEAN, Kill(crash)
       PROVE  UNCHANGED feature
  BY <1>10 DEF Kill
<1>11. ASSUME NEW other \in BOOLEAN, MergeRequest(other)
       PROVE  UNCHANGED feature
  BY <1>11 DEF MergeRequest
<1> QED
  BY <1>b, <1>1, <1>2, <1>3, <1>4, <1>5, <1>6, <1>7, <1>8, <1>9, <1>10, <1>11
     DEF CompositesNext, PrepareStep, ReconcileStep

\* A branch the origin has is never rewritten, over any number of kills and runs,
\* where a killed push has arrived before the next composite begins (composites.ts,
\* prepareBranch; git-operations.ts, push).
THEOREM PublishedBranchesOnlyGrow ==
  ASSUME "prompt" \in Avoided
  PROVE  CompositesSpec => PublishedNeverRewritten
<1> DEFINE Inv == CompositesTypeOK /\ LandedInv /\ RebaseInv /\ PrepareInv /\ ReconcileInv
           Grows == origin.feature # NoBranch /\ feature # NoBranch /\ feature' # NoBranch
                       => Descends(feature', feature)
<1>1. CompositesInit => UnpublishedInv
  BY DEF CompositesInit, UnpublishedInv, At, Idle, Composite
<1>2. Inv /\ UnpublishedInv /\ [CompositesNext]_compositeVars => UnpublishedInv'
  <2> SUFFICES ASSUME Inv, UnpublishedInv, [CompositesNext]_compositeVars
               PROVE  UnpublishedInv'
    OBVIOUS
  <2>1. CASE CompositesNext
    BY <2>1, UnpublishedStays
  <2>2. CASE UNCHANGED compositeVars
    BY <2>2 DEF compositeVars, originVars, cloneVars, UnpublishedInv, At
  <2> QED
    BY <2>1, <2>2
<1>3. Inv /\ UnpublishedInv /\ [CompositesNext]_compositeVars => [Grows]_compositeVars
  BY PublishedGrows
<1> HIDE DEF Inv
<1>4. CompositesSpec => []Inv
  BY CompositesAgree DEF Inv
<1> QED
  BY <1>1, <1>2, <1>3, <1>4, PTL DEF CompositesSpec, PublishedNeverRewritten

=============================================================================
