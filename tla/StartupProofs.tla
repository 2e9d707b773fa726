---------------------------- MODULE StartupProofs ----------------------------
(***************************************************************************)
(* Proofs about starting and stopping the service, for any number of       *)
(* instances, migrations, copies kept and records, and every segment size. *)
(*                                                                         *)
(* Each component shares the steps of boot with the others but not its     *)
(* variables, so a step is first reduced to what it is to the lease, to    *)
(* the store or to the trail (LeaseMove, StoreMove, TrailMove), and each   *)
(* of the three invariants is kept by those moves.  That one instance at a *)
(* time holds the lease (HolderInv) is what the other proofs rest on.      *)
(***************************************************************************)
EXTENDS Startup, TLAPS

\* An instance that may have written its name to the lease file, and one that
\* has, and holds the lease.
Named(i) == step[i] \notin {"new", "read", "locked"}
Late == {"leased", "checked", "open", "copied", "migrated", "telling", "told", "up", "draining"}

\* The kernel's lock is exclusive, so there is one holder; and a name in the
\* file, or remembered from it, is of an instance that wrote it.
HolderInv ==
    /\ LeaseTypeOK
    /\ step \in [Instances -> Steps]
    /\ \A i \in Instances : Holding(i) <=> lock = i
    /\ \A i \in Instances : step[i] \in Late => file = i
    /\ \A i \in Instances : file = i => Named(i)
    /\ \A i, j \in Instances : previous[j] = i => Named(i)
    /\ \A i \in confirmed : step[i] \in {"told", "up", "draining", "gone"}
    /\ \A i \in fallen : step[i] = "gone"

SightInv ==
    /\ \A i \in Instances : step[i] = "locked" => file = previous[i]
    /\ FallenAreSeen

\* The first copy of this boot is the newest of its kind until the boot ends.
WayBack(c) ==
    /\ c \in OfKind("pre-migration") /\ c.whole /\ c.of = found
    /\ \A d \in OfKind("pre-migration") : d # c => d.at < c.at

Early == {"new", "read", "locked", "leased", "checked", "gone"}

CopiesInv ==
    /\ StoreTypeOK
    /\ \A c \in copies : c.at <= stamp
    /\ \A i \in Instances :
          /\ step[i] = "open" => store = found
          /\ step[i] = "copied" => \E c \in copies : WayBack(c)
    /\ offered # NoCopy =>
          /\ offered \in copies /\ offered.whole /\ offered.of = found
          /\ \A i \in Instances : step[i] \in Early

-----------------------------------------------------------------------------
(***************************************************************************)
(* What a step is to the lease.                                            *)
(***************************************************************************)
\* A holder that wrote its name goes on, tells of the one before, or leaves.
GoesOn(i) ==
    /\ step[i] \in Late /\ step' = [step EXCEPT ![i] = step'[i]]
    /\ step'[i] \in Late
    /\ step[i] \in {"told", "up", "draining"} => step'[i] \in {"told", "up", "draining"}
    /\ UNCHANGED lease
Tells(i) ==
    /\ step[i] = "telling" /\ step' = [step EXCEPT ![i] = "told"]
    /\ ConfirmTakeoverAudited(i)
Leaves(i) ==
    /\ step[i] \in Late /\ step' = [step EXCEPT ![i] = "gone"]
    /\ Release(i)
Dies(i) ==
    /\ step[i] \notin {"new", "gone"} /\ step' = [step EXCEPT ![i] = "gone"]
    /\ Fall(i)

LeaseMove(i) ==
    \/ Start(i) \/ Acquire(i) \/ Refused(i) \/ NotExclusive(i) \/ NameHolder(i)
    \/ GoesOn(i) \/ Tells(i) \/ Leaves(i) \/ Dies(i)

\* Every step of an instance is one of these to the lease.
LEMMA LeaseMoves ==
  ASSUME HolderInv, NEW i \in Instances, Booting(i) \/ Serving(i) \/ Die(i)
  PROVE  LeaseMove(i)
<1>0. step \in [Instances -> Steps] BY DEF HolderInv
<1>1. CASE Start(i) \/ Acquire(i) \/ Refused(i) \/ NotExclusive(i) \/ NameHolder(i)
  BY <1>1 DEF LeaseMove
<1>2. CASE ImageUnfit(i) \/ Corrupt(i) \/ NoBackup(i) \/ NoMigration(i) \/ CannotComeUp(i)
  <2>1. Leaves(i)
    BY <1>2 DEF ImageUnfit, Corrupt, NoBackup, NoMigration, CannotComeUp, BootFails,
                Goes, Moves, Leaves, Late
  <2> QED BY <2>1 DEF LeaseMove
<1>3. CASE Shutdown(i)
  <2>1. Leaves(i) BY <1>3 DEF Shutdown, Goes, Moves, Leaves, Late
  <2> QED BY <2>1 DEF LeaseMove
<1>4. CASE ImageFits(i) \/ Open(i) \/ Backup(i) \/ Migrated(i) \/ NothingToTell(i) \/ Tell(i)
           \/ CannotTell(i) \/ ComeUp(i) \/ Drain(i)
  <2>1. GoesOn(i)
    BY <1>0, <1>4 DEF ImageFits, Open, Backup, Migrated, NothingToTell, Tell, CannotTell, ComeUp,
                Drain, Moves, GoesOn, Late
  <2> QED BY <2>1 DEF LeaseMove
<1>5. CASE Migrate(i) \/ Serve(i) \/ CannotLog(i) \/ Logged(i) \/ KeepTrail(i) \/ KeepCopies(i)
  <2>1. step[i] \in Late /\ UNCHANGED <<step, lease>>
    BY <1>5 DEF Migrate, Serve, CannotLog, Logged, KeepTrail, KeepCopies, Serves, Late
  <2>2. GoesOn(i) BY <1>0, <2>1 DEF GoesOn
  <2> QED BY <2>2 DEF LeaseMove
<1>6. CASE Told(i)
  <2>1. Tells(i) BY <1>6 DEF Told, Moves, Tells
  <2> QED BY <2>1 DEF LeaseMove
<1>7. CASE Die(i)
  <2>1. Dies(i) BY <1>7 DEF Die, Dies
  <2> QED BY <2>1 DEF LeaseMove
<1> QED
  BY <1>1, <1>2, <1>3, <1>4, <1>5, <1>6, <1>7 DEF Booting, Serving

LEMMA HolderInitially == Init => HolderInv
BY LeaseAssumption
   DEF Init, LeaseInit, HolderInv, LeaseTypeOK, Somebody, Steps, Holding, Named, Late

LEMMA LeaseKeepsItsType ==
  ASSUME HolderInv, NEW i \in Instances, LeaseMove(i)
  PROVE  LeaseTypeOK' /\ step' \in [Instances -> Steps]
<1> USE DEF HolderInv, LeaseTypeOK, Somebody, Steps, Late
<1>1. CASE Start(i)
  BY <1>1 DEF Start, Moves, ReadLeaseFile
<1>2. CASE Acquire(i)
  BY <1>2 DEF Acquire, Moves, TakeLock
<1>3. CASE Refused(i)
  BY <1>3 DEF Refused, Goes, Moves, lease
<1>4. CASE NotExclusive(i)
  BY <1>4 DEF NotExclusive, Goes, Moves, FailSelfTest
<1>5. CASE NameHolder(i)
  BY <1>5 DEF NameHolder, Moves, WriteLeaseFile
<1>6. CASE GoesOn(i)
  BY <1>6 DEF GoesOn, lease
<1>7. CASE Tells(i)
  BY <1>7 DEF Tells, ConfirmTakeoverAudited
<1>8. CASE Leaves(i)
  BY <1>8 DEF Leaves, Release, Untold
<1>9. CASE Dies(i)
  BY <1>9 DEF Dies, Fall, Untold
<1> QED
  BY <1>1, <1>2, <1>3, <1>4, <1>5, <1>6, <1>7, <1>8, <1>9 DEF LeaseMove

LEMMA HolderKept ==
  ASSUME HolderInv, NEW i \in Instances, LeaseMove(i)
  PROVE  HolderInv'
<1>0. LeaseTypeOK' /\ step' \in [Instances -> Steps]
  BY LeaseKeepsItsType
<1>a. None \notin Instances
  BY LeaseAssumption
<1> USE <1>a DEF HolderInv, LeaseTypeOK, Somebody, Holding, Named, Late
<1>1. CASE Start(i)
  BY <1>0, <1>1 DEF Start, Moves, ReadLeaseFile
<1>2. CASE Acquire(i)
  BY <1>0, <1>2 DEF Acquire, Moves, TakeLock
<1>3. CASE Refused(i)
  BY <1>0, <1>3 DEF Refused, Goes, Moves, lease
<1>4. CASE NotExclusive(i)
  BY <1>0, <1>4 DEF NotExclusive, Goes, Moves, FailSelfTest
<1>5. CASE NameHolder(i)
  BY <1>0, <1>5 DEF NameHolder, Moves, WriteLeaseFile
<1>6. CASE GoesOn(i)
  BY <1>0, <1>6 DEF GoesOn, lease
<1>7. CASE Tells(i)
  BY <1>0, <1>7 DEF Tells, ConfirmTakeoverAudited
<1>8. CASE Leaves(i)
  BY <1>0, <1>8 DEF Leaves, Release, Untold
<1>9. CASE Dies(i)
  BY <1>0, <1>9 DEF Dies, Fall, Untold
<1> QED
  BY <1>1, <1>2, <1>3, <1>4, <1>5, <1>6, <1>7, <1>8, <1>9 DEF LeaseMove

\* The invariants are about these variables only.
LEMMA NothingMoves ==
  ASSUME UNCHANGED vars
  PROVE  /\ HolderInv => HolderInv'
         /\ SightInv => SightInv'
         /\ CopiesInv => CopiesInv'
<1>1. UNCHANGED <<lock, file, previous, confirmed, fallen, excused, step>>
  BY DEF vars, lease
<1>2. UNCHANGED <<store, found, copies, stamp, offered, step>>
  BY DEF vars, storage
<1>3. HolderInv => HolderInv'
  BY <1>1 DEF HolderInv, LeaseTypeOK, Holding, Named
<1>4. SightInv => SightInv'
  BY <1>1 DEF SightInv, FallenAreSeen, IsTold, Holding
<1>5. CopiesInv => CopiesInv'
  BY <1>2 DEF CopiesInv, StoreTypeOK, WayBack, OfKind
<1> QED BY <1>3, <1>4, <1>5

(***************************************************************************)
(* One instance holds the lease at a time, from its lock on the volume to  *)
(* its end, and from its name in the file on the file names it: whatever   *)
(* order instances start, fail and die in, and whether or not the file     *)
(* changes under their hands (lease.ts, acquireLease).                     *)
(***************************************************************************)
THEOREM LeaseIsExclusive == Spec => []HolderInv
<1>1. Init => HolderInv
  BY HolderInitially
<1>2. ASSUME HolderInv, [Next]_vars PROVE HolderInv'
  <2>1. CASE UNCHANGED vars
    BY <1>2, <2>1, NothingMoves
  <2>2. CASE Over
    BY <1>2, <2>2, NothingMoves DEF Over
  <2>3. CASE \E i \in Instances : Booting(i) \/ Serving(i) \/ Die(i)
    BY <1>2, <2>3, LeaseMoves, HolderKept
  <2> QED BY <1>2, <2>1, <2>2, <2>3 DEF Next
<1> QED BY <1>1, <1>2, PTL DEF Spec

-----------------------------------------------------------------------------
(***************************************************************************)
(* Holders that died.                                                      *)
(***************************************************************************)
Seen(d) == IsTold(d) \/ file = d \/ \E i \in Instances : Holding(i) /\ previous[i] = d

\* What was told stays told: a name is read before anything is held.
LEMMA ToldStaysTold ==
  ASSUME HolderInv, NEW i \in Instances, LeaseMove(i), NEW d, IsTold(d)
  PROVE  IsTold(d)'
<1>1. PICK j \in confirmed : previous[j] = d
  BY DEF IsTold
<1>2. j \in confirmed'
  BY <1>1 DEF LeaseMove, Start, ReadLeaseFile, Acquire, TakeLock, Refused, lease, NotExclusive,
              FailSelfTest, NameHolder, WriteLeaseFile, GoesOn, Tells, ConfirmTakeoverAudited,
              Leaves, Release, Dies, Fall
<1>3. j \in Instances /\ step[j] # "new"
  BY <1>1 DEF HolderInv, LeaseTypeOK
<1>4. previous'[j] = previous[j]
  BY <1>3 DEF HolderInv, LeaseTypeOK, LeaseMove, Start, Moves, ReadLeaseFile, Acquire, TakeLock,
              Refused, lease, NotExclusive, FailSelfTest, NameHolder, WriteLeaseFile, GoesOn,
              Tells, ConfirmTakeoverAudited, Leaves, Release, Dies, Fall
<1> QED BY <1>1, <1>2, <1>4 DEF IsTold

\* Who is seen stays seen, or died untold of with the one who knew.
LEMMA SeenStaysSeen ==
  ASSUME HolderInv, SightInv, NEW i \in Instances, LeaseMove(i),
         NEW d \in fallen, Seen(d)
  PROVE  Seen(d)' \/ d \in excused'
<1>0. HolderInv' /\ (IsTold(d) => IsTold(d)')
  BY HolderKept, ToldStaysTold
<1>1. d \in Instances /\ ~ Holding(d) /\ None \notin Instances
  BY LeaseAssumption DEF HolderInv, LeaseTypeOK, Holding
<1>2. \A j \in Instances : Holding(j) /\ j # i => Holding(j)' /\ previous'[j] = previous[j]
  BY DEF HolderInv, LeaseTypeOK, Holding, LeaseMove, Start, Moves, Goes, ReadLeaseFile, Acquire,
         TakeLock, Refused, lease, NotExclusive, FailSelfTest, NameHolder, WriteLeaseFile, GoesOn,
         Tells, ConfirmTakeoverAudited, Leaves, Release, Dies, Fall
<1>3. CASE Start(i) \/ Acquire(i) \/ Refused(i)
  <2>1. file' = file /\ (\A j \in Instances : Holding(j) => Holding(j)' /\ previous'[j] = previous[j])
    BY <1>2, <1>3 DEF Start, Moves, Goes, ReadLeaseFile, Acquire, TakeLock, Refused, lease,
                      Holding, HolderInv
  <2> QED BY <1>0, <2>1 DEF Seen
<1>4. CASE NotExclusive(i) \/ NameHolder(i)
  <2>1. step[i] = "locked" /\ lock = i /\ file = previous[i]
    BY <1>4 DEF NotExclusive, NameHolder, Moves, Goes, HolderInv, SightInv, Holding
  <2>2. \A j \in Instances : Holding(j) => j = i
    BY <2>1 DEF HolderInv
  <2>3. IsTold(d) \/ previous[i] = d
    BY <2>1, <2>2 DEF Seen
  <2>4. CASE NotExclusive(i)
    BY <1>0, <2>1, <2>3, <2>4 DEF NotExclusive, FailSelfTest, Seen
  <2>5. CASE NameHolder(i)
    <3>1. Holding(i)' /\ previous' = previous
      BY <2>5 DEF NameHolder, Moves, WriteLeaseFile, Holding, HolderInv
    <3> QED BY <1>0, <2>3, <3>1 DEF Seen
  <2> QED BY <1>4, <2>4, <2>5
<1>5. CASE GoesOn(i) \/ Tells(i)
  <2>1. Holding(i) /\ Holding(i)' /\ previous' = previous /\ file' = file
    BY <1>5 DEF GoesOn, Tells, ConfirmTakeoverAudited, lease, Late, Holding, HolderInv
  <2> QED BY <1>0, <1>2, <2>1 DEF Seen
<1>6. CASE Leaves(i)
  <2>1. Holding(i) /\ file = i
    BY <1>6 DEF Leaves, Late, Holding, HolderInv
  <2>2. \A j \in Instances : Holding(j) => j = i
    BY <2>1 DEF HolderInv
  <2>3. IsTold(d) \/ previous[i] = d
    BY <1>1, <2>1, <2>2 DEF Seen
  <2>4. CASE i \notin confirmed /\ previous[i] = d
    BY <1>1, <1>6, <2>4 DEF Leaves, Release, Untold, Seen
  <2>5. CASE i \in confirmed /\ previous[i] = d
    BY <1>0, <2>5 DEF IsTold, Seen
  <2> QED BY <1>0, <2>3, <2>4, <2>5 DEF Seen
<1>7. CASE Dies(i)
  <2>0. previous' = previous /\ file' = file
    BY <1>7 DEF Dies, Fall
  <2>1. CASE IsTold(d) \/ file = d
    BY <1>0, <2>0, <2>1 DEF Seen
  <2>2. CASE \E j \in Instances : j # i /\ Holding(j) /\ previous[j] = d
    BY <1>2, <2>2 DEF Seen
  <2>3. CASE Holding(i) /\ previous[i] = d /\ ~ IsTold(d) /\ file # d
    <3>1. step[i] # "locked"
      BY <2>3 DEF SightInv
    <3>2. file = i
      BY <2>3, <3>1 DEF HolderInv, Holding, Late, Steps
    <3>3. Untold(i)
      BY <1>1, <2>3 DEF Untold, IsTold
    <3> QED BY <1>7, <2>3, <3>2, <3>3 DEF Dies, Fall
  <2> QED BY <2>1, <2>2, <2>3 DEF Seen
<1> QED
  BY <1>3, <1>4, <1>5, <1>6, <1>7 DEF LeaseMove

LEMMA SightKept ==
  ASSUME HolderInv, SightInv, "apart" \in Careful, NEW i \in Instances, LeaseMove(i)
  PROVE  SightInv'
<1>0. HolderInv' /\ None \notin Instances
  BY HolderKept, LeaseAssumption
<1>1. ASSUME NEW j \in Instances, step'[j] = "locked" PROVE file' = previous'[j]
  <2>1. CASE Acquire(i) /\ j = i
    BY <2>1 DEF Acquire, TakeLock
  <2>2. CASE step[j] = "locked" /\ j # i
    <3>1. lock = j /\ step[i] \notin Late \cup {"locked"} /\ file = previous[j]
      BY <2>2 DEF HolderInv, SightInv, Holding, Late
    <3> QED
      BY <2>2, <3>1 DEF HolderInv, LeaseTypeOK, LeaseMove, Start, Moves, ReadLeaseFile, Acquire,
                        TakeLock, Refused, lease, NotExclusive, Goes, NameHolder, GoesOn, Tells,
                        Leaves, Dies, Fall, Late
  <2> QED
    BY <1>1, <2>1, <2>2 DEF HolderInv, LeaseMove, Start, Moves, Acquire, Refused, NotExclusive,
                            Goes, NameHolder, GoesOn, Tells, Leaves, Dies, Late
<1>2. ASSUME NEW d \in fallen', d \notin excused' PROVE Seen(d)'
  <2>1. excused \subseteq excused'
    BY DEF LeaseMove, Start, ReadLeaseFile, Acquire, TakeLock, Refused, lease, NotExclusive,
           FailSelfTest, NameHolder, WriteLeaseFile, GoesOn, Tells, ConfirmTakeoverAudited,
           Leaves, Release, Dies, Fall
  <2>2. CASE d \in fallen
    BY <1>2, <2>1, <2>2, SeenStaysSeen DEF SightInv, FallenAreSeen, Seen
  <2>3. CASE d \notin fallen
    <3>1. Dies(i) /\ d = i /\ file' = i
      BY <1>2, <2>3 DEF LeaseMove, Start, ReadLeaseFile, Acquire, TakeLock, Refused, lease,
             NotExclusive, FailSelfTest, NameHolder, WriteLeaseFile, GoesOn, Tells,
             ConfirmTakeoverAudited, Leaves, Release, Dies, Fall
    <3> QED BY <3>1 DEF Seen
  <2> QED BY <2>2, <2>3
<1> QED
  BY <1>1, <1>2 DEF SightInv, FallenAreSeen, Seen

(***************************************************************************)
(* A holder that died is in the audit trail, or the lease file names it,   *)
(* or the instance that took its place knows it and will tell, for any     *)
(* number of instances, provided the file does not change between an       *)
(* instance's reading it and its taking the lock (boot.ts and lease.ts).   *)
(***************************************************************************)
THEOREM FallenStaySeen ==
  ASSUME "apart" \in Careful
  PROVE  Spec => []FallenAreSeen
<1>1. Init => SightInv
  BY DEF Init, LeaseInit, SightInv, FallenAreSeen
<1>2. ASSUME HolderInv, SightInv, [Next]_vars PROVE SightInv'
  <2>1. CASE UNCHANGED vars
    BY <1>2, <2>1, NothingMoves
  <2>2. CASE Over
    BY <1>2, <2>2, NothingMoves DEF Over
  <2>3. CASE \E i \in Instances : Booting(i) \/ Serving(i) \/ Die(i)
    BY <1>2, <2>3, LeaseMoves, SightKept
  <2> QED BY <1>2, <2>1, <2>2, <2>3 DEF Next
<1>3. SightInv => FallenAreSeen
  BY DEF SightInv
<1> QED BY <1>1, <1>2, <1>3, LeaseIsExclusive, PTL DEF Spec

-----------------------------------------------------------------------------
(***************************************************************************)
(* The store and its copies.                                               *)
(***************************************************************************)
\* A step of instance i that leaves the store alone goes from one step of
\* boot to another, and to a later one than the copy only by Migrated.
Apace(i) ==
    /\ UNCHANGED storage
    /\ step' = [step EXCEPT ![i] = step'[i]]
    /\ step'[i] \notin {"open", "copied"} \/ step'[i] = step[i]
    /\ step[i] \in Early => step'[i] \in Early

StoreMove(i) ==
    \/ Open(i) \/ Backup(i) \/ NoBackup(i) \/ Migrate(i) \/ NoMigration(i)
    \/ Serves(i) /\ ChangeContents /\ UNCHANGED step
    \/ KeepCopies(i)
    \/ Apace(i)

LEMMA StoreMoves ==
  ASSUME HolderInv, NEW i \in Instances, Booting(i) \/ Serving(i) \/ Die(i)
  PROVE  StoreMove(i)
<1>0. step \in [Instances -> Steps] BY DEF HolderInv
<1>1. CASE Open(i) \/ Backup(i) \/ NoBackup(i) \/ Migrate(i) \/ NoMigration(i) \/ KeepCopies(i)
  BY <1>1 DEF StoreMove
<1>2. CASE Start(i) \/ Acquire(i) \/ Refused(i) \/ NotExclusive(i) \/ NameHolder(i) \/ ImageFits(i)
  <2>1. Apace(i)
    BY <1>0, <1>2 DEF Start, Acquire, Refused, NotExclusive, NameHolder, ImageFits, Moves, Goes,
                      Apace, Early
  <2> QED BY <2>1 DEF StoreMove
<1>3. CASE ImageUnfit(i) \/ Corrupt(i) \/ CannotComeUp(i) \/ Shutdown(i) \/ Die(i)
  <2>1. UNCHANGED storage /\ step' = [step EXCEPT ![i] = "gone"]
    BY <1>3 DEF ImageUnfit, Corrupt, CannotComeUp, BootFails, Shutdown, Die, Moves, Goes
  <2>2. Apace(i)
    BY <1>0, <2>1 DEF Apace, Early
  <2> QED BY <2>2 DEF StoreMove
<1>4. CASE Migrated(i) \/ NothingToTell(i) \/ Tell(i) \/ CannotTell(i) \/ Told(i) \/ ComeUp(i)
           \/ Drain(i)
  <2>1. Apace(i)
    BY <1>0, <1>4 DEF Migrated, NothingToTell, Tell, CannotTell, Told, ComeUp, Drain, Moves, Apace, Early
  <2> QED BY <2>1 DEF StoreMove
<1>5. CASE Serve(i) \/ CannotLog(i) \/ Logged(i) \/ KeepTrail(i)
  <2>1. CASE UNCHANGED <<step, storage>>
    <3>1. Apace(i) BY <1>0, <2>1 DEF Apace
    <3> QED BY <3>1 DEF StoreMove
  <2>2. CASE Serve(i) /\ ~ UNCHANGED storage
    BY <2>2 DEF Serve, StoreMove
  <2> QED BY <1>5, <2>1, <2>2 DEF Serve, CannotLog, Logged, KeepTrail
<1> QED
  BY <1>1, <1>2, <1>3, <1>4, <1>5 DEF Booting, Serving

\* A copy is of the store as it is, later than any other.
LEMMA CopyIsNewest ==
  ASSUME StoreTypeOK, \A c \in copies : c.at <= stamp,
         NEW kind \in {"pre-migration", "snapshot"}, NEW whole \in BOOLEAN
  PROVE  /\ TheCopy(kind, whole) \in Copies
         /\ TheCopy(kind, whole).at = stamp + 1
         /\ \A c \in copies : c.at \in Nat /\ c.at < stamp + 1
BY DEF StoreTypeOK, TheCopy, Copies

\* The newest copy before a migration is this boot's.
LEMMA NewestIsThisBoots ==
  ASSUME StoreTypeOK, NEW c \in copies, WayBack(c)
  PROVE  NewestOf("pre-migration") = c
<1>1. \A d \in OfKind("pre-migration") : d.at \in Int
  BY DEF StoreTypeOK, Copies, OfKind
<1>2. c \in OfKind("pre-migration") /\ \A d \in OfKind("pre-migration") : d.at <= c.at
  BY <1>1 DEF WayBack
<1>3. ASSUME NEW x \in OfKind("pre-migration"), \A d \in OfKind("pre-migration") : d.at <= x.at
      PROVE  x = c
  <2>1. c.at <= x.at
    BY <1>2, <1>3
  <2>2. x # c => x.at < c.at
    BY <1>3 DEF WayBack
  <2> QED BY <1>1, <1>2, <2>1, <2>2
<1> QED
  BY <1>2, <1>3 DEF NewestOf

LEMMA StoreKeepsItsType ==
  ASSUME CopiesInv, NEW i \in Instances, StoreMove(i)
  PROVE  StoreTypeOK' /\ (\A c \in copies' : c.at <= stamp')
<1>0. /\ store \in Stores /\ found \in Stores /\ copies \subseteq Copies /\ stamp \in Nat
      /\ offered \in Copies \cup {NoCopy}
      /\ \A c \in copies : c.at \in Nat /\ c.at <= stamp
  BY DEF CopiesInv, StoreTypeOK, Copies
<1>a. \A kind \in {"pre-migration", "snapshot"}, whole \in BOOLEAN :
         TheCopy(kind, whole) \in Copies /\ TheCopy(kind, whole).at = stamp + 1
  BY CopyIsNewest DEF CopiesInv
<1>b. ASSUME NEW kind \in {"pre-migration", "snapshot"}, NEW whole \in BOOLEAN,
             copies' \subseteq copies \cup {TheCopy(kind, whole)}, stamp' = stamp + 1
      PROVE  copies' \subseteq Copies /\ stamp' \in Nat /\ \A c \in copies' : c.at <= stamp'
  <2>1. copies' \subseteq Copies /\ stamp' \in Nat
    BY <1>0, <1>a, <1>b
  <2>2. ASSUME NEW c \in copies' PROVE c.at <= stamp'
    <3>1. CASE c \in copies
      BY <1>0, <1>b, <3>1
    <3>2. CASE c = TheCopy(kind, whole)
      BY <1>0, <1>a, <1>b, <3>2
    <3> QED BY <1>b, <3>1, <3>2
  <2> QED BY <2>1, <2>2
<1>1. CASE Open(i) \/ Apace(i)
  BY <1>0, <1>1 DEF Open, OpenStore, Apace, storage, StoreTypeOK
<1>2. CASE Backup(i)
  <2>1. copies' = copies \cup {TheCopy("pre-migration", TRUE)} /\ stamp' = stamp + 1
        /\ UNCHANGED <<store, found, offered>>
    BY <1>2 DEF Backup, BackupStore, CopyTo
  <2> QED BY <1>0, <1>b, <2>1 DEF StoreTypeOK
<1>3. CASE NoBackup(i)
  <2>1. copies' \subseteq copies \cup {TheCopy("pre-migration", FALSE)} /\ stamp' = stamp + 1
        /\ UNCHANGED <<store, found, offered>>
    BY <1>3 DEF NoBackup, BackupFails, CopyFails
  <2> QED BY <1>0, <1>b, <2>1 DEF StoreTypeOK
<1>4. CASE Migrate(i)
  <2>1. store' \in Stores
    BY <1>0, <1>4, StoreFileAssumption DEF Migrate, ApplyMigration, Pending, Stores
  <2> QED BY <1>0, <1>4, <2>1 DEF Migrate, ApplyMigration, StoreTypeOK
<1>5. CASE NoMigration(i)
  <2>1. NewestOf("pre-migration") \in copies
    BY <1>0, <1>5, NewestIsThisBoots DEF NoMigration, BootFails, Goes, Moves, CopiesInv
  <2> QED BY <1>0, <1>5, <2>1 DEF NoMigration, MigrationFails, StoreTypeOK
<1>6. CASE Serves(i) /\ ChangeContents /\ UNCHANGED step
  <2>1. store' \in Stores
    BY <1>0, <1>6, StoreFileAssumption DEF ChangeContents, Stores
  <2> QED BY <1>0, <1>6, <2>1 DEF ChangeContents, StoreTypeOK
<1>7. CASE KeepCopies(i)
  <2>1. \A all : Pruned(all) \subseteq all
    BY DEF Pruned
  <2>2. CASE copies' = Pruned(copies) /\ UNCHANGED stamp
    BY <1>0, <1>7, <2>1, <2>2 DEF KeepCopies, RetainStore, StoreTypeOK
  <2>3. CASE stamp' = stamp + 1 /\ \E whole \in BOOLEAN : copies' = Pruned(copies \cup {TheCopy("snapshot", whole)})
    <3>1. PICK whole \in BOOLEAN : copies' \subseteq copies \cup {TheCopy("snapshot", whole)}
      BY <2>1, <2>3
    <3> QED BY <1>0, <1>b, <1>7, <2>3, <3>1 DEF KeepCopies, RetainStore, StoreTypeOK
  <2> QED BY <1>7, <2>2, <2>3 DEF KeepCopies, RetainStore
<1> QED
  BY <1>1, <1>2, <1>3, <1>4, <1>5, <1>6, <1>7 DEF StoreMove

LEMMA CopiesKept ==
  ASSUME HolderInv, CopiesInv, NEW i \in Instances, StoreMove(i)
  PROVE  CopiesInv'
<1>0. StoreTypeOK' /\ (\A c \in copies' : c.at <= stamp')
  BY StoreKeepsItsType
<1>a. ASSUME NEW j \in Instances, step[j] \notin Early, step[i] \notin {"new", "read", "gone"}
      PROVE  i = j
  BY <1>a DEF HolderInv, Holding, Early
<1>b. step \in [Instances -> Steps] /\ StoreTypeOK /\ (\A c \in copies : c.at <= stamp)
  BY DEF HolderInv, CopiesInv
<1>1. ASSUME NEW j \in Instances, step'[j] = "open" PROVE store' = found'
  <2>1. CASE Open(i) /\ i = j
    BY <2>1 DEF Open, OpenStore
  <2>2. CASE step[j] = "open" /\ ~ Open(i)
    <3>1. store = found
      BY <2>2 DEF CopiesInv
    <3>2. CASE Apace(i)
      BY <3>1, <3>2 DEF Apace, storage
    <3>3. CASE ~ Apace(i)
      <4>1. i = j
        BY <1>a, <2>2, <3>3 DEF StoreMove, Open, Backup, NoBackup, Migrate, NoMigration, KeepCopies,
              Serves, BootFails, Goes, Moves, Early
      <4> QED
        BY <1>1, <1>b, <2>2, <3>3, <4>1 DEF StoreMove, Backup, NoBackup, Migrate, NoMigration,
              KeepCopies, Serves, BootFails, Goes, Moves
    <3> QED BY <3>2, <3>3
  <2>3. CASE Open(i) /\ i # j
    BY <1>1, <1>a, <1>b, <2>3 DEF Open, Moves, Early
  <2> QED
    BY <1>1, <1>b, <2>1, <2>2, <2>3 DEF StoreMove, Apace, Open, Backup, NoBackup, Migrate, NoMigration,
          KeepCopies, BootFails, Goes, Moves
<1>2. ASSUME NEW j \in Instances, step'[j] = "copied" PROVE \E c \in copies' : WayBack(c)'
  <2>1. CASE Backup(i) /\ i = j
    <3>1. store = found
      BY <2>1 DEF Backup, Moves, CopiesInv
    <3> DEFINE c == TheCopy("pre-migration", TRUE)
    <3>2. copies' = copies \cup {c} /\ found' = found
      BY <2>1 DEF Backup, BackupStore, CopyTo
    <3>3. c.kind = "pre-migration" /\ c.whole /\ c.of = found /\ c.at = stamp + 1
      BY <3>1 DEF TheCopy
    <3>4. \A d \in copies : d.at < c.at
      BY <1>b, <3>3, CopyIsNewest
    <3> QED BY <3>2, <3>3, <3>4 DEF WayBack, OfKind
  <2>2. CASE step[j] = "copied" /\ ~ Backup(i)
    <3>1. PICK c \in copies : WayBack(c)
      BY <2>2 DEF CopiesInv
    <3>2. found' = found /\ copies' = copies
      <4>1. CASE Apace(i)
        BY <4>1 DEF Apace, storage
      <4>2. CASE ~ Apace(i)
        <5>1. i = j
          BY <1>a, <2>2, <4>2 DEF StoreMove, Open, NoBackup, Migrate, NoMigration, KeepCopies,
                Serves, BootFails, Goes, Moves, Early
        <5> QED
          BY <2>2, <4>2, <5>1 DEF StoreMove, Open, NoBackup, Migrate, ApplyMigration, NoMigration,
                MigrationFails, KeepCopies, Serves, BootFails, Goes, Moves
      <4> QED BY <4>1, <4>2
    <3> QED BY <3>1, <3>2 DEF WayBack, OfKind
  <2>3. CASE Backup(i) /\ i # j
    BY <1>2, <1>a, <1>b, <2>3 DEF Backup, Moves, Early
  <2> QED
    BY <1>2, <1>b, <2>1, <2>2, <2>3 DEF StoreMove, Apace, Open, Backup, NoBackup, Migrate, NoMigration,
          KeepCopies, BootFails, Goes, Moves
<1>3. ASSUME offered' # NoCopy
      PROVE  /\ offered' \in copies' /\ offered'.whole /\ offered'.of = found'
             /\ \A j \in Instances : step'[j] \in Early
  <2>1. CASE NoMigration(i)
    <3>1. PICK c \in copies : WayBack(c)
      BY <2>1 DEF NoMigration, BootFails, Goes, Moves, CopiesInv
    <3>2. offered' = c /\ copies' = copies /\ found' = found
      BY <1>b, <2>1, <3>1, NewestIsThisBoots DEF NoMigration, MigrationFails
    <3>3. \A j \in Instances : step'[j] \in Early
      BY <1>a, <1>b, <2>1 DEF NoMigration, BootFails, Goes, Moves, Early
    <3> QED BY <3>1, <3>2, <3>3 DEF WayBack
  <2>2. CASE ~ NoMigration(i)
    <3>1. offered' = offered
      BY <1>3, <2>2 DEF StoreMove, Open, OpenStore, Backup, BackupStore, NoBackup, BackupFails, Migrate,
            ApplyMigration, ChangeContents, KeepCopies, RetainStore, Apace, storage
    <3>2. \A j \in Instances : step[j] \in Early
      BY <1>3, <3>1 DEF CopiesInv
    <3>3. Apace(i)
      BY <1>3, <2>2, <3>2 DEF StoreMove, Open, OpenStore, Backup, NoBackup, Migrate, KeepCopies,
            Serves, BootFails, Goes, Moves, Early
    <3> QED BY <1>3, <1>b, <3>1, <3>2, <3>3 DEF Apace, storage, CopiesInv
  <2> QED BY <2>1, <2>2
<1> QED
  BY <1>0, <1>1, <1>2, <1>3 DEF CopiesInv

(***************************************************************************)
(* The copy a failed migration names to the operator is whole, is of the   *)
(* store as that boot found it and is there, for any number of instances,  *)
(* migrations and copies kept, whatever fails, and although a copy cut     *)
(* short and the copies of every other boot lie beside it                  *)
(* (structured-store.ts, backupBeforeMigration and migrate).               *)
(***************************************************************************)
THEOREM FailureAlwaysNamesWayBack == Spec => []FailureNamesWayBack
<1>1. Init => CopiesInv
  BY StoreFileAssumption DEF Init, StoreInit, CopiesInv, StoreTypeOK, Stores, NoCopy
<1>2. ASSUME HolderInv, CopiesInv, [Next]_vars PROVE CopiesInv'
  <2>1. CASE UNCHANGED vars
    BY <1>2, <2>1, NothingMoves
  <2>2. CASE Over
    BY <1>2, <2>2, NothingMoves DEF Over
  <2>3. CASE \E i \in Instances : Booting(i) \/ Serving(i) \/ Die(i)
    BY <1>2, <2>3, StoreMoves, CopiesKept
  <2> QED BY <1>2, <2>1, <2>2, <2>3 DEF Next
<1>3. CopiesInv => FailureNamesWayBack
  BY DEF CopiesInv, FailureNamesWayBack
<1> QED BY <1>1, <1>2, <1>3, LeaseIsExclusive, PTL DEF Spec

-----------------------------------------------------------------------------
(***************************************************************************)
(* The audit trail.  The segments on disk are those from `first' to `last' *)
(* and those before them are anchored; the trail continues from line to    *)
(* line, and from segment to segment through the end of each, which its    *)
(* anchor keeps.                                                           *)
(***************************************************************************)
Records == [seq : Nat \ {0}, id : Nat, prev : Nat, names : Instances \cup {NoName}]
Ends == [seq : Nat, id : Nat]
Tails == [known : BOOLEAN, head : Ends, segment : Nat, size : Nat]

Follows(line, from) == line.prev = from.id /\ line.seq = from.seq + 1

EndOf(s) ==
    IF s \in DOMAIN segments THEN End(segments[s][Len(segments[s])])
    ELSE IF s \in DOMAIN anchors THEN anchors[s]
    ELSE Genesis

\* The files: whole lines, each following the one before.
FilesAt(first, last) ==
    /\ first \in Nat \ {0} /\ last \in Nat /\ (first <= last \/ (first = 1 /\ last = 0))
    /\ DOMAIN segments = first..last
    /\ ragged = {}
    /\ \A s \in first..last : segments[s] \in Seq(Records) /\ segments[s] # << >>
    /\ \A s \in first..last : \A k \in 2..Len(segments[s]) :
          Follows(segments[s][k], segments[s][k - 1])
    /\ \A s \in first..last : Follows(segments[s][1], EndOf(s - 1))

\* The rows: an anchor for every segment deleted, a mirror that is not ahead.
RowsAt(first, last) ==
    /\ DOMAIN anchors = 1..(first - 1)
    /\ \A s \in 1..(first - 1) : anchors[s] \in Ends
    /\ mirror # NoName => mirror.seq \in Nat /\ mirror.seq <= EndOf(last).seq

\* The process: where it writes next, and what follows what.
TailAt(last) ==
    /\ issued \in Nat
    /\ tail \in Tails
    /\ tail.known =>
          \/ last > 0 /\ tail.segment = last /\ tail.size = Len(segments[last])
          \/ tail.segment = last + 1 /\ tail.size = 0
    /\ tail.known /\ writing = NoName => tail.head = EndOf(last)
    /\ writing # NoName =>
          /\ tail.known /\ last > 0 /\ tail.segment = last
          /\ writing \in Records /\ End(writing) = EndOf(last)
          /\ \E k \in DOMAIN segments[last] : segments[last][k].id = writing.id

AnsweredAt(last) ==
    \A a \in acked :
        /\ a.segment \in 1..last
        /\ a.segment \in DOMAIN segments =>
              \E k \in DOMAIN segments[a.segment] : segments[a.segment][k].id = a.id

TrailAt(first, last) ==
    FilesAt(first, last) /\ RowsAt(first, last) /\ TailAt(last) /\ AnsweredAt(last)

TrailInv == \E first \in Nat \ {0}, last \in Nat : TrailAt(first, last)

LEMMA RangeEnds ==
  ASSUME NEW a \in Nat, NEW b \in Nat, a <= b
  PROVE  Newest(a..b) = b /\ Oldest(a..b) = a
<1>1. b \in a..b /\ \A m \in a..b : m <= b
  OBVIOUS
<1>2. a \in a..b /\ \A m \in a..b : a <= m
  OBVIOUS
<1>3. \A n \in a..b : (\A m \in a..b : m <= n) => n = b
  BY <1>1
<1>4. \A n \in a..b : (\A m \in a..b : n <= m) => n = a
  BY <1>2
<1> QED BY <1>1, <1>2, <1>3, <1>4 DEF Newest, Oldest

\* Every line of a whole trail can be read.
LEMMA LinesAreLegible ==
  ASSUME NEW first \in Nat \ {0}, NEW last \in Nat, FilesAt(first, last), NEW s \in first..last
  PROVE  /\ Len(segments[s]) \in Nat \ {0} /\ DOMAIN segments[s] = 1..Len(segments[s])
         /\ \A k \in 1..Len(segments[s]) : segments[s][k] \in Records
         /\ Legible(s) = 1..Len(segments[s]) /\ AllLegible(s)
<1>1. segments[s] \in Seq(Records) /\ segments[s] # << >>
  BY DEF FilesAt
<1>2. Len(segments[s]) \in Nat \ {0} /\ DOMAIN segments[s] = 1..Len(segments[s])
  BY <1>1
<1>3. \A k \in 1..Len(segments[s]) : segments[s][k] \in Records
  BY <1>1
<1>4. \A k \in 1..Len(segments[s]) : Readable(segments[s][k])
  BY <1>3 DEF Records, Readable
<1> QED BY <1>2, <1>3, <1>4 DEF Legible, AllLegible

LEMMA EndOfIsEnd ==
  ASSUME NEW first \in Nat \ {0}, NEW last \in Nat, FilesAt(first, last), RowsAt(first, last),
         NEW s \in Nat
  PROVE  EndOf(s) \in Ends
<1>1. CASE s \in first..last
  <2>1. segments[s][Len(segments[s])] \in Records
    BY <1>1, LinesAreLegible
  <2> QED BY <1>1, <2>1 DEF FilesAt, EndOf, End, Records, Ends
<1>2. CASE s \notin first..last
  BY <1>2 DEF FilesAt, RowsAt, EndOf, Genesis, Ends
<1> QED BY <1>1, <1>2

LEMMA DerivedIsEnd ==
  ASSUME NEW first \in Nat \ {0}, NEW last \in Nat, FilesAt(first, last), RowsAt(first, last)
  PROVE  DerivedHead = EndOf(last)
<1> DEFINE holding == {s \in DOMAIN segments : Legible(s) # {}}
<1>1. holding = first..last
  <2>1. \A s \in first..last : Legible(s) # {}
    <3> SUFFICES ASSUME NEW s \in first..last PROVE Legible(s) # {}
      OBVIOUS
    <3>1. Len(segments[s]) \in Nat \ {0} /\ Legible(s) = 1..Len(segments[s])
      BY LinesAreLegible
    <3> QED BY <3>1
  <2> QED BY <2>1 DEF FilesAt
<1>2. CASE last = 0
  <2>1. holding = {}
    BY <1>1, <1>2
  <2>2. EndOf(0) = Genesis
    BY <1>2 DEF EndOf, FilesAt, RowsAt
  <2> QED BY <1>2, <2>1, <2>2 DEF DerivedHead
<1>3. CASE last # 0
  <2>1. first <= last /\ last \in first..last
    BY <1>3 DEF FilesAt
  <2>2. Newest(holding) = last /\ holding # {}
    BY <1>1, <2>1, RangeEnds
  <2>3. Newest(Legible(last)) = Len(segments[last])
    <3>1. Len(segments[last]) \in Nat \ {0} /\ Legible(last) = 1..Len(segments[last])
      BY <2>1, LinesAreLegible
    <3> QED BY <3>1, RangeEnds
  <2> QED BY <2>1, <2>2, <2>3 DEF DerivedHead, EndOf, FilesAt
<1> QED BY <1>2, <1>3

\* What the process remembers, or finds when it looks first.
LEMMA HydratedIsTail ==
  ASSUME NEW first \in Nat \ {0}, NEW last \in Nat, TrailAt(first, last)
  PROVE  /\ Hydrated \in Tails /\ Hydrated.known
         /\ writing = NoName => Hydrated.head = EndOf(last)
         /\ writing # NoName => Hydrated = tail
         /\ \/ last > 0 /\ Hydrated.segment = last /\ Hydrated.size = Len(segments[last])
            \/ Hydrated.segment = last + 1 /\ Hydrated.size = 0
<1>1. CASE tail.known
  BY <1>1 DEF TrailAt, TailAt, Hydrated
<1>2. CASE ~ tail.known
  <2>1. DerivedHead = EndOf(last) /\ EndOf(last) \in Ends
    BY DerivedIsEnd, EndOfIsEnd DEF TrailAt
  <2>2. writing = NoName
    BY <1>2 DEF TrailAt, TailAt
  <2>3. CASE last = 0
    <3>0. DOMAIN segments = {}
      BY <2>3 DEF TrailAt, FilesAt
    <3>1. Hydrated = [known |-> TRUE, head |-> DerivedHead, segment |-> 1, size |-> 0]
      BY <1>2, <3>0 DEF Hydrated
    <3> QED BY <2>1, <2>2, <2>3, <3>1 DEF Tails
  <2>4. CASE last # 0
    <3>1. last \in first..last /\ DOMAIN segments = first..last /\ first <= last
      BY <2>4 DEF TrailAt, FilesAt
    <3>2. Newest(DOMAIN segments) = last /\ Len(segments[last]) \in Nat
      BY <3>1, RangeEnds, LinesAreLegible DEF TrailAt
    <3>3. Hydrated = [known |-> TRUE, head |-> DerivedHead, segment |-> last, size |-> Len(segments[last])]
      BY <1>2, <3>1, <3>2 DEF Hydrated
    <3> QED BY <2>1, <2>2, <2>4, <3>2, <3>3 DEF Tails
  <2> QED BY <2>3, <2>4
<1> QED BY <1>1, <1>2 DEF TrailAt, TailAt, Tails

\* A new segment is begun or the last one is written on.
LEMMA RolledIsTail ==
  ASSUME NEW first \in Nat \ {0}, NEW last \in Nat, TrailAt(first, last), writing = NoName
  PROVE  LET t == Rolled(Hydrated)
         IN  /\ t \in Tails /\ t.known /\ t.head = EndOf(last)
             /\ \/ last > 0 /\ t.segment = last /\ t.size = Len(segments[last])
                \/ t.segment = last + 1 /\ t.size = 0
<1> DEFINE h == Hydrated
<1>1. /\ h \in Tails /\ h.known /\ h.head = EndOf(last)
      /\ \/ last > 0 /\ h.segment = last /\ h.size = Len(segments[last])
         \/ h.segment = last + 1 /\ h.size = 0
  BY HydratedIsTail
<1> HIDE DEF h
<1>2. CASE Rolled(h) = h
  BY <1>1, <1>2 DEF h
<1>3. CASE Rolled(h) # h
  <2>1. h.size > 0 /\ Rolled(h) = [h EXCEPT !.segment = @ + 1, !.size = 0]
    BY <1>3 DEF Rolled
  <2>2. /\ Rolled(h) \in Tails /\ Rolled(h).known = h.known /\ Rolled(h).head = h.head
        /\ Rolled(h).segment = h.segment + 1 /\ Rolled(h).size = 0
    <3>1. h = [known |-> h.known, head |-> h.head, segment |-> h.segment, size |-> h.size]
      BY <1>1 DEF Tails
    <3>2. Rolled(h) = [known |-> h.known, head |-> h.head, segment |-> h.segment + 1, size |-> 0]
      BY <2>1, <3>1
    <3> QED BY <1>1, <3>2 DEF Tails
  <2>3. h.segment = last
    BY <1>1, <2>1
  <2> QED BY <1>1, <2>2, <2>3 DEF h
<1> QED BY <1>2, <1>3

\* A line written at the end of the trail continues it, and moves no other end.
LEMMA LineAdded ==
  ASSUME NEW first \in Nat \ {0}, NEW last \in Nat, FilesAt(first, last), RowsAt(first, last),
         NEW n \in Nat, n = last + 1 \/ (n = last /\ last > 0),
         NEW record \in Records, Follows(record, EndOf(last)),
         segments' = WithLine(n, record), ragged' = ragged \ {n}, anchors' = anchors
  PROVE  /\ FilesAt(first, n)'
         /\ EndOf(n)' = End(record)
         /\ Len(segments'[n]) = (IF n = last THEN Len(segments[n]) ELSE 0) + 1
         /\ segments'[n][Len(segments'[n])] = record
         /\ \A s \in first..last : \A k \in DOMAIN segments[s] :
               k \in DOMAIN segments'[s] /\ segments'[s][k] = segments[s][k]
<1>0. /\ first <= last \/ (first = 1 /\ last = 0)
      /\ DOMAIN segments = first..last /\ ragged = {}
      /\ \A s \in first..last : segments[s] \in Seq(Records) /\ segments[s] # << >>
      /\ \A s \in first..last : \A k \in 2..Len(segments[s]) :
            Follows(segments[s][k], segments[s][k - 1])
      /\ \A s \in first..last : Follows(segments[s][1], EndOf(s - 1))
  BY DEF FilesAt
<1>1. first..n = (first..last) \cup {n} /\ first <= n /\ n \in first..n
  BY <1>0
<1>2. DOMAIN segments' = first..n /\ ragged' = {}
  BY <1>0, <1>1 DEF WithLine
<1>3. \A s \in first..last : s # n => segments'[s] = segments[s]
  BY <1>0 DEF WithLine
<1>4. segments'[n] = Extended(n, record)
  BY <1>0, <1>1 DEF WithLine
<1>5. CASE n = last + 1
  <2>1. n \notin first..last
    BY <1>5
  <2>2. segments'[n] = <<record>>
    BY <1>0, <1>4, <2>1 DEF Extended
  <2>3. \A s \in first..last : segments'[s] = segments[s]
    BY <1>3, <2>1
  <2>4. \A s \in Nat : s # n => EndOf(s)' = EndOf(s)
    BY <1>0, <1>1, <1>2, <2>3 DEF EndOf
  <2>5. Len(segments'[n]) = 1 /\ segments'[n][1] = record
        /\ segments'[n] \in Seq(Records) /\ segments'[n] # << >>
    BY <2>2
  <2>6. EndOf(n)' = End(record)
    BY <1>1, <1>2, <2>5 DEF EndOf
  <2>7. \A s \in first..n : segments'[s] \in Seq(Records) /\ segments'[s] # << >>
    BY <1>0, <1>1, <2>3, <2>5
  <2>8. \A s \in first..n : \A k \in 2..Len(segments'[s]) :
           Follows(segments'[s][k], segments'[s][k - 1])
    BY <1>0, <1>1, <2>3, <2>5
  <2>9. ASSUME NEW s \in first..n PROVE Follows(segments'[s][1], EndOf(s - 1)')
    <3>1. CASE s = n
      BY <1>5, <2>4, <2>5, <3>1
    <3>2. CASE s \in first..last
      <4>1. s - 1 \in Nat /\ s - 1 # n
        BY <1>5, <3>2
      <4> QED BY <1>0, <2>3, <2>4, <3>2, <4>1
    <3> QED BY <1>1, <3>1, <3>2
  <2>10. FilesAt(first, n)'
    BY <1>1, <1>2, <2>7, <2>8, <2>9 DEF FilesAt
  <2>11. n # last /\ Len(segments'[n]) = 0 + 1
    BY <1>5, <2>5
  <2>12. segments'[n][Len(segments'[n])] = record
    BY <2>5
  <2> QED BY <2>3, <2>6, <2>10, <2>11, <2>12
<1>6. CASE n = last /\ last > 0
  <2>0. n \in first..last
    BY <1>0, <1>6
  <2> DEFINE old == segments[n]
             m   == Len(old)
  <2>1. old \in Seq(Records) /\ m \in Nat \ {0}
    BY <1>0, <2>0
  <2>2. segments'[n] = Append(old, record)
    BY <1>0, <1>4, <2>0 DEF Extended
  <2>3. /\ segments'[n] \in Seq(Records) /\ Len(segments'[n]) = m + 1
        /\ segments'[n][m + 1] = record /\ \A k \in 1..m : segments'[n][k] = old[k]
    BY <2>1, <2>2
  <2>4. \A s \in Nat : s # n => EndOf(s)' = EndOf(s)
    BY <1>0, <1>1, <1>2, <1>3 DEF EndOf
  <2>5. EndOf(n)' = End(record)
    BY <1>1, <1>2, <2>3 DEF EndOf
  <2>6. EndOf(n) = End(old[m])
    BY <1>0, <2>0 DEF EndOf
  <2>7. \A s \in first..n : segments'[s] \in Seq(Records) /\ segments'[s] # << >>
    <3>1. segments'[n] # << >>
      BY <2>1, <2>3
    <3> QED BY <1>0, <1>3, <1>6, <2>3, <3>1
  <2>8. ASSUME NEW s \in first..n, NEW k \in 2..Len(segments'[s])
        PROVE  Follows(segments'[s][k], segments'[s][k - 1])
    <3>1. CASE s # n
      BY <1>0, <1>3, <1>6, <3>1
    <3>2. CASE s = n /\ k = m + 1
      <4>1. segments'[s][k] = record /\ segments'[s][k - 1] = old[m]
        BY <2>1, <2>3, <3>2
      <4> QED BY <1>6, <2>6, <4>1 DEF Follows, End
    <3>3. CASE s = n /\ k # m + 1
      <4>1. k \in 2..m /\ k - 1 \in 1..m
        BY <2>1, <2>3, <3>3
      <4>2. Follows(old[k], old[k - 1])
        BY <1>0, <2>0, <4>1
      <4>3. segments'[s][k] = old[k] /\ segments'[s][k - 1] = old[k - 1]
        BY <2>3, <3>3, <4>1
      <4> QED BY <4>2, <4>3
    <3> QED BY <3>1, <3>2, <3>3
  <2>9. ASSUME NEW s \in first..n PROVE Follows(segments'[s][1], EndOf(s - 1)')
    <3>1. segments'[s][1] = segments[s][1]
      BY <1>3, <1>6, <2>1, <2>3
    <3>2. s - 1 \in Nat /\ s - 1 # n
      BY <1>6
    <3> QED BY <1>0, <1>6, <2>4, <3>1, <3>2
  <2>10. FilesAt(first, n)'
    BY <1>1, <1>2, <2>7, <2>8, <2>9 DEF FilesAt
  <2>11. ASSUME NEW s \in first..last, NEW k \in DOMAIN segments[s]
         PROVE  k \in DOMAIN segments'[s] /\ segments'[s][k] = segments[s][k]
    <3>1. CASE s # n
      BY <1>3, <3>1
    <3>2. CASE s = n
      <4>1. k \in 1..m
        BY <2>1, <3>2
      <4>2. DOMAIN segments'[n] = 1..(m + 1)
        BY <2>3
      <4> QED BY <2>1, <2>3, <3>2, <4>1, <4>2
    <3> QED BY <3>1, <3>2
  <2> QED BY <1>6, <2>3, <2>5, <2>10, <2>11
<1> QED BY <1>5, <1>6

LEMMA WriteKeepsTrail ==
  ASSUME NEW first \in Nat \ {0}, NEW last \in Nat, TrailAt(first, last),
         NEW names \in Instances \cup {NoName}, WriteRecord(names)
  PROVE  \E n \in Nat : TrailAt(first, n)'
<1> SUFFICES ASSUME NEW t, t = Rolled(Hydrated), NEW n, n = t.segment,
                    NEW record, record = NextRecord(t, names)
             PROVE  n \in Nat /\ TrailAt(first, n)'
  OBVIOUS
<1>1. /\ writing = NoName /\ issued' = issued + 1 /\ issued \in Nat
      /\ tail' = [t EXCEPT !.size = @ + 1] /\ segments' = WithLine(n, record)
      /\ ragged' = ragged \ {n} /\ writing' = record
      /\ anchors' = anchors /\ mirror' = mirror /\ acked' = acked
  BY DEF WriteRecord, TrailAt, TailAt
<1>2. /\ t \in Tails /\ t.known /\ t.head = EndOf(last)
      /\ \/ last > 0 /\ n = last /\ t.size = Len(segments[last])
         \/ n = last + 1 /\ t.size = 0
  BY <1>1, RolledIsTail
<1>3. FilesAt(first, last) /\ RowsAt(first, last) /\ AnsweredAt(last)
  BY DEF TrailAt
<1>4. EndOf(last) \in Ends
  BY <1>3, EndOfIsEnd
<1>5. record \in Records /\ Follows(record, EndOf(last))
  BY <1>1, <1>2, <1>4 DEF NextRecord, Records, Ends, Follows
<1>6. n \in Nat /\ (n = last + 1 \/ (n = last /\ last > 0))
  BY <1>2 DEF Tails
<1>7. /\ FilesAt(first, n)'
      /\ EndOf(n)' = End(record)
      /\ Len(segments'[n]) = (IF n = last THEN Len(segments[n]) ELSE 0) + 1
      /\ segments'[n][Len(segments'[n])] = record
      /\ \A s \in first..last : \A k \in DOMAIN segments[s] :
            k \in DOMAIN segments'[s] /\ segments'[s][k] = segments[s][k]
  BY <1>1, <1>3, <1>5, <1>6, LineAdded
<1>8. RowsAt(first, n)'
  <2>1. record.seq = EndOf(last).seq + 1 /\ End(record).seq = record.seq
    BY <1>5 DEF Follows, End
  <2>2. mirror # NoName => mirror.seq \in Nat /\ mirror.seq <= EndOf(last).seq
    BY <1>3 DEF RowsAt
  <2>3. mirror' # NoName => mirror'.seq \in Nat /\ mirror'.seq <= EndOf(n)'.seq
    BY <1>1, <1>4, <1>7, <2>1, <2>2 DEF Ends
  <2> QED BY <1>1, <1>3, <2>3 DEF RowsAt
<1>9. TailAt(n)'
  <2>1. t = [known |-> t.known, head |-> t.head, segment |-> n, size |-> t.size]
    BY <1>2 DEF Tails
  <2>2. tail' = [known |-> t.known, head |-> t.head, segment |-> n, size |-> t.size + 1]
    BY <1>1, <2>1
  <2>3. tail' \in Tails /\ tail'.known /\ tail'.segment = n /\ tail'.size = t.size + 1
    BY <1>2, <2>2 DEF Tails
  <2>4. n > 0 /\ tail'.size = Len(segments'[n])
    BY <1>2, <1>6, <1>7, <2>3
  <2>5. record # NoName
    BY <1>5, StartupAssumption DEF Records
  <2>6. Len(segments'[n]) \in DOMAIN segments'[n]
    <3>1. segments'[n] \in Seq(Records) /\ segments'[n] # << >>
      BY <1>3, <1>6, <1>7 DEF FilesAt
    <3> QED BY <3>1
  <2>7. \E k \in DOMAIN segments'[n] : segments'[n][k].id = record.id
    BY <1>7, <2>6
  <2>8. issued' \in Nat
    BY <1>1
  <2> QED BY <1>1, <1>5, <1>7, <2>3, <2>4, <2>5, <2>7, <2>8 DEF TailAt
<1>10. AnsweredAt(n)'
  <2> SUFFICES ASSUME NEW a \in acked
               PROVE  /\ a.segment \in 1..n
                      /\ a.segment \in DOMAIN segments' =>
                            \E k \in DOMAIN segments'[a.segment] : segments'[a.segment][k].id = a.id
    BY <1>1 DEF AnsweredAt
  <2>1. a.segment \in 1..last /\ DOMAIN segments = first..last /\ DOMAIN segments' = first..n
    BY <1>3, <1>7 DEF AnsweredAt, FilesAt
  <2>2. a.segment \in 1..n
    BY <1>6, <2>1
  <2>3. CASE a.segment \in first..last
    <3>1. PICK k \in DOMAIN segments[a.segment] : segments[a.segment][k].id = a.id
      BY <1>3, <2>1, <2>3 DEF AnsweredAt
    <3> QED BY <1>7, <2>2, <2>3, <3>1
  <2>4. CASE a.segment \notin first..last
    BY <2>1, <2>2, <2>4
  <2> QED BY <2>3, <2>4
<1> QED BY <1>6, <1>7, <1>8, <1>9, <1>10 DEF TrailAt

LEMMA FailedWriteKeepsTrail ==
  ASSUME NEW first \in Nat \ {0}, NEW last \in Nat, TrailAt(first, last), WriteFails(FALSE)
  PROVE  TrailAt(first, last)'
<1> DEFINE t == Rolled(Hydrated)
<1>1. /\ writing = NoName /\ tail' = t
      /\ UNCHANGED <<segments, ragged, anchors, mirror, writing, acked, issued>>
  BY DEF WriteFails
<1>2. /\ t \in Tails /\ t.known /\ t.head = EndOf(last)
      /\ \/ last > 0 /\ t.segment = last /\ t.size = Len(segments[last])
         \/ t.segment = last + 1 /\ t.size = 0
  BY <1>1, RolledIsTail
<1> HIDE DEF t
<1>3. EndOf(last)' = EndOf(last) /\ (FilesAt(first, last) => FilesAt(first, last)')
  BY <1>1 DEF EndOf, FilesAt
<1>4. TailAt(last)'
  BY <1>1, <1>2, <1>3 DEF TrailAt, TailAt
<1> QED BY <1>1, <1>3, <1>4 DEF TrailAt, RowsAt, AnsweredAt

LEMMA AnswerKeepsTrail ==
  ASSUME NEW first \in Nat \ {0}, NEW last \in Nat, TrailAt(first, last),
         NEW mirrored \in BOOLEAN, AnswerAppend(mirrored)
  PROVE  TrailAt(first, last)'
<1>1. /\ writing # NoName /\ writing' = NoName
      /\ mirror' = (IF mirrored THEN End(writing) ELSE mirror)
      /\ tail' = [tail EXCEPT !.head = End(writing)]
      /\ acked' = acked \cup {[id |-> writing.id, segment |-> tail.segment]}
      /\ UNCHANGED <<segments, ragged, anchors, issued>>
  BY DEF AnswerAppend
<1>2. /\ tail.known /\ last > 0 /\ tail.segment = last /\ tail \in Tails /\ issued \in Nat
      /\ writing \in Records /\ End(writing) = EndOf(last)
      /\ \E k \in DOMAIN segments[last] : segments[last][k].id = writing.id
      /\ tail.size = Len(segments[last])
  BY <1>1 DEF TrailAt, TailAt
<1>3. EndOf(last)' = EndOf(last) /\ (FilesAt(first, last) => FilesAt(first, last)')
  BY <1>1 DEF EndOf, FilesAt
<1>4. EndOf(last) \in Ends
  BY EndOfIsEnd DEF TrailAt
<1>5. TailAt(last)'
  <2>1. tail' = [known |-> tail.known, head |-> EndOf(last), segment |-> last, size |-> tail.size]
    BY <1>1, <1>2 DEF Tails
  <2>2. tail' \in Tails
    BY <1>2, <1>4, <2>1 DEF Tails
  <2> QED BY <1>1, <1>2, <1>3, <2>1, <2>2 DEF TailAt
<1>6. RowsAt(first, last)'
  <2>1. mirror' # NoName => mirror'.seq \in Nat /\ mirror'.seq <= EndOf(last)'.seq
    <3>1. CASE mirrored
      BY <1>1, <1>2, <1>3, <1>4, <3>1 DEF Ends
    <3>2. CASE ~ mirrored
      BY <1>1, <1>3, <3>2 DEF TrailAt, RowsAt
    <3> QED BY <3>1, <3>2
  <2> QED BY <1>1, <2>1 DEF TrailAt, RowsAt
<1>7. AnsweredAt(last)'
  <2> SUFFICES ASSUME NEW a \in acked'
               PROVE  /\ a.segment \in 1..last
                      /\ a.segment \in DOMAIN segments =>
                            \E k \in DOMAIN segments[a.segment] : segments[a.segment][k].id = a.id
    BY <1>1 DEF AnsweredAt
  <2>1. CASE a \in acked
    BY <2>1 DEF TrailAt, AnsweredAt
  <2>2. CASE a = [id |-> writing.id, segment |-> last]
    BY <1>2, <2>2
  <2> QED BY <1>1, <1>2, <2>1, <2>2
<1> QED BY <1>3, <1>5, <1>6, <1>7 DEF TrailAt

LEMMA ForgettingKeepsTrail ==
  ASSUME NEW first \in Nat \ {0}, NEW last \in Nat, TrailAt(first, last), ForgetTail
  PROVE  TrailAt(first, last)'
<1>1. /\ tail' = Unknown /\ writing' = NoName
      /\ UNCHANGED <<segments, ragged, anchors, mirror, acked, issued>>
  BY DEF ForgetTail
<1>2. EndOf(last)' = EndOf(last) /\ (FilesAt(first, last) => FilesAt(first, last)')
  BY <1>1 DEF EndOf, FilesAt
<1>3. Unknown \in Tails /\ ~ Unknown.known
  BY DEF Unknown, Tails, Ends, Genesis
<1> QED BY <1>1, <1>2, <1>3 DEF TrailAt, RowsAt, TailAt, AnsweredAt

\* Deleting the oldest segments leaves every end where it was.
LEMMA PruningKeepsTrail ==
  ASSUME NEW first \in Nat \ {0}, NEW last \in Nat, TrailAt(first, last),
         NEW old \in Closed, PruneTrail(old, {})
  PROVE  \E f \in Nat \ {0} : TrailAt(f, last)'
<1>1. FilesAt(first, last) /\ RowsAt(first, last)
  BY DEF TrailAt
<1>2. Closed = first..(last - 1) /\ first <= last /\ old \in first..(last - 1)
  <2>1. DOMAIN segments = first..last /\ (first <= last \/ (first = 1 /\ last = 0))
    BY <1>1 DEF FilesAt
  <2>2. DOMAIN segments # {}
    BY DEF Closed
  <2>3. first <= last
    BY <2>1, <2>2
  <2>4. Newest(DOMAIN segments) = last
    BY <2>1, <2>3, RangeEnds
  <2>5. (first..last) \ {last} = first..(last - 1)
    BY <2>3
  <2>6. Closed = first..(last - 1)
    BY <2>1, <2>2, <2>4, <2>5 DEF Closed
  <2> QED BY <2>3, <2>6
<1> DEFINE sound == {s \in Closed : s <= old /\ AllLegible(s)}
<1>3. sound = first..old
  <2>1. \A s \in first..last : AllLegible(s)
    BY <1>1, LinesAreLegible
  <2> QED BY <1>2, <2>1
<1>4. /\ anchors' = [s \in DOMAIN anchors \cup sound |->
                        IF s \in DOMAIN anchors THEN anchors[s] ELSE End(Last(segments[s]))]
      /\ segments' = [s \in DOMAIN segments \ sound |-> segments[s]]
      /\ ragged' = ragged \ sound /\ tail' = Hydrated
      /\ UNCHANGED <<mirror, writing, acked, issued>>
  BY DEF PruneTrail
<1> HIDE DEF sound
<1>5. /\ DOMAIN segments = first..last /\ DOMAIN anchors = 1..(first - 1) /\ ragged = {}
      /\ old \in Nat \ {0} /\ old < last /\ first <= old
  BY <1>1, <1>2 DEF FilesAt, RowsAt
<1>6. DOMAIN segments' = (old + 1)..last /\ DOMAIN anchors' = 1..old /\ ragged' = {}
  BY <1>3, <1>4, <1>5
<1>7. \A s \in (old + 1)..last : segments'[s] = segments[s]
  BY <1>4, <1>6
<1>8. \A s \in 1..(first - 1) : anchors'[s] = anchors[s]
  BY <1>4, <1>5
<1>9. \A s \in first..old : anchors'[s] = End(segments[s][Len(segments[s])])
  BY <1>3, <1>4, <1>5 DEF Last
<1>10. ASSUME NEW s \in Nat PROVE EndOf(s)' = EndOf(s)
  <2>1. CASE s \in (old + 1)..last
    <3>1. s \in DOMAIN segments /\ s \in DOMAIN segments' /\ segments'[s] = segments[s]
      BY <1>5, <1>6, <1>7, <2>1
    <3> QED BY <3>1 DEF EndOf
  <2>2. CASE s \in first..old
    <3>1. /\ s \in DOMAIN segments /\ s \notin DOMAIN segments' /\ s \in DOMAIN anchors'
          /\ anchors'[s] = End(segments[s][Len(segments[s])])
      BY <1>5, <1>6, <1>9, <2>2
    <3> QED BY <3>1 DEF EndOf
  <2>3. CASE s \in 1..(first - 1)
    <3>1. /\ s \notin DOMAIN segments /\ s \notin DOMAIN segments'
          /\ s \in DOMAIN anchors /\ s \in DOMAIN anchors' /\ anchors'[s] = anchors[s]
      BY <1>5, <1>6, <1>8, <2>3
    <3> QED BY <3>1 DEF EndOf
  <2>4. CASE s = 0 \/ s > last
    <3>1. /\ s \notin DOMAIN segments /\ s \notin DOMAIN segments'
          /\ s \notin DOMAIN anchors /\ s \notin DOMAIN anchors'
      BY <1>5, <1>6, <2>4
    <3> QED BY <3>1 DEF EndOf
  <2> QED BY <1>5, <2>1, <2>2, <2>3, <2>4
<1>11. FilesAt(old + 1, last)'
  <2>1. \A s \in (old + 1)..last :
           s \in first..last /\ s - 1 \in Nat /\ EndOf(s - 1)' = EndOf(s - 1)
    BY <1>5, <1>10
  <2>2. old + 1 \in Nat \ {0} /\ old + 1 <= last
    BY <1>5
  <2>3. \A s \in (old + 1)..last : Follows(segments'[s][1], EndOf(s - 1)')
    BY <1>1, <1>7, <2>1 DEF FilesAt
  <2>4. \A s \in (old + 1)..last :
           /\ segments'[s] \in Seq(Records) /\ segments'[s] # << >>
           /\ \A k \in 2..Len(segments'[s]) : Follows(segments'[s][k], segments'[s][k - 1])
    BY <1>1, <1>7, <2>1 DEF FilesAt
  <2> QED BY <1>6, <2>2, <2>3, <2>4 DEF FilesAt
<1>12. RowsAt(old + 1, last)'
  <2>1. ASSUME NEW s \in 1..old PROVE anchors'[s] \in Ends
    <3>1. anchors'[s] = EndOf(s)
      BY <1>5, <1>8, <1>9, <2>1 DEF EndOf
    <3> QED BY <1>1, <3>1, EndOfIsEnd
  <2>2. (old + 1) - 1 = old
    BY <1>5
  <2>3. EndOf(last)' = EndOf(last)
    BY <1>10
  <2> QED BY <1>1, <1>4, <1>6, <2>1, <2>2, <2>3 DEF RowsAt
<1>13. TailAt(last)'
  <2>1. last \in (old + 1)..last
    BY <1>5
  <2>2. segments'[last] = segments[last] /\ EndOf(last)' = EndOf(last)
    BY <1>7, <1>10, <2>1
  <2>3. /\ Hydrated \in Tails /\ Hydrated.known
        /\ writing = NoName => Hydrated.head = EndOf(last)
        /\ writing # NoName => Hydrated = tail
        /\ \/ last > 0 /\ Hydrated.segment = last /\ Hydrated.size = Len(segments[last])
           \/ Hydrated.segment = last + 1 /\ Hydrated.size = 0
    BY HydratedIsTail
  <2>4. TailAt(last)
    BY DEF TrailAt
  <2> QED BY <1>4, <2>2, <2>3, <2>4 DEF TailAt
<1>14. AnsweredAt(last)'
  <2> SUFFICES ASSUME NEW a \in acked
               PROVE  /\ a.segment \in 1..last
                      /\ a.segment \in DOMAIN segments' =>
                            \E k \in DOMAIN segments'[a.segment] : segments'[a.segment][k].id = a.id
    BY <1>4 DEF AnsweredAt
  <2>1. /\ a.segment \in 1..last
        /\ a.segment \in DOMAIN segments =>
              \E k \in DOMAIN segments[a.segment] : segments[a.segment][k].id = a.id
    BY DEF TrailAt, AnsweredAt
  <2>2. \A s \in DOMAIN segments' : s \in DOMAIN segments /\ segments'[s] = segments[s]
    BY <1>5, <1>6, <1>7
  <2> QED BY <2>1, <2>2
<1> QED BY <1>5, <1>11, <1>12, <1>13, <1>14 DEF TrailAt

\* What a step is to the trail when lines are written whole and deletions work.
TrailMove ==
    \/ UNCHANGED trail
    \/ \E names \in Instances \cup {NoName} : WriteRecord(names)
    \/ WriteFails(FALSE)
    \/ \E mirrored \in BOOLEAN : AnswerAppend(mirrored)
    \/ \E old \in Closed : PruneTrail(old, {})
    \/ ForgetTail

LEMMA TrailMoves ==
  ASSUME HolderInv, {"whole", "unlink"} \subseteq Careful,
         NEW i \in Instances, Booting(i) \/ Serving(i) \/ Die(i)
  PROVE  TrailMove
<1>1. CASE Start(i) \/ Acquire(i) \/ Refused(i) \/ NotExclusive(i) \/ NameHolder(i) \/ ImageFits(i)
           \/ Open(i) \/ Backup(i) \/ Migrate(i) \/ Migrated(i) \/ NothingToTell(i) \/ ComeUp(i)
           \/ Drain(i) \/ KeepCopies(i)
  BY <1>1 DEF Start, Acquire, Refused, NotExclusive, NameHolder, ImageFits, Open, Backup, Migrate,
              Migrated, NothingToTell, ComeUp, Drain, KeepCopies, TrailMove
<1>2. CASE ImageUnfit(i) \/ Corrupt(i) \/ NoBackup(i) \/ NoMigration(i) \/ CannotComeUp(i)
           \/ Shutdown(i)
  BY <1>2 DEF ImageUnfit, Corrupt, NoBackup, NoMigration, CannotComeUp, Shutdown, BootFails, TrailMove
<1>3. CASE Tell(i)
  <2>1. previous[i] \in Instances
    BY <1>3 DEF Tell, HolderInv, LeaseTypeOK, Somebody
  <2> QED BY <1>3, <2>1 DEF Tell, TrailMove
<1>4. CASE CannotTell(i) \/ CannotLog(i)
  BY <1>4 DEF CannotTell, CannotLog, TrailMove
<1>5. CASE Told(i) \/ Logged(i)
  BY <1>5 DEF Told, Logged, TrailMove
<1>6. CASE Serve(i)
  BY <1>6 DEF Serve, TrailMove
<1>7. CASE KeepTrail(i)
  BY <1>7 DEF KeepTrail, TrailMove
<1>8. CASE Die(i)
  BY <1>8 DEF Die, TrailMove
<1> QED
  BY <1>1, <1>2, <1>3, <1>4, <1>5, <1>6, <1>7, <1>8 DEF Booting, Serving

LEMMA TrailKept ==
  ASSUME TrailInv, TrailMove
  PROVE  TrailInv'
<1>0. PICK first \in Nat \ {0}, last \in Nat : TrailAt(first, last)
  BY DEF TrailInv
<1>1. CASE UNCHANGED trail
  <2>1. TrailAt(first, last)'
    BY <1>0, <1>1 DEF trail, TrailAt, FilesAt, RowsAt, TailAt, AnsweredAt, EndOf
  <2> QED BY <2>1 DEF TrailInv
<1>2. CASE \E names \in Instances \cup {NoName} : WriteRecord(names)
  BY <1>0, <1>2, WriteKeepsTrail DEF TrailInv
<1>3. CASE WriteFails(FALSE)
  BY <1>0, <1>3, FailedWriteKeepsTrail DEF TrailInv
<1>4. CASE \E mirrored \in BOOLEAN : AnswerAppend(mirrored)
  BY <1>0, <1>4, AnswerKeepsTrail DEF TrailInv
<1>5. CASE \E old \in Closed : PruneTrail(old, {})
  BY <1>0, <1>5, PruningKeepsTrail DEF TrailInv
<1>6. CASE ForgetTail
  BY <1>0, <1>6, ForgettingKeepsTrail DEF TrailInv
<1> QED BY <1>1, <1>2, <1>3, <1>4, <1>5, <1>6 DEF TrailMove

LEMMA TrailInvariant ==
  ASSUME {"whole", "unlink"} \subseteq Careful
  PROVE  Spec => []TrailInv
<1>1. Init => TrailInv
  <2> SUFFICES ASSUME Init PROVE TrailAt(1, 0)
    BY DEF TrailInv
  <2>1. /\ segments = << >> /\ ragged = {} /\ anchors = << >> /\ mirror = NoName
        /\ tail = Unknown /\ writing = NoName /\ acked = {} /\ issued = 0
    BY DEF Init, TrailInit
  <2>2. Unknown \in Tails /\ ~ Unknown.known
    BY DEF Unknown, Tails, Ends, Genesis
  <2> QED BY <2>1, <2>2 DEF TrailAt, FilesAt, RowsAt, TailAt, AnsweredAt
<1>2. ASSUME HolderInv, TrailInv, [Next]_vars PROVE TrailInv'
  <2>1. CASE UNCHANGED vars \/ Over
    <3>1. TrailMove
      BY <2>1 DEF Over, vars, TrailMove
    <3> QED BY <1>2, <3>1, TrailKept
  <2>2. CASE \E i \in Instances : Booting(i) \/ Serving(i) \/ Die(i)
    BY <1>2, <2>2, TrailMoves, TrailKept
  <2> QED BY <1>2, <2>1, <2>2 DEF Next
<1> QED BY <1>1, <1>2, LeaseIsExclusive, PTL DEF Spec

\* A trail whose files continue each other verifies, from the anchors or, when
\* there are none, from nothing.
LEMMA WholeTrailVerifies ==
  ASSUME TrailInv, NEW readAnchors, NEW readMirror,
         readAnchors = anchors \/ (DOMAIN readAnchors = {} /\ DOMAIN anchors = {}),
         readMirror = mirror \/ readMirror = NoName
  PROVE  ~ Broken(readAnchors, readMirror)
<1>0. PICK first \in Nat \ {0}, last \in Nat : FilesAt(first, last) /\ RowsAt(first, last)
  BY DEF TrailInv, TrailAt
<1>1. DOMAIN segments = first..last /\ (first <= last \/ (first = 1 /\ last = 0))
  BY <1>0 DEF FilesAt
<1>2. DOMAIN anchors = 1..(first - 1)
  BY <1>0 DEF RowsAt
<1> DEFINE files == DOMAIN segments
           before == IF files = {} THEN 0 ELSE Oldest(files) - 1
           start == IF before \in DOMAIN readAnchors THEN readAnchors[before] ELSE Genesis
           end == IF files = {} THEN start ELSE Last(segments[Newest(files)])
<1>3. before = first - 1
  BY <1>1, RangeEnds
<1>4. start = EndOf(first - 1)
  <2>1. first - 1 \notin DOMAIN segments
    BY <1>1
  <2>2. CASE first = 1
    BY <1>2, <1>3, <2>1, <2>2 DEF EndOf
  <2>3. CASE first # 1
    <3>1. first - 1 \in DOMAIN anchors /\ readAnchors = anchors
      BY <1>2, <2>3
    <3> QED BY <1>3, <2>1, <3>1 DEF EndOf
  <2> QED BY <2>2, <2>3
<1>5. end.seq = EndOf(last).seq
  <2>1. CASE last = 0
    BY <1>1, <1>4, <2>1
  <2>2. CASE last # 0
    <3>1. files # {} /\ Newest(files) = last /\ last \in files
      BY <1>1, <2>2, RangeEnds
    <3> QED BY <3>1 DEF EndOf, End, Last
  <2> QED BY <2>1, <2>2
<1>6. ~ (readMirror # NoName /\ readMirror.seq > end.seq)
  <2>1. EndOf(last).seq \in Nat
    BY <1>0, EndOfIsEnd DEF Ends
  <2> QED BY <1>0, <1>5, <2>1 DEF RowsAt
<1>7. ASSUME NEW s \in files, NEW k \in DOMAIN segments[s]
      PROVE  /\ Readable(segments[s][k])
             /\ Follows(segments[s][k], LineBefore(s, k, start))
  <2>1. /\ s \in first..last /\ Len(segments[s]) \in Nat \ {0} /\ k \in 1..Len(segments[s])
        /\ segments[s][k] \in Records
    BY <1>0, <1>1, <1>7, LinesAreLegible
  <2>2. Readable(segments[s][k])
    BY <2>1 DEF Records, Readable
  <2>3. CASE k > 1
    <3>1. k \in 2..Len(segments[s])
      BY <2>1, <2>3
    <3> QED BY <1>0, <2>1, <2>2, <2>3, <3>1 DEF FilesAt, LineBefore
  <2>4. CASE k = 1
    <3>0. Follows(segments[s][1], EndOf(s - 1))
      BY <1>0, <2>1 DEF FilesAt
    <3> DEFINE earlier == {t \in DOMAIN segments : t < s}
    <3>1. earlier = first..(s - 1)
      BY <1>1, <2>1
    <3>2. CASE s = first
      <4>1. LineBefore(s, k, start) = start
        BY <2>4, <3>1, <3>2 DEF LineBefore
      <4> QED BY <1>4, <2>2, <2>4, <3>0, <3>2, <4>1
    <3>3. CASE s # first
      <4>1. s - 1 \in first..last /\ earlier # {} /\ Newest(earlier) = s - 1
        <5>1. s - 1 \in Nat /\ first <= s - 1 /\ s - 1 <= last
          BY <2>1, <3>3
        <5>2. Newest(first..(s - 1)) = s - 1
          BY <5>1, RangeEnds
        <5>3. s - 1 \in first..(s - 1) /\ s - 1 \in first..last
          BY <5>1
        <5> QED BY <3>1, <5>2, <5>3
      <4>2. LineBefore(s, k, start) = Last(segments[s - 1])
        BY <2>4, <4>1 DEF LineBefore
      <4>3. EndOf(s - 1) = End(Last(segments[s - 1]))
        BY <1>1, <4>1 DEF EndOf, Last
      <4> QED BY <2>2, <2>4, <3>0, <4>2, <4>3 DEF Follows, End
    <3> QED BY <3>2, <3>3
  <2> QED BY <2>1, <2>3, <2>4
<1> QED
  BY <1>6, <1>7 DEF Broken, Follows

(***************************************************************************)
(* Verification never reports a break that nobody made: not after a lost   *)
(* mirror write, a crash between a record and its answer, a failed append, *)
(* a pruned segment or a restart, nor, while nothing was pruned, when the  *)
(* store cannot be read; for every segment size and every number of        *)
(* records and instances, provided lines are written whole and a segment   *)
(* that is anchored can be deleted (audit.ts, verifyFromDisk,              *)
(* ensureInitialized and doAppend).                                        *)
(***************************************************************************)
THEOREM BreaksAreNeverFalse ==
  ASSUME {"whole", "unlink"} \subseteq Careful
  PROVE  Spec => []NoFalseBreak
<1>1. TrailInv => NoFalseBreak
  <2> SUFFICES ASSUME TrailInv PROVE NoFalseBreak
    OBVIOUS
  <2>1. ~ ChainBroken(TRUE)
    BY WholeTrailVerifies DEF ChainBroken, ReadAnchors, ReadMirror
  <2>2. ASSUME DOMAIN anchors = {} PROVE ~ ChainBroken(FALSE)
    <3>1. DOMAIN << >> = {}
      OBVIOUS
    <3>2. ~ Broken(<< >>, NoName)
      BY <2>2, <3>1, WholeTrailVerifies
    <3> QED BY <3>2 DEF ChainBroken, ReadAnchors, ReadMirror
  <2> QED BY <2>1, <2>2 DEF NoFalseBreak
<1> QED BY <1>1, TrailInvariant, PTL

(***************************************************************************)
(* A record whose append was answered is in what a query returns until its *)
(* segment is anchored and deleted, and no line fails the query, for every *)
(* segment size and every number of records and instances, under the same  *)
(* proviso (audit.ts, doAppend, query and runRetention).                   *)
(***************************************************************************)
THEOREM AckedAlwaysReadable ==
  ASSUME {"whole", "unlink"} \subseteq Careful
  PROVE  Spec => []AckedStaysReadable
<1>1. TrailInv => AckedStaysReadable
  <2> SUFFICES ASSUME TrailInv, NEW a \in acked
               PROVE  IF a.segment \in DOMAIN segments THEN a.id \in Queried
                      ELSE a.segment \in DOMAIN anchors
    BY DEF AckedStaysReadable
  <2>0. PICK first \in Nat \ {0}, last \in Nat : TrailAt(first, last)
    BY DEF TrailInv
  <2>1. /\ DOMAIN segments = first..last /\ DOMAIN anchors = 1..(first - 1)
        /\ a.segment \in 1..last
        /\ a.segment \in DOMAIN segments =>
              \E k \in DOMAIN segments[a.segment] : segments[a.segment][k].id = a.id
    BY <2>0 DEF TrailAt, FilesAt, RowsAt, AnsweredAt
  <2>2. \A s \in DOMAIN segments : AllLegible(s)
    BY <2>0, <2>1, LinesAreLegible DEF TrailAt
  <2>3. CASE a.segment \in DOMAIN segments
    <3>1. PICK k \in DOMAIN segments[a.segment] : segments[a.segment][k].id = a.id
      BY <2>1, <2>3
    <3>2. a.id \in {segments[a.segment][m].id : m \in DOMAIN segments[a.segment]}
      BY <3>1
    <3> QED BY <2>2, <2>3, <3>2 DEF Queried
  <2>4. CASE a.segment \notin DOMAIN segments
    BY <2>1, <2>4
  <2> QED BY <2>3, <2>4
<1> QED BY <1>1, TrailInvariant, PTL
=============================================================================
