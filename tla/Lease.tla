------------------------------- MODULE Lease -------------------------------
(***************************************************************************)
(* The instance lease (src/src/lifecycle/lease.ts): a lock on the volume   *)
(* that the kernel releases when its holder ends, and a file that names    *)
(* the holder, which a holder that dies leaves behind.  An instance reads  *)
(* the file first, takes the lock second and writes its own name third;    *)
(* each is a step, and other instances come between.                       *)
(***************************************************************************)
CONSTANTS Instances,   \* every start of the service, by the id it draws
          None         \* nobody

ASSUME LeaseAssumption == None \notin Instances

VARIABLES lock,        \* who holds the lock
          file,        \* whom the file names
          previous,    \* whom the file named when each instance read it
          confirmed,   \* the instances whose takeover is in the audit trail
          fallen,      \* the holders that died with their name in the file
          excused      \* those whose successor died, too, before it told

lease == <<lock, file, previous, confirmed, fallen, excused>>

Somebody == Instances \cup {None}

LeaseTypeOK ==
    /\ lock \in Somebody
    /\ file \in Somebody
    /\ previous \in [Instances -> Somebody]
    /\ confirmed \subseteq Instances
    /\ fallen \subseteq Instances
    /\ excused \subseteq Instances

LeaseInit ==
    /\ lock = None /\ file = None
    /\ previous = [i \in Instances |-> None]
    /\ confirmed = {} /\ fallen = {} /\ excused = {}

-----------------------------------------------------------------------------
\* readLeaseFile, before the lock.
ReadLeaseFile(i) ==
    /\ previous' = [previous EXCEPT ![i] = file]
    /\ UNCHANGED <<lock, file, confirmed, fallen, excused>>

TakeLock(i) ==
    /\ lock = None
    /\ lock' = i
    /\ UNCHANGED <<file, previous, confirmed, fallen, excused>>

\* The child got the lock too: the volume cannot be used, the file is left.
FailSelfTest(i) ==
    /\ lock' = None
    /\ UNCHANGED <<file, previous, confirmed, fallen, excused>>

WriteLeaseFile(i) ==
    /\ file' = i
    /\ UNCHANGED <<lock, previous, confirmed, fallen, excused>>

ConfirmTakeoverAudited(i) ==
    /\ confirmed' = confirmed \cup {i}
    /\ UNCHANGED <<lock, file, previous, fallen, excused>>

Untold(i) == previous[i] # None /\ i \notin confirmed

\* Mutation of Release: the holder's file is simply removed.
ReleaseForgets(i) ==
    /\ file' = None
    /\ lock' = None
    /\ UNCHANGED <<previous, confirmed, fallen, excused>>

\* release: the name goes before the lock, and gives way to the one it
\* replaced while that takeover is not in the trail.
Release(i) ==
    /\ file' = IF Untold(i) THEN previous[i] ELSE None
    /\ lock' = None
    /\ UNCHANGED <<previous, confirmed, fallen, excused>>

\* The kernel's half of a death.
Fall(i) ==
    /\ lock' = IF lock = i THEN None ELSE lock
    /\ fallen' = IF file = i THEN fallen \cup {i} ELSE fallen
    /\ excused' = IF file = i /\ Untold(i) THEN excused \cup {previous[i]} ELSE excused
    /\ UNCHANGED <<file, previous, confirmed>>
=============================================================================
