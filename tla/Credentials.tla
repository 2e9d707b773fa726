----------------------------- MODULE Credentials -----------------------------
(***************************************************************************)
(* The credential resolver (src/src/credentials/credentials.ts), the calls *)
(* that take a secret from it and the marks their rejections leave.  The   *)
(* declarations modelled share one reference: one file in the mount, which *)
(* the administrator replaces while the service runs, and one variable of  *)
(* the environment children are given, but a mark for each declaration.    *)
(*                                                                         *)
(* Secrets are numbered as they are written.  The file and the marks carry *)
(* times of the same clock, whole milliseconds.  A call's resolution is    *)
(* one turn of the event loop, so no other call comes between its reading  *)
(* of the secret and its look at the mark; the administrator's write may.  *)
(***************************************************************************)
EXTENDS Integers, FiniteSets

CONSTANTS Declarations,    \* the declarations that share the reference
          Calls,           \* the calls that may be under way at once
          Clones,          \* those among them that are first clones
          Quiet,           \* when the administrator does not write: see Settled
          MaxClock,        \* bound on the clock
          MaxSecrets,      \* bound on the secrets written
          MaxFails,        \* bound on the store's failures
          NoDeclaration

ASSUME CredentialsAssumption ==
    /\ Clones \subseteq Calls
    /\ Quiet \subseteq {"calls", "tie", "read"}
    /\ MaxClock \in Nat /\ MaxSecrets \in Nat \ {0} /\ MaxFails \in Nat
    /\ NoDeclaration \notin Declarations

VARIABLES clock,
          mount,      \* the reference's file: the secret, when it was written
          variable,   \* the secret in the shared MutableEnv
          marks,      \* credential_failure_mark: the time, for each declaration
          call,       \* for each call, where it is and the secret it holds
          failures,   \* store failures so far
          refused,    \* history: the secrets a remote refused a declaration
          known       \* history: those recorded, that nobody has cleared

credentialVars == <<clock, mount, variable, marks, call, failures, refused, known>>

Numbered == 1..MaxSecrets
NoMark == -1
NoSecret == 0
Unused == [at |-> "idle", declaration |-> NoDeclaration, secret |-> NoSecret]

Steps == {"idle", "reading", "resolved", "sent", "refused"}
CredentialsTypeOK ==
    /\ clock \in 0..MaxClock
    /\ mount \in [secret : Numbered \cup {NoSecret}, writtenAt : 0..MaxClock]
    /\ variable \in Numbered \cup {NoSecret}
    /\ marks \in [Declarations -> 0..MaxClock \cup {NoMark}]
    /\ call \in [Calls -> [at : Steps, declaration : Declarations \cup {NoDeclaration},
                           secret : Numbered \cup {NoSecret}]]
    /\ failures \in 0..MaxFails
    /\ refused \in [Declarations -> SUBSET Numbered]
    /\ known \in [Declarations -> SUBSET Numbered]

CredentialsInit ==
    /\ clock = 0
    /\ mount = [secret |-> 1, writtenAt |-> 0]
    /\ variable = NoSecret
    /\ marks = [d \in Declarations |-> NoMark]
    /\ call = [c \in Calls |-> Unused]
    /\ failures = 0
    /\ refused = [d \in Declarations |-> {}] /\ known = refused

-----------------------------------------------------------------------------
\* The resolver.
Reading == \E c \in Calls : call[c].at = "reading"

\* Mutation of MarkOf: looked up by the reference alone.
MarkOfReference(d) ==
    LET newest == CHOOSE e \in Declarations : \A f \in Declarations : marks[f] <= marks[e]
    IN  marks[newest]

\* readMark: by the composite key.
MarkOf(d) == marks[d]
\* Mutation of ChangedSince: a tie counts as changed.
ChangedSinceOrAt(t) == mount.secret # NoSecret /\ mount.writtenAt >= t

\* secretChangedSince: a tie is "not changed", and so is a file that is not there.
ChangedSince(t) == mount.secret # NoSecret /\ mount.writtenAt > t
Blocked(d) == MarkOf(d) # NoMark /\ ~ChangedSince(MarkOf(d))

\* resolveInto, as far as readSecret.
ReadSecret(c, d) ==
    /\ ~Reading /\ call[c] = Unused
    /\ mount.secret # NoSecret
    /\ call' = [call EXCEPT ![c] = [at |-> "reading", declaration |-> d,
                                    secret |-> mount.secret]]
    /\ UNCHANGED <<clock, mount, variable, marks, failures, refused, known>>

Refuse(c) ==
    /\ call[c].at = "reading" /\ Blocked(call[c].declaration)
    /\ call' = [call EXCEPT ![c] = Unused]
    /\ UNCHANGED <<clock, mount, variable, marks, failures, refused, known>>

\* A store that cannot be read is not a store without marks.
StoreUnread(c) ==
    /\ call[c].at = "reading" /\ failures < MaxFails
    /\ failures' = failures + 1
    /\ call' = [call EXCEPT ![c] = Unused]
    /\ UNCHANGED <<clock, mount, variable, marks, refused, known>>

\* The mark is cleared when the file is newer; the clearing may fail unseen.
Hand(c, fails) ==
    LET d == call[c].declaration
    IN  /\ call[c].at = "reading" /\ ~Blocked(d)
        /\ fails => marks[d] # NoMark /\ failures < MaxFails
        /\ failures' = failures + IF fails THEN 1 ELSE 0
        /\ marks' = IF fails THEN marks ELSE [marks EXCEPT ![d] = NoMark]
        /\ variable' = call[c].secret
        /\ call' = [call EXCEPT ![c].at = "resolved"]
        /\ UNCHANGED <<clock, mount, refused, known>>

-----------------------------------------------------------------------------
\* The calls.  The child is given what the shared variable holds by then.
Spawn(c) ==
    /\ ~Reading /\ call[c].at = "resolved"
    /\ call' = [call EXCEPT ![c].at = "sent", ![c].secret = variable]
    /\ UNCHANGED <<clock, mount, variable, marks, failures, refused, known>>

\* Done, or failed for another reason, or cancelled before the child started.
Answered(c) ==
    /\ ~Reading /\ call[c].at \in {"resolved", "sent"}
    /\ call' = [call EXCEPT ![c] = Unused]
    /\ UNCHANGED <<clock, mount, variable, marks, failures, refused, known>>

\* The remote refuses the secret; the child's end, or the return of the host's
\* call, comes later.  A secret that was replaced may still be good for a while.
Rejected(c) ==
    /\ ~Reading /\ call[c].at = "sent"
    /\ "calls" \in Quiet => call[c].secret = mount.secret
    /\ refused' = [refused EXCEPT ![call[c].declaration] = @ \cup {call[c].secret}]
    /\ call' = [call EXCEPT ![c].at = "refused"]
    /\ UNCHANGED <<clock, mount, variable, marks, failures, known>>

\* markRejected and markRejection: marked now, for this declaration; a mark that
\* cannot be written is lost.  A first clone reports its failure and marks nothing.
MarkFailing(c, fails) ==
    LET d == call[c].declaration
    IN  /\ ~Reading /\ call[c].at = "refused"
        /\ fails => c \notin Clones /\ failures < MaxFails
        /\ failures' = failures + IF fails THEN 1 ELSE 0
        /\ IF fails \/ c \in Clones
              THEN UNCHANGED <<marks, known>>
              ELSE /\ marks' = [marks EXCEPT ![d] = clock]
                   /\ known' = [known EXCEPT ![d] = @ \cup {call[c].secret}]
        /\ call' = [call EXCEPT ![c] = Unused]
        /\ UNCHANGED <<clock, mount, variable, refused>>

\* clearFailing, asked for in the health view.
ClearFailing(d) ==
    /\ ~Reading /\ marks[d] # NoMark
    /\ marks' = [marks EXCEPT ![d] = NoMark]
    /\ known' = [known EXCEPT ![d] = {}]
    /\ UNCHANGED <<clock, mount, variable, call, failures, refused>>

-----------------------------------------------------------------------------
\* The administrator, who writes the mount from outside the service.  Quiet says
\* what the write does not meet: a call that has been or will be refused the old
\* secret, a mark of the same millisecond, the moment between the reading of the
\* secret and of the mark.
Settled ==
    /\ "calls" \in Quiet => \A c \in Calls : call[c].at # "refused"
    /\ "tie" \in Quiet => \A d \in Declarations : marks[d] # clock
    /\ "read" \in Quiet => ~Reading

Written == UNION {refused[d] : d \in Declarations} \cup {mount.secret, variable}
              \cup {call[c].secret : c \in Calls}
\* Secrets nobody holds or has tried: any of them is as good as a new one.
Fresh == Numbered \ Written

Rotate ==
    /\ Settled
    /\ \E s \in Fresh : mount' = [secret |-> s, writtenAt |-> clock]
    /\ UNCHANGED <<clock, variable, marks, call, failures, refused, known>>

Withdraw ==
    /\ Settled /\ mount.secret # NoSecret
    /\ mount' = [mount EXCEPT !.secret = NoSecret]
    /\ UNCHANGED <<clock, variable, marks, call, failures, refused, known>>

ClockTicks ==
    /\ ~Reading /\ clock < MaxClock
    /\ clock' = clock + 1
    /\ UNCHANGED <<mount, variable, marks, call, failures, refused, known>>

\* The mount and the store stay; the variable and the calls go.
Restart ==
    /\ variable' = NoSecret
    /\ call' = [c \in Calls |-> Unused]
    /\ UNCHANGED <<clock, mount, marks, failures, refused, known>>

CredentialsNext ==
    \/ \E c \in Calls :
          \/ \E d \in Declarations : ReadSecret(c, d)
          \/ Refuse(c) \/ StoreUnread(c) \/ Spawn(c) \/ Answered(c) \/ Rejected(c)
          \/ \E fails \in BOOLEAN : Hand(c, fails) \/ MarkFailing(c, fails)
    \/ \E d \in Declarations : ClearFailing(d)
    \/ Rotate \/ Withdraw \/ ClockTicks \/ Restart

CredentialsSpec == CredentialsInit /\ [][CredentialsNext]_credentialVars

-----------------------------------------------------------------------------
\* A secret a remote has refused a declaration, and that the service has marked,
\* is not handed to another of its calls, through restarts and rotations, unless
\* the operator clears the mark: resolveInto fails closed, and a mark goes only
\* when the resolver has observed a changed secret.
RefusedStaysRefused ==
    [][\A c \in Calls :
          (call[c].at = "reading" /\ call'[c].at = "resolved")
             => call[c].secret \notin known[call[c].declaration]]_credentialVars

\* A declaration is blocked only while the mount holds the secret a remote refused
\* it: a rotated secret is used by the next operation, and one repository's
\* rejection does not stop another that shares the reference.
BlocksAreDeserved ==
    \A d \in Declarations :
       Blocked(d) /\ mount.secret # NoSecret => mount.secret \in refused[d]
=============================================================================
