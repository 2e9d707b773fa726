-------------------------- MODULE OperatorIdentity --------------------------
(***************************************************************************)
(* The operator's identity (src/src/operator-identity): the one credential *)
(* with its TOTP secret, the recovery codes, the provisioning and break-   *)
(* glass files, the sessions and the sign-ins pending at an issuer.        *)
(*                                                                         *)
(* Every use of the store and of the two files is synchronous, so that an  *)
(* operation is one step up to the audit append or the request to the      *)
(* issuer it awaits, and another one after it.  A password is right or the *)
(* request is refused, which changes nothing.  A deadline is kept as the    *)
(* ticks that are left of it, down to the one at which it last matters, so *)
(* that time is not bounded.                                               *)
(***************************************************************************)
EXTENDS Integers, FiniteSets

CONSTANTS Requests,     \* requests that may be under way together
          Codes,        \* the recovery codes an enrolment issues
          Tokens,       \* break-glass tokens the administrator may put down
          Secrets,      \* TOTP secrets
          Sessions,     \* session ids
          States,       \* state parameters of sign-ins at the issuer
          None,         \* no secret, token, session or credential
          Idle,         \* sessionIdleSeconds, in ticks
          Absolute,     \* sessionAbsoluteSeconds
          Retained,     \* operatorSessionDays
          StateLife,    \* OIDC_PENDING_STATE_TTL_MS
          Drift,        \* DRIFT_STEPS
          MaxPending    \* MAX_PENDING_OIDC_STATES

ASSUME IdentityAssumption ==
    /\ {Idle, Absolute, Retained, StateLife, Drift} \subseteq Nat
    /\ MaxPending \in Nat \ {0}
    /\ Idle <= Absolute
    \* No secret is of two kinds, and none is the name of what is not one.
    /\ Codes \cap Tokens = {} /\ Codes \cap States = {} /\ Tokens \cap States = {}
    /\ {"local", None} \cap (Codes \cup Tokens \cup States) = {}
    /\ None \notin [secret : Secrets, pending : Secrets \cup {None}, required : BOOLEAN]
    /\ None \notin [idle : -1..Idle, absolute : (-Retained - 1)..Absolute,
                    revoked : 0..(Retained + 1) \cup {None}]

VARIABLES credential,    \* operator_credential: its one row, or None
          code,          \* code[c]: operator_recovery_code
          provisioning,  \* provisioning.secret is on the volume
          breakGlass,    \* the token in break-glass.token
          session,       \* session[s]: operator_session, with the ticks that are left
                         \* of its deadlines and the ticks since its revocation
          pending,       \* pendingOidcStates: the ticks that are left of each
          awaits,        \* awaits[r]: what request r waits for, and for whom
          issued,        \* the break-glass tokens written so far
          begun,         \* history: what each session was begun with
          owed           \* history: codes used since the last re-enrolment

vars == <<credential, code, provisioning, breakGlass, session, pending, awaits,
          issued, begun, owed>>

Rest == [at |-> "rest", on |-> None]
Wait(r, at, on) == awaits' = [awaits EXCEPT ![r] = [at |-> at, on |-> on]]
EndRequest(r) == awaits' = [awaits EXCEPT ![r] = Rest]
Ready(r, at, on) == awaits[r] = [at |-> at, on |-> on]

Init ==
    /\ credential = None
    /\ code = [c \in Codes |-> "none"]
    /\ provisioning = TRUE
    /\ breakGlass = None
    /\ session = [s \in Sessions |-> None]
    /\ pending = [q \in {} |-> 0]
    /\ awaits = [r \in Requests |-> Rest]
    /\ issued = {} /\ owed = {}
    /\ begun = [s \in Sessions |-> None]

-----------------------------------------------------------------------------
\* A code of an authenticator is its secret and how many steps ago it was read.
VerifyTotpCode(secret, key, age) == secret = key /\ age \in (-Drift)..Drift
Ages == {0, Drift, Drift + 1}

\* A random secret or state is none that anybody still has a use for.
GenerateTotpSecret(k) ==
    k \in Secrets /\ (credential # None => k \notin {credential.secret, credential.pending})
NewState(q) ==
    q \in States \ (DOMAIN pending \cup {awaits[r].on : r \in Requests} \cup {begun[s] : s \in Sessions})

\* createSession, in finishLogin, which may find no store.
FinishLogin(r, by) ==
    /\ EndRequest(r)
    /\ \/ \E s \in {t \in Sessions : begun[t] = None} :
            /\ session' = [session EXCEPT ![s] =
                 [idle |-> Idle, absolute |-> Absolute, revoked |-> None]]
            /\ begun' = [begun EXCEPT ![s] = by]
       \/ UNCHANGED <<session, begun>>
    /\ UNCHANGED issued

\* touchSession
Live(s) ==
    /\ session[s] # None
    /\ session[s].revoked = None
    /\ session[s].absolute >= 0 /\ session[s].idle >= 0
Touched(s) == [session EXCEPT ![s].idle = Idle]

-----------------------------------------------------------------------------
\* enrol: the row and the codes in one transaction, and the file after them,
\* which opens nothing once there is a row.
Enrol(r) ==
    /\ credential = None /\ provisioning
    /\ \E k \in Secrets :
         /\ GenerateTotpSecret(k)
         /\ credential' = [secret |-> k, pending |-> None, required |-> FALSE]
    /\ code' = [c \in Codes |-> "fresh"]
    /\ provisioning' = FALSE
    /\ EndRequest(r)
    /\ UNCHANGED <<breakGlass, session, pending, issued, begun, owed>>

\* loginLocal
LoginLocal(r) ==
    /\ credential # None
    /\ \E key \in Secrets, age \in Ages : VerifyTotpCode(credential.secret, key, age)
    /\ FinishLogin(r, "local")
    /\ UNCHANGED <<credential, code, provisioning, breakGlass, pending, owed>>

\* Mutation of LoginWithRecoveryCode: used_at is not written.
LoginWithCodeUnmarked(r, c) ==
    /\ credential # None
    /\ code[c] = "fresh"
    /\ Wait(r, "audit", c)
    /\ UNCHANGED <<credential, code, provisioning, breakGlass, session, pending, issued, begun, owed>>

\* loginWithRecoveryCode up to its audit record.
LoginWithRecoveryCode(r, c) ==
    /\ credential # None
    /\ code[c] = "fresh"
    /\ code' = [code EXCEPT ![c] = "used"]
    /\ credential' = [credential EXCEPT !.required = TRUE]
    /\ owed' = owed \cup {c}
    /\ Wait(r, "audit", c)
    /\ UNCHANGED <<provisioning, breakGlass, session, pending, issued, begun>>

\* claimBreakGlassToken: the file is renamed away and read.  A match unlinks it,
\* a mismatch renames it back, and either may fail.
ClaimBreakGlassToken(token) ==
    /\ breakGlass # None
    /\ \/ token = breakGlass /\ breakGlass' = None
       \/ token # breakGlass /\ breakGlass' \in {breakGlass, None}

\* loginWithBreakGlass up to its audit record.
LoginWithBreakGlass(r, token) ==
    /\ credential # None
    /\ ClaimBreakGlassToken(token)
    /\ IF token = breakGlass THEN Wait(r, "audit", token) ELSE EndRequest(r)
    /\ UNCHANGED <<credential, code, provisioning, session, pending, issued, begun, owed>>

\* The rest of both.
AuditedLogin(r) ==
    /\ awaits[r].at = "audit"
    /\ FinishLogin(r, awaits[r].on)
    /\ UNCHANGED <<credential, code, provisioning, breakGlass, pending, owed>>

-----------------------------------------------------------------------------
\* discoverOidc, and exchangeCodeForIdToken with verifyIdToken: what the issuer
\* answers, or nothing that can be used.
Discoveries == {"document", "none"}
Vouched == {"operator", "another subject", "none"}

\* pruneExpiredOidcStates
Unexpired == {q \in DOMAIN pending : pending[q] > 0}

\* beginOidc from the issuer's answer on; without one the sign-in has failed.
Discovered(r) ==
    /\ Ready(r, "discovery", None)
    /\ \E discovery \in Discoveries :
       \/ discovery = "none" /\ UNCHANGED pending
       \/ /\ discovery = "document"
          /\ Cardinality(Unexpired) >= MaxPending
          /\ pending' = [p \in Unexpired |-> pending[p]]
       \/ /\ discovery = "document"
          /\ Cardinality(Unexpired) < MaxPending
          /\ \E q \in States :
               /\ NewState(q)
               /\ pending' = [p \in Unexpired \cup {q} |->
                                IF p = q THEN StateLife ELSE pending[p]]
    /\ EndRequest(r)
    /\ UNCHANGED <<credential, code, provisioning, breakGlass, session, issued, begun, owed>>

\* completeOidc up to the exchange of the code for a token.
CompleteOidc(r, q) ==
    /\ pending' = [p \in DOMAIN pending \ {q} |-> pending[p]]
    /\ IF q \in DOMAIN pending /\ pending[q] >= 0 THEN Wait(r, "exchange", q) ELSE EndRequest(r)
    /\ UNCHANGED <<credential, code, provisioning, breakGlass, session, issued, begun, owed>>

\* The rest of it: the issuer vouches for the enrolled subject, which the
\* allowlist names, or the sign-in has failed.
Exchanged(r) ==
    /\ awaits[r].at = "exchange"
    /\ \E who \in Vouched :
         IF credential # None /\ who = "operator"
         THEN FinishLogin(r, awaits[r].on)
         ELSE EndRequest(r) /\ UNCHANGED <<session, begun, issued>>
    /\ UNCHANGED <<credential, code, provisioning, breakGlass, pending, owed>>

-----------------------------------------------------------------------------
\* Mutation of BeginTotpReenrol: the new secret is no longer required.
BeginTotpReenrolClears(s) ==
    /\ Live(s)
    /\ session' = Touched(s)
    /\ \E k \in Secrets :
         /\ GenerateTotpSecret(k)
         /\ credential' = [credential EXCEPT !.pending = k, !.required = FALSE]
    /\ UNCHANGED <<issued, code, provisioning, breakGlass, pending, begun, owed>>

\* beginTotpReenrol: the session is touched even if no key can be read.
BeginTotpReenrol(s) ==
    /\ Live(s)
    /\ session' = Touched(s)
    /\ \/ \E k \in Secrets :
            /\ GenerateTotpSecret(k)
            /\ credential' = [credential EXCEPT !.pending = k]
       \/ UNCHANGED credential
    /\ UNCHANGED <<issued, code, provisioning, breakGlass, pending, begun, owed>>

\* completeTotpReenrol, by a code of `key'.
CompleteTotpReenrol(s, key, age) ==
    /\ Live(s)
    /\ session' = Touched(s)
    /\ IF credential.pending # None /\ VerifyTotpCode(credential.pending, key, age)
       THEN /\ credential' = [secret |-> credential.pending, pending |-> None, required |-> FALSE]
            /\ owed' = {}
       ELSE UNCHANGED <<credential, owed>>
    /\ UNCHANGED <<code, provisioning, breakGlass, pending, issued, begun>>

\* touch
Touch(s) ==
    /\ Live(s)
    /\ session' = Touched(s)
    /\ UNCHANGED <<credential, code, provisioning, breakGlass, pending, issued, begun, owed>>

\* logout and revokeSession: any session that has a row.
Revoke(s) ==
    /\ session[s] # None
    /\ session' = [session EXCEPT ![s].revoked = 0]
    /\ UNCHANGED <<credential, code, provisioning, breakGlass, pending, issued, begun, owed>>

\* runRetention
RunRetention ==
    LET Old(s) == \/ session[s].revoked # None /\ session[s].revoked > Retained
                  \/ session[s].absolute < -Retained
    IN /\ \E s \in Sessions : session[s] # None /\ Old(s)
       /\ session' = [s \in Sessions |->
                        IF session[s] # None /\ Old(s) THEN None ELSE session[s]]
       /\ UNCHANGED <<credential, code, provisioning, breakGlass, pending, awaits,
                      issued, begun, owed>>

\* writeBreakGlassToken, by the administrator.
WriteBreakGlassToken ==
    /\ \E t \in Tokens \ issued : breakGlass' = t /\ issued' = issued \cup {t}
    /\ UNCHANGED <<credential, code, provisioning, session, pending, awaits, begun, owed>>

Less(n, bottom) == IF n > bottom THEN n - 1 ELSE n
More(n) == IF n \in 0..Retained THEN n + 1 ELSE n
\* The idle deadline of a revoked session is of no interest.
Later(row) == [idle |-> IF row.revoked = None THEN Less(row.idle, -1) ELSE -1,
               absolute |-> Less(row.absolute, -Retained - 1),
               revoked |-> More(row.revoked)]

Tick ==
    /\ session' = [s \in Sessions |-> IF session[s] = None THEN None ELSE Later(session[s])]
    /\ pending' = [q \in DOMAIN pending |-> Less(pending[q], -1)]
    /\ UNCHANGED <<credential, code, provisioning, breakGlass, awaits, issued, begun, owed>>

\* The process dies with the requests and the pending sign-ins, and starts again.
CrashAndBoot ==
    /\ awaits' = [r \in Requests |-> Rest]
    /\ pending' = [q \in {} |-> 0]
    /\ UNCHANGED <<credential, code, provisioning, breakGlass, session, issued, begun, owed>>
=============================================================================
