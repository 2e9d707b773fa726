---------------------------- MODULE ConsoleAuth ----------------------------
(***************************************************************************)
(* The console's routes over the operator's identity                       *)
(* (src/src/surfaces/console-auth-routes.ts, and the cookie routes of      *)
(* http-server.ts): what is checked before a request's body is awaited and *)
(* what after it.  A refused request changes nothing but, after touch, the *)
(* session's idle timeout, and is not a step where it changes nothing.     *)
(***************************************************************************)
EXTENDS OperatorIdentity

TypeOK ==
    /\ credential \in {None} \cup [secret : Secrets, pending : Secrets \cup {None}, required : BOOLEAN]
    /\ code \in [Codes -> {"none", "fresh", "used"}]
    /\ provisioning \in BOOLEAN
    /\ breakGlass \in Tokens \cup {None}
    /\ session \in [Sessions -> {None} \cup
         [idle : -1..Idle, absolute : (-Retained - 1)..Absolute,
          revoked : 0..(Retained + 1) \cup {None}]]
    /\ DOMAIN pending \subseteq States /\ \A q \in DOMAIN pending : pending[q] \in -1..StateLife
    /\ awaits \in [Requests -> [at : {"rest", "audit", "discovery", "exchange", "route"},
                               on : Codes \cup Tokens \cup States \cup {None}]]
    /\ issued \subseteq Tokens
    /\ begun \in [Sessions -> Codes \cup Tokens \cup States \cup {None, "local"}]
    /\ owed \subseteq Codes

\* What a browser shows for its origin, and in the header for the token.
originOk(origin) == origin = "own"
csrfOk(origin, token) == originOk(origin) /\ token = "cookie's"

Shown == {"own", "other"} \X {"cookie's", "other"}

-----------------------------------------------------------------------------
\* The routes that a secret opens.  Nothing is read before their body is awaited.
EnrolRoute(r) ==
    /\ awaits[r] = Rest
    /\ \E shown \in Shown : originOk(shown[1])
    /\ Enrol(r)
LoginRoute(r) ==
    /\ awaits[r] = Rest
    /\ \E shown \in Shown : originOk(shown[1])
    /\ LoginLocal(r)
RecoveryRoute(r) ==
    /\ awaits[r] = Rest
    /\ \E shown \in Shown, c \in Codes : originOk(shown[1]) /\ LoginWithRecoveryCode(r, c)
BreakGlassRoute(r) ==
    /\ awaits[r] = Rest
    /\ \E shown \in Shown, t \in Tokens \cup {None} : originOk(shown[1]) /\ LoginWithBreakGlass(r, t)

\* GET /auth/login/oidc and its callback.
OidcRoute(r) ==
    /\ awaits[r] = Rest
    /\ Wait(r, "discovery", None)
    /\ UNCHANGED <<credential, code, provisioning, breakGlass, session, pending,
                   issued, begun, owed>>
CallbackRoute(r) ==
    /\ awaits[r] = Rest
    /\ \E q \in States : CompleteOidc(r, q)

-----------------------------------------------------------------------------
\* sessionIdFromCookie: any id; the re-enrolment asks whether it is live.
ReenrolBeginRoute(s) ==
    /\ \E shown \in Shown : csrfOk(shown[1], shown[2])
    /\ BeginTotpReenrol(s)
    /\ UNCHANGED awaits

\* The session is asked after the body has been read.
ReenrolCompleteRoute(s) ==
    /\ \E shown \in Shown : csrfOk(shown[1], shown[2])
    /\ \E key \in Secrets, age \in Ages : CompleteTotpReenrol(s, key, age)
    /\ UNCHANGED awaits

\* requireSessionDuringReenrol: GET /auth/session, and the logout that follows it.
SessionRoute(s) == Touch(s) /\ UNCHANGED awaits
LogoutRoute(s) ==
    /\ Live(s)
    /\ \E shown \in Shown : csrfOk(shown[1], shown[2])
    /\ session' = [Touched(s) EXCEPT ![s].revoked = 0]
    /\ UNCHANGED <<credential, code, provisioning, breakGlass, pending, awaits,
                   issued, begun, owed>>

\* requireSession: past the gate of the re-enrolment.
requireSession(s) ==
    /\ Live(s)
    /\ ~ credential.required
    /\ session' = Touched(s)

\* Any other cookie route: it awaits its body, or what it asks, past the gate.
CookieRoute(r, s) ==
    /\ awaits[r] = Rest
    /\ requireSession(s)
    /\ \E shown \in Shown : csrfOk(shown[1], shown[2])
    /\ Wait(r, "route", None)
    /\ UNCHANGED <<credential, code, provisioning, breakGlass, pending,
                   issued, begun, owed>>

\* It acts.  The one route that acts on sessions revokes another one.
CookieRouteActs(r) ==
    /\ awaits[r].at = "route"
    /\ EndRequest(r)
    /\ \/ UNCHANGED <<credential, code, provisioning, breakGlass, session, pending, issued, begun, owed>>
       \/ \E other \in Sessions : Revoke(other)

-----------------------------------------------------------------------------
RequestStep(r) ==
    \/ EnrolRoute(r) \/ LoginRoute(r) \/ RecoveryRoute(r) \/ BreakGlassRoute(r) \/ AuditedLogin(r)
    \/ OidcRoute(r) \/ Discovered(r) \/ CallbackRoute(r) \/ Exchanged(r)
    \/ CookieRouteActs(r)

SessionStep(s) ==
    \/ SessionRoute(s) \/ LogoutRoute(s) \/ ReenrolBeginRoute(s) \/ ReenrolCompleteRoute(s)

Next ==
    \/ \E r \in Requests : RequestStep(r)
    \/ \E s \in Sessions : SessionStep(s)
    \/ \E r \in Requests, s \in Sessions : CookieRoute(r, s)
    \/ RunRetention \/ WriteBreakGlassToken \/ Tick \/ CrashAndBoot

Spec == Init /\ [][Next]_vars

-----------------------------------------------------------------------------
(***************************************************************************)
(* A recovery code, a break-glass token and a sign-in at the issuer begin  *)
(* one session at most, whatever is awaited between the use of the secret  *)
(* and the session, and whatever dies there (operator-identity.ts,         *)
(* loginWithRecoveryCode, loginWithBreakGlass, completeOidc).              *)
(***************************************************************************)
SpentOnce ==
    \A s1, s2 \in Sessions :
        s1 # s2 /\ begun[s1] = begun[s2] => begun[s1] \in {None, "local"}

(***************************************************************************)
(* From the use of a recovery code on, no request of any session passes    *)
(* the gate of the console before someone has shown a code of a new        *)
(* authenticator; a crash, another sign-in or a re-enrolment that was only *)
(* begun does not open it (console-auth-routes.ts, requireSession).        *)
(***************************************************************************)
GateHolds ==
    [][\A r \in Requests :
         awaits'[r].at = "route" => owed = {} \/ awaits'[r] = awaits[r]]_vars

Ended(s) ==
    session[s] = None \/ session[s].revoked # None \/ session[s].idle < 0 \/ session[s].absolute < 0

=============================================================================
