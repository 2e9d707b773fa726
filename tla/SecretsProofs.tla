---------------------------- MODULE SecretsProofs ----------------------------
(***************************************************************************)
(* What the secrets of an operator and of a remote open.                   *)
(*                                                                         *)
(* The console: for any requests, codes, tokens, sessions and sign-ins,    *)
(* what opens a session is used up before anything is awaited (Burnt), is  *)
(* held by one request, and has begun no session; a recovery code closes   *)
(* the gate in the step that uses it.                                      *)
(*                                                                         *)
(* The credentials: for any declarations and calls, a mark is at least as  *)
(* young as the file whose secret was refused, and what a call reads is    *)
(* what the file holds.                                                    *)
(***************************************************************************)
EXTENDS ConsoleAuth, Credentials, TLAPS

-----------------------------------------------------------------------------
(* The console. *)

\* What a session may be begun with once.
Openers == Codes \cup Tokens \cup States

\* A request that has used a secret and has not begun its session.
Held(r) == awaits[r].at \in {"audit", "exchange"}

\* A request holds the secret, or a session was begun with it.
InUse(x) == \/ \E r \in Requests : Held(r) /\ awaits[r].on = x
            \/ \E s \in Sessions : begun[s] = x

\* The secret opens nothing any more.
Burnt(x) == \/ x \in Codes /\ code[x] = "used"
            \/ x \in Tokens /\ x \in issued /\ x # breakGlass
            \/ x \in States /\ x \notin DOMAIN pending

HeldOnce ==
    /\ \A r \in Requests : Held(r) => awaits[r].on \in Openers
    /\ \A q, r \in Requests : Held(q) /\ Held(r) /\ q # r => awaits[q].on # awaits[r].on
    /\ \A r \in Requests, s \in Sessions : Held(r) => begun[s] # awaits[r].on

UsedAreBurnt == \A x \in Openers : InUse(x) => Burnt(x)

\* No code exists before the credential, and the token on the volume was written.
Provided ==
    /\ credential = None => \A c \in Codes : code[c] = "none"
    /\ breakGlass # None => breakGlass \in issued

SpentInv == HeldOnce /\ UsedAreBurnt /\ Provided /\ SpentOnce

\* A session has a credential behind it, and a code that was used is owed for.
GateInv ==
    /\ \A s \in Sessions : session[s] # None => credential # None
    /\ \A r \in Requests : awaits[r].at = "audit" => credential # None
    /\ owed # {} => credential # None /\ credential.required

ConsoleInv == TypeOK /\ SpentInv /\ GateInv

\* A step in which no request takes a secret and no session begins with one.
LEMMA NothingIsSpent ==
  ASSUME TypeOK, HeldOnce, UsedAreBurnt, SpentOnce, begun' = begun,
         \A r \in Requests : awaits'[r] = awaits[r] \/ ~Held(r)',
         \A x \in Openers : InUse(x) => Burnt(x)'
  PROVE  HeldOnce' /\ UsedAreBurnt' /\ SpentOnce'
<1>1. \A r \in Requests : Held(r)' => Held(r) /\ awaits'[r] = awaits[r]
  BY DEF Held
<1>2. HeldOnce'
  BY <1>1 DEF HeldOnce, Openers
<1>3. \A x \in Openers : InUse(x)' => InUse(x)
  BY <1>1 DEF InUse
<1>4. UsedAreBurnt'
  BY <1>3 DEF UsedAreBurnt, Openers
<1> QED
  BY <1>2, <1>4 DEF SpentOnce

\* A request takes a secret that nobody has used.
LEMMA SpendingBegins ==
  ASSUME TypeOK, HeldOnce, UsedAreBurnt, SpentOnce, begun' = begun,
         NEW r \in Requests, NEW place \in {"audit", "exchange"}, NEW x \in Openers,
         awaits' = [awaits EXCEPT ![r] = [at |-> place, on |-> x]],
         ~InUse(x), Burnt(x)',
         \A y \in Openers : InUse(y) => Burnt(y)'
  PROVE  HeldOnce' /\ UsedAreBurnt' /\ SpentOnce'
<1>1. awaits'[r] = [at |-> place, on |-> x] /\ \A q \in Requests \ {r} : awaits'[q] = awaits[q]
  BY DEF TypeOK
<1>2. Held(r)' /\ \A q \in Requests \ {r} : Held(q)' <=> Held(q)
  BY <1>1 DEF Held
<1>3. HeldOnce'
  BY <1>1, <1>2 DEF HeldOnce, InUse, Openers
<1>4. \A y \in Openers : InUse(y)' => InUse(y) \/ y = x
  BY <1>1, <1>2 DEF InUse
<1>5. UsedAreBurnt'
  BY <1>4 DEF UsedAreBurnt, Openers
<1> QED
  BY <1>3, <1>5 DEF SpentOnce

\* A request begins a session with what it holds, or with a code of the
\* authenticator.
LEMMA SessionBegins ==
  ASSUME TypeOK, HeldOnce, UsedAreBurnt, SpentOnce,
         NEW r \in Requests, NEW by, FinishLogin(r, by),
         by = "local" \/ (Held(r) /\ by = awaits[r].on),
         \A y \in Openers : InUse(y) => Burnt(y)'
  PROVE  HeldOnce' /\ UsedAreBurnt' /\ SpentOnce'
<1>1. awaits'[r] = Rest /\ \A q \in Requests \ {r} : awaits'[q] = awaits[q]
  BY DEF TypeOK, FinishLogin, EndRequest
<1>2. ~Held(r)' /\ \A q \in Requests \ {r} : Held(q)' <=> Held(q)
  BY <1>1 DEF Held, Rest
<1>3. CASE begun' = begun
  BY <1>1, <1>2, <1>3, NothingIsSpent
<1>4. CASE \E s \in Sessions : begun[s] = None /\ begun' = [begun EXCEPT ![s] = by]
  <2>1. PICK s \in Sessions : begun[s] = None /\ begun' = [begun EXCEPT ![s] = by]
    BY <1>4
  <2>2. begun'[s] = by /\ \A t \in Sessions \ {s} : begun'[t] = begun[t]
    BY <2>1 DEF TypeOK
  <2>3. by \notin Openers => by = "local"
    BY DEF HeldOnce
  <2>4. "local" \notin Openers
    BY IdentityAssumption DEF Openers
  <2>5. HeldOnce'
    BY <1>1, <1>2, <2>2, <2>4 DEF HeldOnce, Openers
  <2>6. \A y \in Openers : InUse(y)' => InUse(y)
    BY <1>1, <1>2, <2>2, <2>4 DEF InUse
  <2>7. UsedAreBurnt'
    BY <2>6 DEF UsedAreBurnt, Openers
  <2>8. SpentOnce'
    BY <2>2 DEF SpentOnce, HeldOnce
  <2> QED
    BY <2>5, <2>7, <2>8
<1> QED
  BY <1>3, <1>4 DEF FinishLogin

-----------------------------------------------------------------------------
\* The types.

CredentialRows == [secret : Secrets, pending : Secrets \cup {None}, required : BOOLEAN]
SessionRows == [idle : -1..Idle, absolute : (-Retained - 1)..Absolute,
                revoked : 0..(Retained + 1) \cup {None}]
Places == {"rest", "audit", "discovery", "exchange", "route"}
RequestRows == [at : Places, on : Openers \cup {None}]

\* What an update makes of a row of the credential.
LEMMA CredentialShape ==
  ASSUME NEW cr \in CredentialRows, NEW k \in Secrets
  PROVE  /\ [cr EXCEPT !.required = TRUE] \in CredentialRows
         /\ [cr EXCEPT !.required = TRUE].required
         /\ [cr EXCEPT !.pending = k] \in CredentialRows
         /\ [cr EXCEPT !.pending = k].required <=> cr.required
         /\ [secret |-> k, pending |-> None, required |-> FALSE] \in CredentialRows
         /\ cr.pending # None =>
              [secret |-> cr.pending, pending |-> None, required |-> FALSE] \in CredentialRows
         /\ cr # None
<1>1. cr # None
  BY IdentityAssumption DEF CredentialRows
<1>2. [cr EXCEPT !.required = TRUE] \in CredentialRows
  BY DEF CredentialRows
<1>3. [cr EXCEPT !.required = TRUE].required
  BY DEF CredentialRows
<1>4. [cr EXCEPT !.pending = k] \in CredentialRows
  BY DEF CredentialRows
<1>5. [cr EXCEPT !.pending = k].required <=> cr.required
  BY DEF CredentialRows
<1>6. [secret |-> k, pending |-> None, required |-> FALSE] \in CredentialRows
  BY DEF CredentialRows
<1>7. cr.pending # None =>
        [secret |-> cr.pending, pending |-> None, required |-> FALSE] \in CredentialRows
  BY DEF CredentialRows
<1> QED
  BY <1>1, <1>2, <1>3, <1>4, <1>5, <1>6, <1>7

\* Where a request goes is a place.
LEMMA AwaitsKeepType ==
  ASSUME TypeOK, NEW r \in Requests, NEW at \in Places, NEW on \in Openers \cup {None},
         Wait(r, at, on) \/ EndRequest(r)
  PROVE  awaits' \in [Requests -> RequestRows]
<1>1. [at |-> at, on |-> on] \in RequestRows /\ Rest \in RequestRows
  BY DEF RequestRows, Places, Rest
<1>2. awaits \in [Requests -> RequestRows]
  BY DEF TypeOK, RequestRows, Places, Openers
<1> QED
  BY <1>1, <1>2 DEF Wait, EndRequest

\* The tables of sessions keep their type through a touch, a revocation, the
\* beginning of a session, retention and time.
LEMMA SessionsKeepType ==
  ASSUME TypeOK, NEW s \in Sessions
  PROVE  /\ Live(s) => Touched(s) \in [Sessions -> {None} \cup SessionRows]
         /\ Live(s) => [Touched(s) EXCEPT ![s].revoked = 0] \in [Sessions -> {None} \cup SessionRows]
         /\ session[s] # None =>
              [session EXCEPT ![s].revoked = 0] \in [Sessions -> {None} \cup SessionRows]
         /\ [session EXCEPT ![s] = [idle |-> Idle, absolute |-> Absolute, revoked |-> None]]
              \in [Sessions -> {None} \cup SessionRows]
         /\ session[s] # None => Later(session[s]) \in SessionRows
<1>1. session \in [Sessions -> {None} \cup SessionRows]
  BY DEF TypeOK, SessionRows
<1>2. \A row \in SessionRows :
        /\ [row EXCEPT !.idle = Idle] \in SessionRows
        /\ [row EXCEPT !.revoked = 0] \in SessionRows
  BY IdentityAssumption DEF SessionRows
<1>3. [idle |-> Idle, absolute |-> Absolute, revoked |-> None] \in SessionRows
  BY IdentityAssumption DEF SessionRows
<1>4. \A row \in SessionRows : Later(row) \in SessionRows
  <2> SUFFICES ASSUME NEW row \in SessionRows PROVE Later(row) \in SessionRows
    OBVIOUS
  <2>1. More(row.revoked) \in 0..(Retained + 1) \cup {None}
    BY IdentityAssumption DEF More, SessionRows
  <2>2. Less(row.idle, -1) \in -1..Idle
    BY IdentityAssumption DEF Less, SessionRows
  <2>3. Less(row.absolute, -Retained - 1) \in (-Retained - 1)..Absolute
    BY IdentityAssumption DEF Less, SessionRows
  <2>4. (IF row.revoked = None THEN Less(row.idle, -1) ELSE -1) \in -1..Idle
    BY <2>2, IdentityAssumption
  <2> QED
    BY <2>1, <2>3, <2>4 DEF Later, SessionRows
<1> QED
  BY <1>1, <1>2, <1>3, <1>4 DEF Touched, Live

-----------------------------------------------------------------------------
\* The steps.

\* A session begins, or does not: the types and the gate.
LEMMA FinishLoginKeeps ==
  ASSUME TypeOK, GateInv, NEW r \in Requests, NEW by \in Openers \cup {"local"},
         FinishLogin(r, by), credential # None,
         UNCHANGED <<credential, code, provisioning, breakGlass, pending, owed>>
  PROVE  TypeOK' /\ GateInv'
<1>1. awaits' \in [Requests -> RequestRows]
  BY AwaitsKeepType DEF FinishLogin, Places
<1>2. session' \in [Sessions -> {None} \cup SessionRows]
  <2>1. session \in [Sessions -> {None} \cup SessionRows]
    BY DEF TypeOK, SessionRows
  <2> QED
    BY <2>1, SessionsKeepType DEF FinishLogin
<1>3. begun' \in [Sessions -> Openers \cup {None, "local"}]
  BY DEF FinishLogin, TypeOK, Openers
<1>4. UNCHANGED issued
  BY DEF FinishLogin
<1>5. TypeOK'
  BY <1>1, <1>2, <1>3, <1>4 DEF TypeOK, RequestRows, SessionRows, Places, Openers
<1> QED
  BY <1>5 DEF GateInv

\* Enrolment.
LEMMA EnrolKeeps ==
  ASSUME ConsoleInv, NEW r \in Requests, EnrolRoute(r)
  PROVE  ConsoleInv'
<1> USE DEF ConsoleInv
<1>1. PICK k \in Secrets : credential' = [secret |-> k, pending |-> None, required |-> FALSE]
  BY DEF EnrolRoute, Enrol
<1>2. /\ credential = None /\ code' = [c \in Codes |-> "fresh"] /\ provisioning' = FALSE
      /\ EndRequest(r)
      /\ UNCHANGED <<breakGlass, session, pending, issued, begun, owed>>
  BY DEF EnrolRoute, Enrol
<1>3. credential' \in CredentialRows /\ credential' # None
  <2>1. [secret |-> k, pending |-> None, required |-> FALSE] \in CredentialRows
    BY DEF CredentialRows
  <2>2. None \notin CredentialRows
    BY IdentityAssumption DEF CredentialRows
  <2> QED
    BY <1>1, <2>1, <2>2
<1>4. awaits' \in [Requests -> RequestRows]
  BY <1>2, AwaitsKeepType DEF Places
<1>5. TypeOK'
  BY <1>2, <1>3, <1>4 DEF TypeOK, RequestRows, CredentialRows, Places, Openers
<1>6. GateInv'
  BY <1>2, <1>3 DEF GateInv
<1>7. \A x \in Openers : InUse(x) => Burnt(x)'
  BY <1>2 DEF SpentInv, UsedAreBurnt, Burnt, Provided, TypeOK
<1>8. \A q \in Requests : awaits'[q] = awaits[q] \/ ~Held(q)'
  BY <1>2 DEF TypeOK, EndRequest, Rest, Held
<1>9. Provided'
  BY <1>2, <1>3 DEF SpentInv, Provided
<1> QED
  BY <1>2, <1>5, <1>6, <1>7, <1>8, <1>9, NothingIsSpent DEF SpentInv

\* A code of the authenticator.
LEMMA LoginKeeps ==
  ASSUME ConsoleInv, NEW r \in Requests, LoginRoute(r)
  PROVE  ConsoleInv'
<1> USE DEF ConsoleInv
<1>1. /\ credential # None /\ FinishLogin(r, "local")
      /\ UNCHANGED <<credential, code, provisioning, breakGlass, pending, owed>>
  BY DEF LoginRoute, LoginLocal
<1>2. TypeOK' /\ GateInv'
  BY <1>1, FinishLoginKeeps
<1>3. UNCHANGED issued
  BY <1>1 DEF FinishLogin
<1>4. \A x \in Openers : InUse(x) => Burnt(x)'
  BY <1>1, <1>3 DEF SpentInv, UsedAreBurnt, Burnt
<1>5. HeldOnce' /\ UsedAreBurnt' /\ SpentOnce'
  BY <1>1, <1>4, SessionBegins DEF SpentInv
<1> QED
  BY <1>1, <1>2, <1>3, <1>5 DEF SpentInv, Provided

\* A recovery code, up to the record.
LEMMA RecoveryKeeps ==
  ASSUME ConsoleInv, NEW r \in Requests, RecoveryRoute(r)
  PROVE  ConsoleInv'
<1> USE DEF ConsoleInv
<1>1. PICK c \in Codes : LoginWithRecoveryCode(r, c)
  BY DEF RecoveryRoute
<1>2. /\ credential # None /\ code[c] = "fresh"
      /\ code' = [code EXCEPT ![c] = "used"]
      /\ credential' = [credential EXCEPT !.required = TRUE]
      /\ owed' = owed \cup {c}
      /\ Wait(r, "audit", c)
      /\ UNCHANGED <<provisioning, breakGlass, session, pending, issued, begun>>
  BY <1>1 DEF LoginWithRecoveryCode
<1>3. credential \in CredentialRows
  BY <1>2 DEF TypeOK, CredentialRows
<1>4. \A k \in Secrets : /\ credential' \in CredentialRows /\ credential'.required
                         /\ credential' # None
  BY <1>2, <1>3, CredentialShape
<1>5. credential.secret \in Secrets
  BY <1>3 DEF CredentialRows
<1>6. credential' \in CredentialRows /\ credential'.required /\ credential' # None
  BY <1>4, <1>5
<1>7. awaits' \in [Requests -> RequestRows]
  BY <1>2, AwaitsKeepType DEF Places, Openers
<1>8. TypeOK'
  BY <1>2, <1>6, <1>7 DEF TypeOK, RequestRows, CredentialRows, Places, Openers
<1>9. GateInv'
  BY <1>2, <1>6 DEF GateInv
<1>10. \A d \in Codes : code'[d] = IF d = c THEN "used" ELSE code[d]
  BY <1>2 DEF TypeOK
<1>11. \A x \in Openers : Burnt(x) => Burnt(x)'
  BY <1>2, <1>10 DEF Burnt
<1>12. ~InUse(c) /\ c \in Openers /\ Burnt(c)'
  BY <1>2, <1>10, IdentityAssumption DEF SpentInv, UsedAreBurnt, Burnt, Openers
<1>13. Provided'
  BY <1>2, <1>6 DEF SpentInv, Provided
<1>14. \A x \in Openers : InUse(x) => Burnt(x)'
  BY <1>11 DEF SpentInv, UsedAreBurnt
<1>15. HeldOnce' /\ UsedAreBurnt' /\ SpentOnce'
  BY <1>2, <1>12, <1>14, SpendingBegins DEF SpentInv, Wait
<1> QED
  BY <1>8, <1>9, <1>13, <1>15 DEF SpentInv

\* A break-glass token, up to the record.
LEMMA BreakGlassKeeps ==
  ASSUME ConsoleInv, NEW r \in Requests, BreakGlassRoute(r)
  PROVE  ConsoleInv'
<1> USE DEF ConsoleInv
<1>1. PICK t \in Tokens \cup {None} : LoginWithBreakGlass(r, t)
  BY DEF BreakGlassRoute
<1>2. /\ credential # None /\ ClaimBreakGlassToken(t)
      /\ UNCHANGED <<credential, code, provisioning, session, pending, issued, begun, owed>>
  BY <1>1 DEF LoginWithBreakGlass
<1>3. breakGlass' \in {breakGlass, None} /\ breakGlass # None
  BY <1>2 DEF ClaimBreakGlassToken
<1>4. \A x \in Openers : Burnt(x) => Burnt(x)'
  BY <1>2, <1>3, IdentityAssumption DEF Burnt
<1>5. \A x \in Openers : InUse(x) => Burnt(x)'
  BY <1>4 DEF SpentInv, UsedAreBurnt
<1>6. Provided'
  BY <1>2, <1>3 DEF SpentInv, Provided
<1>7. GateInv'
  BY <1>2 DEF GateInv
<1>8. CASE t = breakGlass
  <2>1. Wait(r, "audit", t) /\ breakGlass' = None
    BY <1>1, <1>2, <1>8 DEF LoginWithBreakGlass, ClaimBreakGlassToken
  <2>2. t \in Tokens /\ t \in issued /\ t # None
    BY <1>3, <1>8 DEF SpentInv, Provided, TypeOK
  <2>3. awaits' \in [Requests -> RequestRows]
    BY <2>1, <2>2, AwaitsKeepType DEF Places, Openers
  <2>4. TypeOK'
    BY <1>2, <1>3, <2>3 DEF TypeOK, RequestRows, Places, Openers
  <2>5. ~InUse(t) /\ t \in Openers /\ Burnt(t)'
    BY <1>2, <1>8, <2>1, <2>2, IdentityAssumption DEF SpentInv, UsedAreBurnt, Burnt, Openers
  <2>6. HeldOnce' /\ UsedAreBurnt' /\ SpentOnce'
    BY <1>2, <1>5, <2>1, <2>5, SpendingBegins DEF SpentInv, Wait
  <2> QED
    BY <1>6, <1>7, <2>4, <2>6 DEF SpentInv
<1>9. CASE t # breakGlass
  <2>1. EndRequest(r)
    BY <1>1, <1>9 DEF LoginWithBreakGlass
  <2>2. awaits' \in [Requests -> RequestRows]
    BY <2>1, AwaitsKeepType DEF Places
  <2>3. TypeOK'
    BY <1>2, <1>3, <2>2 DEF TypeOK, RequestRows, Places, Openers
  <2>4. \A q \in Requests : awaits'[q] = awaits[q] \/ ~Held(q)'
    BY <2>1 DEF TypeOK, EndRequest, Rest, Held
  <2> QED
    BY <1>2, <1>5, <1>6, <1>7, <2>3, <2>4, NothingIsSpent DEF SpentInv
<1> QED
  BY <1>8, <1>9

\* What follows the record of either, and what follows the issuer's token.
LEMMA HeldLoginKeeps ==
  ASSUME ConsoleInv, NEW r \in Requests, AuditedLogin(r) \/ Exchanged(r)
  PROVE  ConsoleInv'
<1> USE DEF ConsoleInv
<1>1. /\ Held(r)
      /\ UNCHANGED <<credential, code, provisioning, breakGlass, pending, owed>>
  BY DEF AuditedLogin, Exchanged, Held
<1>2. awaits[r].on \in Openers
  BY <1>1 DEF SpentInv, HeldOnce
<1>3. CASE FinishLogin(r, awaits[r].on) /\ credential # None
  <2>1. TypeOK' /\ GateInv'
    BY <1>1, <1>2, <1>3, FinishLoginKeeps
  <2>2. UNCHANGED issued
    BY <1>3 DEF FinishLogin
  <2>3. \A x \in Openers : InUse(x) => Burnt(x)'
    BY <1>1, <2>2 DEF SpentInv, UsedAreBurnt, Burnt
  <2>4. HeldOnce' /\ UsedAreBurnt' /\ SpentOnce'
    BY <1>1, <1>3, <2>3, SessionBegins DEF SpentInv
  <2> QED
    BY <1>1, <2>1, <2>2, <2>4 DEF SpentInv, Provided
<1>4. CASE EndRequest(r) /\ UNCHANGED <<session, begun, issued>>
  <2>1. awaits' \in [Requests -> RequestRows]
    BY <1>4, AwaitsKeepType DEF Places
  <2>2. TypeOK'
    BY <1>1, <1>4, <2>1 DEF TypeOK, RequestRows, Places, Openers
  <2>3. \A q \in Requests : awaits'[q] = awaits[q] \/ awaits'[q] = Rest
    BY <1>4 DEF TypeOK, EndRequest
  <2>4. GateInv' /\ \A q \in Requests : awaits'[q] = awaits[q] \/ ~Held(q)'
    BY <1>1, <1>4, <2>3 DEF GateInv, Rest, Held
  <2>5. \A x \in Openers : InUse(x) => Burnt(x)'
    BY <1>1, <1>4 DEF SpentInv, UsedAreBurnt, Burnt
  <2> QED
    BY <1>1, <1>4, <2>2, <2>3, <2>4, <2>5, NothingIsSpent DEF SpentInv, Provided
<1>5. awaits[r].at = "audit" => credential # None
  BY DEF GateInv
<1> QED
  BY <1>3, <1>4, <1>5 DEF AuditedLogin, Exchanged

\* Steps that end a request, or make it wait where no secret is held.
LEMMA OtherRequestsKeep ==
  ASSUME ConsoleInv, NEW r \in Requests, NEW at \in {"discovery", "route"},
         Wait(r, at, None) \/ EndRequest(r) \/ UNCHANGED awaits,
         UNCHANGED <<credential, code, provisioning, breakGlass, issued, begun, owed>>,
         session' \in [Sessions -> {None} \cup SessionRows],
         \A s \in Sessions : session'[s] # None => session[s] # None,
         DOMAIN pending' \subseteq States, \A q \in DOMAIN pending' : pending'[q] \in -1..StateLife,
         \A q \in DOMAIN pending' \ DOMAIN pending : ~InUse(q)
  PROVE  ConsoleInv'
<1> USE DEF ConsoleInv
<1>1. awaits' \in [Requests -> RequestRows]
  <2>1. awaits \in [Requests -> RequestRows]
    BY DEF TypeOK, RequestRows, Places, Openers
  <2> QED
    BY <2>1, AwaitsKeepType DEF Places
<1>2. TypeOK'
  BY <1>1 DEF TypeOK, RequestRows, SessionRows, Places, Openers
<1>3. \A q \in Requests : \/ awaits'[q] = awaits[q]
                          \/ awaits'[q].at \in {"rest", "discovery", "route"}
  BY DEF TypeOK, EndRequest, Wait, Rest
<1>4. GateInv' /\ \A q \in Requests : awaits'[q] = awaits[q] \/ ~Held(q)'
  BY <1>3 DEF GateInv, Held
<1>5. \A x \in Openers : InUse(x) => Burnt(x)'
  BY DEF SpentInv, UsedAreBurnt, Burnt
<1> QED
  BY <1>2, <1>4, <1>5, NothingIsSpent DEF SpentInv, Provided

\* The same without any request.
LEMMA QuietStepKeeps ==
  ASSUME ConsoleInv, UNCHANGED <<credential, code, provisioning, breakGlass, issued, begun, owed, awaits>>,
         session' \in [Sessions -> {None} \cup SessionRows],
         \A s \in Sessions : session'[s] # None => session[s] # None,
         DOMAIN pending' = DOMAIN pending, \A q \in DOMAIN pending' : pending'[q] \in -1..StateLife
  PROVE  ConsoleInv'
<1> USE DEF ConsoleInv
<1>1. TypeOK'
  BY DEF TypeOK, SessionRows
<1>2. GateInv'
  BY DEF GateInv
<1>3. \A x \in Openers : InUse(x) => Burnt(x)'
  BY DEF SpentInv, UsedAreBurnt, Burnt
<1> QED
  BY <1>1, <1>2, <1>3, NothingIsSpent DEF SpentInv, Provided

\* What touches and revocations leave of the sessions.
LEMMA SessionsStay ==
  ASSUME TypeOK, NEW s \in Sessions,
         \/ UNCHANGED session
         \/ Live(s) /\ session' = Touched(s)
         \/ Live(s) /\ session' = [Touched(s) EXCEPT ![s].revoked = 0]
         \/ session[s] # None /\ session' = [session EXCEPT ![s].revoked = 0]
  PROVE  /\ session' \in [Sessions -> {None} \cup SessionRows]
         /\ \A t \in Sessions : session'[t] # None => session[t] # None
<1>1. session \in [Sessions -> {None} \cup SessionRows]
  BY DEF TypeOK, SessionRows
<1>2. session' \in [Sessions -> {None} \cup SessionRows]
  BY <1>1, SessionsKeepType
<1>3. \A t \in Sessions \ {s} : session'[t] = session[t]
  BY <1>1 DEF Touched
<1> QED
  BY <1>2, <1>3 DEF Live

\* The sign-in at the issuer up to its exchange, and the routes behind a cookie.
LEMMA RequestsKeepOn ==
  ASSUME ConsoleInv, NEW r \in Requests,
         \/ OidcRoute(r) \/ Discovered(r) \/ CookieRouteActs(r)
         \/ \E s \in Sessions : CookieRoute(r, s)
  PROVE  ConsoleInv'
<1> USE DEF ConsoleInv
<1>1. /\ session \in [Sessions -> {None} \cup SessionRows]
      /\ DOMAIN pending \subseteq States /\ \A q \in DOMAIN pending : pending[q] \in -1..StateLife
  BY DEF TypeOK, SessionRows
<1>2. CASE OidcRoute(r)
  BY <1>1, <1>2, OtherRequestsKeep DEF OidcRoute
<1>3. CASE Discovered(r)
  <2>1. /\ EndRequest(r)
        /\ UNCHANGED <<credential, code, provisioning, breakGlass, session, issued, begun, owed>>
    BY <1>3 DEF Discovered
  <2>2. Unexpired \subseteq DOMAIN pending
    BY DEF Unexpired
  <2>3. CASE pending' = pending
    BY <1>1, <2>1, <2>3, OtherRequestsKeep
  <2>4. CASE pending' = [p \in Unexpired |-> pending[p]]
    BY <1>1, <2>1, <2>2, <2>4, OtherRequestsKeep
  <2>5. ASSUME NEW q \in States, NewState(q),
               pending' = [p \in Unexpired \cup {q} |-> IF p = q THEN StateLife ELSE pending[p]]
        PROVE  ConsoleInv'
    <3>1. ~InUse(q)
      BY <2>5 DEF NewState, InUse
    <3>2. \A p \in DOMAIN pending' : pending'[p] \in -1..StateLife
      BY <1>1, <2>2, <2>5, IdentityAssumption
    <3>3. DOMAIN pending' \subseteq States /\ DOMAIN pending' \ DOMAIN pending \subseteq {q}
      BY <1>1, <2>2, <2>5
    <3> QED
      BY <1>1, <2>1, <3>1, <3>2, <3>3, OtherRequestsKeep
  <2> QED
    BY <1>3, <2>3, <2>4, <2>5 DEF Discovered
<1>4. ASSUME NEW s \in Sessions, CookieRoute(r, s)
      PROVE  ConsoleInv'
  <2>1. /\ Live(s) /\ session' = Touched(s) /\ Wait(r, "route", None)
        /\ UNCHANGED <<credential, code, provisioning, breakGlass, pending, issued, begun, owed>>
    BY <1>4 DEF CookieRoute, requireSession
  <2> QED
    BY <1>1, <2>1, SessionsStay, OtherRequestsKeep
<1>5. CASE CookieRouteActs(r)
  <2>1. /\ EndRequest(r)
        /\ UNCHANGED <<credential, code, provisioning, breakGlass, pending, issued, begun, owed>>
        /\ \/ UNCHANGED session
           \/ \E s \in Sessions : session[s] # None /\ session' = [session EXCEPT ![s].revoked = 0]
    BY <1>5 DEF CookieRouteActs, Revoke
  <2>2. /\ session' \in [Sessions -> {None} \cup SessionRows]
        /\ \A t \in Sessions : session'[t] # None => session[t] # None
    BY <1>1, <2>1, SessionsStay
  <2> QED
    BY <1>1, <2>1, <2>2, OtherRequestsKeep
<1> QED
  BY <1>2, <1>3, <1>4, <1>5

\* The callback of a sign-in at the issuer, up to the exchange.
LEMMA CallbackKeeps ==
  ASSUME ConsoleInv, NEW r \in Requests, CallbackRoute(r)
  PROVE  ConsoleInv'
<1> USE DEF ConsoleInv
<1>1. PICK q \in States : CompleteOidc(r, q)
  BY DEF CallbackRoute
<1>2. /\ pending' = [p \in DOMAIN pending \ {q} |-> pending[p]]
      /\ UNCHANGED <<credential, code, provisioning, breakGlass, session, issued, begun, owed>>
  BY <1>1 DEF CompleteOidc
<1>3. /\ session' \in [Sessions -> {None} \cup SessionRows]
      /\ DOMAIN pending' \subseteq States /\ \A p \in DOMAIN pending' : pending'[p] \in -1..StateLife
      /\ DOMAIN pending' = DOMAIN pending \ {q}
  BY <1>2 DEF TypeOK, SessionRows
<1>4. CASE EndRequest(r)
  BY <1>2, <1>3, <1>4, OtherRequestsKeep
<1>5. CASE q \in DOMAIN pending /\ Wait(r, "exchange", q)
  <2>1. awaits' \in [Requests -> RequestRows]
    BY <1>5, AwaitsKeepType DEF Places, Openers
  <2>2. TypeOK'
    BY <1>2, <1>3, <2>1 DEF TypeOK, RequestRows, SessionRows, Places, Openers
  <2>3. \A x \in Openers : InUse(x) => Burnt(x)'
    BY <1>2, <1>3 DEF SpentInv, UsedAreBurnt, Burnt
  <2>4. ~InUse(q) /\ q \in Openers /\ Burnt(q)'
    BY <1>3, <1>5, IdentityAssumption DEF SpentInv, UsedAreBurnt, Burnt, Openers
  <2>5. HeldOnce' /\ UsedAreBurnt' /\ SpentOnce'
    BY <1>2, <1>5, <2>3, <2>4, SpendingBegins DEF SpentInv, Wait
  <2>6. \A p \in Requests : awaits'[p] = awaits[p] \/ awaits'[p].at = "exchange"
    BY <1>5 DEF TypeOK, Wait
  <2>7. GateInv'
    BY <1>2, <2>6 DEF GateInv
  <2> QED
    BY <1>2, <2>2, <2>5, <2>7 DEF SpentInv, Provided
<1> QED
  BY <1>1, <1>4, <1>5 DEF CompleteOidc

\* The routes of a session.
LEMMA SessionStepKeeps ==
  ASSUME ConsoleInv, NEW s \in Sessions, SessionStep(s)
  PROVE  ConsoleInv'
<1> USE DEF ConsoleInv
<1>1. /\ Live(s)
      /\ session' = Touched(s) \/ session' = [Touched(s) EXCEPT ![s].revoked = 0]
      /\ UNCHANGED <<code, provisioning, breakGlass, pending, issued, begun, awaits>>
  BY DEF SessionStep, SessionRoute, Touch, LogoutRoute, ReenrolBeginRoute, BeginTotpReenrol,
         ReenrolCompleteRoute, CompleteTotpReenrol
<1>2. /\ session' \in [Sessions -> {None} \cup SessionRows]
      /\ \A t \in Sessions : session'[t] # None => session[t] # None
  BY <1>1, SessionsStay
<1>3. DOMAIN pending \subseteq States /\ \A q \in DOMAIN pending : pending[q] \in -1..StateLife
  BY DEF TypeOK
<1>4. CASE UNCHANGED <<credential, owed>>
  BY <1>1, <1>2, <1>3, <1>4, QuietStepKeeps
<1>5. credential \in CredentialRows /\ credential # None
  BY <1>1 DEF Live, GateInv, TypeOK, CredentialRows
<1>6. ASSUME credential' \in CredentialRows, credential' # None, owed' \in {owed, {}},
             owed' # {} => credential'.required
      PROVE  ConsoleInv'
  <2>1. TypeOK'
    BY <1>1, <1>2, <1>6 DEF TypeOK, CredentialRows, SessionRows
  <2>2. GateInv'
    BY <1>6 DEF GateInv
  <2>3. \A x \in Openers : InUse(x) => Burnt(x)'
    BY <1>1 DEF SpentInv, UsedAreBurnt, Burnt
  <2>4. Provided'
    BY <1>1, <1>6 DEF SpentInv, Provided
  <2> QED
    BY <1>1, <2>1, <2>2, <2>3, <2>4, NothingIsSpent DEF SpentInv
<1>7. ASSUME NEW k \in Secrets, credential' = [credential EXCEPT !.pending = k], owed' = owed
      PROVE  ConsoleInv'
  BY <1>5, <1>6, <1>7, CredentialShape DEF GateInv
<1>8. ASSUME credential.pending # None, owed' = {},
             credential' = [secret |-> credential.pending, pending |-> None, required |-> FALSE]
      PROVE  ConsoleInv'
  <2>1. credential.secret \in Secrets
    BY <1>5 DEF CredentialRows
  <2>2. credential' \in CredentialRows
    BY <1>5, <1>8, <2>1, CredentialShape
  <2>3. credential' # None
    BY <2>1, <2>2, CredentialShape
  <2> QED
    BY <1>6, <1>8, <2>2, <2>3
<1>9. CASE SessionRoute(s) \/ LogoutRoute(s)
  BY <1>4, <1>9 DEF SessionRoute, Touch, LogoutRoute
<1>10. CASE ReenrolBeginRoute(s)
  BY <1>4, <1>7, <1>10 DEF ReenrolBeginRoute, BeginTotpReenrol
<1>11. CASE ReenrolCompleteRoute(s)
  BY <1>4, <1>8, <1>11 DEF ReenrolCompleteRoute, CompleteTotpReenrol
<1> QED
  BY <1>9, <1>10, <1>11 DEF SessionStep

\* Retention, the administrator, time and a crash.
LEMMA SurroundingsKeep ==
  ASSUME ConsoleInv, RunRetention \/ WriteBreakGlassToken \/ Tick \/ CrashAndBoot
  PROVE  ConsoleInv'
<1> USE DEF ConsoleInv
<1>1. /\ session \in [Sessions -> {None} \cup SessionRows]
      /\ DOMAIN pending \subseteq States /\ \A q \in DOMAIN pending : pending[q] \in -1..StateLife
  BY DEF TypeOK, SessionRows
<1>2. CASE RunRetention
  <2>1. /\ \A s \in Sessions : session'[s] \in {None, session[s]}
        /\ session' \in [Sessions -> {None} \cup SessionRows]
    BY <1>1, <1>2 DEF RunRetention
  <2>2. UNCHANGED <<credential, code, provisioning, breakGlass, pending, awaits, issued, begun, owed>>
    BY <1>2 DEF RunRetention
  <2> QED
    BY <1>1, <2>1, <2>2, QuietStepKeeps
<1>3. CASE WriteBreakGlassToken
  <2>1. PICK t \in Tokens \ issued : breakGlass' = t /\ issued' = issued \cup {t}
    BY <1>3 DEF WriteBreakGlassToken
  <2>2. UNCHANGED <<credential, code, provisioning, session, pending, awaits, begun, owed>>
    BY <1>3 DEF WriteBreakGlassToken
  <2>3. TypeOK' /\ GateInv'
    BY <2>1, <2>2 DEF TypeOK, GateInv
  <2>4. \A x \in Openers : Burnt(x) => Burnt(x)'
    BY <2>1, <2>2 DEF Burnt
  <2>5. \A x \in Openers : InUse(x) => Burnt(x)'
    BY <2>4 DEF SpentInv, UsedAreBurnt
  <2>6. Provided'
    BY <2>1, <2>2 DEF SpentInv, Provided
  <2> QED
    BY <2>2, <2>3, <2>5, <2>6, NothingIsSpent DEF SpentInv
<1>4. CASE Tick
  <2>1. UNCHANGED <<credential, code, provisioning, breakGlass, awaits, issued, begun, owed>>
    BY <1>4 DEF Tick
  <2>2. \A s \in Sessions : session'[s] = IF session[s] = None THEN None ELSE Later(session[s])
    BY <1>4 DEF Tick
  <2>3. session' \in [Sessions -> {None} \cup SessionRows]
    BY <1>4, SessionsKeepType DEF Tick
  <2>4. pending' = [q \in DOMAIN pending |-> Less(pending[q], -1)]
    BY <1>4 DEF Tick
  <2>5. DOMAIN pending' = DOMAIN pending /\ \A q \in DOMAIN pending' : pending'[q] \in -1..StateLife
    BY <1>1, <2>4, IdentityAssumption DEF Less
  <2> QED
    BY <2>1, <2>2, <2>3, <2>5, QuietStepKeeps
<1>5. CASE CrashAndBoot
  <2>1. /\ awaits' = [r \in Requests |-> Rest] /\ DOMAIN pending' = {}
        /\ UNCHANGED <<credential, code, provisioning, breakGlass, session, issued, begun, owed>>
    BY <1>5 DEF CrashAndBoot
  <2>2. awaits' \in [Requests -> RequestRows]
    BY <2>1 DEF RequestRows, Rest, Places
  <2>3. TypeOK' /\ GateInv'
    BY <2>1, <2>2 DEF TypeOK, GateInv, RequestRows, Rest, Places, Openers
  <2>4. \A r \in Requests : ~Held(r)'
    BY <2>1 DEF Held, Rest
  <2>5. \A x \in Openers : InUse(x) => Burnt(x)'
    BY <2>1 DEF SpentInv, UsedAreBurnt, Burnt
  <2> QED
    BY <2>1, <2>3, <2>4, <2>5, NothingIsSpent DEF SpentInv, Provided
<1> QED
  BY <1>2, <1>3, <1>4, <1>5

LEMMA ConsoleInitially == Init => ConsoleInv
<1> SUFFICES ASSUME Init PROVE ConsoleInv
  OBVIOUS
<1>1. awaits = [r \in Requests |-> Rest] /\ begun = [s \in Sessions |-> None]
  BY DEF Init
<1>2. TypeOK
  BY <1>1 DEF Init, TypeOK, Rest
<1>3. \A x \in Openers : ~InUse(x)
  BY <1>1, IdentityAssumption DEF InUse, Held, Rest, Openers
<1>4. HeldOnce /\ SpentOnce
  BY <1>1 DEF HeldOnce, SpentOnce, Held, Rest
<1>5. GateInv /\ Provided
  BY <1>1 DEF GateInv, Provided, Init, Rest
<1> QED
  BY <1>2, <1>3, <1>4, <1>5 DEF ConsoleInv, SpentInv, UsedAreBurnt

LEMMA ConsoleStepKeeps == ConsoleInv /\ [Next]_vars => ConsoleInv'
<1> SUFFICES ASSUME ConsoleInv, [Next]_vars PROVE ConsoleInv'
  OBVIOUS
<1>1. ASSUME NEW r \in Requests, RequestStep(r) PROVE ConsoleInv'
  BY <1>1, EnrolKeeps, LoginKeeps, RecoveryKeeps, BreakGlassKeeps, HeldLoginKeeps,
     RequestsKeepOn, CallbackKeeps DEF RequestStep
<1>2. CASE UNCHANGED vars
  <2>1. /\ session \in [Sessions -> {None} \cup SessionRows]
        /\ \A q \in DOMAIN pending : pending[q] \in -1..StateLife
    BY DEF ConsoleInv, TypeOK, SessionRows
  <2> QED
    BY <1>2, <2>1, QuietStepKeeps DEF vars
<1> QED
  BY <1>1, <1>2, SessionStepKeeps, RequestsKeepOn, SurroundingsKeep DEF Next

\* Requests, secrets, sessions and the credential keep their types and agree:
\* what is held or has begun a session is used up (operator-identity.ts).
THEOREM ConsoleAgrees == Spec => []ConsoleInv
<1> QED
  BY ConsoleInitially, ConsoleStepKeeps, PTL DEF Spec

\* A recovery code, a break-glass token and a sign-in at the issuer begin one
\* session at most, for any number of requests and crashes (operator-identity.ts,
\* loginWithRecoveryCode, loginWithBreakGlass, completeOidc).
THEOREM SecretsSpentOnce == Spec => []SpentOnce
<1>1. ConsoleInv => SpentOnce
  BY DEF ConsoleInv, SpentInv
<1> QED
  BY <1>1, ConsoleAgrees, PTL

\* From the use of a recovery code on no request passes the console's gate before
\* a code of a new authenticator was shown (console-auth-routes.ts, requireSession).
THEOREM GateAlwaysHolds == Spec => GateHolds
<1> DEFINE Gated == \A r \in Requests :
                      awaits'[r].at = "route" => owed = {} \/ awaits'[r] = awaits[r]
<1>1. ASSUME ConsoleInv, [Next]_vars
      PROVE  [Gated]_vars
  <2> SUFFICES ASSUME NEW r \in Requests, awaits'[r].at = "route", awaits'[r] # awaits[r]
               PROVE  owed = {}
    OBVIOUS
  <2>1. CASE \E q \in Requests, s \in Sessions : CookieRoute(q, s)
    BY <1>1, <2>1 DEF CookieRoute, requireSession, ConsoleInv, GateInv
  <2>2. ASSUME NEW q \in Requests, RequestStep(q)
        PROVE  FALSE
    <3>1. awaits \in [Requests -> RequestRows]
      BY <1>1 DEF ConsoleInv, TypeOK, RequestRows, Places, Openers
    <3>2. \/ EndRequest(q)
          \/ \E at \in {"audit", "discovery", "exchange"}, on \in Openers \cup {None} : Wait(q, at, on)
      <4>1. CASE \E c \in Codes : LoginWithRecoveryCode(q, c)
        BY <4>1 DEF LoginWithRecoveryCode, Openers
      <4>2. CASE \E t \in Tokens \cup {None} : LoginWithBreakGlass(q, t)
        BY <4>2 DEF LoginWithBreakGlass, Openers
      <4>3. CASE \E p \in States : CompleteOidc(q, p)
        BY <4>3 DEF CompleteOidc, Openers
      <4>4. CASE OidcRoute(q)
        BY <4>4 DEF OidcRoute
      <4>5. CASE EnrolRoute(q) \/ LoginRoute(q) \/ AuditedLogin(q) \/ Discovered(q) \/ Exchanged(q)
                 \/ CookieRouteActs(q)
        BY <4>5 DEF EnrolRoute, Enrol, LoginRoute, LoginLocal, AuditedLogin, Discovered, Exchanged,
                    CookieRouteActs, FinishLogin
      <4> QED
        BY <2>2, <4>1, <4>2, <4>3, <4>4, <4>5
        DEF RequestStep, RecoveryRoute, BreakGlassRoute, CallbackRoute
    <3>3. \A p \in Requests : awaits'[p] = awaits[p] \/ awaits'[p].at \in {"rest", "audit", "discovery", "exchange"}
      BY <3>1, <3>2 DEF EndRequest, Wait, Rest
    <3> QED
      BY <3>3
  <2>3. CASE \/ \E s \in Sessions : SessionStep(s)
             \/ RunRetention \/ WriteBreakGlassToken \/ Tick \/ UNCHANGED vars
    BY <2>3 DEF SessionStep, SessionRoute, LogoutRoute, ReenrolBeginRoute, ReenrolCompleteRoute,
                RunRetention, WriteBreakGlassToken, Tick, vars
  <2>4. CASE CrashAndBoot
    BY <2>4 DEF CrashAndBoot, Rest
  <2> QED
    BY <1>1, <2>1, <2>2, <2>3, <2>4 DEF Next
<1>2. ConsoleInv /\ [Next]_vars => [Gated]_vars
  BY <1>1
<1> QED
  BY <1>2, ConsoleAgrees, PTL DEF Spec, GateHolds, Gated

-----------------------------------------------------------------------------
(* The credentials. *)

\* Nothing carries a time that has not come.
TimesPassed ==
    /\ mount.writtenAt <= clock
    /\ \A d \in Declarations : marks[d] <= clock

KnownWereRefused == \A d \in Declarations : known[d] \subseteq refused[d]

\* A call under way is for a declaration and has a secret, which the variable
\* keeps for the child.
CallsAreForSomething ==
    \A c \in Calls : call[c].at # "idle" =>
       /\ call[c].declaration \in Declarations
       /\ call[c].secret # NoSecret
       /\ call[c].at = "resolved" => variable # NoSecret

\* A call whose secret was refused holds one the remote refused its declaration.
RefusedAreRecorded ==
    \A c \in Calls : call[c].at = "refused" => call[c].secret \in refused[call[c].declaration]

\* What was marked, and is still in the file, is blocked.
KnownIsBlocked ==
    \A d \in Declarations : mount.secret \in known[d] => Blocked(d)

\* A call reads what the file holds, unless the administrator writes meanwhile.
ReadsTheFile ==
    "read" \in Quiet => \A c \in Calls : call[c].at = "reading" => call[c].secret = mount.secret

\* A call is refused what the file holds.
RefusedIsCurrent ==
    "calls" \in Quiet => \A c \in Calls : call[c].at = "refused" => call[c].secret = mount.secret

MarksInv == /\ CredentialsTypeOK /\ TimesPassed /\ KnownWereRefused
            /\ CallsAreForSomething /\ RefusedAreRecorded
            /\ KnownIsBlocked /\ ReadsTheFile /\ RefusedIsCurrent

Deserved == {"calls", "tie"} \subseteq Quiet => BlocksAreDeserved

\* The steps in which only a call changes its place.
LEMMA CallMoves ==
  ASSUME MarksInv, Deserved, NEW c \in Calls,
         \/ \E d \in Declarations : ReadSecret(c, d)
         \/ Refuse(c) \/ StoreUnread(c) \/ Spawn(c) \/ Answered(c)
  PROVE  MarksInv' /\ Deserved'
<1> USE DEF MarksInv
<1>1. UNCHANGED <<clock, mount, variable, marks, refused, known>>
  BY DEF ReadSecret, Refuse, StoreUnread, Spawn, Answered
<1>2. \A b \in Calls \ {c} : call'[b] = call[b]
  BY DEF ReadSecret, Refuse, StoreUnread, Spawn, Answered, CredentialsTypeOK
<1>3. \/ call'[c] = Unused
      \/ /\ call'[c].at = "sent" /\ call'[c].declaration \in Declarations
         /\ call'[c].secret # NoSecret
      \/ /\ call'[c].at = "reading" /\ call'[c].declaration \in Declarations
         /\ call'[c].secret = mount.secret /\ mount.secret # NoSecret
  BY DEF ReadSecret, Refuse, StoreUnread, Spawn, Answered, CredentialsTypeOK, CallsAreForSomething
<1>4. call' \in [Calls -> [at : Steps, declaration : Declarations \cup {NoDeclaration},
                           secret : Numbered \cup {NoSecret}]]
  BY DEF ReadSecret, Refuse, StoreUnread, Spawn, Answered, CredentialsTypeOK, Steps, Unused
<1>5. failures' \in 0..MaxFails
  BY CredentialsAssumption DEF ReadSecret, Refuse, StoreUnread, Spawn, Answered, CredentialsTypeOK
<1>6. CredentialsTypeOK'
  BY <1>1, <1>4, <1>5 DEF CredentialsTypeOK
<1>7. CallsAreForSomething' /\ RefusedAreRecorded' /\ ReadsTheFile' /\ RefusedIsCurrent'
  BY <1>1, <1>2, <1>3
  DEF CallsAreForSomething, RefusedAreRecorded, ReadsTheFile, RefusedIsCurrent, Unused
<1>8. TimesPassed' /\ KnownWereRefused' /\ KnownIsBlocked' /\ Deserved'
  BY <1>1 DEF TimesPassed, KnownWereRefused, KnownIsBlocked, Deserved, BlocksAreDeserved, Blocked,
              MarkOf, ChangedSince
<1> QED
  BY <1>6, <1>7, <1>8

\* The secret is handed over: the mark was older than the file, or there was none.
LEMMA HandKeeps ==
  ASSUME MarksInv, Deserved, NEW c \in Calls, NEW fails \in BOOLEAN, Hand(c, fails)
  PROVE  MarksInv' /\ Deserved'
<1> USE DEF MarksInv
<1>1. PICK d \in Declarations : d = call[c].declaration
  BY DEF Hand, CallsAreForSomething
<1>2. /\ ~Blocked(d) /\ marks' \in {marks, [marks EXCEPT ![d] = NoMark]}
      /\ variable' = call[c].secret /\ call' = [call EXCEPT ![c].at = "resolved"]
      /\ UNCHANGED <<clock, mount, refused, known>>
  BY <1>1 DEF Hand
<1>3. failures' \in 0..MaxFails
  BY CredentialsAssumption DEF Hand, CredentialsTypeOK
<1>4. CredentialsTypeOK'
  BY <1>1, <1>2, <1>3 DEF CredentialsTypeOK, Steps
<1>5. /\ call'[c].at = "resolved" /\ call'[c].declaration = d
      /\ call'[c].secret = call[c].secret /\ call[c].secret # NoSecret
      /\ \A b \in Calls \ {c} : call'[b] = call[b]
  BY <1>1, <1>2 DEF CredentialsTypeOK, CallsAreForSomething, Hand
<1>6. CallsAreForSomething' /\ RefusedAreRecorded' /\ ReadsTheFile' /\ RefusedIsCurrent'
  BY <1>2, <1>5 DEF CallsAreForSomething, RefusedAreRecorded, ReadsTheFile, RefusedIsCurrent
<1>7. \A e \in Declarations : marks'[e] = marks[e] \/ (e = d /\ marks'[e] = NoMark)
  BY <1>2 DEF CredentialsTypeOK
<1>8. TimesPassed' /\ KnownWereRefused'
  BY <1>2, <1>7, CredentialsAssumption DEF TimesPassed, KnownWereRefused, CredentialsTypeOK, NoMark
<1>9. KnownIsBlocked'
  BY <1>2, <1>7 DEF KnownIsBlocked, Blocked, MarkOf, ChangedSince
<1>10. Deserved'
  BY <1>2, <1>7 DEF Deserved, BlocksAreDeserved, Blocked, MarkOf, ChangedSince
<1> QED
  BY <1>4, <1>6, <1>8, <1>9, <1>10

\* The remote refuses the secret, and the refusal is marked.
LEMMA RefusalsKeep ==
  ASSUME MarksInv, Deserved, NEW c \in Calls,
         Rejected(c) \/ \E fails \in BOOLEAN : MarkFailing(c, fails)
  PROVE  MarksInv' /\ Deserved'
<1> USE DEF MarksInv
<1>1. CASE Rejected(c)
  <2>1. PICK d \in Declarations, s \in Numbered :
          d = call[c].declaration /\ s = call[c].secret
    BY <1>1 DEF Rejected, CallsAreForSomething, CredentialsTypeOK
  <2>2. /\ "calls" \in Quiet => s = mount.secret
        /\ refused' = [refused EXCEPT ![d] = @ \cup {s}]
        /\ call' = [call EXCEPT ![c].at = "refused"]
        /\ UNCHANGED <<clock, mount, variable, marks, failures, known>>
    BY <1>1, <2>1 DEF Rejected
  <2>3. CredentialsTypeOK'
    BY <2>2 DEF CredentialsTypeOK, Steps
  <2>4. /\ call'[c].at = "refused" /\ call'[c].declaration = d /\ call'[c].secret = s
        /\ \A b \in Calls \ {c} : call'[b] = call[b]
    BY <2>1, <2>2 DEF CredentialsTypeOK
  <2>5. s \in refused'[d] /\ \A e \in Declarations : refused[e] \subseteq refused'[e]
    BY <2>2 DEF CredentialsTypeOK
  <2>6. s # NoSecret
    BY DEF Numbered, NoSecret
  <2>7. CallsAreForSomething' /\ RefusedAreRecorded' /\ ReadsTheFile' /\ RefusedIsCurrent'
    BY <2>2, <2>4, <2>5, <2>6
    DEF CallsAreForSomething, RefusedAreRecorded, ReadsTheFile, RefusedIsCurrent
  <2>8. TimesPassed' /\ KnownWereRefused' /\ KnownIsBlocked' /\ Deserved'
    BY <2>2, <2>5 DEF TimesPassed, KnownWereRefused, KnownIsBlocked, Deserved, BlocksAreDeserved,
                      Blocked, MarkOf, ChangedSince
  <2> QED
    BY <2>3, <2>7, <2>8
<1>2. ASSUME NEW fails \in BOOLEAN, MarkFailing(c, fails)
      PROVE  MarksInv' /\ Deserved'
  <2>1. PICK d \in Declarations, s \in Numbered :
          d = call[c].declaration /\ s = call[c].secret
    BY <1>2 DEF MarkFailing, CallsAreForSomething, CredentialsTypeOK
  <2>2. /\ call[c].at = "refused" /\ call' = [call EXCEPT ![c] = Unused]
        /\ UNCHANGED <<clock, mount, variable, refused>>
        /\ \/ UNCHANGED <<marks, known>>
           \/ /\ marks' = [marks EXCEPT ![d] = clock]
              /\ known' = [known EXCEPT ![d] = @ \cup {s}]
    BY <1>2, <2>1 DEF MarkFailing
  <2>3. failures' \in 0..MaxFails
    BY <1>2, CredentialsAssumption DEF MarkFailing, CredentialsTypeOK
  <2>4. CredentialsTypeOK'
    BY <2>2, <2>3 DEF CredentialsTypeOK, Steps, Unused
  <2>5. call'[c] = Unused /\ \A b \in Calls \ {c} : call'[b] = call[b]
    BY <2>2 DEF CredentialsTypeOK
  <2>6. CallsAreForSomething' /\ RefusedAreRecorded' /\ ReadsTheFile' /\ RefusedIsCurrent'
    BY <2>2, <2>5 DEF CallsAreForSomething, RefusedAreRecorded, ReadsTheFile, RefusedIsCurrent, Unused
  <2>7. CASE UNCHANGED <<marks, known>>
    <3>1. TimesPassed' /\ KnownWereRefused' /\ KnownIsBlocked' /\ Deserved'
      BY <2>2, <2>7 DEF TimesPassed, KnownWereRefused, KnownIsBlocked, Deserved, BlocksAreDeserved,
                        Blocked, MarkOf, ChangedSince
    <3> QED
      BY <2>4, <2>6, <3>1
  <2>8. CASE marks' = [marks EXCEPT ![d] = clock] /\ known' = [known EXCEPT ![d] = @ \cup {s}]
    <3>1. /\ marks'[d] = clock /\ \A e \in Declarations \ {d} : marks'[e] = marks[e]
          /\ known'[d] = known[d] \cup {s} /\ \A e \in Declarations \ {d} : known'[e] = known[e]
          /\ s \in refused[d]
      BY <2>1, <2>2, <2>8 DEF CredentialsTypeOK, RefusedAreRecorded
    <3>2. clock \in Nat /\ mount.writtenAt \in Nat
      BY CredentialsAssumption DEF CredentialsTypeOK
    <3>3. TimesPassed' /\ KnownWereRefused'
      BY <2>2, <3>1, <3>2 DEF TimesPassed, KnownWereRefused
    <3>4. MarkOf(d)' # NoMark /\ ~ChangedSince(clock)
      BY <3>1, <3>2 DEF TimesPassed, MarkOf, ChangedSince, NoMark
    <3>5. Blocked(d)'
      BY <2>2, <3>1, <3>4 DEF Blocked, MarkOf, ChangedSince
    <3>6. KnownIsBlocked'
      BY <2>2, <3>1, <3>5 DEF KnownIsBlocked, Blocked, MarkOf, ChangedSince
    <3>7. "calls" \in Quiet => mount.secret = s
      BY <2>1, <2>2 DEF RefusedIsCurrent
    <3>8. Deserved'
      BY <2>2, <3>1, <3>7 DEF Deserved, BlocksAreDeserved, Blocked, MarkOf, ChangedSince
    <3> QED
      BY <2>4, <2>6, <3>3, <3>6, <3>8
  <2> QED
    BY <2>2, <2>7, <2>8
<1> QED
  BY <1>1, <1>2

\* The operator clears a mark.
LEMMA ClearingKeeps ==
  ASSUME MarksInv, Deserved, NEW d \in Declarations, ClearFailing(d)
  PROVE  MarksInv' /\ Deserved'
<1> USE DEF MarksInv
<1>1. /\ marks' = [marks EXCEPT ![d] = NoMark] /\ known' = [known EXCEPT ![d] = {}]
      /\ UNCHANGED <<clock, mount, variable, call, failures, refused>>
  BY DEF ClearFailing
<1>2. CredentialsTypeOK'
  BY <1>1 DEF CredentialsTypeOK
<1>3. /\ marks'[d] = NoMark /\ \A e \in Declarations \ {d} : marks'[e] = marks[e]
      /\ known'[d] = {} /\ \A e \in Declarations \ {d} : known'[e] = known[e]
  BY <1>1 DEF CredentialsTypeOK
<1>4. clock \in Nat
  BY CredentialsAssumption DEF CredentialsTypeOK
<1>5. TimesPassed' /\ KnownWereRefused'
  BY <1>1, <1>3, <1>4 DEF TimesPassed, KnownWereRefused, NoMark
<1>6. KnownIsBlocked' /\ Deserved'
  BY <1>1, <1>3 DEF KnownIsBlocked, Deserved, BlocksAreDeserved, Blocked, MarkOf, ChangedSince
<1>7. CallsAreForSomething' /\ RefusedAreRecorded' /\ ReadsTheFile' /\ RefusedIsCurrent'
  BY <1>1 DEF CallsAreForSomething, RefusedAreRecorded, ReadsTheFile, RefusedIsCurrent
<1> QED
  BY <1>2, <1>5, <1>6, <1>7

\* The administrator writes the file or takes it away: under Quiet, where no call
\* reads it or was refused what it holds, and later than every mark.
LEMMA WritesKeep ==
  ASSUME MarksInv, Deserved, Rotate \/ Withdraw
  PROVE  MarksInv' /\ Deserved'
<1> USE DEF MarksInv
<1>1. Settled /\ UNCHANGED <<clock, variable, marks, call, failures, refused, known>>
  BY DEF Rotate, Withdraw
<1>2. mount'.secret = NoSecret \/ (mount'.secret \in Fresh /\ mount'.writtenAt = clock)
  BY DEF Rotate, Withdraw, CredentialsTypeOK
<1>3. mount' \in [secret : Numbered \cup {NoSecret}, writtenAt : 0..MaxClock] /\ mount'.writtenAt <= clock
  BY DEF Rotate, Withdraw, CredentialsTypeOK, Fresh, TimesPassed
<1>4. CredentialsTypeOK' /\ TimesPassed' /\ KnownWereRefused'
  BY <1>1, <1>3 DEF CredentialsTypeOK, TimesPassed, KnownWereRefused
<1>5. CallsAreForSomething' /\ RefusedAreRecorded'
  BY <1>1 DEF CallsAreForSomething, RefusedAreRecorded
<1>6. ReadsTheFile' /\ RefusedIsCurrent'
  BY <1>1 DEF ReadsTheFile, RefusedIsCurrent, Settled, Reading
<1>7. \A d \in Declarations : mount'.secret \notin known[d]
  BY <1>2 DEF Fresh, Written, KnownWereRefused, CredentialsTypeOK, Numbered, NoSecret
<1>8. KnownIsBlocked'
  BY <1>1, <1>7 DEF KnownIsBlocked
<1>9. ASSUME "tie" \in Quiet, mount'.secret # NoSecret, NEW d \in Declarations
      PROVE  ~Blocked(d)'
  <2>1. mount'.writtenAt = clock /\ marks[d] # clock /\ marks[d] <= clock
    BY <1>1, <1>2, <1>9 DEF Settled, TimesPassed
  <2>2. marks[d] = NoMark \/ marks[d] < clock
    BY <2>1, CredentialsAssumption DEF CredentialsTypeOK
  <2> QED
    BY <1>1, <1>9, <2>1, <2>2 DEF Blocked, MarkOf, ChangedSince
<1>10. Deserved'
  BY <1>9 DEF Deserved, BlocksAreDeserved
<1> QED
  BY <1>4, <1>5, <1>6, <1>8, <1>10

\* Time passes, and the service starts again.
LEMMA TimeAndBootsKeep ==
  ASSUME MarksInv, Deserved, ClockTicks \/ Restart \/ UNCHANGED credentialVars
  PROVE  MarksInv' /\ Deserved'
<1> USE DEF MarksInv
<1>1. /\ clock' \in {clock, clock + 1} /\ clock' \in 0..MaxClock
      /\ UNCHANGED <<mount, marks, failures, refused, known>>
  BY CredentialsAssumption DEF ClockTicks, Restart, credentialVars, CredentialsTypeOK
<1>2. \/ UNCHANGED <<call, variable>>
      \/ call' = [c \in Calls |-> Unused] /\ variable' = NoSecret
  BY DEF ClockTicks, Restart, credentialVars
<1>3. CredentialsTypeOK'
  BY <1>1, <1>2 DEF CredentialsTypeOK, Steps, Unused
<1>4. TimesPassed' /\ KnownWereRefused'
  BY <1>1 DEF TimesPassed, KnownWereRefused, CredentialsTypeOK, NoMark
<1>5. CallsAreForSomething' /\ RefusedAreRecorded' /\ ReadsTheFile' /\ RefusedIsCurrent'
  BY <1>1, <1>2 DEF CallsAreForSomething, RefusedAreRecorded, ReadsTheFile, RefusedIsCurrent, Unused
<1>6. KnownIsBlocked' /\ Deserved'
  BY <1>1 DEF KnownIsBlocked, Deserved, BlocksAreDeserved, Blocked, MarkOf, ChangedSince
<1> QED
  BY <1>3, <1>4, <1>5, <1>6

LEMMA MarksInitially == CredentialsInit => MarksInv /\ Deserved
<1> SUFFICES ASSUME CredentialsInit PROVE MarksInv /\ Deserved
  OBVIOUS
<1>1. /\ clock = 0 /\ mount = [secret |-> 1, writtenAt |-> 0] /\ variable = NoSecret /\ failures = 0
      /\ \A d \in Declarations : marks[d] = NoMark /\ refused[d] = {} /\ known[d] = {}
      /\ \A c \in Calls : call[c].at = "idle"
  BY DEF CredentialsInit, Unused
<1>2. CredentialsTypeOK
  BY CredentialsAssumption DEF CredentialsInit, CredentialsTypeOK, Steps, Unused, Numbered
<1>3. TimesPassed /\ KnownWereRefused /\ KnownIsBlocked
  BY <1>1 DEF TimesPassed, KnownWereRefused, KnownIsBlocked, NoMark
<1>4. CallsAreForSomething /\ RefusedAreRecorded /\ ReadsTheFile /\ RefusedIsCurrent
  BY <1>1 DEF CallsAreForSomething, RefusedAreRecorded, ReadsTheFile, RefusedIsCurrent
<1>5. Deserved
  BY <1>1 DEF Deserved, BlocksAreDeserved, Blocked, MarkOf
<1> QED
  BY <1>2, <1>3, <1>4, <1>5 DEF MarksInv

LEMMA MarksStepKeeps == MarksInv /\ Deserved /\ [CredentialsNext]_credentialVars => MarksInv' /\ Deserved'
<1> SUFFICES ASSUME MarksInv, Deserved, [CredentialsNext]_credentialVars
             PROVE  MarksInv' /\ Deserved'
  OBVIOUS
<1>1. ASSUME NEW c \in Calls,
             \/ \E d \in Declarations : ReadSecret(c, d)
             \/ Refuse(c) \/ StoreUnread(c) \/ Spawn(c) \/ Answered(c) \/ Rejected(c)
             \/ \E fails \in BOOLEAN : Hand(c, fails) \/ MarkFailing(c, fails)
      PROVE  MarksInv' /\ Deserved'
  BY <1>1, CallMoves, HandKeeps, RefusalsKeep
<1> QED
  BY <1>1, ClearingKeeps, WritesKeep, TimeAndBootsKeep DEF CredentialsNext

\* Marks, files and calls agree, through rotations and restarts (credentials.ts).
THEOREM MarksAgree == CredentialsSpec => []MarksInv
<1> QED
  BY MarksInitially, MarksStepKeeps, PTL DEF CredentialsSpec

\* A declaration is blocked only while the file holds a secret a remote refused it,
\* where a rotation meets neither a call that was or will be refused the old secret
\* nor a mark of its own millisecond (credentials.ts, resolveInto, secretChangedSince).
THEOREM BlocksAlwaysDeserved ==
  ASSUME {"calls", "tie"} \subseteq Quiet
  PROVE  CredentialsSpec => []BlocksAreDeserved
<1>1. CredentialsSpec => [](MarksInv /\ Deserved)
  BY MarksInitially, MarksStepKeeps, PTL DEF CredentialsSpec
<1>2. Deserved => BlocksAreDeserved
  BY DEF Deserved
<1> QED
  BY <1>1, <1>2, PTL

\* A secret that was refused and marked is not handed out again before the operator
\* clears the mark, where no rotation comes between the reading of the file and of
\* the mark (credentials.ts, resolveInto).
THEOREM RefusedAlwaysStayRefused ==
  ASSUME "read" \in Quiet
  PROVE  CredentialsSpec => RefusedStaysRefused
<1> DEFINE NotKnown == \A c \in Calls :
              (call[c].at = "reading" /\ call'[c].at = "resolved")
                 => call[c].secret \notin known[call[c].declaration]
<1>1. MarksInv /\ [CredentialsNext]_credentialVars => [NotKnown]_credentialVars
  <2> SUFFICES ASSUME MarksInv, CredentialsNext, NEW c \in Calls,
                      call[c].at = "reading", call'[c].at = "resolved"
               PROVE  call[c].secret \notin known[call[c].declaration]
    BY DEF credentialVars
  <2>1. call \in [Calls -> [at : Steps, declaration : Declarations \cup {NoDeclaration},
                           secret : Numbered \cup {NoSecret}]]
    BY DEF MarksInv, CredentialsTypeOK
  <2>2. ASSUME NEW b \in Calls,
               \/ \E d \in Declarations : ReadSecret(b, d)
               \/ Refuse(b) \/ StoreUnread(b) \/ Spawn(b) \/ Answered(b) \/ Rejected(b)
               \/ \E fails \in BOOLEAN : MarkFailing(b, fails)
        PROVE  FALSE
    BY <2>1, <2>2 DEF ReadSecret, Refuse, StoreUnread, Spawn, Answered, Rejected, MarkFailing, Unused
  <2>3. ASSUME NEW b \in Calls, NEW fails \in BOOLEAN, Hand(b, fails)
        PROVE  call[c].secret \notin known[call[c].declaration]
    <3>1. b = c
      BY <2>1, <2>3 DEF Hand
    <3>2. ~Blocked(call[c].declaration)
      BY <2>3, <3>1 DEF Hand
    <3>3. call[c].declaration \in Declarations /\ call[c].secret = mount.secret
      BY DEF MarksInv, CallsAreForSomething, ReadsTheFile
    <3> QED
      BY <3>2, <3>3 DEF MarksInv, KnownIsBlocked
  <2>4. CASE (\E d \in Declarations : ClearFailing(d)) \/ Rotate \/ Withdraw \/ ClockTicks \/ Restart
    BY <2>4 DEF ClearFailing, Rotate, Withdraw, ClockTicks, Restart, Unused
  <2> QED
    BY <2>2, <2>3, <2>4 DEF CredentialsNext
<1> QED
  BY <1>1, MarksAgree, PTL DEF CredentialsSpec, RefusedStaysRefused, NotKnown

=============================================================================
