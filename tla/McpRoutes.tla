----------------------------- MODULE McpRoutes -----------------------------
(***************************************************************************)
(* The OAuth and MCP surface (src/src/surfaces/mcp-routes.ts) over the     *)
(* declarations and the authorization tables: consent, codes, the tokens'  *)
(* exchange, sessions frozen at a grant epoch, their event streams, and    *)
(* the sweep that tells the streams of a narrowed grant.                   *)
(*                                                                         *)
(* Sessions, streams, consents and codes live in the process and die with  *)
(* it.  A handler awaits nothing but the store, which answers within the   *)
(* turn, so each request is one action; the eviction order of sessions is  *)
(* the order they were made in.                                            *)
(***************************************************************************)
EXTENDS Authorization, Sequences

CONSTANTS SessionIds,   \* session ids
          Streams,      \* event streams a client may hold open
          MaxSessions,  \* MAX_SESSIONS
          MaxPending,   \* MAX_PENDING_AUTHORIZATIONS
          MaxStreams    \* MAX_STREAMS_PER_GRANT

ASSUME McpRoutesAssumption ==
    /\ SessionIds \subseteq Nat
    /\ Streams \subseteq Nat
    /\ None \notin SessionIds
    /\ MaxSessions \in Nat \ {0}
    /\ MaxPending \in Nat
    /\ MaxStreams \in Nat

VARIABLES sessions,  \* sessions[s]: the session kept under an id
          made,      \* the live session ids, oldest first
          streams,   \* streams[x]: the session it is bound to and the epoch its client knows
          armed,     \* is the sweep's timer set?
          pending,   \* consent requests waiting for the operator
          codes,     \* codes issued and not yet exchanged
          eras,      \* observation: eras[id], how often an id has been declared
          eraOf      \* observation: eraOf[g], the era a grant was issued in

surfaceVars == <<sessions, made, streams, armed, pending, codes>>
vars == <<declarationVars, authorizationVars, surfaceVars, eras, eraOf>>

Consents == [client : Clients, id : Ids, scopes : SUBSET Scopes]
SessionRows == [grant : GrantIds, id : Ids, caps : SUBSET Capabilities, epoch : 0..MaxEpoch]

TypeOK ==
    /\ DeclarationsTypeOK
    /\ AuthorizationTypeOK
    /\ sessions \in [SessionIds -> SessionRows \cup {None}]
    /\ made \in Seq(SessionIds)
    /\ streams \in [Streams -> [session : SessionIds, told : 0..MaxEpoch] \cup {None}]
    /\ armed \in BOOLEAN
    /\ pending \subseteq Consents
    /\ codes \subseteq Consents
    /\ eras \in [Ids -> Nat]
    /\ eraOf \in [GrantIds -> Nat]

Nothing(S) == [x \in S |-> None]

Init ==
    /\ DeclarationsInit
    /\ AuthorizationInit
    /\ sessions = Nothing(SessionIds)
    /\ made = <<>>
    /\ streams = Nothing(Streams)
    /\ armed = FALSE
    /\ pending = {}
    /\ codes = {}
    /\ eras = [id \in Ids |-> 0]
    /\ eraOf = [g \in GrantIds |-> 0]

-----------------------------------------------------------------------------
Open == {x \in Streams : streams[x] # None}
Live == {s \in SessionIds : sessions[s] # None}

\* A grant's id is new: no row has it, and no session remembers it.
NewGrants == {g \in GrantIds : /\ grants[g] = None
                               /\ \A s \in Live : sessions[s].grant # g}
NewGrant(g) == NewGrants # {} /\ g = Min(NewGrants)

\* recomputeSessionGrant: what is left of what the session already had.
Recomputed(s, row) ==
    [sessions[s] EXCEPT !.epoch = row.epoch,
                        !.caps = EffectiveGrant(row, sessions[s].caps)]

\* checkSession: closed, as it was, or moved to the declaration's epoch.
Checked(s) ==
    LET id == sessions[s].id
    IN IF ~GrantIsLive(sessions[s].grant) \/ ~Active(id) THEN None
       ELSE IF sessions[s].epoch = Current(id).epoch THEN sessions[s]
       ELSE Recomputed(s, Current(id))

\* What a stream knows once its session has become now[s]: closed with it, and
\* told of a move.
Told(x, now) ==
    IF streams[x] = None \/ now[streams[x].session] = None THEN None
    ELSE [streams[x] EXCEPT !.told = now[streams[x].session].epoch]

\* Sessions become `now`; streams follow, and the last one takes the timer.
Become(now) ==
    /\ sessions' = now
    /\ made' = SelectSeq(made, LAMBDA s : now[s] # None)
    /\ streams' = [x \in Streams |-> Told(x, now)]
    /\ armed' = (armed /\ \E x \in Streams : streams'[x] # None)

AfterCheck(S) == [s \in SessionIds |-> IF s \in S THEN Checked(s) ELSE sessions[s]]

-----------------------------------------------------------------------------
\* OAuth.

\* GET /oauth/authorize.
AskConsent(c, id, scopes) ==
    /\ clients[c] = "live"
    /\ Cardinality(pending) < MaxPending
    /\ pending' = pending \cup {[client |-> c, id |-> id, scopes |-> scopes]}
    /\ UNCHANGED <<declarationVars, authorizationVars, sessions, made, streams, armed,
                   codes, eras, eraOf>>

\* POST /oauth/authorize by the operator.
Approve(p) ==
    /\ pending' = pending \ {p}
    /\ codes' = codes \cup {p}
    /\ UNCHANGED <<declarationVars, authorizationVars, sessions, made, streams, armed,
                   eras, eraOf>>

\* A request or a code runs out, or its code is presented with a wrong verifier.
Lapse(p) ==
    /\ pending' = pending \ {p}
    /\ codes' = codes \ {p}
    /\ UNCHANGED <<declarationVars, authorizationVars, sessions, made, streams, armed,
                   eras, eraOf>>

\* The grant is for whatever generation the declaration has by now.
ExchangeCode(p, g) ==
    /\ Current(p.id) # NoRow
    /\ NewGrant(g)
    /\ IssueMcpGrant(g, p.client, p.id, Latest(p.id), p.scopes)
    /\ eraOf' = [eraOf EXCEPT ![g] = eras[p.id]]
    /\ codes' = codes \ {p}
    /\ UNCHANGED <<declarationVars, sessions, made, streams, armed, pending, eras>>

-----------------------------------------------------------------------------
\* MCP sessions and streams.

\* establishMcpSession: the token, its grant, the audience and the era.
Established(t, id) ==
    LET grant == grants[tokens[t].grant]
    IN /\ Usable(t, "access")
       /\ grant.kind = "mcp"
       /\ grant.id = id
       /\ Active(id)
       /\ grant.generation = Latest(id)

NewSession(t, id) ==
    [grant |-> tokens[t].grant, id |-> id, epoch |-> Current(id).epoch,
     caps |-> EffectiveGrant(Current(id), ExpandScopes(grants[tokens[t].grant].scopes))]

\* initialize: a full map gives up its oldest session, streams and all.
Initialize(t, id) ==
    LET free == SessionIds \ Live
        s == Min(free)
        evicted == IF Len(made) >= MaxSessions THEN {Head(made)} ELSE {}
        now == [x \in SessionIds |-> IF x \in evicted THEN None
                                     ELSE IF x = s THEN NewSession(t, id)
                                     ELSE sessions[x]]
    IN /\ free # {}
       /\ Established(t, id)
       /\ sessions' = now
       /\ made' = Append(SelectSeq(made, LAMBDA x : x \notin evicted), s)
       /\ streams' = [x \in Streams |-> Told(x, now)]
       /\ armed' = (armed /\ \E x \in Streams : streams'[x] # None)
       /\ UNCHANGED <<declarationVars, authorizationVars, pending, codes, eras, eraOf>>

\* What the pipeline admits of a session: a capability it still has, measured
\* against the declaration as it is now.
Admitted(s, c) ==
    /\ s \in Live
    /\ Checked(s) # None
    /\ c \in EffectiveGrant(Current(sessions[s].id), Checked(s).caps)

\* Any request on a session: its check comes first, and tools/call and
\* tools/list then go by what it leaves.
Request(s) ==
    /\ s \in Live
    /\ Become(AfterCheck({s}))
    /\ UNCHANGED <<declarationVars, authorizationVars, pending, codes, eras, eraOf>>

UnderOneGrant(g) == {x \in Open : sessions[streams[x].session].grant = g}

\* GET /mcp/{id}: the bearer and session are of one grant; the check may move the
\* session, which is this stream's news too.
OpenStream(x, t, s) ==
    /\ s \in Live
    /\ Streams # Open /\ x = Min(Streams \ Open)
    /\ Established(t, sessions[s].id)
    /\ tokens[t].grant = sessions[s].grant
    /\ Checked(s) # None
    /\ Cardinality(UnderOneGrant(sessions[s].grant)) < MaxStreams
    /\ sessions' = AfterCheck({s})
    /\ streams' = [y \in Streams |->
           IF y = x THEN [session |-> s, told |-> Checked(s).epoch]
                    ELSE Told(y, AfterCheck({s}))]
    /\ armed' = TRUE
    /\ UNCHANGED <<declarationVars, authorizationVars, made, pending, codes, eras, eraOf>>

\* GET's response closes; the last one takes the timer.
CloseStream(x) ==
    /\ x \in Open
    /\ streams' = [streams EXCEPT ![x] = None]
    /\ armed' = (Open # {x})
    /\ UNCHANGED <<declarationVars, authorizationVars, sessions, made, pending, codes,
                   eras, eraOf>>

\* Mutation of Sweep: the timer fires once.
SweepOnce ==
    /\ armed
    /\ LET now == AfterCheck({streams[x].session : x \in Open})
       IN /\ sessions' = now
          /\ made' = SelectSeq(made, LAMBDA s : now[s] # None)
          /\ streams' = [x \in Streams |-> Told(x, now)]
    /\ armed' = FALSE
    /\ UNCHANGED <<declarationVars, authorizationVars, pending, codes, eras, eraOf>>

\* sweepStreams: every session with a stream is checked.
Sweep ==
    /\ armed
    /\ Become(AfterCheck({streams[x].session : x \in Open}))
    /\ UNCHANGED <<declarationVars, authorizationVars, pending, codes, eras, eraOf>>

-----------------------------------------------------------------------------
\* Declarations and authorization, as the operator's routes and time reach them.
Declaring ==
    /\ \/ \E r \in Requests, id \in Ids, caps \in Grantable : Declare(r, id, caps)
       \/ \E r \in Requests : AdoptionChecked(r)
    /\ eras' = [id \in Ids |-> IF Active(id)' /\ ~Active(id)
                               THEN eras[id] + 1 ELSE eras[id]]
    /\ UNCHANGED <<authorizationVars, surfaceVars, eraOf>>

Amending ==
    /\ \E id \in Ids, caps \in Grantable : Amend(id, caps)
    /\ UNCHANGED <<authorizationVars, surfaceVars, eras, eraOf>>

Orphaning ==
    /\ \E id \in Ids : Orphan(id)
    /\ UNCHANGED <<surfaceVars, eras, eraOf>>

Removing ==
    /\ \E id \in Ids : Remove(id)
    /\ UNCHANGED <<authorizationVars, surfaceVars, eras, eraOf>>

\* POST /oauth/register, /oauth/token with a refresh token, /oauth/revoke.
Registering ==
    /\ \E c \in Clients : RegisterClient(c)
    /\ UNCHANGED <<declarationVars, surfaceVars, eras, eraOf>>

Refreshing ==
    /\ \E t \in Tokens : Refresh(t)
    /\ UNCHANGED <<declarationVars, surfaceVars, eras, eraOf>>

Revoking ==
    /\ \E t \in Tokens : RevokeToken(t)
    /\ UNCHANGED <<declarationVars, surfaceVars, eras, eraOf>>

\* The operator's routes.
Authorizing ==
    /\ \/ \E c \in Clients : RevokeClient(c)
       \/ \E g \in GrantIds : RevokeGrant(g)
       \/ \E t \in Tokens : RevokeToken(t)
    /\ UNCHANGED <<declarationVars, surfaceVars, eras, eraOf>>

Retaining ==
    /\ \E T \in SUBSET Tokens, G \in SUBSET GrantIds, C \in SUBSET Clients : RunRetention(T, G, C)
    /\ UNCHANGED <<declarationVars, surfaceVars, eras, eraOf>>

ApiToken ==
    /\ \E g \in GrantIds, scopes \in SUBSET Scopes :
           /\ NewGrant(g)
           /\ IssueOperatorApiToken(g, scopes)
    /\ UNCHANGED <<declarationVars, surfaceVars, eras, eraOf>>

\* The process dies, at rest or within a handler that writes more than one
\* statement, and comes back with the tables alone.
Crash ==
    /\ \/ UNCHANGED authorizationVars /\ UNCHANGED eraOf
       \/ (\E t \in Tokens : RefreshDies(t)) /\ UNCHANGED eraOf
       \/ \E p \in codes, g \in GrantIds :
              /\ Current(p.id) # NoRow
              /\ NewGrant(g)
              /\ IssueDies(g, p.client, p.id, Latest(p.id), p.scopes)
              /\ eraOf' = [eraOf EXCEPT ![g] = eras[p.id]]
    /\ declaring' = [r \in Requests |-> NoRow]
    /\ sessions' = Nothing(SessionIds)
    /\ made' = <<>>
    /\ streams' = Nothing(Streams)
    /\ armed' = FALSE
    /\ pending' = {}
    /\ codes' = {}
    /\ UNCHANGED <<rows, mark, eras>>

Next ==
    \/ Declaring \/ Amending \/ Orphaning \/ Removing
    \/ Registering \/ Refreshing \/ Revoking \/ Authorizing \/ Retaining \/ ApiToken \/ Crash \/ Sweep
    \/ \E c \in Clients, id \in Ids, scopes \in SUBSET Scopes \ {{}} : AskConsent(c, id, scopes)
    \/ \E p \in pending : Approve(p)
    \/ \E p \in pending \cup codes : Lapse(p)
    \/ \E p \in codes, g \in GrantIds : ExchangeCode(p, g)
    \/ \E t \in Tokens, id \in Ids : Initialize(t, id)
    \/ \E s \in SessionIds : Request(s)
    \/ \E x \in Streams, t \in Tokens, s \in SessionIds : OpenStream(x, t, s)
    \/ \E x \in Streams : CloseStream(x)

Spec == Init /\ [][Next]_vars

\* The sweep's timer is an interval: while it is set it fires again and again.
FairSpec == Spec /\ WF_vars(Sweep)

-----------------------------------------------------------------------------
\* Every call that is admitted acts for a grant of the era the declaration is
\* in, one that is live, and within what the operator consented to and the
\* declaration grants now.  Sessions compare only their epoch, which starts
\* again at zero with each era (mcp-routes.ts, checkSession): what keeps an
\* older era out is the cascade of orphan and the generation mark.
AuthorityIsCurrent ==
    \A s \in SessionIds, c \in Capabilities : Admitted(s, c) =>
        LET g == sessions[s].grant
            id == sessions[s].id
        IN /\ eraOf[g] = eras[id]
           /\ GrantIsLive(g)
           /\ c \in ExpandScopes(grants[g].scopes)
           /\ c \in Current(id).caps

\* However often refresh tokens are rotated and wherever the process dies in a
\* rotation, a grant has at most one that can be used (authorization.ts,
\* refresh).
OneRefreshPerGrant ==
    \A g \in GrantIds : Cardinality({t \in UnderGrant(g) : Usable(t, "refresh")}) <= 1

\* A change of the declaration's grant reaches every stream of the declaration
\* that stays open, though its client sends nothing (mcp-routes.ts, sweepStreams).
Behind(x) ==
    /\ streams[x] # None
    /\ LET id == sessions[streams[x].session].id
       IN ~Active(id) \/ streams[x].told # Current(id).epoch

StreamsCatchUp == \A x \in Streams : Behind(x) ~> ~Behind(x)

=============================================================================
