--------------------------- MODULE Authorization ---------------------------
(***************************************************************************)
(* Authorization (src/src/authorization/authorization.ts): OAuth clients,  *)
(* the grants operators approve, and the opaque tokens under a grant.      *)
(*                                                                         *)
(* Outside of retention and of the orphaning of a declaration, each        *)
(* statement here commits by itself, so a crash may leave any prefix of    *)
(* the statements of one operation.                                        *)
(***************************************************************************)
EXTENDS Declarations

CONSTANTS Clients,     \* registered clients
          GrantIds,    \* grant ids, numbers like the tokens'
          Tokens,      \* token ids, numbers so that the next free one can be named
          Scopes,      \* scopes a client may ask for
          ScopeOf,     \* the scope that carries a capability; instance capabilities have none
          MaxClients,  \* maxRegisteredClients
          None         \* no client, no grant, no token

ASSUME AuthorizationAssumption ==
    /\ ScopeOf \in [Capabilities \ Instance -> Scopes]
    /\ Tokens \subseteq Nat
    /\ GrantIds \subseteq Nat
    /\ None \notin Clients \cup GrantIds \cup Tokens
    /\ MaxClients \in Nat

VARIABLES clients,  \* clients[c]: "none", "live" or "revoked"
          grants,   \* grants[g]: the grant's row
          tokens    \* tokens[t]: the token's row

authorizationVars == <<clients, grants, tokens>>

GrantRows == [kind : {"mcp", "operator-api"}, client : Clients \cup {None},
              id : Ids \cup {None}, generation : 0..MaxGeneration,
              scopes : SUBSET Scopes, revoked : BOOLEAN]
TokenRows == [grant : GrantIds, kind : {"access", "refresh"}, over : BOOLEAN]
ASSUME NoneAssumption == None \notin GrantRows \cup TokenRows

AuthorizationTypeOK ==
    /\ clients \in [Clients -> {"none", "live", "revoked"}]
    /\ grants \in [GrantIds -> GrantRows \cup {None}]
    /\ tokens \in [Tokens -> TokenRows \cup {None}]

AuthorizationInit ==
    /\ clients = [c \in Clients |-> "none"]
    /\ grants = [g \in GrantIds |-> None]
    /\ tokens = [t \in Tokens |-> None]

-----------------------------------------------------------------------------
ExpandScopes(scopes) == {c \in Contract \ Instance : ScopeOf[c] \in scopes}

ClientLive(c) == c # None => clients[c] # "revoked"

\* What grantIsLive asks before every call of a session.
GrantIsLive(g) ==
    /\ grants[g] # None
    /\ ~grants[g].revoked
    /\ ClientLive(grants[g].client)

\* What every use of a presented token asks of its row, its grant and client.
Usable(t, kind) ==
    /\ tokens[t] # None
    /\ tokens[t].kind = kind
    /\ ~tokens[t].over
    /\ GrantIsLive(tokens[t].grant)

UnderGrant(g) == {t \in Tokens : tokens[t] # None /\ tokens[t].grant = g}

Fresh(g, kind) == [grant |-> g, kind |-> kind, over |-> FALSE]

FreeTokens == {t \in Tokens : tokens[t] = None}
First == Min(FreeTokens)
Second == Min(FreeTokens \ {First})

\* issueTokenPair, or the access token alone when the process dies between
\* its two statements.
WithAccess(table, g) == [table EXCEPT ![First] = Fresh(g, "access")]
WithPair(table, g) == [WithAccess(table, g) EXCEPT ![Second] = Fresh(g, "refresh")]

RoomFor(n) == Cardinality(FreeTokens) >= n

RevokedNow(table, t) == [table EXCEPT ![t].over = TRUE]

-----------------------------------------------------------------------------
RegisterClient(c) ==
    /\ clients[c] = "none"
    /\ Cardinality({x \in Clients : clients[x] # "none"}) < MaxClients
    /\ clients' = [clients EXCEPT ![c] = "live"]
    /\ UNCHANGED <<grants, tokens>>

McpGrant(c, id, g, scopes) ==
    [kind |-> "mcp", client |-> c, id |-> id, generation |-> g,
     scopes |-> scopes, revoked |-> FALSE]

\* The foreign key needs the client's row, whatever has become of the client.
IssueMcpGrant(grant, c, id, g, scopes) ==
    /\ grants[grant] = None
    /\ clients[c] # "none"
    /\ RoomFor(2)
    /\ grants' = [grants EXCEPT ![grant] = McpGrant(c, id, g, scopes)]
    /\ tokens' = WithPair(tokens, grant)
    /\ UNCHANGED clients

\* The process dies before the pair, or before its second token.
IssueDies(grant, c, id, g, scopes) ==
    /\ grants[grant] = None
    /\ clients[c] # "none"
    /\ RoomFor(1)
    /\ grants' = [grants EXCEPT ![grant] = McpGrant(c, id, g, scopes)]
    /\ tokens' \in {tokens, WithAccess(tokens, grant)}
    /\ UNCHANGED clients

IssueOperatorApiToken(grant, scopes) ==
    /\ grants[grant] = None
    /\ RoomFor(1)
    /\ grants' = [grants EXCEPT ![grant] =
           [kind |-> "operator-api", client |-> None, id |-> None,
            generation |-> 0, scopes |-> scopes, revoked |-> FALSE]]
    /\ tokens' = WithAccess(tokens, grant)
    /\ UNCHANGED clients

\* Mutation of Rotated: the replacement is written before the old one is spent.
PairFirst(t) ==
    LET g == tokens[t].grant
    IN {WithAccess(tokens, g), WithPair(tokens, g), RevokedNow(WithPair(tokens, g), t)}

\* The token tables refresh goes through: the presented token is spent first.
Rotated(t) ==
    LET spent == RevokedNow(tokens, t)
        g == tokens[t].grant
    IN {spent, WithAccess(spent, g), WithPair(spent, g)}

Refresh(t) ==
    /\ Usable(t, "refresh")
    /\ RoomFor(2)
    /\ tokens' = RevokedNow(WithPair(tokens, tokens[t].grant), t)
    /\ UNCHANGED <<clients, grants>>

RefreshDies(t) ==
    /\ Usable(t, "refresh")
    /\ RoomFor(2)
    /\ tokens' \in Rotated(t)
    /\ UNCHANGED <<clients, grants>>

-----------------------------------------------------------------------------
RevokeClient(c) ==
    /\ clients[c] = "live"
    /\ clients' = [clients EXCEPT ![c] = "revoked"]
    /\ UNCHANGED <<grants, tokens>>

RevokeGrant(g) ==
    /\ grants[g] # None /\ ~grants[g].revoked
    /\ grants' = [grants EXCEPT ![g].revoked = TRUE]
    /\ UNCHANGED <<clients, tokens>>

\* By its id from the console, or by its value at /oauth/revoke; a token whose
\* time is up is as useless.
RevokeToken(t) ==
    /\ tokens[t] # None /\ ~tokens[t].over
    /\ tokens' = RevokedNow(tokens, t)
    /\ UNCHANGED <<clients, grants>>

\* Mutation of RevokeGrantsForResource: the cascade is not wired.
NothingRevoked(id, g) == UNCHANGED authorizationVars

\* The cascade of orphan, in orphan's transaction.
RevokeGrantsForResource(id, g) ==
    /\ grants' = [x \in GrantIds |->
           IF grants[x] # None /\ grants[x].id = id /\ grants[x].generation = g
           THEN [grants[x] EXCEPT !.revoked = TRUE]
           ELSE grants[x]]
    /\ UNCHANGED <<clients, tokens>>

Orphan(id) ==
    /\ OrphanRow(id)
    /\ RevokeGrantsForResource(id, Latest(id))

\* One transaction; `old` is what is past the two windows.  A parent goes
\* only when no row refers to it any more.
RunRetention(oldTokens, oldGrants, oldClients) ==
    LET kept == [t \in Tokens |-> IF t \in oldTokens THEN None ELSE tokens[t]]
        gone == {g \in oldGrants : \A t \in Tokens : kept[t] # None => kept[t].grant # g}
        left == [g \in GrantIds |-> IF g \in gone THEN None ELSE grants[g]]
    IN /\ \A t \in oldTokens : tokens[t] # None /\ tokens[t].over
       /\ \A g \in oldGrants : grants[g] # None /\ grants[g].revoked
       /\ \A c \in oldClients : clients[c] = "revoked"
       /\ tokens' = kept
       /\ grants' = left
       /\ clients' = [c \in Clients |->
              IF c \in oldClients /\ \A g \in GrantIds : left[g] # None => left[g].client # c
              THEN "none" ELSE clients[c]]

=============================================================================
