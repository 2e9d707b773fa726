---------------------------- MODULE AccessProofs ----------------------------
(***************************************************************************)
(* Proofs about who may do what: that a session never acts beyond a live   *)
(* grant of the declaration's present era, and that rotation leaves one    *)
(* usable refresh token, for any number of declarations, eras, clients,    *)
(* grants, tokens, sessions and streams.                                   *)
(*                                                                         *)
(* A session compares epochs only, which start again with every era, so    *)
(* what it is owed rests on the tables: the generation mark never returns  *)
(* (MarkInv), a grant names its generation and its era (GrantInv), and     *)
(* orphaning revokes every grant a session could hold (SessionInv).        *)
(***************************************************************************)
EXTENDS McpRoutes, FiniteSetTheorems, WellFoundedInduction, TLAPS

\* Every row is of a generation up to the mark, and only the row at the mark
\* may be active.
MarkInv ==
    /\ DeclarationsTypeOK
    /\ \A id \in Ids, g \in Generations : rows[id][g] # NoRow =>
          /\ g <= mark[id]
          /\ rows[id][g].state = "active" => g = mark[id]

IsMcp(g) == grants[g] # None /\ grants[g].kind = "mcp"

\* A refresh token that can still be spent.
Unspent(table, t) == table[t] # None /\ table[t].kind = "refresh" /\ ~table[t].over

OneEach(table) ==
    \A t, u \in Tokens :
        Unspent(table, t) /\ Unspent(table, u) /\ table[t].grant = table[u].grant => t = u

\* A grant of the generation that is active was issued in its era.
EraAt(g) == IsMcp(g) =>
    /\ grants[g].id \in Ids
    /\ grants[g].generation <= mark[grants[g].id]
    /\ Active(grants[g].id) /\ grants[g].generation = Latest(grants[g].id)
          => eraOf[g] = eras[grants[g].id]

\* A token has its grant, and a grant one refresh token that is not spent.
TokenInv ==
    /\ AuthorizationTypeOK
    /\ \A t \in Tokens : tokens[t] # None => grants[tokens[t].grant] # None
    /\ OneEach(tokens)

GrantInv ==
    /\ TokenInv
    /\ eras \in [Ids -> Nat] /\ eraOf \in [GrantIds -> Nat]
    /\ \A g \in GrantIds : EraAt(g)

\* While its grant is live, a session's declaration is active in the grant's
\* generation; what it may do is what was consented to.
Bound(s) ==
    LET g == sessions[s].grant
        id == sessions[s].id
    IN  /\ grants[g] # None =>
              /\ IsMcp(g) /\ grants[g].id = id
              /\ sessions[s].caps \subseteq ExpandScopes(grants[g].scopes)
        /\ GrantIsLive(g) => Active(id) /\ grants[g].generation = Latest(id)

\* A stream that is open is of a session that is.
StreamRows == [session : SessionIds, told : 0..MaxEpoch]

StreamInv ==
    /\ streams \in [Streams -> StreamRows \cup {None}]
    /\ \A x \in Open : streams[x].session \in Live

SessionInv ==
    /\ sessions \in [SessionIds -> SessionRows \cup {None}]
    /\ pending \subseteq Consents /\ codes \subseteq Consents
    /\ \A s \in Live : Bound(s)
    /\ StreamInv

AccessInv == MarkInv /\ GrantInv /\ SessionInv

-----------------------------------------------------------------------------
(***************************************************************************)
(* Numbers.                                                                *)
(***************************************************************************)
LEMMA LeastNumber ==
  ASSUME NEW T, T \subseteq Nat, T # {}
  PROVE  \E x \in T : \A y \in T : x <= y
<1> DEFINE Less == {p \in Nat \X Nat : p[1] < p[2]}
<1> HIDE DEF Less
<1>1. IsWellFoundedOn(Less, Nat)
  BY NatLessThanWellFounded DEF OpToRel, Less
<1>2. PICK x \in T : \A y \in T : <<y, x>> \notin Less
  BY <1>1, WFMin
<1>3. ASSUME NEW y \in T PROVE x <= y
  <2>1. ~ (y < x)
    BY <1>2 DEF Less
  <2> QED BY <2>1
<1> QED BY <1>3

LEMMA GreatestNumber ==
  ASSUME NEW n \in Nat, NEW S, S \subseteq 0..n, S # {}
  PROVE  Max(S) \in S /\ \A x \in S : x <= Max(S)
<1> DEFINE T == {n - x : x \in S}
<1>1. T \subseteq Nat /\ T # {}
  <2>1. \A x \in S : n - x \in Nat
    OBVIOUS
  <2> QED BY <2>1
<1>2. PICK least \in T : \A y \in T : least <= y
  BY <1>1, LeastNumber
<1>3. PICK m \in S : least = n - m
  OBVIOUS
<1>4. \A x \in S : m >= x
  <2> SUFFICES ASSUME NEW x \in S PROVE m >= x
    OBVIOUS
  <2>1. n - m <= n - x
    BY <1>2, <1>3
  <2> QED BY <2>1
<1>5. Max(S) \in S /\ \A x \in S : Max(S) >= x
  BY <1>4 DEF Max
<1> QED BY <1>5

-----------------------------------------------------------------------------
(***************************************************************************)
(* Declarations.                                                           *)
(***************************************************************************)
LEMMA LatestIs ==
  ASSUME NEW id \in Ids, DeclarationsTypeOK
  PROVE  /\ Latest(id) \in 0..MaxGeneration
         /\ Latest(id) # 0 => Latest(id) \in Generations /\ rows[id][Latest(id)] \in Rows
         /\ \A g \in Generations : rows[id][g] # NoRow => g <= Latest(id)
<1> DEFINE S == {0} \cup {g \in Generations : rows[id][g] # NoRow}
<1>1. MaxGeneration \in Nat /\ S \subseteq 0..MaxGeneration /\ S # {}
  BY DeclarationsAssumption DEF Generations
<1>2. Max(S) \in S /\ \A x \in S : x <= Max(S)
  BY <1>1, GreatestNumber
<1>3. Latest(id) = Max(S)
  BY DEF Latest
<1> QED BY <1>1, <1>2, <1>3 DEF DeclarationsTypeOK, Generations

\* What an id means depends on its own rows only.
LEMMA LatestStays ==
  ASSUME NEW id \in Ids, rows'[id] = rows[id]
  PROVE  Latest(id)' = Latest(id) /\ Current(id)' = Current(id) /\ Active(id)' = Active(id)
<1>1. {g \in Generations : rows'[id][g] # NoRow} = {g \in Generations : rows[id][g] # NoRow}
  OBVIOUS
<1>2. Latest(id)' = Latest(id)
  BY <1>1 DEF Latest
<1>3. Current(id)' = Current(id)
  BY <1>2 DEF Current
<1> QED BY <1>2, <1>3 DEF Active

LEMMA LatestAtMark ==
  ASSUME MarkInv, NEW id \in Ids
  PROVE  /\ Latest(id) <= mark[id] /\ mark[id] \in 0..MaxGeneration
         /\ Active(id) => Latest(id) = mark[id] /\ Latest(id) \in Generations
         /\ ~Active(id) => \A g \in Generations : rows[id][g] # NoRow => rows[id][g].state = "orphaned"
<1>1. mark[id] \in 0..MaxGeneration /\ MaxGeneration \in Nat
  BY DeclarationsAssumption DEF MarkInv, DeclarationsTypeOK
<1>a. /\ Latest(id) \in 0..MaxGeneration
      /\ Latest(id) # 0 => Latest(id) \in Generations /\ rows[id][Latest(id)] \in Rows
  BY LatestIs DEF MarkInv
<1>b. Latest(id) # 0 =>
         /\ Latest(id) <= mark[id]
         /\ rows[id][Latest(id)].state = "active" => Latest(id) = mark[id]
  BY <1>a, NoRowAssumption DEF MarkInv
<1>2. Latest(id) <= mark[id]
  BY <1>1, <1>a, <1>b
<1>3. Active(id) => Latest(id) = mark[id] /\ Latest(id) \in Generations
  BY <1>a, <1>b DEF Active, Current
<1>4. ASSUME ~Active(id), NEW g \in Generations, rows[id][g] # NoRow
      PROVE  rows[id][g].state = "orphaned"
  <2>1. rows[id][g] \in Rows
    BY <1>4 DEF MarkInv, DeclarationsTypeOK
  <2>2. ASSUME rows[id][g].state = "active" PROVE FALSE
    <3>1. g = mark[id] /\ g \in Nat \ {0}
      BY <1>4, <2>2, <1>1 DEF MarkInv, Generations
    <3>2. g <= Latest(id) /\ Latest(id) \in Nat
      BY <1>1, <1>4, LatestIs DEF MarkInv
    <3>3. Latest(id) = g
      BY <1>1, <1>2, <3>1, <3>2
    <3> QED BY <1>4, <2>2, <3>1, <3>3 DEF Active, Current
  <2> QED BY <2>1, <2>2 DEF Rows
<1> QED BY <1>1, <1>2, <1>3, <1>4

\* A new era.
Declared(id) ==
    /\ ~Active(id)
    /\ mark[id] + 1 \in Generations
    /\ mark' = [mark EXCEPT ![id] = mark[id] + 1]
    /\ \E fresh \in Rows : /\ fresh.state = "active"
                           /\ rows' = [rows EXCEPT ![id][mark[id] + 1] = fresh]

LEMMA InsertDeclares ==
  ASSUME MarkInv, NEW id \in Ids, NEW caps \in Grantable, Insert(id, caps)
  PROVE  UNCHANGED <<rows, mark>> \/ Declared(id)
<1>1. CASE Active(id)
  BY <1>1 DEF Insert
<1>2. CASE ~Active(id)
  <2>1. NextGeneration(id) = mark[id] + 1
    <3>1. Latest(id) \in Nat /\ mark[id] \in Nat /\ Latest(id) <= mark[id]
      BY LatestAtMark, LatestIs DEF MarkInv
    <3>2. {mark[id], Latest(id)} \subseteq 0..mark[id]
      BY <3>1
    <3>3. Max({mark[id], Latest(id)}) = mark[id]
      BY <3>1, <3>2, GreatestNumber
    <3> QED BY <3>3 DEF NextGeneration
  <2>2. [state |-> "active", epoch |-> 0, caps |-> caps] \in Rows
    BY DeclarationsAssumption DEF Rows
  <2> QED BY <1>2, <2>1, <2>2 DEF Insert, Declared
<1> QED BY <1>1, <1>2

LEMMA DeclaringDeclares ==
  ASSUME MarkInv, Declaring
  PROVE  /\ UNCHANGED <<rows, mark>> \/ \E id \in Ids : Declared(id)
         /\ declaring' \in [Requests -> [id : Ids, caps : Grantable] \cup {NoRow}]
<1>0. declaring \in [Requests -> [id : Ids, caps : Grantable] \cup {NoRow}]
  BY DEF MarkInv, DeclarationsTypeOK
<1>1. CASE \E r \in Requests, id \in Ids, caps \in Grantable : Declare(r, id, caps)
  <2>1. PICK r \in Requests, id \in Ids, caps \in Grantable : Declare(r, id, caps)
    BY <1>1
  <2> QED BY <1>0, <2>1, InsertDeclares DEF Declare
<1>2. CASE \E r \in Requests : AdoptionChecked(r)
  <2>1. PICK r \in Requests : AdoptionChecked(r)
    BY <1>2
  <2>2. declaring[r].id \in Ids /\ declaring[r].caps \in Grantable
    BY <1>0, <2>1 DEF AdoptionChecked
  <2> QED BY <1>0, <2>1, <2>2, InsertDeclares DEF AdoptionChecked
<1> QED BY <1>1, <1>2 DEF Declaring

\* The new era's row is the one the id means, and no other id's changes.
LEMMA DeclaredIsCurrent ==
  ASSUME MarkInv, NEW id \in Ids, Declared(id),
         declaring' \in [Requests -> [id : Ids, caps : Grantable] \cup {NoRow}]
  PROVE  /\ MarkInv'
         /\ Active(id)' /\ Latest(id)' = mark[id] + 1
         /\ \A other \in Ids : other # id =>
               Latest(other)' = Latest(other) /\ Active(other)' = Active(other)
<1>0. /\ rows \in [Ids -> [Generations -> Rows \cup {NoRow}]]
      /\ mark \in [Ids -> 0..MaxGeneration] /\ mark[id] \in 0..MaxGeneration /\ MaxGeneration \in Nat
      /\ NoRow \notin Rows
  BY DeclarationsAssumption, NoRowAssumption DEF MarkInv, DeclarationsTypeOK
<1> DEFINE n == mark[id] + 1
<1>1. PICK fresh \in Rows : fresh.state = "active" /\ rows' = [rows EXCEPT ![id][n] = fresh]
  BY DEF Declared
<1>2. n \in Generations /\ mark' = [mark EXCEPT ![id] = n] /\ ~Active(id)
  BY DEF Declared
<1>3. rows' \in [Ids -> [Generations -> Rows \cup {NoRow}]]
  BY <1>0, <1>1, <1>2
<1>4. /\ rows'[id][n] = fresh
      /\ \A g \in Generations : g # n => rows'[id][g] = rows[id][g]
      /\ \A other \in Ids : other # id => rows'[other] = rows[other] /\ mark'[other] = mark[other]
      /\ mark'[id] = n
  BY <1>0, <1>1, <1>2
<1>5. DeclarationsTypeOK'
  <2>1. n \in 0..MaxGeneration
    BY <1>0, <1>2 DEF Generations
  <2>2. mark' \in [Ids -> 0..MaxGeneration]
    BY <1>0, <1>2, <2>1
  <2> QED BY <1>3, <2>2 DEF DeclarationsTypeOK
<1>6. ASSUME NEW i \in Ids, NEW g \in Generations, rows'[i][g] # NoRow
      PROVE  g <= mark'[i] /\ (rows'[i][g].state = "active" => g = mark'[i])
  <2>1. CASE i # id
    BY <1>4, <1>6, <2>1 DEF MarkInv
  <2>2. CASE i = id /\ g = n
    BY <1>0, <1>4, <2>2
  <2>3. CASE i = id /\ g # n
    <3>1. rows[id][g] # NoRow /\ rows'[i][g] = rows[id][g] /\ g \in Int
      BY <1>4, <1>6, <2>3 DEF Generations
    <3>2. g <= mark[id] /\ rows[id][g].state = "orphaned"
      BY <1>2, <3>1, LatestAtMark DEF MarkInv
    <3> QED BY <1>0, <1>4, <2>3, <3>1, <3>2
  <2> QED BY <2>1, <2>2, <2>3
<1>7. MarkInv'
  BY <1>5, <1>6 DEF MarkInv
<1>8. Latest(id)' = n
  <2>1. n <= Latest(id)'
    <3>1. rows'[id][n] # NoRow
      BY <1>0, <1>4
    <3>2. {g \in Generations : rows'[id][g] # NoRow} \cup {0} \subseteq 0..MaxGeneration
      BY <1>0 DEF Generations
    <3> DEFINE S == {0} \cup {g \in Generations : rows'[id][g] # NoRow}
    <3>3. Max(S) \in S /\ \A x \in S : x <= Max(S)
      <4>1. S \subseteq 0..MaxGeneration /\ S # {}
        BY <3>2
      <4> QED BY <1>0, <4>1, GreatestNumber
    <3>4. n \in S
      BY <1>2, <3>1
    <3> QED BY <3>3, <3>4 DEF Latest
  <2>2. Latest(id)' <= n /\ Latest(id)' \in Nat
    <3>1. (Latest(id) \in 0..MaxGeneration /\ Latest(id) <= mark[id])'
      BY <1>7, LatestAtMark, LatestIs, PTL DEF MarkInv
    <3> QED BY <1>0, <1>4, <3>1
  <2> QED BY <1>0, <2>1, <2>2
<1>9. Active(id)'
  <2>1. n # 0
    BY <1>0
  <2> QED BY <1>1, <1>4, <1>8, <2>1 DEF Active, Current
<1> QED BY <1>4, <1>7, <1>8, <1>9, LatestStays

\* The row an active id means is rewritten: amended or orphaned.
Rewritten(id, row) ==
    /\ Active(id)
    /\ rows' = [rows EXCEPT ![id][Latest(id)] = row]
    /\ UNCHANGED <<mark, declaring>>

LEMMA AmendRewrites ==
  ASSUME MarkInv, NEW id \in Ids, NEW caps \in Grantable, Amend(id, caps)
  PROVE  \E row \in Rows : row.state = "active" /\ Rewritten(id, row)
<1>1. Latest(id) # 0 /\ Current(id) = rows[id][Latest(id)] /\ Current(id) \in Rows
      /\ Current(id).state = "active"
  BY LatestIs DEF MarkInv, Amend, Active, Current
<1> DEFINE old == Current(id)
           row == [Bumped(old) EXCEPT !.caps = caps]
<1>2. row = [state |-> "active", epoch |-> old.epoch + 1, caps |-> caps]
  <2>1. old = [state |-> old.state, epoch |-> old.epoch, caps |-> old.caps]
    BY <1>1 DEF Rows
  <2>2. Bumped(old) = [state |-> old.state, epoch |-> old.epoch + 1, caps |-> old.caps]
    BY <2>1 DEF Bumped
  <2> QED BY <1>1, <2>2
<1>3. old.epoch \in 0..MaxEpoch /\ old.epoch < MaxEpoch - 1 /\ MaxEpoch \in Nat
  BY <1>1, DeclarationsAssumption DEF Amend, Rows
<1>4. row \in Rows /\ row.state = "active"
  BY <1>2, <1>3 DEF Rows
<1>5. rows' = [rows EXCEPT ![id][Latest(id)] = row]
  BY <1>1 DEF Amend
<1> QED BY <1>4, <1>5 DEF Rewritten, Amend

LEMMA OrphanRewrites ==
  ASSUME MarkInv, NEW id \in Ids, OrphanRow(id)
  PROVE  \E row \in Rows : row.state = "orphaned" /\ Rewritten(id, row)
<1>1. Latest(id) # 0 /\ Current(id) = rows[id][Latest(id)] /\ Current(id) \in Rows
  BY LatestIs DEF MarkInv, OrphanRow, Active, Current
<1> DEFINE old == Current(id)
           row == [Bumped(old) EXCEPT !.state = "orphaned"]
<1>2. row = [state |-> "orphaned", epoch |-> old.epoch + 1, caps |-> old.caps]
  <2>1. old = [state |-> old.state, epoch |-> old.epoch, caps |-> old.caps]
    BY <1>1 DEF Rows
  <2>2. Bumped(old) = [state |-> old.state, epoch |-> old.epoch + 1, caps |-> old.caps]
    BY <2>1 DEF Bumped
  <2> QED BY <2>2
<1>3. old.epoch \in 0..MaxEpoch /\ old.epoch < MaxEpoch /\ MaxEpoch \in Nat
  BY <1>1, DeclarationsAssumption DEF OrphanRow, Rows
<1>4. row \in Rows /\ row.state = "orphaned"
  BY <1>1, <1>2, <1>3 DEF Rows
<1>5. rows' = [rows EXCEPT ![id][Latest(id)] = row]
  BY <1>1 DEF OrphanRow
<1> QED BY <1>4, <1>5 DEF Rewritten, OrphanRow

LEMMA RewrittenIsCurrent ==
  ASSUME MarkInv, NEW id \in Ids, NEW row \in Rows, Rewritten(id, row)
  PROVE  /\ MarkInv'
         /\ Active(id)' <=> row.state = "active"
         /\ \A other \in Ids : Latest(other)' = Latest(other)
         /\ \A other \in Ids : other # id => Active(other)' = Active(other)
<1>0. /\ rows \in [Ids -> [Generations -> Rows \cup {NoRow}]] /\ NoRow \notin Rows
      /\ mark[id] = Latest(id) /\ Latest(id) \in Generations /\ rows[id][Latest(id)] # NoRow
      /\ Latest(id) # 0
  BY NoRowAssumption, LatestAtMark, LatestIs DEF MarkInv, DeclarationsTypeOK, Rewritten, Active
<1> DEFINE n == Latest(id)
<1>1. rows' = [rows EXCEPT ![id][n] = row] /\ mark' = mark /\ declaring' = declaring
  BY DEF Rewritten
<1>2. /\ rows'[id][n] = row
      /\ \A g \in Generations : g # n => rows'[id][g] = rows[id][g]
      /\ \A other \in Ids : other # id => rows'[other] = rows[other]
      /\ rows' \in [Ids -> [Generations -> Rows \cup {NoRow}]]
  BY <1>0, <1>1
<1>3. {g \in Generations : rows'[id][g] # NoRow} = {g \in Generations : rows[id][g] # NoRow}
  BY <1>0, <1>2
<1>4. Latest(id)' = n
  BY <1>3 DEF Latest
<1>5. MarkInv'
  <2>1. DeclarationsTypeOK'
    BY <1>1, <1>2 DEF MarkInv, DeclarationsTypeOK
  <2>2. ASSUME NEW i \in Ids, NEW g \in Generations, rows'[i][g] # NoRow
        PROVE  g <= mark[i] /\ (rows'[i][g].state = "active" => g = mark[i])
    <3>1. CASE i # id \/ g # n
      BY <1>2, <2>2, <3>1 DEF MarkInv
    <3>2. CASE i = id /\ g = n
      BY <1>0, <3>2 DEF MarkInv
    <3> QED BY <3>1, <3>2
  <2> QED BY <1>1, <2>1, <2>2 DEF MarkInv
<1>6. Active(id)' <=> row.state = "active"
  BY <1>0, <1>2, <1>4 DEF Active, Current
<1> QED BY <1>2, <1>4, <1>5, <1>6, LatestStays

LEMMA RemovedIsNotActive ==
  ASSUME MarkInv, NEW id \in Ids, Remove(id)
  PROVE  /\ MarkInv' /\ ~Active(id) /\ ~Active(id)'
         /\ \A other \in Ids : other # id =>
               Latest(other)' = Latest(other) /\ Active(other)' = Active(other)
<1>0. /\ rows \in [Ids -> [Generations -> Rows \cup {NoRow}]] /\ NoRow \notin Rows
      /\ Latest(id) \in Generations /\ ~Active(id)
  BY NoRowAssumption, LatestIs DEF MarkInv, DeclarationsTypeOK, Remove
<1>1. rows' = [rows EXCEPT ![id][Latest(id)] = NoRow] /\ mark' = mark /\ declaring' = declaring
  BY DEF Remove
<1>2. /\ \A g \in Generations : rows'[id][g] \in {rows[id][g], NoRow}
      /\ \A other \in Ids : other # id => rows'[other] = rows[other]
      /\ rows' \in [Ids -> [Generations -> Rows \cup {NoRow}]]
  BY <1>0, <1>1
<1>3. MarkInv'
  <2>1. DeclarationsTypeOK'
    BY <1>1, <1>2 DEF MarkInv, DeclarationsTypeOK
  <2>2. ASSUME NEW i \in Ids, NEW g \in Generations, rows'[i][g] # NoRow
        PROVE  g <= mark[i] /\ (rows'[i][g].state = "active" => g = mark[i])
    BY <1>2, <2>2 DEF MarkInv
  <2> QED BY <1>1, <2>1, <2>2 DEF MarkInv
<1>4. ~Active(id)'
  <2>1. (Latest(id) # 0 => Latest(id) \in Generations /\ rows[id][Latest(id)] \in Rows)'
    BY <1>3, LatestIs, PTL DEF MarkInv
  <2>2. ASSUME Active(id)' PROVE FALSE
    <3>1. Latest(id)' \in Generations /\ rows'[id][Latest(id)'] # NoRow
          /\ rows'[id][Latest(id)'].state = "active"
      BY <1>0, <2>1, <2>2 DEF Active, Current
    <3>2. rows[id][Latest(id)'] # NoRow /\ rows[id][Latest(id)'].state = "active"
      BY <1>2, <3>1
    <3>3. rows[id][Latest(id)'].state = "orphaned"
      BY <1>0, <3>1, <3>2, LatestAtMark
    <3> QED BY <3>2, <3>3
  <2> QED BY <2>2
<1> QED BY <1>0, <1>2, <1>3, <1>4, LatestStays

-----------------------------------------------------------------------------
(***************************************************************************)
(* Token tables.                                                           *)
(***************************************************************************)
Tables == [Tokens -> TokenRows \cup {None}]

\* An access token is no refresh token.
LEMMA AccessAdded ==
  ASSUME NEW table \in Tables, NEW g \in GrantIds
  PROVE  /\ WithAccess(table, g) \in Tables
         /\ \A u \in Tokens : WithAccess(table, g)[u] \in {table[u], Fresh(g, "access")}
<1>1. Fresh(g, "access") \in TokenRows
  BY DEF Fresh, TokenRows
<1> QED BY <1>1 DEF WithAccess, Tables

LEMMA PairAdded ==
  ASSUME NEW table \in Tables, NEW g \in GrantIds
  PROVE  /\ WithPair(table, g) \in Tables
         /\ \A u \in Tokens : WithPair(table, g)[u] \in
                {table[u], Fresh(g, "access"), Fresh(g, "refresh")}
         /\ \A u \in Tokens : u # Second => WithPair(table, g)[u] \in {table[u], Fresh(g, "access")}
<1>1. Fresh(g, "refresh") \in TokenRows
  BY DEF Fresh, TokenRows
<1>2. /\ WithAccess(table, g) \in Tables
      /\ \A u \in Tokens : WithAccess(table, g)[u] \in {table[u], Fresh(g, "access")}
  BY AccessAdded
<1> QED BY <1>1, <1>2 DEF WithPair, Tables

LEMMA OverIsSet ==
  ASSUME NEW row \in TokenRows, NEW spent, spent = [row EXCEPT !.over = TRUE]
  PROVE  spent \in TokenRows /\ spent.grant = row.grant /\ spent.over
BY DEF TokenRows

LEMMA SpentInTable ==
  ASSUME NEW table \in Tables, NEW t \in Tokens, table[t] # None
  PROVE  /\ RevokedNow(table, t) \in Tables
         /\ RevokedNow(table, t)[t] # None /\ RevokedNow(table, t)[t].grant = table[t].grant
         /\ RevokedNow(table, t)[t].over
         /\ \A u \in Tokens : u # t => RevokedNow(table, t)[u] = table[u]
<1> DEFINE row == [table[t] EXCEPT !.over = TRUE]
<1>1. table[t] \in TokenRows
  BY DEF Tables
<1>2. row \in TokenRows /\ row.grant = table[t].grant /\ row.over
  BY <1>1, OverIsSet
<1>3. row # None
  BY <1>2, NoneAssumption
<1>4. RevokedNow(table, t) = [table EXCEPT ![t] = row]
  BY DEF RevokedNow
<1> HIDE DEF row
<1>5. /\ RevokedNow(table, t) \in Tables /\ RevokedNow(table, t)[t] = row
      /\ \A u \in Tokens : u # t => RevokedNow(table, t)[u] = table[u]
  BY <1>2, <1>4 DEF Tables
<1> QED BY <1>2, <1>3, <1>5

LEMMA AccessStillOne ==
  ASSUME NEW table \in Tables, NEW g \in GrantIds, OneEach(table)
  PROVE  OneEach(WithAccess(table, g))
<1>1. \A u \in Tokens : Unspent(WithAccess(table, g), u) => WithAccess(table, g)[u] = table[u]
  BY AccessAdded DEF Unspent, Fresh
<1> QED BY <1>1 DEF OneEach, Unspent

\* A pair under a grant that has nothing left to spend.
LEMMA PairStillOne ==
  ASSUME NEW table \in Tables, NEW g \in GrantIds, OneEach(table),
         \A u \in Tokens : Unspent(table, u) => table[u].grant # g
  PROVE  OneEach(WithPair(table, g))
<1> DEFINE pair == WithPair(table, g)
<1>1. \A u \in Tokens : pair[u] \in {table[u], Fresh(g, "access"), Fresh(g, "refresh")}
  BY PairAdded
<1>2. \A u \in Tokens : u # Second => pair[u] \in {table[u], Fresh(g, "access")}
  BY PairAdded
<1> HIDE DEF pair
<1>3. ASSUME NEW u \in Tokens, Unspent(pair, u)
      PROVE  \/ pair[u] = table[u] /\ pair[u].grant # g
             \/ u = Second /\ pair[u].grant = g
  BY <1>1, <1>2, <1>3 DEF Unspent, Fresh
<1>4. OneEach(pair)
  BY <1>3 DEF OneEach, Unspent
<1> QED BY <1>4 DEF pair

LEMMA SpentStillOne ==
  ASSUME NEW table \in Tables, NEW t \in Tokens, table[t] # None,
         \A u, v \in Tokens \ {t} :
             Unspent(table, u) /\ Unspent(table, v) /\ table[u].grant = table[v].grant => u = v
  PROVE  OneEach(RevokedNow(table, t))
BY SpentInTable DEF OneEach, Unspent

-----------------------------------------------------------------------------
(***************************************************************************)
(* Grants: what an operation leaves of each, and of what it lets through.  *)
(***************************************************************************)
SameGrant(g) == grants'[g] # None =>
    /\ grants[g] # None
    /\ grants'[g].kind = grants[g].kind /\ grants'[g].client = grants[g].client
    /\ grants'[g].id = grants[g].id /\ grants'[g].generation = grants[g].generation
    /\ grants'[g].scopes = grants[g].scopes

Falls(g) == GrantIsLive(g)' => GrantIsLive(g)

\* A new grant with no token, an access token or the pair.
LEMMA IssuedTables ==
  ASSUME TokenInv, NEW g \in GrantIds, grants[g] = None, NEW row \in GrantRows,
         grants' = [grants EXCEPT ![g] = row],
         tokens' \in {tokens, WithAccess(tokens, g), WithPair(tokens, g)},
         clients' = clients
  PROVE  /\ TokenInv'
         /\ grants'[g] = row
         /\ \A x \in GrantIds : x # g => SameGrant(x) /\ Falls(x)
<1>1. tokens \in Tables /\ row # None /\ grants \in [GrantIds -> GrantRows \cup {None}]
  BY NoneAssumption DEF TokenInv, AuthorizationTypeOK, Tables
<1>2. grants'[g] = row /\ \A x \in GrantIds : x # g => grants'[x] = grants[x]
  BY <1>1
<1>3. tokens' \in Tables
  BY <1>1, AccessAdded, PairAdded
<1>4. AuthorizationTypeOK'
  BY <1>1, <1>3 DEF TokenInv, AuthorizationTypeOK, Tables
<1>5. ASSUME NEW t \in Tokens, tokens'[t] # None PROVE grants'[tokens'[t].grant] # None
  <2>1. tokens'[t] \in {tokens[t], Fresh(g, "access"), Fresh(g, "refresh")}
    BY <1>1, AccessAdded, PairAdded
  <2>2. CASE tokens'[t] = tokens[t]
    <3>1. grants[tokens[t].grant] # None /\ tokens[t].grant \in GrantIds
      BY <1>1, <1>5, <2>2 DEF TokenInv, Tables, TokenRows
    <3> QED BY <1>1, <1>2, <2>2, <3>1
  <2>3. CASE tokens'[t] \in {Fresh(g, "access"), Fresh(g, "refresh")}
    BY <1>1, <1>2, <2>3 DEF Fresh
  <2> QED BY <2>1, <2>2, <2>3
<1>6. OneEach(tokens')
  <2>1. \A u \in Tokens : Unspent(tokens, u) => tokens[u].grant # g
    BY DEF TokenInv, Unspent
  <2> QED BY <1>1, <2>1, AccessStillOne, PairStillOne DEF TokenInv
<1>7. TokenInv'
  <2>1. OneEach(tokens)'
    BY <1>6 DEF OneEach, Unspent
  <2> QED BY <1>4, <1>5, <2>1 DEF TokenInv
<1>8. \A x \in GrantIds : x # g => SameGrant(x) /\ Falls(x)
  BY <1>2 DEF SameGrant, Falls, GrantIsLive, ClientLive
<1> QED BY <1>2, <1>7, <1>8

\* Tokens come and go under grants that stay: spent, rotated, both or half.
LEMMA RotatedTables ==
  ASSUME TokenInv, NEW t \in Tokens, tokens[t] # None,
         \/ tokens' \in {tokens, RevokedNow(tokens, t)}
         \/ /\ Usable(t, "refresh")
            /\ \/ tokens' = RevokedNow(WithPair(tokens, tokens[t].grant), t)
               \/ tokens' \in Rotated(t),
         UNCHANGED <<clients, grants>>
  PROVE  TokenInv' /\ \A x \in GrantIds : SameGrant(x) /\ Falls(x)
<1> DEFINE g == tokens[t].grant
           spent == RevokedNow(tokens, t)
           pair == WithPair(tokens, g)
<1>1. tokens \in Tables /\ g \in GrantIds /\ grants[g] # None /\ OneEach(tokens)
  BY DEF TokenInv, AuthorizationTypeOK, Tables, TokenRows
<1>2. /\ spent \in Tables /\ spent[t] # None /\ spent[t].grant = g /\ spent[t].over
      /\ \A u \in Tokens : u # t => spent[u] = tokens[u]
  BY <1>1, SpentInTable
<1>3. OneEach(spent)
  BY <1>1, SpentStillOne DEF OneEach
<1>4. /\ pair \in Tables
      /\ \A u \in Tokens : pair[u] \in {tokens[u], Fresh(g, "access"), Fresh(g, "refresh")}
      /\ \A u \in Tokens : u # Second => pair[u] \in {tokens[u], Fresh(g, "access")}
  BY <1>1, PairAdded
<1>5. /\ WithAccess(spent, g) \in Tables /\ WithPair(spent, g) \in Tables
      /\ \A u \in Tokens : WithAccess(spent, g)[u] \in {spent[u], Fresh(g, "access")}
      /\ \A u \in Tokens : WithPair(spent, g)[u] \in
             {spent[u], Fresh(g, "access"), Fresh(g, "refresh")}
  BY <1>1, <1>2, AccessAdded, PairAdded
<1>6. Fresh(g, "access") # None
  <2>1. Fresh(g, "access") \in TokenRows
    BY <1>1 DEF Fresh, TokenRows
  <2> QED BY <2>1, NoneAssumption
<1>7. pair[t] # None
  <2>1. Fresh(g, "refresh") \in TokenRows
    BY <1>1 DEF Fresh, TokenRows
  <2> QED BY <1>4, <1>6, <2>1, NoneAssumption
<1> DEFINE after == RevokedNow(pair, t)
<1>8. /\ after \in Tables /\ after[t] # None /\ after[t].grant = pair[t].grant /\ after[t].over
      /\ \A u \in Tokens : u # t => after[u] = pair[u]
  BY <1>4, <1>7, SpentInTable
<1>9. ASSUME Unspent(tokens, t) PROVE OneEach(WithAccess(spent, g)) /\ OneEach(WithPair(spent, g))
  <2>1. ASSUME NEW u \in Tokens, Unspent(spent, u) PROVE spent[u].grant # g
    <3>1. u # t /\ Unspent(tokens, u) /\ spent[u] = tokens[u]
      BY <1>2, <2>1 DEF Unspent
    <3> QED BY <1>1, <1>9, <3>1 DEF OneEach
  <2> QED BY <1>1, <1>2, <1>3, <2>1, AccessStillOne, PairStillOne
<1>10. ASSUME Unspent(tokens, t) PROVE OneEach(after)
  <2>1. ASSUME NEW u \in Tokens \ {t}, Unspent(pair, u)
        PROVE  \/ Unspent(tokens, u) /\ pair[u] = tokens[u] /\ tokens[u].grant # g
               \/ u = Second /\ pair[u].grant = g
    <3>1. CASE u # Second
      <4>1. pair[u] = tokens[u] /\ Unspent(tokens, u)
        BY <1>4, <2>1, <3>1 DEF Unspent, Fresh
      <4> QED BY <1>1, <1>10, <2>1, <4>1 DEF OneEach
    <3>2. CASE u = Second /\ pair[u] = tokens[u]
      <4>1. Unspent(tokens, u)
        BY <2>1, <3>2 DEF Unspent
      <4> QED BY <1>1, <1>10, <2>1, <3>2, <4>1 DEF OneEach
    <3>3. CASE u = Second /\ pair[u] # tokens[u]
      BY <1>4, <3>3 DEF Fresh
    <3> QED BY <3>1, <3>2, <3>3
  <2>2. \A u, v \in Tokens \ {t} :
            Unspent(pair, u) /\ Unspent(pair, v) /\ pair[u].grant = pair[v].grant => u = v
    BY <1>1, <2>1 DEF OneEach
  <2> QED BY <1>4, <1>7, <2>2, SpentStillOne
<1>11. Usable(t, "refresh") => Unspent(tokens, t)
  BY DEF Usable, Unspent
<1> HIDE DEF g, spent, pair, after
<1>12. \/ tokens' \in {tokens, spent}
       \/ /\ Unspent(tokens, t)
          /\ tokens' \in {after, WithAccess(spent, g), WithPair(spent, g)}
  BY <1>11 DEF Rotated, g, spent, pair, after
<1>13. tokens' \in Tables /\ OneEach(tokens')
  BY <1>1, <1>2, <1>3, <1>5, <1>8, <1>9, <1>10, <1>12
<1>14. ASSUME NEW u \in Tokens, tokens'[u] # None PROVE grants'[tokens'[u].grant] # None
  <2>1. tokens'[u].grant = g \/ tokens'[u] = tokens[u]
    <3>1. Fresh(g, "access").grant = g /\ Fresh(g, "refresh").grant = g
      BY DEF Fresh
    <3>2. spent[u] = tokens[u] \/ spent[u].grant = g
      BY <1>2
    <3>3. after[u].grant = g \/ after[u] = tokens[u]
      BY <1>4, <1>8, <3>1 DEF g
    <3> QED BY <1>5, <1>12, <3>1, <3>2, <3>3
  <2> QED BY <1>1, <1>14, <2>1 DEF TokenInv
<1>15. TokenInv'
  <2>1. OneEach(tokens)'
    BY <1>13 DEF OneEach, Unspent
  <2>2. AuthorizationTypeOK'
    BY <1>13 DEF TokenInv, AuthorizationTypeOK, Tables
  <2> QED BY <1>14, <2>1, <2>2 DEF TokenInv
<1> QED BY <1>15 DEF SameGrant, Falls, GrantIsLive, ClientLive

\* Some grants are revoked, and nothing else.
LEMMA RevokedTables ==
  ASSUME TokenInv, NEW G \in SUBSET GrantIds, \A x \in G : grants[x] # None,
         grants' = [x \in GrantIds |-> IF x \in G THEN [grants[x] EXCEPT !.revoked = TRUE]
                                                  ELSE grants[x]],
         UNCHANGED <<clients, tokens>>
  PROVE  /\ TokenInv' /\ \A x \in GrantIds : SameGrant(x) /\ Falls(x)
         /\ \A x \in G : ~GrantIsLive(x)'
<1>1. grants \in [GrantIds -> GrantRows \cup {None}]
  BY DEF TokenInv, AuthorizationTypeOK
<1>2. ASSUME NEW x \in GrantIds, x \in G
      PROVE  /\ grants'[x] \in GrantRows /\ grants'[x] # None /\ grants'[x].revoked
             /\ grants'[x].kind = grants[x].kind /\ grants'[x].client = grants[x].client
             /\ grants'[x].id = grants[x].id /\ grants'[x].generation = grants[x].generation
             /\ grants'[x].scopes = grants[x].scopes
  <2> SUFFICES ASSUME NEW row \in GrantRows, row = grants[x],
                      NEW after, after = grants'[x], after = [row EXCEPT !.revoked = TRUE]
               PROVE  /\ after \in GrantRows /\ after # None /\ after.revoked
                      /\ after.kind = row.kind /\ after.client = row.client
                      /\ after.id = row.id /\ after.generation = row.generation
                      /\ after.scopes = row.scopes
    BY <1>1, <1>2
  <2>1. /\ after.kind = row.kind /\ after.client = row.client
        /\ after.id = row.id /\ after.generation = row.generation
        /\ after.scopes = row.scopes
    BY DEF GrantRows
  <2>2. after \in GrantRows /\ after.revoked
    BY DEF GrantRows
  <2> QED BY <2>1, <2>2, NoneAssumption
<1>3. \A x \in GrantIds \ G : grants'[x] = grants[x]
  OBVIOUS
<1>4. \A x \in GrantIds : SameGrant(x)
  BY <1>2, <1>3 DEF SameGrant
<1>5. \A x \in G : ~GrantIsLive(x)'
  BY <1>2 DEF GrantIsLive
<1>6. \A x \in GrantIds : Falls(x)
  BY <1>3, <1>5 DEF Falls, GrantIsLive, ClientLive
<1>7. TokenInv'
  <2>1. grants' \in [GrantIds -> GrantRows \cup {None}]
    BY <1>1, <1>2, <1>3
  <2>2. ASSUME NEW t \in Tokens, tokens'[t] # None PROVE grants'[tokens'[t].grant] # None
    <3>1. tokens[t].grant \in GrantIds /\ grants[tokens[t].grant] # None
      BY <2>2 DEF TokenInv, AuthorizationTypeOK, TokenRows
    <3> QED BY <1>2, <1>3, <3>1
  <2>3. OneEach(tokens)'
    BY DEF TokenInv, OneEach, Unspent
  <2> QED BY <2>1, <2>2, <2>3 DEF TokenInv, AuthorizationTypeOK
<1> QED BY <1>4, <1>5, <1>6, <1>7

\* Retention takes no grant a kept token is under, no client a kept grant is of.
LEMMA RetainedTables ==
  ASSUME TokenInv, NEW oldTokens \in SUBSET Tokens, NEW oldGrants \in SUBSET GrantIds,
         NEW oldClients \in SUBSET Clients, RunRetention(oldTokens, oldGrants, oldClients)
  PROVE  TokenInv' /\ \A x \in GrantIds : SameGrant(x) /\ Falls(x)
<1>1. /\ grants \in [GrantIds -> GrantRows \cup {None}]
      /\ tokens \in [Tokens -> TokenRows \cup {None}]
      /\ clients \in [Clients -> {"none", "live", "revoked"}]
  BY DEF TokenInv, AuthorizationTypeOK
<1>2. /\ \A t \in Tokens : tokens'[t] = IF t \in oldTokens THEN None ELSE tokens[t]
      /\ tokens' \in [Tokens -> TokenRows \cup {None}]
  BY <1>1 DEF RunRetention
<1> DEFINE gone == {g \in oldGrants : \A t \in Tokens : tokens'[t] # None => tokens'[t].grant # g}
<1>3. /\ \A g \in GrantIds : grants'[g] = IF g \in gone THEN None ELSE grants[g]
      /\ grants' = [g \in GrantIds |-> IF g \in gone THEN None ELSE grants[g]]
  BY DEF RunRetention
<1>4. \A c \in Clients : \/ clients'[c] = clients[c]
                         \/ /\ clients'[c] = "none"
                            /\ \A g \in GrantIds : grants'[g] # None => grants'[g].client # c
  BY DEF RunRetention
<1>5. clients' \in [Clients -> {"none", "live", "revoked"}]
  BY <1>1 DEF RunRetention
<1>6. grants' \in [GrantIds -> GrantRows \cup {None}]
  BY <1>1, <1>3
<1>7. \A g \in GrantIds : grants'[g] # None => grants'[g] = grants[g]
  BY <1>3
<1>8. \A x \in GrantIds : SameGrant(x)
  BY <1>7 DEF SameGrant
<1>9. ASSUME NEW x \in GrantIds, GrantIsLive(x)' PROVE GrantIsLive(x)
  <2>1. grants'[x] # None /\ grants'[x] = grants[x] /\ ~grants'[x].revoked /\ grants[x] \in GrantRows
    BY <1>1, <1>7, <1>9 DEF GrantIsLive
  <2>2. ClientLive(grants[x].client)
    <3>1. CASE grants[x].client = None
      BY <3>1 DEF ClientLive
    <3>2. CASE grants[x].client # None
      <4>1. grants[x].client \in Clients
        BY <2>1, <3>2 DEF GrantRows
      <4>2. clients'[grants[x].client] # "revoked"
        BY <1>9, <2>1, <3>2 DEF GrantIsLive, ClientLive
      <4> QED BY <1>4, <2>1, <4>1, <4>2 DEF ClientLive
    <3> QED BY <3>1, <3>2
  <2> QED BY <2>1, <2>2 DEF GrantIsLive
<1>10. ASSUME NEW t \in Tokens, tokens'[t] # None PROVE grants'[tokens'[t].grant] # None
  <2>1. tokens'[t] = tokens[t] /\ tokens[t].grant \in GrantIds /\ grants[tokens[t].grant] # None
    BY <1>1, <1>2, <1>10 DEF TokenInv, TokenRows
  <2>2. tokens'[t].grant \notin gone
    BY <1>10
  <2> QED BY <1>3, <2>1, <2>2
<1>11. OneEach(tokens)'
  BY <1>2 DEF TokenInv, OneEach, Unspent
<1> QED BY <1>2, <1>5, <1>6, <1>8, <1>9, <1>10, <1>11 DEF TokenInv, AuthorizationTypeOK, Falls

\* A client registers or loses its leave.
LEMMA ClientTables ==
  ASSUME TokenInv, NEW c \in Clients, RegisterClient(c) \/ RevokeClient(c)
  PROVE  TokenInv' /\ \A x \in GrantIds : SameGrant(x) /\ Falls(x)
<1>1. UNCHANGED <<grants, tokens>> /\ clients \in [Clients -> {"none", "live", "revoked"}]
  BY DEF RegisterClient, RevokeClient, TokenInv, AuthorizationTypeOK
<1>2. /\ clients' \in [Clients -> {"none", "live", "revoked"}]
      /\ \A d \in Clients : clients[d] = "revoked" => clients'[d] = "revoked"
  BY <1>1 DEF RegisterClient, RevokeClient
<1>3. ASSUME NEW x \in GrantIds, GrantIsLive(x)' PROVE GrantIsLive(x)
  <2>1. grants[x] \in GrantRows /\ grants'[x] = grants[x]
    BY <1>1, <1>3 DEF GrantIsLive, TokenInv, AuthorizationTypeOK
  <2>2. grants[x].client \in Clients \cup {None}
    BY <2>1 DEF GrantRows
  <2> QED BY <1>2, <1>3, <2>1, <2>2 DEF GrantIsLive, ClientLive
<1>4. TokenInv'
  <2>1. OneEach(tokens)'
    BY <1>1 DEF TokenInv, OneEach, Unspent
  <2> QED BY <1>1, <1>2, <2>1 DEF TokenInv, AuthorizationTypeOK
<1> QED BY <1>1, <1>3, <1>4 DEF SameGrant, Falls

-----------------------------------------------------------------------------
(***************************************************************************)
(* What a step does to the rows, the grants and the sessions, and why that *)
(* keeps the invariant.                                                    *)
(***************************************************************************)
\* An id means what it meant, begins an era past the mark, or is not active.
Moved(id) ==
    \/ Latest(id)' = Latest(id) /\ (Active(id)' <=> Active(id))
    \/ ~Active(id) /\ Active(id)' /\ Latest(id)' = mark[id] + 1
    \/ ~Active(id)'

RowsStep ==
    /\ MarkInv'
    /\ \A id \in Ids : Moved(id) /\ mark[id] <= mark'[id]
    /\ eras' \in [Ids -> Nat]
    /\ \A id \in Ids : eras'[id] = eras[id] \/ (~Active(id) /\ Active(id)')

\* A grant never comes back to life; a new one is of the era it is issued in.
GrantsStep ==
    /\ TokenInv'
    /\ eraOf' \in [GrantIds -> Nat]
    /\ \A g \in GrantIds :
          \/ SameGrant(g) /\ Falls(g) /\ eraOf'[g] = eraOf[g]
          \/ g \in NewGrants /\ EraAt(g)'

\* What a session with a live grant depends on stays.
ReachStep ==
    \A s \in Live, g \in GrantIds, id \in Ids :
        /\ g = sessions[s].grant /\ id = sessions[s].id
        /\ GrantIsLive(g) /\ GrantIsLive(g)'
        => Latest(id)' = Latest(id) /\ Active(id)'

\* A session is closed, stays within what it had, or is begun in order.
Follows(s) ==
    /\ sessions[s] # None
    /\ sessions'[s].grant = sessions[s].grant /\ sessions'[s].id = sessions[s].id
    /\ sessions'[s].caps \subseteq sessions[s].caps

SessionsStep ==
    /\ sessions' \in [SessionIds -> SessionRows \cup {None}]
    /\ pending' \subseteq Consents /\ codes' \subseteq Consents
    /\ StreamInv'
    /\ \A s \in SessionIds : sessions'[s] # None => Follows(s) \/ Bound(s)'

LEMMA EraKept ==
  ASSUME AccessInv, RowsStep, NEW g \in GrantIds, SameGrant(g), eraOf'[g] = eraOf[g]
  PROVE  EraAt(g)'
<1> SUFFICES ASSUME IsMcp(g)' PROVE
      /\ grants'[g].id \in Ids /\ grants'[g].generation <= mark'[grants'[g].id]
      /\ (Active(grants[g].id) /\ grants[g].generation = Latest(grants[g].id))'
            => eraOf'[g] = eras'[grants'[g].id]
  BY DEF EraAt
<1>1. /\ IsMcp(g) /\ grants'[g].id = grants[g].id
      /\ grants'[g].generation = grants[g].generation
  BY DEF IsMcp, SameGrant
<1> SUFFICES ASSUME NEW id, id = grants[g].id PROVE
      /\ id \in Ids /\ grants[g].generation <= mark'[id]
      /\ Active(id)' /\ grants[g].generation = Latest(id)' => eraOf[g] = eras'[id]
  BY <1>1
<1>2. /\ id \in Ids /\ grants[g].generation <= mark[id]
      /\ Active(id) /\ grants[g].generation = Latest(id) => eraOf[g] = eras[id]
  BY <1>1 DEF AccessInv, GrantInv, EraAt
<1>3. mark[id] \in Int /\ mark'[id] \in Int /\ grants[g].generation \in Int
  <2>1. grants[g] \in GrantRows
    BY <1>1 DEF AccessInv, GrantInv, TokenInv, AuthorizationTypeOK, IsMcp
  <2>2. grants[g].generation \in 0..MaxGeneration
    BY <2>1 DEF GrantRows
  <2>3. mark[id] \in 0..MaxGeneration
    BY <1>2 DEF AccessInv, MarkInv, DeclarationsTypeOK
  <2>4. mark'[id] \in 0..MaxGeneration
    BY <1>2 DEF RowsStep, MarkInv, DeclarationsTypeOK
  <2> QED BY <2>2, <2>3, <2>4
<1>4. Moved(id) /\ mark[id] <= mark'[id]
  BY <1>2 DEF RowsStep
<1>5. ASSUME Active(id)', grants[g].generation = Latest(id)' PROVE eraOf[g] = eras'[id]
  <2>1. Latest(id)' # mark[id] + 1
    BY <1>2, <1>3, <1>5
  <2>2. Latest(id)' = Latest(id) /\ Active(id)
    BY <1>4, <1>5, <2>1 DEF Moved
  <2> QED BY <1>2, <1>5, <2>2 DEF RowsStep
<1> QED BY <1>2, <1>3, <1>4, <1>5

LEMMA BoundKept ==
  ASSUME AccessInv, GrantsStep, ReachStep, NEW s \in Live, sessions'[s] # None, Follows(s)
  PROVE  Bound(s)'
<1>1. /\ sessions[s].grant \in GrantIds /\ sessions[s].id \in Ids
      /\ Bound(s) /\ sessions[s].grant \notin NewGrants
  BY DEF AccessInv, SessionInv, Live, SessionRows, NewGrants
<1> SUFFICES ASSUME NEW g \in GrantIds, g = sessions[s].grant, NEW id \in Ids, id = sessions[s].id PROVE
      /\ grants'[g] # None => /\ IsMcp(g)' /\ grants'[g].id = id
                              /\ sessions'[s].caps \subseteq ExpandScopes(grants'[g].scopes)
      /\ GrantIsLive(g)' => Active(id)' /\ grants'[g].generation = Latest(id)'
  BY <1>1 DEF Bound, Follows, ExpandScopes
<1>2. SameGrant(g) /\ Falls(g)
  BY <1>1 DEF GrantsStep
<1>3. ASSUME grants'[g] # None
      PROVE  /\ IsMcp(g)' /\ grants'[g].id = id
             /\ sessions'[s].caps \subseteq ExpandScopes(grants'[g].scopes)
  BY <1>1, <1>2, <1>3 DEF SameGrant, Bound, IsMcp, Follows
<1>4. ASSUME GrantIsLive(g)' PROVE Active(id)' /\ grants'[g].generation = Latest(id)'
  <2>1. GrantIsLive(g) /\ grants'[g] # None
    BY <1>2, <1>4 DEF Falls, GrantIsLive
  <2>2. grants[g].generation = Latest(id) /\ grants'[g].generation = grants[g].generation
    BY <1>1, <1>2, <2>1 DEF Bound, SameGrant
  <2> QED BY <1>4, <2>1, <2>2 DEF ReachStep
<1> QED BY <1>3, <1>4

LEMMA StepKeeps ==
  ASSUME AccessInv, RowsStep, GrantsStep, ReachStep, SessionsStep
  PROVE  AccessInv'
<1>1. \A g \in GrantIds : EraAt(g)'
  BY EraKept DEF GrantsStep
<1>2. GrantInv'
  BY <1>1 DEF GrantInv, RowsStep, GrantsStep
<1>3. SessionInv'
  <2>1. ASSUME NEW s \in SessionIds, sessions'[s] # None PROVE Bound(s)'
    <3>1. Follows(s) => s \in Live
      BY DEF Follows, Live
    <3> QED BY <2>1, <3>1, BoundKept DEF SessionsStep
  <2> QED BY <2>1 DEF SessionInv, SessionsStep, Live
<1> QED BY <1>2, <1>3 DEF AccessInv, RowsStep

-----------------------------------------------------------------------------
(***************************************************************************)
(* The parts a step leaves alone.                                          *)
(***************************************************************************)
LEMMA StillRows ==
  ASSUME AccessInv, UNCHANGED <<rows, mark, eras>>,
         declaring' \in [Requests -> [id : Ids, caps : Grantable] \cup {NoRow}]
  PROVE  RowsStep /\ ReachStep
<1>1. MarkInv'
  <2>1. DeclarationsTypeOK'
    BY DEF AccessInv, MarkInv, DeclarationsTypeOK
  <2> QED BY <2>1 DEF AccessInv, MarkInv
<1>2. \A id \in Ids : Latest(id)' = Latest(id) /\ (Active(id)' <=> Active(id))
  BY LatestStays
<1>3. \A id \in Ids : mark[id] <= mark[id]
  <2>1. \A id \in Ids : mark[id] \in 0..MaxGeneration
    BY DEF AccessInv, MarkInv, DeclarationsTypeOK
  <2> QED BY <2>1
<1>4. RowsStep
  BY <1>1, <1>2, <1>3 DEF RowsStep, Moved, AccessInv, GrantInv
<1>5. \A s \in Live : Bound(s) /\ sessions[s].id \in Ids
  BY DEF AccessInv, SessionInv, Live, SessionRows
<1> QED BY <1>2, <1>4, <1>5 DEF ReachStep, Bound

LEMMA StillGrants ==
  ASSUME AccessInv, UNCHANGED <<authorizationVars, eraOf>>
  PROVE  GrantsStep
<1>1. TokenInv'
  <2>1. OneEach(tokens)'
    BY DEF AccessInv, GrantInv, TokenInv, OneEach, Unspent, authorizationVars
  <2> QED BY <2>1 DEF AccessInv, GrantInv, TokenInv, AuthorizationTypeOK, authorizationVars
<1>2. \A g \in GrantIds : SameGrant(g) /\ Falls(g)
  BY DEF SameGrant, Falls, GrantIsLive, ClientLive, authorizationVars
<1> QED BY <1>1, <1>2 DEF GrantsStep, AccessInv, GrantInv

LEMMA StillSessions ==
  ASSUME AccessInv, UNCHANGED <<sessions, streams>>,
         pending' \subseteq Consents, codes' \subseteq Consents
  PROVE  SessionsStep
<1>1. StreamInv'
  BY DEF StreamInv, Open, Live, AccessInv, SessionInv
<1> QED BY <1>1 DEF SessionsStep, Follows, AccessInv, SessionInv

-----------------------------------------------------------------------------
(***************************************************************************)
(* Declarations.                                                           *)
(***************************************************************************)
\* Where a session's grant is live the declaration is active, so what is
\* declared or removed is another.
LEMMA LiveMeansActive ==
  ASSUME AccessInv, NEW s \in Live, GrantIsLive(sessions[s].grant)
  PROVE  /\ Active(sessions[s].id)
         /\ grants[sessions[s].grant].generation = Latest(sessions[s].id)
         /\ grants[sessions[s].grant].id = sessions[s].id
BY DEF AccessInv, SessionInv, Bound, GrantIsLive

LEMMA DeclaringStep ==
  ASSUME AccessInv, Declaring
  PROVE  RowsStep /\ ReachStep
<1>1. /\ UNCHANGED <<rows, mark>> \/ \E id \in Ids : Declared(id)
      /\ declaring' \in [Requests -> [id : Ids, caps : Grantable] \cup {NoRow}]
  BY DeclaringDeclares DEF AccessInv
<1>2. eras' = [id \in Ids |-> IF Active(id)' /\ ~Active(id) THEN eras[id] + 1 ELSE eras[id]]
  BY DEF Declaring
<1>3. eras \in [Ids -> Nat]
  BY DEF AccessInv, GrantInv
<1>4. /\ eras' \in [Ids -> Nat]
      /\ \A id \in Ids : eras'[id] = eras[id] \/ (~Active(id) /\ Active(id)')
  <2>1. \A id \in Ids : eras[id] + 1 \in Nat
    BY <1>3
  <2> QED BY <1>2, <1>3, <2>1
<1>5. CASE UNCHANGED <<rows, mark>>
  <2>1. \A id \in Ids : Active(id)' <=> Active(id)
    BY <1>5, LatestStays
  <2>2. \A id \in Ids : eras'[id] = eras[id]
    BY <1>4, <2>1
  <2>3. eras' = eras
    BY <1>3, <1>4, <2>2
  <2> QED BY <1>1, <1>5, <2>3, StillRows
<1>6. CASE \E id \in Ids : Declared(id)
  <2>1. PICK id \in Ids : Declared(id)
    BY <1>6
  <2>2. /\ MarkInv' /\ Active(id)' /\ Latest(id)' = mark[id] + 1 /\ ~Active(id)
        /\ \A other \in Ids : other # id =>
              Latest(other)' = Latest(other) /\ (Active(other)' <=> Active(other))
    <3>1. ~Active(id)
      BY <2>1 DEF Declared
    <3> QED BY <1>1, <2>1, <3>1, DeclaredIsCurrent DEF AccessInv
  <2>3. ASSUME NEW i \in Ids PROVE mark[i] <= mark'[i]
    <3>1. mark[i] \in 0..MaxGeneration
      BY DEF AccessInv, MarkInv, DeclarationsTypeOK
    <3>2. mark'[i] = mark[i] \/ mark'[i] = mark[i] + 1
      BY <2>1 DEF Declared, AccessInv, MarkInv, DeclarationsTypeOK
    <3> QED BY <3>1, <3>2
  <2>4. RowsStep
    <3>1. \A i \in Ids : Moved(i)
      BY <2>2 DEF Moved
    <3> QED BY <1>4, <2>2, <2>3, <3>1 DEF RowsStep
  <2>5. ReachStep
    BY <2>2, LiveMeansActive DEF ReachStep
  <2> QED BY <2>4, <2>5
<1> QED BY <1>1, <1>5, <1>6

\* Rows that are rewritten or removed leave the marks and the count of eras.
LEMMA MarksStay ==
  ASSUME AccessInv, MarkInv', UNCHANGED <<mark, eras>>, \A id \in Ids : Moved(id)
  PROVE  RowsStep
<1>1. \A id \in Ids : mark[id] <= mark'[id]
  <2>1. \A id \in Ids : mark[id] \in 0..MaxGeneration
    BY DEF AccessInv, MarkInv, DeclarationsTypeOK
  <2> QED BY <2>1
<1> QED BY <1>1 DEF RowsStep, AccessInv, GrantInv

LEMMA AmendingStep ==
  ASSUME AccessInv, Amending
  PROVE  RowsStep /\ ReachStep
<1>1. PICK id \in Ids, caps \in Grantable : Amend(id, caps)
  BY DEF Amending
<1>2. PICK row \in Rows : row.state = "active" /\ Rewritten(id, row)
  BY <1>1, AmendRewrites DEF AccessInv
<1>3. /\ MarkInv' /\ Active(id)' /\ Active(id)
      /\ \A other \in Ids : Latest(other)' = Latest(other)
      /\ \A other \in Ids : other # id => (Active(other)' <=> Active(other))
  BY <1>2, RewrittenIsCurrent DEF AccessInv, Rewritten
<1>4. \A i \in Ids : Moved(i)
  BY <1>3 DEF Moved
<1>5. UNCHANGED <<mark, eras>>
  BY <1>1 DEF Amend, Amending
<1> QED BY <1>3, <1>4, <1>5, MarksStay, LiveMeansActive DEF ReachStep

LEMMA RemovingStep ==
  ASSUME AccessInv, Removing
  PROVE  RowsStep /\ ReachStep
<1>1. PICK id \in Ids : Remove(id)
  BY DEF Removing
<1>2. /\ MarkInv' /\ ~Active(id) /\ ~Active(id)'
      /\ \A other \in Ids : other # id =>
            Latest(other)' = Latest(other) /\ (Active(other)' <=> Active(other))
  BY <1>1, RemovedIsNotActive DEF AccessInv
<1>3. \A i \in Ids : Moved(i)
  BY <1>2 DEF Moved
<1>4. UNCHANGED <<mark, eras>>
  BY <1>1 DEF Remove, Removing
<1> QED BY <1>2, <1>3, <1>4, MarksStay, LiveMeansActive DEF ReachStep

\* The cascade: the grants of the generation that is orphaned are revoked with
\* its row, so no session of it keeps a live one.
LEMMA OrphaningStep ==
  ASSUME AccessInv, Orphaning
  PROVE  RowsStep /\ ReachStep /\ GrantsStep
<1>1. PICK id \in Ids : Orphan(id)
  BY DEF Orphaning
<1>2. PICK row \in Rows : row.state = "orphaned" /\ Rewritten(id, row)
  BY <1>1, OrphanRewrites DEF AccessInv, Orphan
<1>3. /\ MarkInv' /\ ~Active(id)'
      /\ \A other \in Ids : Latest(other)' = Latest(other)
      /\ \A other \in Ids : other # id => (Active(other)' <=> Active(other))
  BY <1>2, RewrittenIsCurrent DEF AccessInv
<1>4. \A i \in Ids : Moved(i)
  BY <1>3 DEF Moved
<1>5. UNCHANGED <<mark, eras, eraOf>>
  BY <1>1 DEF Orphan, OrphanRow, Orphaning
<1> DEFINE G == {x \in GrantIds : grants[x] # None /\ grants[x].id = id
                                  /\ grants[x].generation = Latest(id)}
<1>6. /\ grants' = [x \in GrantIds |-> IF x \in G THEN [grants[x] EXCEPT !.revoked = TRUE]
                                                  ELSE grants[x]]
      /\ UNCHANGED <<clients, tokens>>
  BY <1>1 DEF Orphan, RevokeGrantsForResource
<1>7. G \subseteq GrantIds /\ \A x \in G : grants[x] # None
  OBVIOUS
<1> HIDE DEF G
<1>8. /\ TokenInv' /\ \A x \in GrantIds : SameGrant(x) /\ Falls(x)
      /\ \A x \in G : ~GrantIsLive(x)'
  BY <1>6, <1>7, RevokedTables DEF AccessInv, GrantInv
<1>9. GrantsStep
  BY <1>5, <1>8 DEF GrantsStep, AccessInv, GrantInv
<1>10. ReachStep
  <2> SUFFICES ASSUME NEW s \in Live, NEW g \in GrantIds, NEW i \in Ids,
                      g = sessions[s].grant, i = sessions[s].id,
                      GrantIsLive(g), GrantIsLive(g)'
               PROVE  Latest(i)' = Latest(i) /\ Active(i)'
    BY DEF ReachStep
  <2>1. Active(i) /\ grants[g].generation = Latest(i) /\ grants[g].id = i
    BY LiveMeansActive
  <2>2. i # id
    BY <1>8, <2>1 DEF G, GrantIsLive
  <2> QED BY <1>3, <2>1, <2>2
<1> QED BY <1>3, <1>4, <1>5, <1>9, <1>10, MarksStay

-----------------------------------------------------------------------------
(***************************************************************************)
(* Authorization.                                                          *)
(***************************************************************************)
\* Grants that lose or keep what they let through, none of them new.
LEMMA GrantsOnly ==
  ASSUME AccessInv, TokenInv', \A x \in GrantIds : SameGrant(x) /\ Falls(x), UNCHANGED eraOf
  PROVE  GrantsStep
BY DEF GrantsStep, AccessInv, GrantInv

LEMMA RotatingStep ==
  ASSUME AccessInv, NEW t \in Tokens, Refresh(t) \/ RefreshDies(t) \/ RevokeToken(t), UNCHANGED eraOf
  PROVE  GrantsStep
<1>1. /\ tokens[t] # None /\ UNCHANGED <<clients, grants>>
      /\ \/ tokens' = RevokedNow(tokens, t)
         \/ /\ Usable(t, "refresh")
            /\ \/ tokens' = RevokedNow(WithPair(tokens, tokens[t].grant), t)
               \/ tokens' \in Rotated(t)
  BY DEF Refresh, RefreshDies, RevokeToken, Usable
<1>2. TokenInv
  BY DEF AccessInv, GrantInv
<1>3. TokenInv' /\ \A x \in GrantIds : SameGrant(x) /\ Falls(x)
  BY <1>1, <1>2, RotatedTables
<1> QED BY <1>3, GrantsOnly

LEMMA RevokingStep ==
  ASSUME AccessInv, NEW g \in GrantIds, RevokeGrant(g), UNCHANGED eraOf
  PROVE  GrantsStep
<1>1. grants \in [GrantIds -> GrantRows \cup {None}] /\ TokenInv
  BY DEF AccessInv, GrantInv, TokenInv, AuthorizationTypeOK
<1>2. /\ grants' = [grants EXCEPT ![g] = [grants[g] EXCEPT !.revoked = TRUE]]
      /\ grants[g] # None /\ UNCHANGED <<clients, tokens>>
  BY DEF RevokeGrant
<1>3. grants' = [x \in GrantIds |-> IF x \in {g} THEN [grants[x] EXCEPT !.revoked = TRUE]
                                                ELSE grants[x]]
  BY <1>1, <1>2
<1>4. TokenInv' /\ \A x \in GrantIds : SameGrant(x) /\ Falls(x)
  BY <1>1, <1>2, <1>3, RevokedTables
<1> QED BY <1>4, GrantsOnly

LEMMA NewGrantIsNew ==
  ASSUME NEW g \in GrantIds, NewGrant(g)
  PROVE  g \in NewGrants
<1>1. NewGrants \subseteq Nat /\ NewGrants # {}
  BY AuthorizationAssumption DEF NewGrant, NewGrants
<1>2. \E x \in NewGrants : \A y \in NewGrants : x <= y
  BY <1>1, LeastNumber
<1>3. Min(NewGrants) \in NewGrants
  BY <1>2 DEF Min
<1> QED BY <1>3 DEF NewGrant

\* The code's grant: for the generation the declaration has, in its era.
LEMMA IssuingStep ==
  ASSUME AccessInv, NEW p \in codes, NEW g \in GrantIds, NewGrant(g),
         \/ IssueMcpGrant(g, p.client, p.id, Latest(p.id), p.scopes)
         \/ IssueDies(g, p.client, p.id, Latest(p.id), p.scopes),
         eraOf' = [eraOf EXCEPT ![g] = eras[p.id]],
         UNCHANGED <<rows, mark, eras>>
  PROVE  GrantsStep
<1> DEFINE row == McpGrant(p.client, p.id, Latest(p.id), p.scopes)
<1>1. p.client \in Clients /\ p.id \in Ids /\ p.scopes \subseteq Scopes
  BY DEF AccessInv, SessionInv, Consents
<1>2. Latest(p.id) \in 0..MaxGeneration /\ Latest(p.id) <= mark[p.id]
  BY <1>1, LatestIs, LatestAtMark DEF AccessInv, MarkInv
<1>3. row \in GrantRows
  BY <1>1, <1>2 DEF GrantRows, McpGrant
<1>4. /\ grants' = [grants EXCEPT ![g] = row] /\ clients' = clients
      /\ tokens' \in {tokens, WithAccess(tokens, g), WithPair(tokens, g)}
      /\ grants[g] = None
  BY DEF IssueMcpGrant, IssueDies
<1>5. TokenInv
  BY DEF AccessInv, GrantInv
<1> HIDE DEF row
<1>6. /\ TokenInv' /\ grants'[g] = row
      /\ \A x \in GrantIds : x # g => SameGrant(x) /\ Falls(x)
  BY <1>3, <1>4, <1>5, IssuedTables
<1>7. /\ eraOf' \in [GrantIds -> Nat] /\ eraOf'[g] = eras[p.id]
      /\ \A x \in GrantIds : x # g => eraOf'[x] = eraOf[x]
  BY <1>1 DEF AccessInv, GrantInv
<1>8. g \in NewGrants
  BY NewGrantIsNew
<1>9. EraAt(g)'
  <2>1. row.id = p.id /\ row.generation = Latest(p.id)
    BY DEF row, McpGrant
  <2>2. Latest(p.id) <= mark'[p.id]
    BY <1>2
  <2>3. /\ grants'[g].id \in Ids /\ grants'[g].generation <= mark'[grants'[g].id]
        /\ eraOf'[g] = eras'[grants'[g].id]
    BY <1>1, <1>6, <1>7, <2>1, <2>2
  <2> QED BY <2>3 DEF EraAt
<1> QED BY <1>6, <1>7, <1>8, <1>9 DEF GrantsStep

LEMMA ApiTokenStep ==
  ASSUME AccessInv, ApiToken
  PROVE  GrantsStep
<1>1. PICK g \in GrantIds, scopes \in SUBSET Scopes : NewGrant(g) /\ IssueOperatorApiToken(g, scopes)
  BY DEF ApiToken
<1> DEFINE row == [kind |-> "operator-api", client |-> None, id |-> None,
                   generation |-> 0, scopes |-> scopes, revoked |-> FALSE]
<1>2. row \in GrantRows
  BY DeclarationsAssumption DEF GrantRows
<1>3. /\ grants' = [grants EXCEPT ![g] = row] /\ clients' = clients /\ grants[g] = None
      /\ tokens' = WithAccess(tokens, g)
  BY <1>1 DEF IssueOperatorApiToken
<1>4. TokenInv /\ row.kind = "operator-api"
  BY DEF AccessInv, GrantInv
<1> HIDE DEF row
<1>5. /\ TokenInv' /\ grants'[g] = row
      /\ \A x \in GrantIds : x # g => SameGrant(x) /\ Falls(x)
  BY <1>2, <1>3, <1>4, IssuedTables
<1>6. g \in NewGrants
  BY <1>1, NewGrantIsNew
<1>7. EraAt(g)'
  BY <1>4, <1>5 DEF EraAt, IsMcp
<1> QED BY <1>5, <1>6, <1>7 DEF GrantsStep, ApiToken, AccessInv, GrantInv

LEMMA RetainingStep ==
  ASSUME AccessInv, Retaining
  PROVE  GrantsStep
<1>1. PICK T \in SUBSET Tokens, G \in SUBSET GrantIds, C \in SUBSET Clients : RunRetention(T, G, C)
  BY DEF Retaining
<1>2. TokenInv' /\ \A x \in GrantIds : SameGrant(x) /\ Falls(x)
  BY <1>1, RetainedTables DEF AccessInv, GrantInv
<1> QED BY <1>2, GrantsOnly DEF Retaining

\* What the tables alone do, on the operator's and the clients' requests.
LEMMA AuthorizingStep ==
  ASSUME AccessInv, Registering \/ Refreshing \/ Revoking \/ Authorizing
  PROVE  GrantsStep
<1>1. UNCHANGED eraOf
  BY DEF Registering, Refreshing, Revoking, Authorizing
<1>2. ASSUME NEW c \in Clients, RegisterClient(c) \/ RevokeClient(c) PROVE GrantsStep
  <2>1. TokenInv' /\ \A x \in GrantIds : SameGrant(x) /\ Falls(x)
    BY <1>2, ClientTables DEF AccessInv, GrantInv
  <2> QED BY <1>1, <2>1, GrantsOnly
<1> QED BY <1>1, <1>2, RotatingStep, RevokingStep DEF Registering, Refreshing, Revoking, Authorizing

\* The process dies: the tables as they are, or with half of an operation.
LEMMA CrashStep ==
  ASSUME AccessInv, Crash
  PROVE  RowsStep /\ GrantsStep /\ ReachStep /\ SessionsStep
<1>1. GrantsStep
  <2>1. CASE UNCHANGED authorizationVars /\ UNCHANGED eraOf
    BY <2>1, StillGrants DEF authorizationVars
  <2>2. CASE (\E t \in Tokens : RefreshDies(t)) /\ UNCHANGED eraOf
    BY <2>2, RotatingStep
  <2>3. CASE \E p \in codes, g \in GrantIds :
                /\ NewGrant(g)
                /\ IssueDies(g, p.client, p.id, Latest(p.id), p.scopes)
                /\ eraOf' = [eraOf EXCEPT ![g] = eras[p.id]]
    BY <2>3, IssuingStep DEF Crash
  <2> QED BY <2>1, <2>2, <2>3 DEF Crash
<1>2. RowsStep /\ ReachStep
  <2>1. declaring' \in [Requests -> [id : Ids, caps : Grantable] \cup {NoRow}]
    BY DEF Crash
  <2> QED BY <2>1, StillRows DEF Crash
<1>3. SessionsStep
  <2>1. StreamInv'
    BY DEF Crash, Nothing, StreamInv, Open
  <2> QED BY <2>1 DEF Crash, Nothing, SessionsStep
<1> QED BY <1>1, <1>2, <1>3

-----------------------------------------------------------------------------
(***************************************************************************)
(* Sessions.                                                               *)
(***************************************************************************)
LEMMA CheckedFollows ==
  ASSUME AccessInv, NEW s \in Live, Checked(s) # None
  PROVE  /\ Checked(s) \in SessionRows
         /\ Checked(s).grant = sessions[s].grant /\ Checked(s).id = sessions[s].id
         /\ Checked(s).caps \subseteq sessions[s].caps
         /\ GrantIsLive(sessions[s].grant) /\ Active(sessions[s].id)
<1> DEFINE old == sessions[s]
           row == Current(old.id)
<1>1. /\ old \in SessionRows /\ old.id \in Ids
      /\ GrantIsLive(old.grant) /\ Active(old.id)
      /\ Checked(s) \in {old, Recomputed(s, row)}
  BY DEF AccessInv, SessionInv, Live, SessionRows, Checked
<1>2. row \in Rows
  <2>1. Latest(old.id) # 0 => rows[old.id][Latest(old.id)] \in Rows
    BY <1>1, LatestIs DEF AccessInv, MarkInv
  <2> QED BY <1>1, <2>1 DEF Active, Current
<1>3. EffectiveGrant(row, old.caps) \subseteq old.caps
  BY DEF EffectiveGrant
<1>4. row.epoch \in 0..MaxEpoch
  BY <1>2 DEF Rows
<1>5. EffectiveGrant(row, old.caps) \subseteq Capabilities
  BY <1>1, <1>3 DEF SessionRows
<1>6. ASSUME NEW now, now = Recomputed(s, row)
      PROVE  /\ now \in SessionRows /\ now.grant = old.grant /\ now.id = old.id
             /\ now.caps \subseteq old.caps
  <2> DEFINE caps == EffectiveGrant(row, old.caps)
             epoch == row.epoch
  <2>1. now = [old EXCEPT !.epoch = epoch, !.caps = caps]
    BY <1>6 DEF Recomputed
  <2>2. caps \subseteq Capabilities /\ caps \subseteq old.caps /\ epoch \in 0..MaxEpoch
    BY <1>3, <1>4, <1>5
  <2> HIDE DEF caps, epoch, old, row
  <2> QED BY <1>1, <2>1, <2>2 DEF SessionRows
<1> HIDE DEF old, row
<1> QED BY <1>1, <1>6 DEF old

\* A stream closes with its session, and otherwise stays with it.
LEMMA ToldFollows ==
  ASSUME AccessInv, NEW now \in [SessionIds -> SessionRows \cup {None}], NEW x \in Streams,
         NEW told, told = Told(x, now), told # None
  PROVE  told \in StreamRows /\ now[told.session] # None
<1>1. streams[x] # None /\ now[streams[x].session] # None
  BY DEF Told
<1>2. streams[x] \in StreamRows
  BY <1>1 DEF AccessInv, SessionInv, StreamInv
<1> DEFINE epoch == now[streams[x].session].epoch
           old == streams[x]
<1>3. epoch \in 0..MaxEpoch
  BY <1>1, <1>2 DEF StreamRows, SessionRows
<1>4. told = [old EXCEPT !.told = epoch]
  BY <1>1 DEF Told
<1> HIDE DEF epoch, old
<1>5. told \in StreamRows /\ told.session = old.session
  BY <1>2, <1>3, <1>4 DEF StreamRows, old
<1> QED BY <1>1, <1>5 DEF old

LEMMA ToldStreams ==
  ASSUME AccessInv, sessions' \in [SessionIds -> SessionRows \cup {None}],
         streams' = [x \in Streams |-> streams'[x]],
         \A x \in Streams :
             \/ streams'[x] = Told(x, sessions')
             \/ streams'[x] \in StreamRows /\ sessions'[streams'[x].session] # None
  PROVE  StreamInv'
<1>1. ASSUME NEW x \in Streams, streams'[x] # None
      PROVE  streams'[x] \in StreamRows /\ streams'[x].session \in Live'
  <2>1. streams'[x] \in StreamRows /\ sessions'[streams'[x].session] # None
    BY <1>1, ToldFollows
  <2> QED BY <2>1 DEF StreamRows, Live
<1>2. streams' \in [Streams -> StreamRows \cup {None}]
  BY <1>1
<1> QED BY <1>1, <1>2 DEF StreamInv, Open

LEMMA CheckedRows ==
  ASSUME AccessInv, NEW S \in SUBSET Live
  PROVE  AfterCheck(S) \in [SessionIds -> SessionRows \cup {None}]
<1>1. sessions \in [SessionIds -> SessionRows \cup {None}]
  BY DEF AccessInv, SessionInv
<1> QED BY <1>1, CheckedFollows DEF AfterCheck

\* Whatever sessions a request or the sweep checks.
LEMMA CheckingStep ==
  ASSUME AccessInv, NEW S \in SUBSET Live, sessions' = AfterCheck(S), StreamInv',
         pending' \subseteq Consents, codes' \subseteq Consents
  PROVE  SessionsStep
<1>1. sessions \in [SessionIds -> SessionRows \cup {None}]
  BY DEF AccessInv, SessionInv
<1>2. \A s \in SessionIds : sessions'[s] = IF s \in S THEN Checked(s) ELSE sessions[s]
  BY DEF AfterCheck
<1>3. sessions' \in [SessionIds -> SessionRows \cup {None}]
  BY CheckedRows
<1>4. ASSUME NEW s \in SessionIds, sessions'[s] # None PROVE Follows(s)
  <2>1. CASE s \in S
    BY <1>2, <1>4, <2>1, CheckedFollows DEF Follows, Live
  <2>2. CASE s \notin S
    BY <1>2, <1>4, <2>2 DEF Follows
  <2> QED BY <2>1, <2>2
<1> QED BY <1>3, <1>4 DEF SessionsStep

\* A session begun on a token: the grant is live, of this declaration and of
\* its generation, and the capabilities are those it was asked for.
LEMMA InitializingStep ==
  ASSUME AccessInv, NEW t \in Tokens, NEW id \in Ids, Initialize(t, id)
  PROVE  SessionsStep
<1> DEFINE s == Min(SessionIds \ Live)
           g == tokens[t].grant
           row == NewSession(t, id)
<1>1. /\ \A x \in SessionIds : \/ sessions'[x] \in {None, sessions[x]}
                               \/ sessions'[x] = row
      /\ sessions' \in [SessionIds -> {None, row} \cup {sessions[x] : x \in SessionIds}]
  BY DEF Initialize
<1>2. /\ Usable(t, "access") /\ grants[g].kind = "mcp" /\ grants[g].id = id
      /\ Active(id) /\ grants[g].generation = Latest(id)
      /\ UNCHANGED <<rows, clients, grants, pending, codes>>
  BY DEF Initialize, Established, authorizationVars, declarationVars
<1>3. g \in GrantIds /\ GrantIsLive(g) /\ grants[g] # None
  BY <1>2 DEF Usable, GrantIsLive, AccessInv, GrantInv, TokenInv, AuthorizationTypeOK, TokenRows
<1>4. Current(id) \in Rows
  <2>1. Latest(id) # 0 => rows[id][Latest(id)] \in Rows
    BY LatestIs DEF AccessInv, MarkInv
  <2> QED BY <1>2, <2>1 DEF Active, Current
<1>5. /\ row.grant = g /\ row.id = id
      /\ row.caps \subseteq ExpandScopes(grants[g].scopes)
  BY DEF NewSession, EffectiveGrant
<1>6. row \in SessionRows
  <2>1. Current(id).epoch \in 0..MaxEpoch
    BY <1>4 DEF Rows
  <2>2. EffectiveGrant(Current(id), ExpandScopes(grants[g].scopes)) \subseteq Capabilities
    BY DeclarationsAssumption DEF EffectiveGrant
  <2> QED BY <1>3, <2>1, <2>2 DEF NewSession, SessionRows
<1> HIDE DEF row
<1>7. sessions' \in [SessionIds -> SessionRows \cup {None}]
  BY <1>1, <1>6 DEF AccessInv, SessionInv
<1>8. ASSUME NEW x \in SessionIds, sessions'[x] # None PROVE Follows(x) \/ Bound(x)'
  <2>1. CASE sessions'[x] = sessions[x]
    BY <1>8, <2>1 DEF Follows
  <2>2. CASE sessions'[x] = row
    <3>1. /\ sessions'[x].grant = g /\ sessions'[x].id = id
          /\ sessions'[x].caps \subseteq ExpandScopes(grants[g].scopes)
      BY <1>5, <2>2
    <3>2. Active(id)' /\ Latest(id)' = Latest(id)
      BY <1>2, LatestStays
    <3>3. Bound(x)'
      <4> SUFFICES ASSUME NEW h, h = sessions'[x].grant, NEW i, i = sessions'[x].id
                   PROVE  /\ grants'[h] # None =>
                               /\ IsMcp(h)' /\ grants'[h].id = i
                               /\ sessions'[x].caps \subseteq ExpandScopes(grants'[h].scopes)
                          /\ GrantIsLive(h)' => Active(i)' /\ grants'[h].generation = Latest(i)'
        BY DEF Bound, ExpandScopes
      <4>1. h = g /\ i = id
        BY <3>1
      <4> HIDE DEF g
      <4> QED BY <1>2, <3>1, <3>2, <4>1 DEF IsMcp
    <3> QED BY <3>3
  <2> QED BY <1>1, <1>8, <2>1, <2>2
<1>9. StreamInv'
  <2>1. streams' = [y \in Streams |-> Told(y, sessions')]
    BY DEF Initialize
  <2> QED BY <1>7, <2>1, ToldStreams
<1> QED BY <1>2, <1>7, <1>8, <1>9 DEF SessionsStep, AccessInv, SessionInv

-----------------------------------------------------------------------------
(***************************************************************************)
(* The invariant and what it shows.                                        *)
(***************************************************************************)
LEMMA AccessStarts == Init => AccessInv
<1> SUFFICES ASSUME Init PROVE AccessInv
  OBVIOUS
<1>1. DeclarationsTypeOK
  BY DeclarationsAssumption DEF Init, DeclarationsInit, DeclarationsTypeOK, Generations
<1>2. \A id \in Ids, g \in Generations : rows[id][g] = NoRow
  BY DEF Init, DeclarationsInit
<1>3. TokenInv
  BY DEF Init, AuthorizationInit, TokenInv, AuthorizationTypeOK, OneEach, Unspent
<1>4. \A g \in GrantIds : EraAt(g)
  BY DEF Init, AuthorizationInit, EraAt, IsMcp
<1>5. SessionInv
  BY DEF Init, Nothing, SessionInv, Live, StreamInv, Open
<1>6. eras \in [Ids -> Nat] /\ eraOf \in [GrantIds -> Nat]
  BY DEF Init
<1> QED BY <1>1, <1>2, <1>3, <1>4, <1>5, <1>6 DEF AccessInv, MarkInv, GrantInv

\* Only the surface, or nothing, moves.
LEMMA SurfaceKeeps ==
  ASSUME AccessInv, SessionsStep,
         UNCHANGED <<rows, mark, declaring, clients, grants, tokens, eras, eraOf>>
  PROVE  AccessInv'
<1>1. declaring' \in [Requests -> [id : Ids, caps : Grantable] \cup {NoRow}]
  BY DEF AccessInv, MarkInv, DeclarationsTypeOK
<1>2. RowsStep /\ ReachStep
  BY <1>1, StillRows
<1>3. GrantsStep
  BY StillGrants DEF authorizationVars
<1> QED BY <1>2, <1>3, StepKeeps

\* Only the tables of authorization move, with the codes they are issued for.
LEMMA TablesKeep ==
  ASSUME AccessInv, GrantsStep, UNCHANGED <<rows, mark, declaring, eras, sessions, streams, pending>>,
         codes' \subseteq codes
  PROVE  AccessInv'
<1>1. declaring' \in [Requests -> [id : Ids, caps : Grantable] \cup {NoRow}]
  BY DEF AccessInv, MarkInv, DeclarationsTypeOK
<1>2. RowsStep /\ ReachStep
  BY <1>1, StillRows
<1>3. SessionsStep
  <2>1. pending' \subseteq Consents /\ codes' \subseteq Consents
    BY DEF AccessInv, SessionInv
  <2> QED BY <2>1, StillSessions
<1> QED BY <1>2, <1>3, StepKeeps

LEMMA AccessKept == AccessInv /\ [Next]_vars => AccessInv'
<1> SUFFICES ASSUME AccessInv, [Next]_vars PROVE AccessInv'
  OBVIOUS
<1> USE DEF declarationVars, authorizationVars, surfaceVars
<1>0. /\ pending \subseteq Consents /\ codes \subseteq Consents
      /\ sessions \in [SessionIds -> SessionRows \cup {None}]
  BY DEF AccessInv, SessionInv
<1>1. CASE Declaring \/ Amending \/ Removing
  <2>1. RowsStep /\ ReachStep
    BY <1>1, DeclaringStep, AmendingStep, RemovingStep
  <2>2. UNCHANGED <<authorizationVars, surfaceVars, eraOf>>
    BY <1>1 DEF Declaring, Amending, Removing
  <2>3. GrantsStep
    BY <2>2, StillGrants
  <2>4. SessionsStep
    BY <1>0, <2>2, StillSessions
  <2> QED BY <2>1, <2>3, <2>4, StepKeeps
<1>2. CASE Orphaning
  <2>1. RowsStep /\ ReachStep /\ GrantsStep
    BY <1>2, OrphaningStep
  <2>2. SessionsStep
    BY <1>0, <1>2, StillSessions DEF Orphaning
  <2> QED BY <2>1, <2>2, StepKeeps
<1>3. CASE Registering \/ Refreshing \/ Revoking \/ Authorizing
  <2>1. GrantsStep
    BY <1>3, AuthorizingStep
  <2>2. UNCHANGED <<rows, mark, declaring, eras, sessions, streams, pending, codes>>
    BY <1>3 DEF Registering, Refreshing, Revoking, Authorizing
  <2> QED BY <2>1, <2>2, TablesKeep
<1>4. CASE Retaining
  <2>1. UNCHANGED <<rows, mark, declaring, eras, sessions, streams, pending, codes>>
    BY <1>4 DEF Retaining
  <2> QED BY <1>4, <2>1, RetainingStep, TablesKeep
<1>5. CASE ApiToken
  <2>1. UNCHANGED <<rows, mark, declaring, eras, sessions, streams, pending, codes>>
    BY <1>5 DEF ApiToken
  <2> QED BY <1>5, <2>1, ApiTokenStep, TablesKeep
<1>6. CASE Crash
  BY <1>6, CrashStep, StepKeeps
<1>7. ASSUME NEW p \in codes, NEW g \in GrantIds, ExchangeCode(p, g) PROVE AccessInv'
  <2>1. UNCHANGED <<rows, mark, declaring, eras, sessions, streams, pending>> /\ codes' \subseteq codes
    BY <1>7 DEF ExchangeCode
  <2>2. GrantsStep
    BY <1>7, IssuingStep DEF ExchangeCode
  <2> QED BY <2>1, <2>2, TablesKeep
<1>8. ASSUME NEW S \in SUBSET Live, Become(AfterCheck(S)),
             UNCHANGED <<declarationVars, authorizationVars, pending, codes, eras, eraOf>>
      PROVE  AccessInv'
  <2>1. /\ sessions' = AfterCheck(S)
        /\ streams' = [x \in Streams |-> Told(x, sessions')]
    BY <1>8 DEF Become
  <2>2. StreamInv'
    BY <2>1, CheckedRows, ToldStreams
  <2> QED BY <1>0, <1>8, <2>1, <2>2, CheckingStep, SurfaceKeeps
<1>9. CASE Sweep
  <2>1. {streams[x].session : x \in Open} \subseteq Live
    BY DEF AccessInv, SessionInv, StreamInv
  <2> QED BY <1>8, <1>9, <2>1 DEF Sweep
<1>10. ASSUME NEW s \in SessionIds, Request(s) PROVE AccessInv'
  <2>1. {s} \subseteq Live
    BY <1>10 DEF Request
  <2> QED BY <1>8, <1>10, <2>1 DEF Request
<1>11. ASSUME NEW t \in Tokens, NEW id \in Ids, Initialize(t, id) PROVE AccessInv'
  <2>1. UNCHANGED <<rows, mark, declaring, clients, grants, tokens, eras, eraOf>>
    BY <1>11 DEF Initialize
  <2> QED BY <1>11, <2>1, InitializingStep, SurfaceKeeps
<1>12. ASSUME NEW x \in Streams, NEW t \in Tokens, NEW s \in SessionIds, OpenStream(x, t, s)
       PROVE  AccessInv'
  <2> DEFINE now == AfterCheck({s})
  <2>1. /\ s \in Live /\ Checked(s) # None /\ sessions' = now
        /\ UNCHANGED <<rows, mark, declaring, clients, grants, tokens, eras, eraOf, pending, codes>>
        /\ streams' = [y \in Streams |->
               IF y = x THEN [session |-> s, told |-> Checked(s).epoch] ELSE Told(y, now)]
    BY <1>12 DEF OpenStream
  <2>2. now[s] = Checked(s) /\ Checked(s) \in SessionRows
    BY <2>1, CheckedFollows DEF AfterCheck
  <2>3. [session |-> s, told |-> Checked(s).epoch] \in StreamRows
    BY <2>2 DEF StreamRows, SessionRows
  <2>4. now \in [SessionIds -> SessionRows \cup {None}]
    BY <2>1, CheckedRows
  <2> HIDE DEF now
  <2>5. StreamInv'
    BY <2>1, <2>2, <2>3, <2>4, ToldStreams
  <2>6. SessionsStep
    BY <1>0, <2>1, <2>5, CheckingStep DEF now
  <2> QED BY <2>1, <2>6, SurfaceKeeps
<1>13. ASSUME NEW x \in Streams, CloseStream(x) PROVE AccessInv'
  <2>1. /\ UNCHANGED <<rows, mark, declaring, clients, grants, tokens, eras, eraOf,
                       sessions, pending, codes>>
        /\ streams' = [streams EXCEPT ![x] = None]
    BY <1>13 DEF CloseStream
  <2>2. StreamInv'
    BY <2>1 DEF StreamInv, Open, Live, AccessInv, SessionInv
  <2>3. SessionsStep
    BY <1>0, <2>1, <2>2 DEF SessionsStep, Follows
  <2> QED BY <2>1, <2>3, SurfaceKeeps
<1>14. ASSUME UNCHANGED <<declarationVars, authorizationVars, sessions, streams, eras, eraOf>>,
              pending' \subseteq Consents, codes' \subseteq Consents
       PROVE  AccessInv'
  BY <1>14, StillSessions, SurfaceKeeps
<1>15. ASSUME NEW c \in Clients, NEW id \in Ids, NEW scopes \in SUBSET Scopes,
              AskConsent(c, id, scopes)
       PROVE  AccessInv'
  <2>1. [client |-> c, id |-> id, scopes |-> scopes] \in Consents
    BY DEF Consents
  <2> QED BY <1>0, <1>14, <1>15, <2>1 DEF AskConsent
<1>16. ASSUME NEW p \in pending \cup codes, Lapse(p) \/ (p \in pending /\ Approve(p))
       PROVE  AccessInv'
  BY <1>0, <1>14, <1>16 DEF Lapse, Approve
<1>17. CASE UNCHANGED vars
  BY <1>0, <1>14, <1>17 DEF vars
<1> QED BY <1>1, <1>2, <1>3, <1>4, <1>5, <1>6, <1>7, <1>9, <1>10, <1>11, <1>12, <1>13,
           <1>15, <1>16, <1>17 DEF Next

\* The tables of declarations, grants and tokens agree with each other and with
\* the sessions and streams opened on them, wherever a crash cuts the
\* statements of an operation (authorization.ts, declarations.ts, mcp-routes.ts).
THEOREM AccessStays == Spec => []AccessInv
BY AccessStarts, AccessKept, PTL DEF Spec

LEMMA AuthorityFollows ==
  ASSUME AccessInv
  PROVE  AuthorityIsCurrent
<1> SUFFICES ASSUME NEW s \in SessionIds, NEW c \in Capabilities, Admitted(s, c)
             PROVE  /\ eraOf[sessions[s].grant] = eras[sessions[s].id]
                    /\ GrantIsLive(sessions[s].grant)
                    /\ c \in ExpandScopes(grants[sessions[s].grant].scopes)
                    /\ c \in Current(sessions[s].id).caps
  BY DEF AuthorityIsCurrent
<1> DEFINE g == sessions[s].grant
           id == sessions[s].id
<1>1. /\ s \in Live /\ Checked(s).caps \subseteq sessions[s].caps
      /\ GrantIsLive(g) /\ Active(id)
      /\ c \in EffectiveGrant(Current(id), Checked(s).caps)
  BY CheckedFollows DEF Admitted
<1>2. Bound(s) /\ g \in GrantIds
  BY <1>1 DEF AccessInv, SessionInv, Live, SessionRows
<1>3. /\ IsMcp(g) /\ grants[g].id = id /\ grants[g].generation = Latest(id)
      /\ sessions[s].caps \subseteq ExpandScopes(grants[g].scopes)
  BY <1>1, <1>2 DEF Bound, GrantIsLive
<1>4. eraOf[g] = eras[id]
  BY <1>1, <1>2, <1>3 DEF AccessInv, GrantInv, EraAt
<1>5. c \in ExpandScopes(grants[g].scopes) /\ c \in Current(id).caps
  BY <1>1, <1>3 DEF EffectiveGrant, ExpandScopes
<1> QED BY <1>1, <1>4, <1>5

\* Every call a session is admitted for acts under a live grant of the era its
\* declaration is in, within what was consented to and what is granted now
\* (mcp-routes.ts, checkSession and recomputeSessionGrant).
THEOREM AuthorityAlwaysCurrent == Spec => []AuthorityIsCurrent
BY AccessStays, AuthorityFollows, PTL

LEMMA OneFollows ==
  ASSUME TokenInv
  PROVE  OneRefreshPerGrant
<1> SUFFICES ASSUME NEW g \in GrantIds
             PROVE  Cardinality({t \in UnderGrant(g) : Usable(t, "refresh")}) <= 1
  BY DEF OneRefreshPerGrant
<1> DEFINE T == {t \in UnderGrant(g) : Usable(t, "refresh")}
<1>1. \A t, u \in T : t = u
  BY DEF TokenInv, OneEach, Unspent, UnderGrant, Usable
<1> HIDE DEF T
<1>2. CASE T = {}
  BY <1>2, FS_EmptySet DEF T
<1>3. CASE T # {}
  <2>1. PICK t \in T : TRUE
    BY <1>3
  <2>2. T = {t}
    BY <1>1, <2>1
  <2> QED BY <2>2, FS_Singleton DEF T
<1> QED BY <1>2, <1>3

\* A grant has at most one refresh token that can be used, wherever a rotation
\* is cut short (authorization.ts, refresh and issueTokenPair).
THEOREM OneRefreshTokenPerGrant == Spec => []OneRefreshPerGrant
<1>1. AccessInv => OneRefreshPerGrant
  BY OneFollows DEF AccessInv, GrantInv
<1> QED BY <1>1, AccessStays, PTL
=============================================================================
