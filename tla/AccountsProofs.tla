--------------------------- MODULE AccountsProofs ---------------------------
(***************************************************************************)
(* Who may connect to the relay: proofs about the pilot accounts           *)
(* (Accounts), the files and tables of agent tokens (RelayUsers) and the   *)
(* owner's account (OwnerAuth), for any users, sessions, tokens and        *)
(* passkeys.                                                               *)
(***************************************************************************)
EXTENDS Accounts, RelayUsers, OwnerAuth, TLAPS

(***************************************************************************)
(* Accounts                                                                *)
(***************************************************************************)
SessionRow  == [user : Pilots, state : {"none", "live", "revoked"}, expired : BOOLEAN, current : BOOLEAN]
SessionRows == [Sessions -> SessionRow]

AccountTypeOK ==
    /\ account \in [Pilots -> {"none", "enabled", "disabled"}]
    /\ password \subseteq Pilots
    /\ token \in [Pilots -> Tokens \cup {NoToken}]
    /\ otherToken \in [Pilots -> Tokens \cup {NoToken}]
    /\ rows \in SessionRows
    /\ resetCode \subseteq Pilots
    /\ pairings \subseteq Pilots \X PairableBrowsers
    /\ envTokens \in [Pilots -> Tokens \cup {NoToken}]
    /\ relayUsers \in [Pilots -> SUBSET Tokens]
    /\ allowed \subseteq Pilots \X PairableBrowsers
    /\ invite \in BOOLEAN
    /\ tabs \subseteq Sessions
    /\ agents \subseteq Pilots \X Tokens
    /\ manual \subseteq Pilots \X Tokens
    /\ changing \subseteq [session : Sessions, user : Pilots, right : BOOLEAN]
    /\ adrift \subseteq Pilots

\* The parts of ClientsAuthorized.
AgentsAuthorized == \A a \in agents : Entitled(a[1], a[2])
ManualAuthorized == \A b \in manual : account[b[1]] = "enabled" \/ b[2] = envTokens[b[1]]
TabsAuthorized   == \A s \in tabs : account[rows[s].user] = "enabled"

\* What MemoryMatchesTables needs besides: the pairings of a disabled user are
\* the same in both places too, or he could not be enabled again, and a name
\* without a row has none, nor a token in the tables.
PairingsMatch ==
    \A u \in Pilots \ adrift : {p \in allowed : p[1] = u} = {p \in pairings : p[1] = u}
PairingsHaveUsers == \A p \in pairings : account[p[1]] # "none"
TokensMatch == relayUsers = LoadedTokens(account, token, otherToken, envTokens)
TokensHaveUsers ==
    \A u \in Pilots : account[u] = "none" => token[u] = NoToken /\ otherToken[u] = NoToken

AccountIInv ==
    /\ AccountTypeOK
    /\ AgentsAuthorized
    /\ ManualAuthorized
    /\ TabsAuthorized
    /\ SessionsFollowPassword
    /\ TokensMatch
    /\ TokensHaveUsers
    /\ PairingsMatch
    /\ PairingsHaveUsers

\* What revoking and forgetting passwords does to each row.
LEMMA RevocationRows ==
    ASSUME NEW table \in SessionRows, NEW which \in SUBSET Sessions
    PROVE  /\ Revoked(table, which) \in SessionRows
           /\ \A s \in Sessions :
                  /\ Revoked(table, which)[s].user = table[s].user
                  /\ Revoked(table, which)[s].expired = table[s].expired
                  /\ Revoked(table, which)[s].state = "live" <=> table[s].state = "live" /\ s \notin which
                  /\ s \notin which => Revoked(table, which)[s] = table[s]
  BY DEF SessionRows, SessionRow, Revoked

LEMMA RepasswordedRows ==
    ASSUME NEW table \in SessionRows, NEW u \in Pilots, NEW keep \in SUBSET Sessions
    PROVE  /\ Repassworded(table, u, keep) \in SessionRows
           /\ \A s \in Sessions :
                  /\ Repassworded(table, u, keep)[s].user = table[s].user
                  /\ Repassworded(table, u, keep)[s].expired = table[s].expired
                  /\ Repassworded(table, u, keep)[s].state = table[s].state
                  /\ table[s].user # u \/ s \in keep
                         => Repassworded(table, u, keep)[s] = table[s]
  BY DEF SessionRows, SessionRow, Repassworded

\* Only the new session is another row than before.
LEMMA NewRow ==
    ASSUME NEW table \in SessionRows, NEW u \in Pilots, NEW s \in Sessions
    PROVE  /\ WithSession(table, u, s) \in SessionRows
           /\ WithSession(table, u, s)[s].user = u
           /\ WithSession(table, u, s)[s].state = "live" /\ WithSession(table, u, s)[s].current
           /\ \A o \in Sessions \ {s} : WithSession(table, u, s)[o] = table[o]
  BY DEF SessionRows, SessionRow, WithSession

\* Requests in flight stay well typed.
LEMMA OutdatedType ==
    ASSUME AccountTypeOK, NEW u
    PROVE  Outdated(u) \subseteq [session : Sessions, user : Pilots, right : BOOLEAN]
  BY DEF AccountTypeOK, Outdated

-----------------------------------------------------------------------------
(***************************************************************************)
(* Steps that only touch sessions, tabs, passwords or requests in flight.  *)
(***************************************************************************)
LEMMA CredentialsFrame ==
    ASSUME AccountIInv, UNCHANGED <<account, tokens, pairings, admission, allowed, agents, manual, adrift>>
    PROVE  /\ AgentsAuthorized' /\ ManualAuthorized' /\ TokensMatch' /\ TokensHaveUsers'
           /\ PairingsMatch' /\ PairingsHaveUsers'
  BY DEF AccountIInv, AgentsAuthorized, ManualAuthorized, Entitled, TokensMatch, TokensHaveUsers,
     PairingsMatch, PairingsHaveUsers, LoadedTokens, ActiveTokens, EnvTokens, tokens, admission

\* What the rows and the open tabs need of such a step.
LEMMA RowsStep ==
    ASSUME AccountIInv, UNCHANGED account, tabs' \subseteq tabs,
           \A o \in Sessions : /\ rows'[o].state = "live" => rows'[o].current
                               /\ o \in tabs' => /\ rows'[o].user = rows[o].user
                                                 /\ rows'[o].state = "live" \/ rows'[o].expired
    PROVE  TabsAuthorized' /\ SessionsFollowPassword'
<1>1. tabs' \subseteq Sessions
  BY DEF AccountIInv, AccountTypeOK
<1>2. TabsAuthorized'
  BY <1>1 DEF AccountIInv, TabsAuthorized
<1>3. SessionsFollowPassword'
  BY <1>1 DEF SessionsFollowPassword
<1> QED BY <1>2, <1>3

\* The row of a tab, and of any session.
LEMMA RowFacts ==
    ASSUME AccountIInv
    PROVE  /\ rows \in SessionRows /\ tabs \subseteq Sessions
           /\ \A o \in Sessions : rows[o].state = "live" => rows[o].current
           /\ \A o \in tabs : /\ rows[o].state = "live" \/ rows[o].expired
                              /\ account[rows[o].user] = "enabled"
  BY DEF AccountIInv, AccountTypeOK, SessionsFollowPassword, TabsAuthorized

\* What loadRelayUsers() gives is what is entitled.
LEMMA LoadedIs ==
    ASSUME AccountTypeOK
    PROVE  /\ LoadedTokens(account, token, otherToken, envTokens) \in [Pilots -> SUBSET Tokens]
           /\ \A u \in Pilots, t \in Tokens :
                  t \in LoadedTokens(account, token, otherToken, envTokens)[u] <=> Entitled(u, t)
  BY AccountAssumption DEF AccountTypeOK, LoadedTokens, ActiveTokens, EnvTokens, Entitled

\* A handler that changes what one user may use: those of his clients that stay
\* are entitled by the .env, or he is enabled.
LEMMA AdmissionStep ==
    ASSUME AccountIInv, NEW u \in Pilots,
           account' \in [Pilots -> {"none", "enabled", "disabled"}],
           token' \in [Pilots -> Tokens \cup {NoToken}],
           otherToken' \in [Pilots -> Tokens \cup {NoToken}],
           \A v \in Pilots \ {u} : /\ account'[v] = account[v] /\ token'[v] = token[v]
                                   /\ otherToken'[v] = otherToken[v],
           account'[u] = "none" => token'[u] = NoToken /\ otherToken'[u] = NoToken,
           UsersReloaded, agents' \subseteq agents, manual' \subseteq manual,
           account[u] # "enabled" \/ \A a \in agents' : a[1] # u,
           account'[u] = "enabled" \/ \A b \in manual' : b[1] # u
    PROVE  /\ AgentsAuthorized' /\ ManualAuthorized' /\ TokensMatch' /\ TokensHaveUsers'
           /\ relayUsers' \in [Pilots -> SUBSET Tokens] /\ UNCHANGED envTokens
<1>1. UNCHANGED envTokens /\ TokensMatch'
  BY DEF UsersReloaded, TokensMatch
<1>2. TokensHaveUsers'
  BY DEF AccountIInv, TokensHaveUsers
<1>3. relayUsers' \in [Pilots -> SUBSET Tokens]
  BY <1>1, AccountAssumption DEF AccountIInv, AccountTypeOK, TokensMatch, LoadedTokens, ActiveTokens, EnvTokens
<1>4. AgentsAuthorized'
  <2> SUFFICES ASSUME NEW a \in agents' PROVE Entitled(a[1], a[2])'
    BY DEF AgentsAuthorized
  <2>1. a[1] \in Pilots /\ Entitled(a[1], a[2])
    BY DEF AccountIInv, AccountTypeOK, AgentsAuthorized
  <2> QED BY <1>1, <2>1 DEF Entitled
<1>5. ManualAuthorized'
  BY <1>1 DEF AccountIInv, AccountTypeOK, ManualAuthorized
<1> QED BY <1>1, <1>2, <1>3, <1>4, <1>5

LEMMA RecoverInv ==
    ASSUME AccountIInv, NEW u \in Pilots, NEW s \in Sessions, Recover(u, s)
    PROVE  AccountIInv'
<1> DEFINE others == {o \in SessionsOf(u) : rows[o].state = "live"}
           table  == Repassworded(Revoked(rows, SessionsOf(u)), u, {})
<1>1. /\ rows' = WithSession(table, u, s)
      /\ tabs' = tabs \ others /\ changing' = Outdated(u)
      /\ s \notin tabs
      /\ password' = password \cup {u} /\ resetCode' = resetCode \ {u}
      /\ UNCHANGED <<account, tokens, pairings, admission, allowed, invite, agents, manual, adrift>>
  BY DEF Recover, Unused, CodeConsumed, BrowsersClosed
<1>2. SessionsOf(u) \in SUBSET Sessions
  BY DEF SessionsOf
<1>3. Revoked(rows, SessionsOf(u)) \in SessionRows
  BY <1>2, RowFacts, RevocationRows
<1>4. table \in SessionRows
  BY <1>3, RepasswordedRows
<1>5. ASSUME NEW o \in Sessions
      PROVE  /\ table[o].user = rows[o].user
             /\ table[o].expired = rows[o].expired
             /\ rows[o].user = u => table[o].state # "live"
             /\ rows[o].user # u => table[o] = rows[o]
  <2>1. rows[o].user = u => o \in SessionsOf(u)
    BY DEF SessionsOf
  <2>2. rows[o].user # u => o \notin SessionsOf(u)
    BY DEF SessionsOf
  <2> QED BY <1>2, <1>3, <2>1, <2>2, RowFacts, RevocationRows, RepasswordedRows
<1>6. /\ rows' \in SessionRows /\ rows'[s].state = "live" /\ rows'[s].current
      /\ \A o \in Sessions \ {s} : rows'[o] = table[o]
  BY <1>1, <1>4, NewRow
<1>7. ASSUME NEW o \in Sessions
      PROVE  /\ rows'[o].state = "live" => rows'[o].current
             /\ o \in tabs' => /\ rows'[o].user = rows[o].user
                               /\ rows'[o].state = "live" \/ rows'[o].expired
  <2>1. CASE o = s
    BY <1>1, <1>6, <2>1
  <2>2. CASE o # s /\ rows[o].user = u
    <3>1. o \in tabs' => rows[o].state # "live"
      BY <1>1, <2>2 DEF SessionsOf
    <3>2. o \in tabs' => rows[o].expired
      BY <1>1, <3>1, RowFacts
    <3> QED BY <1>5, <1>6, <2>2, <3>2
  <2>3. CASE o # s /\ rows[o].user # u
    BY <1>1, <1>5, <1>6, <2>3, RowFacts
  <2> QED BY <2>1, <2>2, <2>3
<1>8. TabsAuthorized' /\ SessionsFollowPassword'
  BY <1>1, <1>7, RowsStep
<1>9. AccountTypeOK'
  BY <1>1, <1>6, OutdatedType DEF AccountIInv, AccountTypeOK, tokens, admission
<1> QED BY <1>1, <1>8, <1>9, CredentialsFrame DEF AccountIInv

LEMMA LogOutInv == ASSUME AccountIInv, NEW s \in Sessions, LogOut(s) PROVE AccountIInv'
<1>1. /\ rows' = Revoked(rows, {s})
      /\ tabs' = tabs \ (IF Authentic(s) THEN {s} ELSE {})
      /\ UNCHANGED <<account, password, tokens, resetCode, pairings, admission, allowed,
                     invite, agents, manual, changing, adrift>>
  BY DEF LogOut, BrowsersClosed
<1>2. s \in tabs' => rows[s].expired
  BY <1>1, RowFacts DEF LogOut, Authentic
<1>3. rows' \in SessionRows
  BY <1>1, RowFacts, RevocationRows
<1>4. ASSUME NEW o \in Sessions
      PROVE  /\ rows'[o].state = "live" => rows'[o].current
             /\ rows'[o].user = rows[o].user
             /\ o \in tabs' => rows'[o].state = "live" \/ rows'[o].expired
  <2>1. CASE o = s
    BY <1>1, <1>2, <2>1, RowFacts, RevocationRows
  <2>2. CASE o # s
    BY <1>1, <2>2, RowFacts, RevocationRows
  <2> QED BY <2>1, <2>2
<1>5. TabsAuthorized' /\ SessionsFollowPassword'
  BY <1>1, <1>4, RowsStep
<1>6. AccountTypeOK'
  BY <1>1, <1>3 DEF AccountIInv, AccountTypeOK, tokens, admission
<1> QED BY <1>1, <1>5, <1>6, CredentialsFrame DEF AccountIInv

LEMMA RevokeSessionsInv ==
    ASSUME AccountIInv, NEW s \in Sessions, NEW which \in SUBSET Sessions, RevokeSessions(s, which)
    PROVE  AccountIInv'
<1>1. /\ rows' = Revoked(rows, which) /\ tabs' = tabs \ which
      /\ UNCHANGED <<account, password, tokens, resetCode, pairings, admission, allowed,
                     invite, agents, manual, changing, adrift>>
  BY DEF RevokeSessions, BrowsersClosed
<1>2. rows' \in SessionRows
  BY <1>1, RowFacts, RevocationRows
<1>3. TabsAuthorized' /\ SessionsFollowPassword'
  BY <1>1, RowFacts, RevocationRows, RowsStep
<1>4. AccountTypeOK'
  BY <1>1, <1>2 DEF AccountIInv, AccountTypeOK, tokens, admission
<1> QED BY <1>1, <1>3, <1>4, CredentialsFrame DEF AccountIInv

\* The other sessions of the user are revoked before their passwords are former.
LEMMA CompleteChangeInv == ASSUME AccountIInv, NEW r \in changing, CompleteChange(r) PROVE AccountIInv'
<1> DEFINE others == {o \in SessionsOf(r.user) \ {r.session} : rows[o].state = "live"}
           table  == Revoked(rows, others)
<1>1. /\ rows' = Repassworded(table, r.user, {r.session})
      /\ tabs' = tabs \ others
      /\ changing' = Outdated(r.user) \ {[r EXCEPT !.right = FALSE]}
      /\ UNCHANGED <<account, password, tokens, resetCode, pairings, admission, allowed,
                     invite, agents, manual, adrift>>
  BY DEF CompleteChange, BrowsersClosed
<1>2. r.user \in Pilots /\ r.session \in Sessions
  BY DEF AccountIInv, AccountTypeOK, tokens, admission
<1>3. others \in SUBSET Sessions
  BY DEF SessionsOf
<1>4. table \in SessionRows
  BY <1>3, RowFacts, RevocationRows
<1>5. rows' \in SessionRows
  BY <1>1, <1>2, <1>4, RepasswordedRows
<1>6. ASSUME NEW o \in Sessions
      PROVE  /\ rows'[o].state = "live" => rows'[o].current
             /\ o \in tabs' => /\ rows'[o].user = rows[o].user
                               /\ rows'[o].state = "live" \/ rows'[o].expired
  <2>1. /\ rows'[o].user = table[o].user /\ rows'[o].expired = table[o].expired
        /\ rows'[o].state = table[o].state
        /\ table[o].user # r.user \/ o \in {r.session} => rows'[o] = table[o]
    BY <1>1, <1>2, <1>4, RepasswordedRows
  <2>2. CASE o \in others
    BY <1>1, <1>3, <2>1, <2>2, RowFacts, RevocationRows
  <2>3. CASE o \notin others
    <3>1. table[o] = rows[o]
      BY <1>3, <2>3, RowFacts, RevocationRows
    <3>2. rows[o].state = "live" => rows[o].user # r.user \/ o = r.session
      BY <2>3 DEF SessionsOf
    <3> QED BY <1>1, <2>1, <3>1, <3>2, RowFacts
  <2> QED BY <2>2, <2>3
<1>7. TabsAuthorized' /\ SessionsFollowPassword'
  BY <1>1, <1>6, RowsStep
<1>8. AccountTypeOK'
  BY <1>1, <1>5, OutdatedType DEF AccountIInv, AccountTypeOK, tokens, admission
<1> QED BY <1>1, <1>7, <1>8, CredentialsFrame DEF AccountIInv

LEMMA AgesInv == ASSUME AccountIInv, Ages PROVE AccountIInv'
<1>1. UNCHANGED <<account, password, tokens, pairings, admission, allowed, tabs, agents, manual, changing, adrift>>
  BY DEF Ages
<1>2. /\ invite' \in BOOLEAN /\ resetCode' \subseteq Pilots
      /\ \/ UNCHANGED rows
         \/ \E s \in Sessions : rows' = [rows EXCEPT ![s].expired = TRUE]
  BY DEF Ages, AccountIInv, AccountTypeOK
<1>3. /\ rows' \in SessionRows
      /\ \A o \in Sessions : /\ rows'[o].user = rows[o].user /\ rows'[o].state = rows[o].state
                             /\ rows'[o].current = rows[o].current
                             /\ rows[o].expired => rows'[o].expired
  <2>1. CASE UNCHANGED rows
    BY <2>1, RowFacts
  <2>2. ASSUME NEW s \in Sessions, rows' = [rows EXCEPT ![s].expired = TRUE]
        PROVE  /\ rows' \in SessionRows
               /\ \A o \in Sessions : rows'[o] = IF o = s THEN [rows[o] EXCEPT !.expired = TRUE]
                                                         ELSE rows[o]
    <3>1. \A o \in Sessions : rows[o] \in SessionRow
      BY RowFacts DEF SessionRows
    <3>2. \A row \in SessionRow : [row EXCEPT !.expired = TRUE] \in SessionRow
      BY DEF SessionRow
    <3>3. rows' = [o \in Sessions |-> IF o = s THEN [rows[o] EXCEPT !.expired = TRUE] ELSE rows[o]]
      BY <2>2, RowFacts DEF SessionRows
    <3> QED BY <3>1, <3>2, <3>3 DEF SessionRows
  <2> QED BY <1>2, <2>1, <2>2, RowFacts DEF SessionRows, SessionRow
<1>4. TabsAuthorized' /\ SessionsFollowPassword'
  BY <1>1, <1>3, RowFacts, RowsStep
<1>5. AccountTypeOK'
  BY <1>1, <1>2, <1>3 DEF AccountIInv, AccountTypeOK, tokens, admission
<1> QED BY <1>1, <1>4, <1>5, CredentialsFrame DEF AccountIInv

\* Rows that the tables drop.
Dropped(table, gone) ==
    [s \in Sessions |-> IF s \in gone THEN [table[s] EXCEPT !.state = "none", !.current = FALSE] ELSE table[s]]

LEMMA RowsDropped ==
    ASSUME NEW table \in SessionRows, NEW gone
    PROVE  /\ Dropped(table, gone) \in SessionRows
           /\ \A o \in Sessions : /\ Dropped(table, gone)[o].user = table[o].user
                                  /\ Dropped(table, gone)[o].expired = table[o].expired
                                  /\ o \in gone => Dropped(table, gone)[o].state = "none"
                                  /\ o \notin gone => Dropped(table, gone)[o] = table[o]
<1>1. \A o \in Sessions : table[o] \in SessionRow
  BY DEF SessionRows
<1>2. \A row \in SessionRow : /\ [row EXCEPT !.state = "none", !.current = FALSE] \in SessionRow
                              /\ [row EXCEPT !.state = "none", !.current = FALSE].user = row.user
                              /\ [row EXCEPT !.state = "none", !.current = FALSE].expired = row.expired
                              /\ [row EXCEPT !.state = "none", !.current = FALSE].state = "none"
  BY DEF SessionRow
<1>3. \A o \in Sessions :
          Dropped(table, gone)[o] = IF o \in gone THEN [table[o] EXCEPT !.state = "none", !.current = FALSE]
                                                  ELSE table[o]
  BY DEF Dropped
<1>4. \A o \in Sessions : Dropped(table, gone)[o] \in SessionRow
  BY <1>1, <1>2, <1>3
<1>5. Dropped(table, gone) \in SessionRows
  BY <1>4 DEF SessionRows, Dropped
<1> QED BY <1>1, <1>2, <1>3, <1>5

LEMMA MaintenanceInv == ASSUME AccountIInv, Maintenance PROVE AccountIInv'
<1>1. /\ rows' = [s \in Sessions |-> IF rows[s].expired \/ rows[s].state = "revoked"
                                     THEN [rows[s] EXCEPT !.state = "none", !.current = FALSE]
                                     ELSE rows[s]]
      /\ UNCHANGED <<account, password, tokens, resetCode, pairings, admission, allowed, invite,
                     tabs, agents, manual, changing, adrift>>
  BY DEF Maintenance, memory
<1>2. /\ rows' \in SessionRows
      /\ \A o \in Sessions : /\ rows'[o].user = rows[o].user /\ rows'[o].expired = rows[o].expired
                             /\ rows'[o].state = "live" => rows'[o] = rows[o]
                             /\ rows[o].state = "live" /\ ~rows[o].expired => rows'[o] = rows[o]
  <2> DEFINE gone == {s \in Sessions : rows[s].expired \/ rows[s].state = "revoked"}
  <2>1. rows' = Dropped(rows, gone)
    BY <1>1 DEF Dropped
  <2>2. \A o \in Sessions : rows[o].state = "live" /\ ~rows[o].expired => o \notin gone
    OBVIOUS
  <2> HIDE DEF gone
  <2>3. rows \in SessionRows
    BY RowFacts
  <2>4. /\ rows' \in SessionRows
        /\ \A o \in Sessions : /\ rows'[o].user = rows[o].user /\ rows'[o].expired = rows[o].expired
                               /\ o \in gone => rows'[o].state = "none"
                               /\ o \notin gone => rows'[o] = rows[o]
    BY <2>1, <2>3, RowsDropped
  <2> QED BY <2>2, <2>4
<1>3. TabsAuthorized' /\ SessionsFollowPassword'
  BY <1>1, <1>2, RowFacts, RowsStep
<1>4. AccountTypeOK'
  BY <1>1, <1>2 DEF AccountIInv, AccountTypeOK, tokens, admission
<1> QED BY <1>1, <1>3, <1>4, CredentialsFrame DEF AccountIInv

\* The rows that the tables drop with a user are those of the tabs that close.
LEMMA DeleteInv == ASSUME AccountIInv, NEW u \in Pilots, Delete(u) PROVE AccountIInv'
<1>1. /\ account' = [account EXCEPT ![u] = "none"] /\ token' = [token EXCEPT ![u] = NoToken]
      /\ otherToken' = [otherToken EXCEPT ![u] = NoToken]
      /\ password' = password \ {u} /\ resetCode' = resetCode \ {u}
      /\ rows' = [s \in Sessions |-> IF rows[s].user = u
                                     THEN [rows[s] EXCEPT !.state = "none", !.current = FALSE]
                                     ELSE rows[s]]
      /\ pairings' = {p \in pairings : p[1] # u}
      /\ UsersReloaded
      /\ allowed' = allowed \ {p \in pairings : account[p[1]] = "enabled" /\ p[1] = u}
      /\ tabs' = tabs \ SessionsOf(u)
      /\ agents' = {a \in agents : a[1] # u} /\ manual' = {b \in manual : b[1] # u}
      /\ adrift' = IF account[u] = "disabled" THEN adrift \cup {u} ELSE adrift
      /\ account[u] # "none"
      /\ UNCHANGED <<invite, changing>>
  BY DEF Delete, UserDeleted, ActivePairings, EndClients, Others
<1>2. /\ rows' \in SessionRows
      /\ \A o \in Sessions : /\ rows'[o].user = rows[o].user
                             /\ rows'[o].state = "live" => rows'[o] = rows[o]
                             /\ rows[o].user # u => rows'[o] = rows[o]
  <2> DEFINE gone == {s \in Sessions : rows[s].user = u}
  <2>1. rows' = Dropped(rows, gone)
    BY <1>1 DEF Dropped
  <2>2. \A o \in Sessions : rows[o].user # u => o \notin gone
    OBVIOUS
  <2> HIDE DEF gone
  <2>3. rows \in SessionRows
    BY RowFacts
  <2>4. /\ rows' \in SessionRows
        /\ \A o \in Sessions : /\ rows'[o].user = rows[o].user
                               /\ o \in gone => rows'[o].state = "none"
                               /\ o \notin gone => rows'[o] = rows[o]
    BY <2>1, <2>3, RowsDropped
  <2> QED BY <2>2, <2>4
<1>3. \A o \in tabs' : o \in tabs /\ rows[o].user # u
  BY <1>1, RowFacts DEF SessionsOf
<1>4. TabsAuthorized'
  <2>1. \A o \in tabs' : o \in Sessions /\ rows[o].user \in Pilots
    BY <1>3, RowFacts DEF SessionRows, SessionRow
  <2>2. \A v \in Pilots \ {u} : account'[v] = account[v]
    BY <1>1 DEF AccountIInv, AccountTypeOK, tokens, admission
  <2> QED BY <1>2, <1>3, <2>1, <2>2, RowFacts DEF TabsAuthorized
<1>5. SessionsFollowPassword'
  BY <1>2, <1>3, RowFacts DEF SessionsFollowPassword
<1>6. /\ AgentsAuthorized' /\ ManualAuthorized' /\ TokensMatch' /\ TokensHaveUsers'
      /\ relayUsers' \in [Pilots -> SUBSET Tokens] /\ UNCHANGED envTokens
  BY <1>1, AdmissionStep DEF AccountIInv, AccountTypeOK
<1>7. AccountTypeOK'
  BY <1>1, <1>2, <1>6 DEF AccountIInv, AccountTypeOK
<1>8. PairingsHaveUsers'
  BY <1>1 DEF AccountIInv, AccountTypeOK, PairingsHaveUsers
<1>9. PairingsMatch'
  <2> SUFFICES ASSUME NEW v \in Pilots \ adrift'
               PROVE  {p \in allowed' : p[1] = v} = {p \in pairings' : p[1] = v}
    BY DEF PairingsMatch
  <2>1. {p \in allowed : p[1] = v} = {p \in pairings : p[1] = v}
    BY <1>1 DEF AccountIInv, PairingsMatch
  <2>2. CASE v = u
    <3>1. account[u] = "enabled"
      BY <1>1, <2>2 DEF AccountIInv, AccountTypeOK, tokens, admission
    <3> QED BY <1>1, <2>1, <2>2, <3>1
  <2>3. CASE v # u
    BY <1>1, <2>1, <2>3
  <2> QED BY <2>2, <2>3
<1> QED BY <1>4, <1>5, <1>6, <1>7, <1>8, <1>9 DEF AccountIInv

\* A process that starts reads no pairing of a disabled user.
LEMMA RestartInv == ASSUME AccountIInv, RelayProcessRestarts PROVE AccountIInv'
<1>1. /\ envTokens' \in [Pilots -> Tokens \cup {NoToken}]
      /\ relayUsers' = LoadedTokens(account, token, otherToken, envTokens') /\ allowed' = ActivePairings
      /\ adrift' = {u \in Pilots : account[u] = "disabled"}
      /\ invite' = FALSE /\ tabs' = {} /\ agents' = {} /\ manual' = {} /\ changing' = {}
      /\ UNCHANGED <<account, password, tokens, rows, resetCode, pairings>>
  BY AccountAssumption DEF RelayProcessRestarts, tables, tokens
<1>2. AccountTypeOK'
  <2>1. relayUsers' \in [Pilots -> SUBSET Tokens]
    BY <1>1, AccountAssumption DEF AccountIInv, AccountTypeOK, tokens, LoadedTokens, ActiveTokens, EnvTokens
  <2> QED BY <1>1, <2>1 DEF AccountIInv, AccountTypeOK, tokens, ActivePairings
<1>3. /\ AgentsAuthorized' /\ ManualAuthorized' /\ TabsAuthorized' /\ SessionsFollowPassword'
      /\ TokensMatch' /\ TokensHaveUsers'
  BY <1>1 DEF AccountIInv, AgentsAuthorized, ManualAuthorized, TabsAuthorized, SessionsFollowPassword,
     TokensMatch, TokensHaveUsers, tokens
<1>4. PairingsHaveUsers'
  BY <1>1 DEF AccountIInv, PairingsHaveUsers
<1>5. PairingsMatch'
  <2> SUFFICES ASSUME NEW v \in Pilots \ adrift'
               PROVE  {p \in allowed' : p[1] = v} = {p \in pairings' : p[1] = v}
    BY DEF PairingsMatch
  <2>1. account[v] # "none" => account[v] = "enabled"
    BY <1>1 DEF AccountIInv, AccountTypeOK, tokens, admission
  <2> QED BY <1>1, <2>1 DEF AccountIInv, PairingsHaveUsers, ActivePairings
<1> QED BY <1>2, <1>3, <1>4, <1>5 DEF AccountIInv

LEMMA RegisterInv ==
    ASSUME AccountIInv, NEW u \in Pilots, NEW s \in Sessions, NEW t \in Tokens, Register(u, s, t)
    PROVE  AccountIInv'
<1>1. /\ account' = [account EXCEPT ![u] = "enabled"] /\ token' = [token EXCEPT ![u] = t]
      /\ password' = password \cup {u} /\ rows' = WithSession(rows, u, s) /\ invite' = FALSE
      /\ UsersReloaded
      /\ account[u] = "none" /\ s \notin tabs
      /\ UNCHANGED <<otherToken, resetCode, pairings, allowed, tabs, agents, manual, changing, adrift>>
  BY DEF Register, Unused, InviteConsumed, AccountCreated, TokenImported
<1>2. /\ rows' \in SessionRows
      /\ \A o \in Sessions : rows'[o].state = "live" => rows'[o].current
      /\ \A o \in tabs : rows'[o] = rows[o]
  BY <1>1, RowFacts, NewRow
<1>3. \A v \in Pilots : account[v] = "enabled" => account'[v] = "enabled"
  BY <1>1 DEF AccountIInv, AccountTypeOK
<1>4. TabsAuthorized' /\ SessionsFollowPassword'
  <2>1. \A o \in tabs : o \in Sessions /\ rows[o].user \in Pilots
    BY RowFacts DEF SessionRows, SessionRow
  <2> QED BY <1>1, <1>2, <1>3, <2>1, RowFacts DEF TabsAuthorized, SessionsFollowPassword
<1>5. /\ AgentsAuthorized' /\ ManualAuthorized' /\ TokensMatch' /\ TokensHaveUsers'
      /\ relayUsers' \in [Pilots -> SUBSET Tokens] /\ UNCHANGED envTokens
  BY <1>1, AdmissionStep DEF AccountIInv, AccountTypeOK
<1>6. PairingsMatch' /\ PairingsHaveUsers'
  BY <1>1 DEF AccountIInv, AccountTypeOK, PairingsMatch, PairingsHaveUsers
<1>7. AccountTypeOK'
  BY <1>1, <1>2, <1>5 DEF AccountIInv, AccountTypeOK
<1> QED BY <1>4, <1>5, <1>6, <1>7 DEF AccountIInv

-----------------------------------------------------------------------------
(***************************************************************************)
(* One lemma per group of steps.                                           *)
(***************************************************************************)
\* Six of the handlers change what one user may use and nothing of the sessions
\* but which of them are connected.
LEMMA AccessInv ==
    ASSUME AccountIInv, NEW u \in Pilots,
           account' \in [Pilots -> {"none", "enabled", "disabled"}], account'[u] # "none",
           token' \in [Pilots -> Tokens \cup {NoToken}], UNCHANGED otherToken,
           \A v \in Pilots \ {u} : account'[v] = account[v] /\ token'[v] = token[v],
           UsersReloaded, agents' \subseteq agents, manual' \subseteq manual, tabs' \subseteq tabs,
           account[u] # "enabled" \/ \A a \in agents' : a[1] # u,
           account'[u] = "enabled" \/ \A b \in manual' : b[1] # u,
           account'[u] = "enabled" \/ tabs' = tabs \ SessionsOf(u),
           UNCHANGED <<password, rows, resetCode, pairings, allowed, invite, changing, adrift>>
    PROVE  AccountIInv'
<1>1. /\ AgentsAuthorized' /\ ManualAuthorized' /\ TokensMatch' /\ TokensHaveUsers'
      /\ relayUsers' \in [Pilots -> SUBSET Tokens] /\ UNCHANGED envTokens
  BY AdmissionStep DEF AccountIInv, AccountTypeOK
<1>2. AccountTypeOK'
  BY <1>1 DEF AccountIInv, AccountTypeOK
<1>3. TabsAuthorized'
  <2> SUFFICES ASSUME NEW o \in tabs' PROVE account'[rows[o].user] = "enabled"
    BY DEF TabsAuthorized
  <2>1. o \in tabs /\ o \in Sessions /\ rows[o].user \in Pilots /\ account[rows[o].user] = "enabled"
    BY RowFacts DEF SessionRows, SessionRow
  <2>2. rows[o].user = u => account'[u] = "enabled"
    BY <2>1 DEF SessionsOf
  <2> QED BY <2>1, <2>2
<1>4. SessionsFollowPassword'
  BY DEF AccountIInv, SessionsFollowPassword
<1>5. PairingsMatch' /\ PairingsHaveUsers'
  BY DEF AccountIInv, AccountTypeOK, PairingsMatch, PairingsHaveUsers
<1> QED BY <1>1, <1>2, <1>3, <1>4, <1>5 DEF AccountIInv

\* A new row of a user who exists.
LEMMA SignInInv == ASSUME AccountIInv, NEW u \in Pilots, NEW s \in Sessions, SignIn(u, s) PROVE AccountIInv'
<1>1. /\ rows' = WithSession(rows, u, s) /\ s \notin tabs
      /\ UNCHANGED <<account, password, tokens, resetCode, pairings, memory, adrift>>
  BY DEF SignIn, Unused
<1>2. /\ rows' \in SessionRows
      /\ \A o \in Sessions : rows'[o].state = "live" => rows'[o].current
      /\ \A o \in tabs : rows'[o] = rows[o]
  BY <1>1, RowFacts, NewRow
<1>3. TabsAuthorized' /\ SessionsFollowPassword'
  BY <1>1, <1>2, RowFacts, RowsStep DEF memory
<1>4. AccountTypeOK'
  BY <1>1, <1>2 DEF AccountIInv, AccountTypeOK, tokens, memory, admission
<1> QED BY <1>1, <1>3, <1>4, CredentialsFrame DEF AccountIInv, memory

LEMMA AccountStepInv == ASSUME AccountIInv, AccountStep PROVE AccountIInv'
<1>1. ASSUME NEW u \in Pilots, NEW s \in Sessions, NEW t \in Tokens, Register(u, s, t) PROVE AccountIInv'
  BY <1>1, RegisterInv
<1>2. ASSUME NEW u \in Pilots, NEW s \in Sessions, SignIn(u, s) PROVE AccountIInv'
  BY <1>2, SignInInv
<1>3. ASSUME NEW u \in Pilots, NEW s \in Sessions, Recover(u, s) PROVE AccountIInv'
  BY <1>3, RecoverInv
<1>4. ASSUME NEW s \in Sessions, LogOut(s) PROVE AccountIInv'
  BY <1>4, LogOutInv
<1>5. ASSUME NEW s \in Sessions, NEW right \in BOOLEAN, RequestChange(s, right) PROVE AccountIInv'
  <2>1. AccountTypeOK'
    BY <1>5, RowFacts DEF RequestChange, AccountIInv, AccountTypeOK, tables, tokens, admission, SessionRows, SessionRow
  <2>2. TabsAuthorized' /\ SessionsFollowPassword'
    BY <1>5 DEF RequestChange, AccountIInv, tables, TabsAuthorized, SessionsFollowPassword
  <2> QED BY <1>5, <2>1, <2>2, CredentialsFrame DEF RequestChange, AccountIInv, tables, tokens
<1>6. ASSUME NEW s \in Sessions, NEW which \in SUBSET Sessions, RevokeSessions(s, which) PROVE AccountIInv'
  BY <1>6, RevokeSessionsInv
<1>7. ASSUME NEW r \in changing, CompleteChange(r) PROVE AccountIInv'
  BY <1>7, CompleteChangeInv
<1>8. ASSUME NEW r \in changing, RefuseChange(r) PROVE AccountIInv'
  <2>1. AccountTypeOK'
    BY <1>8 DEF RefuseChange, AccountIInv, AccountTypeOK, tables, tokens, admission
  <2>2. TabsAuthorized' /\ SessionsFollowPassword'
    BY <1>8 DEF RefuseChange, AccountIInv, tables, TabsAuthorized, SessionsFollowPassword
  <2> QED BY <1>8, <2>1, <2>2, CredentialsFrame DEF RefuseChange, AccountIInv, tables, tokens
<1>9. ASSUME NEW s \in Sessions, NEW t \in Tokens, RotateOwnToken(s, t) PROVE AccountIInv'
  <2>1. rows[s].user \in Pilots
    BY RowFacts DEF SessionRows, SessionRow
  <2> QED BY <1>9, <2>1, AccessInv DEF RotateOwnToken, TokenImported, Others, AccountIInv, AccountTypeOK
<1> QED BY <1>1, <1>2, <1>3, <1>4, <1>5, <1>6, <1>7, <1>8, <1>9 DEF AccountStep

LEMMA TableStepInv == ASSUME AccountIInv, TableStep PROVE AccountIInv'
<1>1. ASSUME CreateInvite PROVE AccountIInv'
  <2>1. AccountTypeOK'
    BY <1>1 DEF CreateInvite, AccountIInv, AccountTypeOK, tables, tokens, admission
  <2>2. TabsAuthorized' /\ SessionsFollowPassword'
    BY <1>1 DEF CreateInvite, AccountIInv, tables, TabsAuthorized, SessionsFollowPassword
  <2> QED BY <1>1, <2>1, <2>2, CredentialsFrame DEF CreateInvite, AccountIInv, tables, tokens
<1>2. ASSUME NEW u \in Pilots, NEW t \in Tokens, CreateUser(u, t) PROVE AccountIInv'
  BY <1>2, AccessInv DEF CreateUser, TokenImported, AccountIInv, AccountTypeOK
<1>3. ASSUME NEW u \in Pilots, NEW t \in Tokens, RotateToken(u, t) PROVE AccountIInv'
  BY <1>3, AccessInv DEF RotateToken, TokenImported, EndClients, Others, AccountIInv, AccountTypeOK
<1>4. ASSUME NEW u \in Pilots, RevokeTokens(u) PROVE AccountIInv'
  BY <1>4, AccessInv DEF RevokeTokens, TokensRevoked, EndClients, Others, AccountIInv, AccountTypeOK
<1>5. ASSUME NEW u \in Pilots, ResetPassword(u) PROVE AccountIInv'
  <2>1. AccountTypeOK'
    BY <1>5 DEF ResetPassword, CodeCreated, AccountIInv, AccountTypeOK, tokens, memory, admission
  <2>2. TabsAuthorized' /\ SessionsFollowPassword'
    BY <1>5 DEF ResetPassword, AccountIInv, memory, TabsAuthorized, SessionsFollowPassword
  <2> QED BY <1>5, <2>1, <2>2, CredentialsFrame DEF ResetPassword, AccountIInv, memory
<1>6. ASSUME NEW u \in Pilots, Disable(u) PROVE AccountIInv'
  BY <1>6, AccessInv DEF Disable, DisabledSet, EndClients, Others, tokens, AccountIInv, AccountTypeOK
<1>7. ASSUME NEW u \in Pilots, Enable(u) PROVE AccountIInv'
  BY <1>7, AccessInv DEF Enable, DisabledSet, tokens, AccountIInv, AccountTypeOK
<1>8. ASSUME NEW u \in Pilots, Delete(u) PROVE AccountIInv'
  BY <1>8, DeleteInv
<1> QED BY <1>1, <1>2, <1>3, <1>4, <1>5, <1>6, <1>7, <1>8 DEF TableStep

\* A client that is admitted gave what the process knows.
LEMMA AdmittedInv ==
    ASSUME AccountIInv, NEW u \in Pilots, NEW t \in Tokens, AgentConnects(u, t) \/ BrowserConnects(u, t)
    PROVE  AccountIInv'
<1>1. /\ UNCHANGED <<tables, admission, allowed, invite, tabs, changing, adrift>>
      /\ agents' \subseteq agents \cup {<<u, t>>} /\ manual' \subseteq manual \cup {<<u, t>>}
  BY DEF AgentConnects, BrowserConnects
<1>2. Entitled(u, t)
  BY LoadedIs DEF AgentConnects, BrowserConnects, AccountIInv, TokensMatch
<1>3. account[u] = "enabled" \/ t = envTokens[u]
  BY <1>2 DEF Entitled
<1>4. AccountTypeOK'
  BY <1>1 DEF AccountIInv, AccountTypeOK, tables, admission
<1>5. AgentsAuthorized' /\ ManualAuthorized'
  BY <1>1, <1>2, <1>3 DEF AccountIInv, AgentsAuthorized, ManualAuthorized, Entitled, tables, admission
<1>6. TabsAuthorized' /\ SessionsFollowPassword' /\ PairingsMatch' /\ PairingsHaveUsers'
  BY <1>1 DEF AccountIInv, TabsAuthorized, SessionsFollowPassword, PairingsMatch, PairingsHaveUsers, tables
<1>7. TokensMatch' /\ TokensHaveUsers'
  BY <1>1 DEF AccountIInv, TokensMatch, TokensHaveUsers, tables, admission
<1> QED BY <1>4, <1>5, <1>6, <1>7 DEF AccountIInv

\* An agent of the .env: its user had nothing in the tables.
LEMMA AnnouncesInv == ASSUME AccountIInv, NEW a \in agents, AgentAnnounces(a) PROVE AccountIInv'
<1> DEFINE u == a[1]
<1>1. /\ account[u] = "none" /\ account' = [account EXCEPT ![u] = "enabled"]
      /\ UNCHANGED <<password, tokens, rows, resetCode, pairings, memory, adrift>>
  BY DEF AgentAnnounces, UserEnsured
<1>2. u \in Pilots
  BY DEF AccountIInv, AccountTypeOK
<1>3. UsersReloaded
  <2>1. ASSUME NEW v \in Pilots
        PROVE  ActiveTokens(account', token', otherToken', v) = ActiveTokens(account, token, otherToken, v)
    BY <1>1, <1>2, AccountAssumption DEF AccountIInv, AccountTypeOK, TokensHaveUsers, ActiveTokens, tokens
  <2>2. relayUsers = LoadedTokens(account, token, otherToken, envTokens)
    BY DEF AccountIInv, TokensMatch
  <2>3. LoadedTokens(account', token', otherToken', envTokens') = LoadedTokens(account, token, otherToken, envTokens)
    BY <1>1, <2>1 DEF LoadedTokens, memory, admission
  <2> QED BY <1>1, <2>2, <2>3 DEF UsersReloaded, memory, admission
<1> HIDE DEF u
<1> QED BY <1>1, <1>2, <1>3, AccessInv DEF AccountIInv, AccountTypeOK, tokens, memory

\* Pairings of users who exist.
LEMMA PairingsStep ==
    ASSUME AccountIInv,
           UNCHANGED <<account, password, tokens, rows, resetCode, admission, invite, tabs, agents,
                       manual, changing, adrift>>,
           AccountTypeOK', PairingsMatch', PairingsHaveUsers'
    PROVE  AccountIInv'
<1>1. TabsAuthorized' /\ SessionsFollowPassword'
  BY DEF AccountIInv, TabsAuthorized, SessionsFollowPassword
<1>2. AgentsAuthorized' /\ ManualAuthorized' /\ TokensMatch' /\ TokensHaveUsers'
  BY DEF AccountIInv, AgentsAuthorized, ManualAuthorized, Entitled, TokensMatch, TokensHaveUsers, tokens, admission
<1> QED BY <1>1, <1>2 DEF AccountIInv

LEMMA ConnectionStepInv == ASSUME AccountIInv, ConnectionStep PROVE AccountIInv'
<1>1. ASSUME NEW u \in Pilots, NEW t \in Tokens, AgentConnects(u, t) \/ BrowserConnects(u, t) PROVE AccountIInv'
  BY <1>1, AdmittedInv
<1>2. ASSUME NEW a \in agents, AgentAnnounces(a) PROVE AccountIInv'
  BY <1>2, AnnouncesInv
<1>3. ASSUME NEW s \in Sessions, TabConnects(s) PROVE AccountIInv'
  <2>1. AccountTypeOK'
    BY <1>3 DEF TabConnects, AccountIInv, AccountTypeOK, tables, tokens, admission
  <2>2. TabsAuthorized' /\ SessionsFollowPassword'
    BY <1>3 DEF TabConnects, Authentic, AccountIInv, tables, TabsAuthorized, SessionsFollowPassword
  <2> QED BY <1>3, <2>1, <2>2, CredentialsFrame DEF TabConnects, AccountIInv, tables, tokens
<1>4. ASSUME NEW u \in Pilots, NEW b \in PairableBrowsers, Pair(u, b) PROVE AccountIInv'
  <2>1. AccountTypeOK'
    BY <1>4 DEF Pair, RowUpserted, AccountIInv, AccountTypeOK, tokens, admission
  <2>2. PairingsMatch' /\ PairingsHaveUsers'
    BY <1>4 DEF Pair, RowUpserted, AccountIInv, PairingsMatch, PairingsHaveUsers
  <2> QED BY <1>4, <2>1, <2>2, PairingsStep DEF Pair
<1>5. ASSUME NEW u \in Pilots, NEW b \in PairableBrowsers, Unpair(u, b) PROVE AccountIInv'
  <2>1. AccountTypeOK'
    BY <1>5 DEF Unpair, RowsRevoked, AccountIInv, AccountTypeOK, tokens, admission
  <2>2. PairingsMatch' /\ PairingsHaveUsers'
    BY <1>5 DEF Unpair, RowsRevoked, AccountIInv, PairingsMatch, PairingsHaveUsers
  <2> QED BY <1>5, <2>1, <2>2, PairingsStep DEF Unpair
<1>6. ASSUME Disconnects PROVE AccountIInv'
  <2>1. /\ agents' \subseteq agents /\ manual' \subseteq manual /\ tabs' \subseteq tabs
        /\ UNCHANGED <<tables, admission, allowed, invite, changing, adrift>>
    BY <1>6 DEF Disconnects
  <2>2. AccountTypeOK'
    BY <2>1 DEF AccountIInv, AccountTypeOK, tables, admission
  <2>3. TabsAuthorized' /\ SessionsFollowPassword' /\ PairingsMatch' /\ PairingsHaveUsers'
    BY <2>1 DEF AccountIInv, TabsAuthorized, SessionsFollowPassword, PairingsMatch, PairingsHaveUsers, tables
  <2>4. AgentsAuthorized' /\ ManualAuthorized' /\ TokensMatch' /\ TokensHaveUsers'
    BY <2>1 DEF AccountIInv, AgentsAuthorized, ManualAuthorized, Entitled, TokensMatch, TokensHaveUsers,
       tables, admission
  <2> QED BY <2>2, <2>3, <2>4 DEF AccountIInv
<1>7. ASSUME NEW p \in pairings, RevokePairing(p) PROVE AccountIInv'
  <2>1. AccountTypeOK'
    BY <1>7 DEF RevokePairing, RowsRevoked, AccountIInv, AccountTypeOK, tokens, admission
  <2>2. PairingsMatch' /\ PairingsHaveUsers'
    BY <1>7 DEF RevokePairing, RowsRevoked, AccountIInv, PairingsMatch, PairingsHaveUsers
  <2> QED BY <1>7, <2>1, <2>2, PairingsStep DEF RevokePairing
<1>8. CASE Ages
  BY <1>8, AgesInv
<1>9. CASE Maintenance
  BY <1>9, MaintenanceInv
<1>10. CASE RelayProcessRestarts
  BY <1>10, RestartInv
<1> QED BY <1>1, <1>2, <1>3, <1>4, <1>5, <1>6, <1>7, <1>8, <1>9, <1>10 DEF ConnectionStep

LEMMA AccountInitInv == AccountInit => AccountIInv
<1>1. /\ NoRow \in [user : Pilots, state : {"none", "live", "revoked"}, expired : BOOLEAN, current : BOOLEAN]
      /\ NoRow.state = "none"
  BY AccountAssumption DEF NoRow
<1> SUFFICES ASSUME AccountInit PROVE AccountIInv
  OBVIOUS
<1>2. AccountTypeOK
  <2>1. relayUsers \in [Pilots -> SUBSET Tokens]
    BY AccountAssumption DEF AccountInit, LoadedTokens, ActiveTokens, EnvTokens
  <2> QED BY <1>1, <2>1, AccountAssumption DEF AccountInit, AccountTypeOK, SessionRows, SessionRow
<1>3. SessionsFollowPassword
  BY <1>1 DEF AccountInit, SessionsFollowPassword
<1>4. TokensMatch /\ TokensHaveUsers
  BY DEF AccountInit, TokensMatch, TokensHaveUsers
<1>5. AgentsAuthorized /\ ManualAuthorized /\ TabsAuthorized /\ PairingsMatch /\ PairingsHaveUsers
  BY DEF AccountInit, AgentsAuthorized, ManualAuthorized, TabsAuthorized, PairingsMatch, PairingsHaveUsers
<1> QED BY <1>2, <1>3, <1>4, <1>5 DEF AccountIInv

LEMMA AccountNextInv == AccountIInv /\ [AccountNext]_accountVars => AccountIInv'
<1>1. ASSUME AccountIInv, UNCHANGED accountVars PROVE AccountIInv'
  <2>1. AccountTypeOK'
    BY <1>1 DEF accountVars, tables, memory, tokens, admission, AccountIInv, AccountTypeOK
  <2>2. TabsAuthorized' /\ SessionsFollowPassword'
    BY <1>1 DEF accountVars, tables, memory, AccountIInv, TabsAuthorized, SessionsFollowPassword
  <2> QED BY <1>1, <2>1, <2>2, CredentialsFrame DEF accountVars, tables, memory, tokens, AccountIInv
<1> QED BY <1>1, AccountStepInv, TableStepInv, ConnectionStepInv DEF AccountNext

\* What holds of the accounts in every state.
LEMMA AccountSpecInv == AccountSpec => []AccountIInv
  BY AccountInitInv, AccountNextInv, PTL DEF AccountSpec

\* No connection outlives its credentials, for any users, sessions and tokens, in
\* both modes: every open agent connection uses an active token of an enabled
\* user or the one that the running process has from its .env, a browser that
\* gave a token has an enabled user or that token, and a browser with a session
\* has an enabled user.
THEOREM ConnectionsAuthorized == AccountSpec => []ClientsAuthorized
<1>1. AccountIInv => ClientsAuthorized
  BY DEF AccountIInv, AgentsAuthorized, ManualAuthorized, TabsAuthorized, ClientsAuthorized
<1> QED BY <1>1, AccountSpecInv, PTL

\* No session survives the password it was made under, and its browser is
\* disconnected, unless the session had expired.
THEOREM SessionsEndWithPassword == AccountSpec => []SessionsFollowPassword
<1>1. AccountIInv => SessionsFollowPassword
  BY DEF AccountIInv
<1> QED BY <1>1, AccountSpecInv, PTL

\* The tokens and pairings that the process works with are those of the tables
\* and, in sqlite-fallback mode, of its .env.
LEMMA MemoryIs == AccountIInv => MemoryMatchesTables
<1> SUFFICES ASSUME AccountIInv PROVE MemoryMatchesTables
  OBVIOUS
<1>1. \A u \in Pilots, t \in Tokens : t \in relayUsers[u] <=> Entitled(u, t)
  BY LoadedIs DEF AccountIInv, TokensMatch
<1>2. \A u \in Pilots \ adrift : {p \in allowed : p[1] = u} = {p \in pairings : p[1] = u}
  BY DEF AccountIInv, PairingsMatch
<1> QED BY <1>1, <1>2 DEF MemoryMatchesTables

THEOREM ProcessFollowsTables == AccountSpec => []MemoryMatchesTables
  BY MemoryIs, AccountSpecInv, PTL

\* Both at once: who is connected and whom the process would admit follow the
\* accounts, whatever the handlers, the tools' tokens, the .env and the restarts
\* of the process do.
THEOREM AccessIsAuthorized == AccountSpec => []AccessFollowsAccounts
<1>1. AccountIInv => AccessFollowsAccounts
  BY MemoryIs DEF AccountIInv, AgentsAuthorized, ManualAuthorized, TabsAuthorized, ClientsAuthorized,
     AccessFollowsAccounts
<1> QED BY <1>1, AccountSpecInv, PTL

-----------------------------------------------------------------------------
(***************************************************************************)
(* OwnerAuth                                                               *)
(***************************************************************************)
OwnerTypeOK ==
    /\ owner \in BOOLEAN
    /\ ownerRows \in [OwnerSessions -> {"none", "live", "expired", "revoked"}]
    /\ passkeys \subseteq Passkeys
    /\ codesIssued \in BOOLEAN
    /\ codesLeft \in 0..MaxCodes

\* What is awaited needs no invariant: each handler asks for the passkeys again
\* when it goes on.  Codes are left only of those that were issued.
CodesLeftOfIssued == codesLeft > 0 => codesIssued

OwnerIInv == OwnerTypeOK /\ PasskeysHaveCodes /\ CodesLeftOfIssued

LEMMA OwnerInitInv == OwnerInit => OwnerIInv
<1> SUFFICES ASSUME OwnerInit PROVE OwnerIInv
  OBVIOUS
<1>1. OwnerTypeOK
  <2>1. owner \in BOOLEAN /\ codesIssued \in BOOLEAN
    BY Zenon DEF OwnerInit
  <2> QED BY <2>1, OwnerAssumption DEF OwnerInit, OwnerTypeOK
<1>2. PasskeysHaveCodes /\ CodesLeftOfIssued
  BY DEF OwnerInit, PasskeysHaveCodes, CodesLeftOfIssued
<1> QED BY <1>1, <1>2 DEF OwnerIInv

LEMMA SignInStepInv == ASSUME OwnerIInv, SignInStep PROVE OwnerIInv'
<1> USE OwnerAssumption DEF OwnerIInv, OwnerTypeOK, PasskeysHaveCodes, CodesLeftOfIssued
<1>1. ASSUME NEW s \in OwnerSessions, Bootstrap(s) PROVE OwnerIInv'
  BY <1>1 DEF Bootstrap, AccountMade, Opens, NewId
<1>2. ASSUME NEW s \in OwnerSessions, PasswordSignIn(s) PROVE OwnerIInv'
  BY <1>2 DEF PasswordSignIn, Opens, NewId
<1>3. ASSUME NEW s \in OwnerSessions, BreakGlass(s) PROVE OwnerIInv'
  <2>1. /\ passkeys' = {} /\ codesIssued' = FALSE /\ codesLeft' = 0 /\ UNCHANGED owner
        /\ ownerRows' = [RevokedRows(OwnerSessions) EXCEPT ![s] = "live"]
    BY <1>3 DEF BreakGlass, ClearsMfa
  <2>2. codesIssued' \in BOOLEAN
    BY <2>1, Zenon
  <2>3. OwnerTypeOK'
    BY <2>1, <2>2 DEF RevokedRows
  <2> QED BY <2>1, <2>3
<1>4. ASSUME BeginSignIn PROVE OwnerIInv'
  BY <1>4 DEF BeginSignIn, Awaits
<1>5. ASSUME NEW f \in Flows, ChallengeSignIn(f) PROVE OwnerIInv'
  BY <1>5 DEF ChallengeSignIn, Resumes, OffersChallenge
<1>6. ASSUME NEW f \in Flows, NEW k \in Passkeys, PresentPasskey(f, k) PROVE OwnerIInv'
  BY <1>6 DEF PresentPasskey, Consumes, Awaits
<1>7. ASSUME NEW k \in Passkeys, NEW s \in OwnerSessions, PasskeySignIn(k, s) PROVE OwnerIInv'
  BY <1>7 DEF PasskeySignIn, Resumes, Opens, NewId
<1>8. ASSUME NEW f \in Flows, NEW s \in OwnerSessions, RecoverySignIn(f, s) PROVE OwnerIInv'
  BY <1>8 DEF RecoverySignIn, Consumes, CodeUsed, Opens, NewId
<1>9. ASSUME NEW s \in OwnerSessions, NEW which \in SUBSET OwnerSessions, RevokeOwnerSessions(s, which) PROVE OwnerIInv'
  BY <1>9 DEF RevokeOwnerSessions, LiveSession, RevokedRows
<1> QED BY <1>1, <1>2, <1>3, <1>4, <1>5, <1>6, <1>7, <1>8, <1>9 DEF SignInStep

LEMMA ManageStepInv == ASSUME OwnerIInv, ManageStep PROVE OwnerIInv'
<1> USE OwnerAssumption DEF OwnerIInv, OwnerTypeOK, PasskeysHaveCodes, CodesLeftOfIssued
<1>1. ASSUME NEW s \in OwnerSessions, Manage(s) PROVE OwnerIInv'
  BY <1>1 DEF Manage, LiveSession, Awaits
<1>2. ASSUME NEW s \in OwnerSessions, ChangeOwnerPassword(s) PROVE OwnerIInv'
  BY <1>2 DEF ChangeOwnerPassword, Body, Resumes, RevokedRows
<1>3. ASSUME NEW s \in OwnerSessions, AskOptions(s) PROVE OwnerIInv'
  BY <1>3 DEF AskOptions
<1>4. ASSUME NEW s \in OwnerSessions, RegenerateCodes(s) PROVE OwnerIInv'
  BY <1>4 DEF RegenerateCodes, Body, Resumes, CodesReplaced
<1>5. ASSUME NEW s \in OwnerSessions, DisableMfa(s) PROVE OwnerIInv'
  <2>1. /\ passkeys' = {} /\ codesIssued' = FALSE /\ codesLeft' = 0 /\ UNCHANGED owner
        /\ ownerRows' = RevokedRows(OwnerSessions \ {s})
    BY <1>5 DEF DisableMfa, ClearsMfa
  <2>2. codesIssued' \in BOOLEAN
    BY <2>1, Zenon
  <2>3. OwnerTypeOK'
    BY <2>1, <2>2 DEF RevokedRows
  <2> QED BY <2>1, <2>3
<1>6. ASSUME NEW s \in OwnerSessions, NEW f \in Flows, OfferRegistration(s, f) PROVE OwnerIInv'
  BY <1>6 DEF OfferRegistration, Resumes, OffersChallenge
<1>7. ASSUME NEW s \in OwnerSessions, NEW f \in Flows, NEW k \in Passkeys, PresentNewPasskey(s, f, k) PROVE OwnerIInv'
  BY <1>7 DEF PresentNewPasskey, Consumes
<1>8. ASSUME NEW s \in OwnerSessions, NEW k \in Passkeys, AddPasskey(s, k) PROVE OwnerIInv'
  <2>1. passkeys' = passkeys \cup {k} /\ UNCHANGED <<owner, ownerRows>>
    BY <1>8 DEF AddPasskey, PasskeyCreated
  <2>2. CASE passkeys = {}
    <3>1. codesIssued' = TRUE /\ codesLeft' = MaxCodes
      BY <1>8, <2>2 DEF AddPasskey, CodesReplaced
    <3>2. OwnerTypeOK'
      BY <2>1, <3>1
    <3> QED BY <2>1, <3>1, <3>2
  <2>3. CASE passkeys # {}
    <3>1. UNCHANGED <<codesIssued, codesLeft>>
      BY <1>8, <2>3 DEF AddPasskey
    <3> QED BY <2>1, <2>3, <3>1
  <2> QED BY <2>2, <2>3
<1>9. ASSUME NEW s \in OwnerSessions, NEW k \in Passkeys, RemovePasskey(s, k) PROVE OwnerIInv'
  <2>1. k \in passkeys /\ UNCHANGED <<owner, ownerRows>>
    BY <1>9 DEF RemovePasskey
  <2>2. CASE passkeys = {k}
    <3>1. passkeys' = {} /\ codesIssued' = FALSE /\ codesLeft' = 0
      BY <1>9, <2>2 DEF RemovePasskey, ClearsMfa
    <3>2. codesIssued' \in BOOLEAN
      BY <3>1, Zenon
    <3>3. OwnerTypeOK'
      BY <2>1, <3>1, <3>2
    <3> QED BY <3>1, <3>3
  <2>3. CASE passkeys # {k}
    <3>1. passkeys' = passkeys \ {k} /\ UNCHANGED <<codesIssued, codesLeft>>
      BY <1>9, <2>3 DEF RemovePasskey, PasskeyDeleted
    <3> QED BY <2>1, <2>3, <3>1
  <2> QED BY <2>2, <2>3
<1>10. ASSUME RefusedRequest PROVE OwnerIInv'
  BY <1>10 DEF RefusedRequest
<1>11. ASSUME OwnerAges PROVE OwnerIInv'
  BY <1>11 DEF OwnerAges
<1> QED BY <1>1, <1>2, <1>3, <1>4, <1>5, <1>6, <1>7, <1>8, <1>9, <1>10, <1>11 DEF ManageStep


LEMMA OwnerNextInv == OwnerIInv /\ [OwnerNext]_ownerVars => OwnerIInv'
<1>1. ASSUME OwnerIInv, UNCHANGED ownerVars PROVE OwnerIInv'
  BY <1>1 DEF ownerVars, OwnerIInv, OwnerTypeOK, PasskeysHaveCodes, CodesLeftOfIssued
<1> QED BY <1>1, SignInStepInv, ManageStepInv DEF OwnerNext

LEMMA OwnerSpecInv == OwnerSpec => []OwnerIInv
  BY OwnerInitInv, OwnerNextInv, PTL DEF OwnerSpec

\* The owner has recovery codes exactly while there is a passkey, for any number
\* of sessions, passkeys and requests that are awaited at once.
THEOREM RecoveryCodesWithPasskeys == OwnerSpec => []PasskeysHaveCodes
<1>1. OwnerIInv => PasskeysHaveCodes
  BY DEF OwnerIInv
<1> QED BY <1>1, OwnerSpecInv, PTL

-----------------------------------------------------------------------------
(***************************************************************************)
(* RelayUsers                                                              *)
(***************************************************************************)
TokenRow == [user : Names, name : TokenNames, secret : Secrets]

UsersTypeOK ==
    /\ envUsers \in [Names -> Secrets \cup {NoSecret}]
    /\ envDefault \in Secrets \cup {NoSecret}
    /\ userRows \in [Names -> {"none", "enabled", "disabled"}]
    /\ tokenRows \subseteq TokenRow
    /\ withdrawn \subseteq Names \X Secrets

\* No two tokens share a secret, wherever they are kept.
OneTokenPerSecret ==
    \A r1, r2 \in tokenRows \cup ReadRelayUsers : r1.secret = r2.secret => r1 = r2

\* A user has one active token of each name.
OneTokenPerName ==
    \A r1, r2 \in tokenRows : r1.user = r2.user /\ r1.name = r2.name => r1 = r2

\* What was imported is still in the file: a relay in the env mode knows it too.
MigratedInFile == migrated \subseteq Listed \cup Shared

UsersIInv ==
    UsersTypeOK /\ OneTokenPerSecret /\ OneTokenPerName /\ MigratedInFile /\ MigrationHolds

\* The tokens of the file: as rows of their names, and as the pairs the relay loads.
FileIs ==
    /\ \A r \in ReadRelayUsers :
           /\ r \in TokenRow
           /\ \/ r.name = "VoxHF agent token" /\ r.secret = envUsers[r.user]
              \/ r.name = "Default relay token" /\ r.user = DefaultName /\ r.secret = envDefault
    /\ \A r \in TokenRow :
           r.name = "VoxHF agent token" /\ r.secret = envUsers[r.user] => r \in ReadRelayUsers
    /\ \A r \in TokenRow :
           r.name = "Default relay token" /\ r.user = DefaultName /\ r.secret = envDefault
               => r \in ReadRelayUsers
    /\ \A p \in Listed \cup Shared :
           /\ p[1] \in Names /\ p[2] \in Secrets /\ p = <<p[1], p[2]>>
           /\ p[2] = envUsers[p[1]] \/ (p[1] = DefaultName /\ p[2] = envDefault)
    /\ \A u \in Names, s \in Secrets :
           s = envUsers[u] \/ (u = DefaultName /\ s = envDefault) => <<u, s>> \in Listed \cup Shared

LEMMA FileFacts == UsersTypeOK => FileIs
<1> SUFFICES ASSUME UsersTypeOK PROVE FileIs
  OBVIOUS
<1>1. Listed \subseteq Names \X Secrets /\ Shared \subseteq Names \X Secrets
  BY DefaultAssumption DEF UsersTypeOK, Listed, Shared
<1>2. \A u \in Names, s \in Secrets : <<u, s>> \in Listed <=> s = envUsers[u]
  BY DefaultAssumption DEF Listed
<1>3. \A u \in Names, s \in Secrets : <<u, s>> \in Shared <=> u = DefaultName /\ s = envDefault
  BY DefaultAssumption DEF Shared
<1>4. ASSUME NEW r \in ReadRelayUsers
      PROVE  /\ r \in TokenRow
             /\ \/ r.name = "VoxHF agent token" /\ r.secret = envUsers[r.user]
                \/ r.name = "Default relay token" /\ r.user = DefaultName /\ r.secret = envDefault
  <2>1. CASE r \in {Row(p[1], "VoxHF agent token", p[2]) : p \in Listed}
    <3>1. PICK p \in Listed : r = Row(p[1], "VoxHF agent token", p[2])
      BY <2>1
    <3>2. p[1] \in Names /\ p[2] \in Secrets /\ p = <<p[1], p[2]>>
      BY <1>1
    <3> QED BY <1>2, <3>1, <3>2 DEF Row, TokenRow, TokenNames
  <2>2. CASE r \in {Row(p[1], "Default relay token", p[2]) : p \in Shared}
    <3>1. PICK p \in Shared : r = Row(p[1], "Default relay token", p[2])
      BY <2>2
    <3>2. p[1] \in Names /\ p[2] \in Secrets /\ p = <<p[1], p[2]>>
      BY <1>1
    <3> QED BY <1>3, <3>1, <3>2 DEF Row, TokenRow, TokenNames
  <2> QED BY <2>1, <2>2 DEF ReadRelayUsers
<1>5. ASSUME NEW r \in TokenRow,
             \/ r.name = "VoxHF agent token" /\ r.secret = envUsers[r.user]
             \/ r.name = "Default relay token" /\ r.user = DefaultName /\ r.secret = envDefault
      PROVE  r \in ReadRelayUsers
  <2> DEFINE p == <<r.user, r.secret>>
  <2>1. /\ r.user \in Names /\ r.secret \in Secrets /\ p[1] = r.user /\ p[2] = r.secret
        /\ r = Row(p[1], r.name, p[2])
    BY DEF TokenRow, Row
  <2>2. CASE r.name = "VoxHF agent token" /\ r.secret = envUsers[r.user]
    <3>1. p \in Listed
      BY <1>2, <2>1, <2>2
    <3> HIDE DEF p
    <3> QED BY <2>1, <2>2, <3>1 DEF ReadRelayUsers
  <2>3. CASE r.name = "Default relay token" /\ r.user = DefaultName /\ r.secret = envDefault
    <3>1. p \in Shared
      BY <1>3, <2>1, <2>3
    <3> HIDE DEF p
    <3> QED BY <2>1, <2>3, <3>1 DEF ReadRelayUsers
  <2> QED BY <1>5, <2>2, <2>3
<1>6. ASSUME NEW p \in Listed \cup Shared
      PROVE  /\ p[1] \in Names /\ p[2] \in Secrets /\ p = <<p[1], p[2]>>
             /\ p[2] = envUsers[p[1]] \/ (p[1] = DefaultName /\ p[2] = envDefault)
  <2>1. p[1] \in Names /\ p[2] \in Secrets /\ p = <<p[1], p[2]>>
    BY <1>1
  <2> QED BY <1>2, <1>3, <2>1
<1>7. \A u \in Names, s \in Secrets :
          s = envUsers[u] \/ (u = DefaultName /\ s = envDefault) => <<u, s>> \in Listed \cup Shared
  BY <1>2, <1>3
<1> QED BY <1>4, <1>5, <1>6, <1>7 DEF FileIs

\* A row is its user, its name and its secret.
LEMMA SameRow ==
    ASSUME NEW r1 \in TokenRow, NEW r2 \in TokenRow,
           r1.user = r2.user, r1.name = r2.name, r1.secret = r2.secret
    PROVE  r1 = r2
  BY DEF TokenRow

\* The file that a step leaves behind.
LEMMA FileFactsNext == UsersTypeOK' => FileIs'
  BY FileFacts, PTL

\* A generated token is the secret of no row and of no line of the file.
LEMMA GeneratedIsNew ==
    ASSUME UsersTypeOK, NEW s \in Secrets, Generated(s)
    PROVE  /\ \A r \in tokenRows \cup ReadRelayUsers : r.secret # s
           /\ \A u \in Names : envUsers[u] # s
           /\ envDefault # s
           /\ \A p \in withdrawn \cup migrated : p[2] # s
<1>1. \A u \in Names : envUsers[u] = s => <<u, s>> \in Listed \cup Shared
  BY FileFacts DEF FileIs
<1>2. envDefault = s => <<DefaultName, s>> \in Listed \cup Shared
  BY FileFacts, DefaultAssumption DEF FileIs
<1>3. \A u : <<u, s>> \notin Listed \cup Shared
  BY DEF Generated
<1>4. \A u \in Names : envUsers[u] # s
  BY <1>1, <1>3
<1>5. envDefault # s
  BY <1>2, <1>3
<1>6. \A r \in ReadRelayUsers : r \in TokenRow /\ r.user \in Names /\ r.secret # s
  BY <1>4, <1>5, FileFacts DEF FileIs, TokenRow
<1> QED BY <1>4, <1>5, <1>6 DEF Generated

\* Who has a token in the database.
LEMMA DatabasePairs ==
    ASSUME NEW p, NEW rowsNow \in SUBSET TokenRow, tokenRows = rowsNow
    PROVE  p \in DatabaseUsers <=> \E r \in rowsNow : userRows[r.user] = "enabled" /\ p = <<r.user, r.secret>>
  BY DEF DatabaseUsers

-----------------------------------------------------------------------------
(***************************************************************************)
(* What an import does, of one token or of several.                        *)
(***************************************************************************)
\* Tokens that can be imported: one of each name, and with secrets of their own.
Importable(ts) ==
    /\ ts \subseteq TokenRow
    /\ \A t1, t2 \in ts : t1.user = t2.user /\ t1.name = t2.name => t1 = t2
    /\ \A t1, t2 \in ts \cup tokenRows : t1.secret = t2.secret => t1 = t2

LEMMA ImportedRows ==
    ASSUME UsersIInv, NEW ts, Importable(ts), ImportTokens(ts)
    PROVE  /\ userRows' \in [Names -> {"none", "enabled", "disabled"}]
           /\ tokenRows' \subseteq TokenRow /\ tokenRows' \subseteq tokenRows \cup ts
           /\ OneTokenPerName'
<1>1. /\ tokenRows' = (tokenRows \ Replaced(ts)) \cup ts
      /\ userRows' = [u \in Names |-> IF \E t \in ts : t.user = u THEN "enabled" ELSE userRows[u]]
  BY DEF ImportTokens
<1>2. userRows' \in [Names -> {"none", "enabled", "disabled"}]
  BY <1>1 DEF UsersIInv, UsersTypeOK
<1>3. tokenRows' \subseteq TokenRow /\ tokenRows' \subseteq tokenRows \cup ts
  BY <1>1 DEF UsersIInv, UsersTypeOK, Importable
<1>4. ASSUME NEW r \in tokenRows \ Replaced(ts), NEW t \in ts, r.user = t.user, r.name = t.name
      PROVE  r = t
  BY <1>4 DEF Replaced, UsersIInv, OneTokenPerName
<1>5. OneTokenPerName'
  BY <1>1, <1>4 DEF OneTokenPerName, UsersIInv, Importable
<1> QED BY <1>2, <1>3, <1>5

\* Whose tokens are not imported keeps those he has, and the imported ones work.
LEMMA ImportedUsers ==
    ASSUME UsersIInv, NEW ts, Importable(ts), ImportTokens(ts)
    PROVE  /\ Pairs(ts) \subseteq DatabaseUsers'
           /\ \A p \in DatabaseUsers :
                  (\A t \in ts : p[1] = t.user => p[2] = t.secret) => p \in DatabaseUsers'
<1>1. /\ tokenRows' = (tokenRows \ Replaced(ts)) \cup ts
      /\ userRows' = [u \in Names |-> IF \E t \in ts : t.user = u THEN "enabled" ELSE userRows[u]]
  BY DEF ImportTokens
<1>2. ASSUME NEW t \in ts PROVE <<t.user, t.secret>> \in DatabaseUsers'
  <2>1. t \in tokenRows' /\ t.user \in Names
    BY <1>1 DEF Importable, TokenRow
  <2>2. userRows'[t.user] = "enabled"
    BY <1>1, <2>1
  <2> QED BY <2>1, <2>2 DEF DatabaseUsers
<1>3. ASSUME NEW p \in DatabaseUsers, \A t \in ts : p[1] = t.user => p[2] = t.secret
      PROVE  p \in DatabaseUsers'
  <2>1. PICK r \in tokenRows : userRows[r.user] = "enabled" /\ p = <<r.user, r.secret>>
    BY DEF DatabaseUsers
  <2>2. r \notin Replaced(ts)
    <3> SUFFICES ASSUME NEW t \in ts, t.user = r.user, t.name = r.name PROVE t \in tokenRows
      BY DEF Replaced
    <3>1. t.secret = r.secret
      BY <1>3, <2>1
    <3> QED BY <3>1 DEF Importable
  <2>3. r \in tokenRows' /\ r.user \in Names
    BY <1>1, <2>2 DEF UsersIInv, UsersTypeOK, TokenRow
  <2>4. userRows'[r.user] = "enabled"
    BY <1>1, <2>1, <2>3
  <2> QED BY <2>1, <2>3, <2>4 DEF DatabaseUsers
<1> QED BY <1>2, <1>3 DEF Pairs

\* What an import replaces opens nothing any more, what it enables again does.
LEMMA ImportWithdraws ==
    ASSUME UsersIInv, NEW ts, Importable(ts), ImportTokens(ts), AfterImport(ts)
    PROVE  withdrawn' \cap DatabaseUsers' = {} /\ withdrawn' \subseteq Names \X Secrets
<1> DEFINE users == {t.user : t \in ts}
<1>1. /\ tokenRows' = (tokenRows \ Replaced(ts)) \cup ts
      /\ userRows' = [u \in Names |-> IF \E t \in ts : t.user = u THEN "enabled" ELSE userRows[u]]
      /\ withdrawn' = ((withdrawn \ Pairs(RowsOf(users))) \cup Pairs(NamedAs(ts))) \ Pairs(ts)
  BY DEF ImportTokens, AfterImport
<1>2. tokenRows \subseteq TokenRow /\ tokenRows' \subseteq TokenRow
  BY ImportedRows DEF UsersIInv, UsersTypeOK
<1>3. ASSUME NEW p \in withdrawn', NEW r \in tokenRows',
             userRows'[r.user] = "enabled", p = <<r.user, r.secret>>
      PROVE  FALSE
  <2>1. r \notin ts /\ r \in tokenRows /\ r \notin Replaced(ts) /\ r.user \in Names
    BY <1>1, <1>2, <1>3 DEF Pairs, TokenRow
  <2>2. CASE p \in withdrawn /\ p \notin Pairs(RowsOf(users))
    <3>1. r.user \notin users
      BY <1>3, <2>1, <2>2 DEF Pairs, RowsOf
    <3>2. userRows[r.user] = "enabled"
      BY <1>1, <1>3, <2>1, <3>1
    <3>3. p \in DatabaseUsers
      BY <1>3, <2>1, <3>2 DEF DatabaseUsers
    <3> QED BY <2>2, <3>3 DEF UsersIInv, MigrationHolds
  <2>3. CASE p \in Pairs(NamedAs(ts))
    <3>1. PICK q \in tokenRows : p = <<q.user, q.secret>> /\ \E t \in ts : q.user = t.user /\ q.name = t.name
      BY <2>3 DEF Pairs, NamedAs
    <3>2. q = r
      BY <1>3, <2>1, <3>1 DEF Importable
    <3>3. PICK t \in ts : r.user = t.user /\ r.name = t.name
      BY <3>1, <3>2
    <3>4. t \in tokenRows
      BY <2>1, <3>3 DEF Replaced
    <3> QED BY <2>1, <3>3, <3>4 DEF UsersIInv, OneTokenPerName
  <2> QED BY <1>1, <2>2, <2>3
<1>4. withdrawn' \cap DatabaseUsers' = {}
  BY <1>3 DEF DatabaseUsers
<1>5. withdrawn' \subseteq Names \X Secrets
  BY <1>1, <1>2 DEF UsersIInv, UsersTypeOK, Pairs, NamedAs, TokenRow
<1> QED BY <1>4, <1>5

-----------------------------------------------------------------------------
(***************************************************************************)
(* One lemma per kind of command.                                          *)
(***************************************************************************)
\* The file keeps what it says of the pairs of other users.
LEMMA WritesUsersInv ==
    ASSUME UsersIInv, NEW u \in Names, NEW s \in Secrets \cup {NoSecret},
           s # NoSecret => Generated(s), WritesUsers(u, s)
    PROVE  UsersIInv'
<1>1. /\ envUsers' = [envUsers EXCEPT ![u] = s] /\ migrated' = {p \in migrated : p[1] # u}
      /\ stale' = TRUE
      /\ UNCHANGED <<envDefault, authMode, userRows, tokenRows, admitted, up, withdrawn>>
  BY DEF WritesUsers, tokenVars, admitVars
<1>2. UsersTypeOK'
  BY <1>1 DEF UsersIInv, UsersTypeOK
<1>3. FileIs /\ FileIs'
  BY <1>2, FileFacts, FileFactsNext DEF UsersIInv
<1>4. s # NoSecret => \A r \in tokenRows \cup ReadRelayUsers : r.secret # s
  BY GeneratedIsNew DEF UsersIInv
<1>5. \A r \in ReadRelayUsers' : \/ r \in ReadRelayUsers
                                 \/ r.user = u /\ r.name = "VoxHF agent token" /\ r.secret = s /\ s # NoSecret
  <2> SUFFICES ASSUME NEW r \in ReadRelayUsers', r \notin ReadRelayUsers
               PROVE  r.user = u /\ r.name = "VoxHF agent token" /\ r.secret = s /\ s # NoSecret
    OBVIOUS
  <2>1. r \in TokenRow /\ r.user \in Names /\ r.secret # NoSecret
    BY <1>3, DefaultAssumption DEF FileIs, TokenRow
  <2>2. r.name = "VoxHF agent token" /\ r.secret = envUsers'[r.user] /\ r.secret # envUsers[r.user]
    BY <1>1, <1>3, <2>1 DEF FileIs
  <2> QED BY <1>1, <2>1, <2>2 DEF UsersIInv, UsersTypeOK
<1>6. OneTokenPerSecret'
  <2> SUFFICES ASSUME NEW r1 \in (tokenRows \cup ReadRelayUsers)', NEW r2 \in (tokenRows \cup ReadRelayUsers)',
                      r1.secret = r2.secret
               PROVE  r1 = r2
    BY DEF OneTokenPerSecret
  <2>1. r1 \in TokenRow /\ r2 \in TokenRow
    BY <1>2, <1>3 DEF FileIs, UsersTypeOK
  <2>2. CASE r1 \in tokenRows \cup ReadRelayUsers
    <3>1. r2 \in tokenRows \cup ReadRelayUsers
      BY <1>1, <1>4, <1>5, <2>2
    <3> QED BY <2>2, <3>1 DEF UsersIInv, OneTokenPerSecret
  <2>3. CASE r1 \notin tokenRows \cup ReadRelayUsers
    <3>1. r2 \notin tokenRows \cup ReadRelayUsers
      BY <1>1, <1>4, <1>5, <2>3
    <3> QED BY <1>1, <1>5, <2>1, <2>3, <3>1, SameRow
  <2> QED BY <2>2, <2>3
<1>7. MigratedInFile'
  <2> SUFFICES ASSUME NEW p \in migrated' PROVE p \in Listed' \cup Shared'
    BY DEF MigratedInFile
  <2>1. p \in Listed \cup Shared /\ p[1] # u
    BY <1>1 DEF UsersIInv, MigratedInFile
  <2>2. p[1] \in Names /\ p[2] \in Secrets /\ p = <<p[1], p[2]>>
    BY <1>3, <2>1 DEF FileIs
  <2>3. p[2] = envUsers[p[1]] \/ (p[1] = DefaultName /\ p[2] = envDefault)
    BY <1>3, <2>1, <2>2 DEF FileIs
  <2>4. p[2] = envUsers'[p[1]] \/ (p[1] = DefaultName /\ p[2] = envDefault')
    BY <1>1, <2>1, <2>2, <2>3 DEF UsersIInv, UsersTypeOK
  <2> QED BY <1>3, <2>2, <2>4 DEF FileIs
<1>8. MigrationHolds' /\ OneTokenPerName'
  BY <1>1 DEF UsersIInv, MigrationHolds, DatabaseUsers, OneTokenPerName
<1> QED BY <1>2, <1>6, <1>7, <1>8 DEF UsersIInv

LEMMA EditsDefaultInv ==
    ASSUME UsersIInv, NEW s \in Secrets \cup {NoSecret}, EditsDefault(s)
    PROVE  UsersIInv'
<1>1. /\ envDefault' = s /\ (s # NoSecret => Generated(s))
      /\ migrated' = {p \in migrated : p[1] # DefaultName} /\ stale' = TRUE
      /\ UNCHANGED <<envUsers, authMode, userRows, tokenRows, admitted, up, withdrawn>>
  BY DEF EditsDefault, tokenVars, admitVars
<1>2. UsersTypeOK'
  BY <1>1 DEF UsersIInv, UsersTypeOK
<1>3. FileIs /\ FileIs'
  BY <1>2, FileFacts, FileFactsNext DEF UsersIInv
<1>4. s # NoSecret => \A r \in tokenRows \cup ReadRelayUsers : r.secret # s
  BY <1>1, GeneratedIsNew DEF UsersIInv
<1>5. \A r \in ReadRelayUsers' :
          \/ r \in ReadRelayUsers
          \/ r.user = DefaultName /\ r.name = "Default relay token" /\ r.secret = s /\ s # NoSecret
  <2> SUFFICES ASSUME NEW r \in ReadRelayUsers', r \notin ReadRelayUsers
               PROVE  r.user = DefaultName /\ r.name = "Default relay token" /\ r.secret = s /\ s # NoSecret
    OBVIOUS
  <2>1. r \in TokenRow /\ r.secret # NoSecret
    BY <1>3, DefaultAssumption DEF FileIs, TokenRow
  <2>2. r.name = "Default relay token" /\ r.user = DefaultName /\ r.secret = envDefault'
    BY <1>1, <1>3, <2>1 DEF FileIs
  <2> QED BY <1>1, <2>1, <2>2
<1>6. OneTokenPerSecret'
  <2> SUFFICES ASSUME NEW r1 \in (tokenRows \cup ReadRelayUsers)', NEW r2 \in (tokenRows \cup ReadRelayUsers)',
                      r1.secret = r2.secret
               PROVE  r1 = r2
    BY DEF OneTokenPerSecret
  <2>1. r1 \in TokenRow /\ r2 \in TokenRow
    BY <1>2, <1>3 DEF FileIs, UsersTypeOK
  <2>2. CASE r1 \in tokenRows \cup ReadRelayUsers
    <3>1. r2 \in tokenRows \cup ReadRelayUsers
      BY <1>1, <1>4, <1>5, <2>2
    <3> QED BY <2>2, <3>1 DEF UsersIInv, OneTokenPerSecret
  <2>3. CASE r1 \notin tokenRows \cup ReadRelayUsers
    <3>1. r2 \notin tokenRows \cup ReadRelayUsers
      BY <1>1, <1>4, <1>5, <2>3
    <3> QED BY <1>1, <1>5, <2>1, <2>3, <3>1, SameRow
  <2> QED BY <2>2, <2>3
<1>7. MigratedInFile'
  <2> SUFFICES ASSUME NEW p \in migrated' PROVE p \in Listed' \cup Shared'
    BY DEF MigratedInFile
  <2>1. p \in Listed \cup Shared /\ p[1] # DefaultName
    BY <1>1 DEF UsersIInv, MigratedInFile
  <2>2. p[1] \in Names /\ p[2] \in Secrets /\ p = <<p[1], p[2]>>
    BY <1>3, <2>1 DEF FileIs
  <2>3. p[2] = envUsers[p[1]]
    BY <1>3, <2>1, <2>2 DEF FileIs
  <2> QED BY <1>1, <1>3, <2>2, <2>3 DEF FileIs
<1>8. MigrationHolds' /\ OneTokenPerName'
  BY <1>1 DEF UsersIInv, MigrationHolds, DatabaseUsers, OneTokenPerName
<1> QED BY <1>2, <1>6, <1>7, <1>8 DEF UsersIInv

\* What no command on the file changes: its tokens, and what is imported of them.
LEMMA FileKept ==
    ASSUME UsersIInv, UNCHANGED <<envUsers, envDefault>>
    PROVE  ReadRelayUsers' = ReadRelayUsers /\ (Listed \cup Shared)' = Listed \cup Shared
  BY DEF ReadRelayUsers, Listed, Shared

\* add and rotate: the new token replaces the one of its name.
LEMMA PrintsTokenInv ==
    ASSUME UsersIInv, NEW u \in Names, NEW n \in TokenNames, NEW s \in Secrets, PrintsToken(u, n, s)
    PROVE  UsersIInv'
<1> DEFINE new == Row(u, n, s)
<1>1. /\ Generated(s) /\ ImportTokens({new}) /\ AfterImport({new})
      /\ stale' = TRUE /\ migrated' = {p \in migrated : p[1] # u}
      /\ UNCHANGED <<envUsers, envDefault, authMode, admitted, up>>
  BY DEF PrintsToken, Touches, ImportTokens, envVars, admitVars
<1>2. new \in TokenRow /\ new.user = u /\ new.secret = s
  BY DEF TokenRow, Row
<1>3. \A r \in tokenRows \cup ReadRelayUsers : r.secret # s
  BY <1>1, GeneratedIsNew DEF UsersIInv
<1>4. Importable({new})
  BY <1>2, <1>3 DEF Importable, UsersIInv, OneTokenPerSecret
<1> HIDE DEF new
<1>5. UsersTypeOK'
  BY <1>1, <1>4, ImportedRows, ImportWithdraws DEF UsersIInv, UsersTypeOK
<1>6. OneTokenPerSecret'
  BY <1>1, <1>2, <1>3, <1>4, ImportedRows, FileKept DEF UsersIInv, OneTokenPerSecret
<1>7. MigratedInFile'
  BY <1>1, FileKept DEF UsersIInv, MigratedInFile
<1>8. \A p \in migrated' : p \in DatabaseUsers'
  BY <1>1, <1>2, <1>4, ImportedUsers DEF UsersIInv, MigrationHolds
<1>9. MigrationHolds'
  BY <1>1, <1>4, <1>8, ImportWithdraws DEF MigrationHolds
<1> QED BY <1>1, <1>4, <1>5, <1>6, <1>7, <1>9, ImportedRows DEF UsersIInv

\* revoke, disable, enable and delete change what one user may use.
LEMMA DatabaseStep ==
    ASSUME UsersIInv, NEW u \in Names,
           tokenRows' \subseteq tokenRows, \A r \in tokenRows : r.user # u => r \in tokenRows',
           userRows' \in [Names -> {"none", "enabled", "disabled"}],
           \A v \in Names \ {u} : userRows'[v] = userRows[v],
           stale' = TRUE, migrated' = {p \in migrated : p[1] # u},
           withdrawn' \subseteq Names \X Secrets,
           \A r \in tokenRows' : userRows'[r.user] = "enabled" => <<r.user, r.secret>> \notin withdrawn',
           UNCHANGED <<envUsers, envDefault, authMode, admitted, up>>
    PROVE  UsersIInv'
<1>1. UsersTypeOK'
  BY DEF UsersIInv, UsersTypeOK
<1>2. OneTokenPerSecret' /\ OneTokenPerName'
  BY FileKept DEF UsersIInv, OneTokenPerSecret, OneTokenPerName
<1>3. MigratedInFile'
  BY FileKept DEF UsersIInv, MigratedInFile
<1>4. ASSUME NEW p \in migrated' PROVE p \in DatabaseUsers'
  <2>1. p \in DatabaseUsers /\ p[1] # u
    BY DEF UsersIInv, MigrationHolds
  <2>2. PICK r \in tokenRows : userRows[r.user] = "enabled" /\ p = <<r.user, r.secret>>
    BY <2>1 DEF DatabaseUsers
  <2>3. r.user \in Names \ {u}
    BY <2>1, <2>2 DEF UsersIInv, UsersTypeOK, TokenRow
  <2> QED BY <2>2, <2>3 DEF DatabaseUsers
<1>5. withdrawn' \cap DatabaseUsers' = {}
  BY DEF DatabaseUsers
<1>6. MigrationHolds'
  BY <1>4, <1>5 DEF MigrationHolds
<1> QED BY <1>1, <1>2, <1>3, <1>6 DEF UsersIInv

\* What is not withdrawn yet, of a row that works.
LEMMA WorksUnlessWithdrawn ==
    ASSUME UsersIInv, NEW r \in tokenRows, userRows[r.user] = "enabled"
    PROVE  <<r.user, r.secret>> \notin withdrawn
<1>1. <<r.user, r.secret>> \in DatabaseUsers
  BY DEF DatabaseUsers
<1> QED BY <1>1 DEF UsersIInv, MigrationHolds

LEMMA DbRevokeInv ==
    ASSUME UsersIInv, NEW u \in Names, NEW n \in TokenNames, DbRevoke(u, n)
    PROVE  UsersIInv'
<1>1. /\ tokenRows' = {r \in tokenRows : ~(r.user = u /\ r.name = n)}
      /\ stale' = TRUE /\ migrated' = {p \in migrated : p[1] # u}
      /\ withdrawn' = withdrawn \cup Pairs({r \in RowsOf({u}) : r.name = n})
      /\ UNCHANGED <<envUsers, envDefault, authMode, admitted, up, userRows>>
  BY DEF DbRevoke, Touches, TakesAway, envVars, admitVars
<1>2. withdrawn' \subseteq Names \X Secrets
  BY <1>1 DEF UsersIInv, UsersTypeOK, TokenRow, Pairs, RowsOf
<1>3. ASSUME NEW r \in tokenRows', userRows'[r.user] = "enabled", <<r.user, r.secret>> \in withdrawn'
      PROVE  FALSE
  <2>1. r \in tokenRows /\ ~(r.user = u /\ r.name = n)
    BY <1>1
  <2>2. <<r.user, r.secret>> \in Pairs({q \in RowsOf({u}) : q.name = n})
    BY <1>1, <1>3, <2>1, WorksUnlessWithdrawn
  <2>3. PICK q \in tokenRows : q.user = u /\ q.name = n /\ <<r.user, r.secret>> = <<q.user, q.secret>>
    BY <2>2 DEF Pairs, RowsOf
  <2>4. q = r
    BY <2>1, <2>3 DEF UsersIInv, OneTokenPerSecret
  <2> QED BY <2>1, <2>3, <2>4
<1>4. userRows \in [Names -> {"none", "enabled", "disabled"}]
  BY DEF UsersIInv, UsersTypeOK
<1> QED BY <1>1, <1>2, <1>3, <1>4, DatabaseStep

LEMMA DbDisableInv ==
    ASSUME UsersIInv, NEW u \in Names, NEW disabled \in BOOLEAN, DbDisable(u, disabled)
    PROVE  UsersIInv'
<1> DEFINE his == Pairs(RowsOf({u}))
<1>1. /\ userRows' = [userRows EXCEPT ![u] = IF disabled THEN "disabled" ELSE "enabled"]
      /\ stale' = TRUE /\ migrated' = {p \in migrated : p[1] # u}
      /\ withdrawn' = IF disabled THEN withdrawn \cup his ELSE withdrawn \ his
      /\ UNCHANGED <<envUsers, envDefault, authMode, admitted, up, tokenRows>>
  BY DEF DbDisable, Touches, envVars, admitVars
<1>2. userRows' \in [Names -> {"none", "enabled", "disabled"}] /\ \A v \in Names \ {u} : userRows'[v] = userRows[v]
  BY <1>1 DEF UsersIInv, UsersTypeOK
<1>3. withdrawn' \subseteq Names \X Secrets
  BY <1>1 DEF UsersIInv, UsersTypeOK, TokenRow, Pairs, RowsOf
<1>4. ASSUME NEW r \in tokenRows, userRows'[r.user] = "enabled", <<r.user, r.secret>> \in withdrawn'
      PROVE  FALSE
  <2>1. r.user \in Names
    BY DEF UsersIInv, UsersTypeOK, TokenRow
  <2>2. CASE r.user = u
    <3>1. ~disabled
      BY <1>1, <1>4, <2>1, <2>2 DEF UsersIInv, UsersTypeOK
    <3>2. <<r.user, r.secret>> \in his
      BY <2>2 DEF Pairs, RowsOf
    <3> QED BY <1>1, <1>4, <3>1, <3>2
  <2>3. CASE r.user # u
    <3>1. <<r.user, r.secret>> \notin withdrawn
      BY <1>2, <1>4, <2>1, <2>3, WorksUnlessWithdrawn
    <3>2. <<r.user, r.secret>> \notin his
      BY <2>3 DEF Pairs, RowsOf
    <3> QED BY <1>1, <1>4, <3>1, <3>2
  <2> QED BY <2>2, <2>3
<1> QED BY <1>1, <1>2, <1>3, <1>4, DatabaseStep

LEMMA DbDeleteInv ==
    ASSUME UsersIInv, NEW u \in Names, DbDelete(u)
    PROVE  UsersIInv'
<1>1. /\ userRows' = [userRows EXCEPT ![u] = "none"] /\ tokenRows' = tokenRows \ RowsOf({u})
      /\ stale' = TRUE /\ migrated' = {p \in migrated : p[1] # u}
      /\ withdrawn' = withdrawn \cup Pairs(RowsOf({u}))
      /\ UNCHANGED <<envUsers, envDefault, authMode, admitted, up>>
  BY DEF DbDelete, Touches, TakesAway, envVars, admitVars
<1>2. userRows' \in [Names -> {"none", "enabled", "disabled"}] /\ \A v \in Names \ {u} : userRows'[v] = userRows[v]
  BY <1>1 DEF UsersIInv, UsersTypeOK
<1>3. withdrawn' \subseteq Names \X Secrets
  BY <1>1 DEF UsersIInv, UsersTypeOK, TokenRow, Pairs, RowsOf
<1>4. ASSUME NEW r \in tokenRows', userRows'[r.user] = "enabled", <<r.user, r.secret>> \in withdrawn'
      PROVE  FALSE
  <2>1. r \in tokenRows /\ r.user # u /\ r.user \in Names
    BY <1>1 DEF RowsOf, UsersIInv, UsersTypeOK, TokenRow
  <2>2. <<r.user, r.secret>> \notin withdrawn
    BY <1>2, <1>4, <2>1, WorksUnlessWithdrawn
  <2>3. <<r.user, r.secret>> \notin Pairs(RowsOf({u}))
    BY <2>1 DEF Pairs, RowsOf
  <2> QED BY <1>1, <1>4, <2>2, <2>3
<1>5. tokenRows' \subseteq tokenRows /\ \A r \in tokenRows : r.user # u => r \in tokenRows'
  BY <1>1 DEF RowsOf
<1> QED BY <1>1, <1>2, <1>3, <1>4, <1>5, DatabaseStep

\* The importer: a file that is not refused holds one token of each user.
LEMMA ImportUsersInv ==
    ASSUME UsersIInv, NEW done, ImportUsers(done)
    PROVE  UsersIInv'
<1>1. /\ ~Reserved /\ done \subseteq ReadRelayUsers /\ ImportTokens(done) /\ AfterImport(done)
      /\ migrated' = migrated \cup Pairs(done) /\ stale' = TRUE
      /\ UNCHANGED <<envUsers, envDefault, authMode, admitted, up>>
  BY DEF ImportUsers, ImportTokens, envVars, admitVars
<1>2. FileIs /\ UsersTypeOK
  BY FileFacts DEF UsersIInv
<1>3. ASSUME NEW r1 \in ReadRelayUsers, NEW r2 \in ReadRelayUsers, r1.user = r2.user PROVE r1.secret = r2.secret
  <2>1. \A r \in ReadRelayUsers :
            /\ r.secret \in Secrets
            /\ r.secret = envUsers[r.user] \/ (r.user = DefaultName /\ r.secret = envDefault)
    BY <1>2 DEF FileIs, TokenRow
  <2>2. envDefault = NoSecret \/ envUsers[DefaultName] = NoSecret
    BY <1>1 DEF Reserved
  <2> QED BY <1>3, <2>1, <2>2, DefaultAssumption
<1>4. Importable(done)
  BY <1>1, <1>2, <1>3 DEF Importable, FileIs, UsersIInv, OneTokenPerSecret
<1>5. UsersTypeOK'
  BY <1>1, <1>4, ImportedRows, ImportWithdraws DEF UsersIInv, UsersTypeOK
<1>6. OneTokenPerSecret'
  BY <1>1, <1>4, ImportedRows, FileKept DEF UsersIInv, OneTokenPerSecret
<1>7. Pairs(done) \subseteq Listed \cup Shared
  <2> SUFFICES ASSUME NEW r \in done PROVE <<r.user, r.secret>> \in Listed \cup Shared
    BY DEF Pairs
  <2> QED BY <1>1, <1>2 DEF FileIs, TokenRow
<1>8. MigratedInFile'
  BY <1>1, <1>7, FileKept DEF UsersIInv, MigratedInFile
<1>9. ASSUME NEW p \in migrated PROVE p \in DatabaseUsers'
  <2>1. p \in DatabaseUsers /\ p \in Listed \cup Shared
    BY DEF UsersIInv, MigrationHolds, MigratedInFile
  <2>2. p[1] \in Names /\ p[2] \in Secrets /\ p = <<p[1], p[2]>>
    BY <1>2, <2>1 DEF FileIs
  <2>3. p[2] = envUsers[p[1]] \/ (p[1] = DefaultName /\ p[2] = envDefault)
    BY <1>2, <2>1, <2>2 DEF FileIs
  <2>4. \A t \in done : p[1] = t.user => p[2] = t.secret
    <3> SUFFICES ASSUME NEW t \in done, p[1] = t.user PROVE p[2] = t.secret
      OBVIOUS
    <3>1. /\ t.secret = envUsers[t.user] \/ (t.user = DefaultName /\ t.secret = envDefault)
          /\ t.user \in Names /\ t.secret # NoSecret
      BY <1>1, <1>2, DefaultAssumption DEF FileIs, TokenRow
    <3>2. p[2] # NoSecret
      BY <2>2, DefaultAssumption
    <3> QED BY <1>1, <2>3, <3>1, <3>2 DEF Reserved
  <2> QED BY <1>1, <1>4, <2>1, <2>4, ImportedUsers
<1>10. MigrationHolds'
  BY <1>1, <1>4, <1>9, ImportedUsers, ImportWithdraws DEF MigrationHolds
<1> QED BY <1>1, <1>4, <1>5, <1>6, <1>8, <1>10, ImportedRows DEF UsersIInv

\* A relay that starts admits what was imported, from the file or the database.
LEMMA RestartsInv == ASSUME UsersIInv, Restarts PROVE UsersIInv'
<1>1. /\ up' = Starts /\ admitted' = (IF Starts THEN LoadRelayUsers ELSE {})
      /\ UNCHANGED <<envUsers, envDefault, authMode, userRows, tokenRows, migrated, withdrawn>>
  BY DEF Restarts, envVars, tokenVars
<1>2. UsersTypeOK' /\ OneTokenPerName'
  BY <1>1 DEF UsersIInv, UsersTypeOK, OneTokenPerName
<1>3. OneTokenPerSecret' /\ MigratedInFile' /\ DatabaseUsers' = DatabaseUsers
  BY <1>1, FileKept DEF UsersIInv, OneTokenPerSecret, MigratedInFile, DatabaseUsers
<1>4. migrated \subseteq LoadRelayUsers
  BY DEF UsersIInv, MigrationHolds, MigratedInFile, LoadRelayUsers
<1>5. authMode = "sqlite" => LoadRelayUsers \cap withdrawn = {}
  BY DEF UsersIInv, MigrationHolds, LoadRelayUsers
<1>6. MigrationHolds'
  BY <1>1, <1>3, <1>4, <1>5 DEF UsersIInv, MigrationHolds
<1> QED BY <1>2, <1>3, <1>6 DEF UsersIInv

LEMMA UsersInitInv == UsersInit => UsersIInv
<1> SUFFICES ASSUME UsersInit PROVE UsersIInv
  OBVIOUS
<1>1. UsersTypeOK
  BY DEF UsersInit, UsersTypeOK
<1>2. ReadRelayUsers = {}
  BY DEF UsersInit, ReadRelayUsers, Listed, Shared
<1>3. OneTokenPerSecret /\ OneTokenPerName /\ MigratedInFile /\ MigrationHolds
  BY <1>2 DEF UsersInit, OneTokenPerSecret, OneTokenPerName, MigratedInFile, MigrationHolds
<1> QED BY <1>1, <1>3 DEF UsersIInv

LEMMA UsersNextInv == UsersIInv /\ [UsersNext]_userVars => UsersIInv'
<1> SUFFICES ASSUME UsersIInv, [UsersNext]_userVars PROVE UsersIInv'
  OBVIOUS
<1>1. ASSUME NEW u \in Names, NEW s \in Secrets, EnvAdd(u, s) \/ EnvRotate(u, s) PROVE UsersIInv'
  BY <1>1, WritesUsersInv DEF EnvAdd, EnvRotate
<1>2. ASSUME NEW u \in Names, EnvRemove(u) PROVE UsersIInv'
  BY <1>2, WritesUsersInv DEF EnvRemove
<1>3. ASSUME NEW u \in Names, NEW n \in TokenNames, NEW s \in Secrets, DbAdd(u, n, s) \/ DbRotate(u, n, s)
      PROVE  UsersIInv'
  BY <1>3, PrintsTokenInv DEF DbAdd, DbRotate
<1>4. ASSUME NEW m \in AuthModes, EditsMode(m) PROVE UsersIInv'
  <2>1. /\ stale' = TRUE
        /\ UNCHANGED <<envUsers, envDefault, userRows, tokenRows, admitted, up, migrated, withdrawn>>
    BY <1>4 DEF EditsMode, tokenVars, admitVars
  <2>2. UsersTypeOK' /\ OneTokenPerSecret' /\ OneTokenPerName' /\ MigratedInFile'
    BY <2>1, FileKept DEF UsersIInv, UsersTypeOK, OneTokenPerSecret, OneTokenPerName, MigratedInFile
  <2>3. MigrationHolds'
    BY <2>1 DEF UsersIInv, MigrationHolds, DatabaseUsers
  <2> QED BY <2>2, <2>3 DEF UsersIInv
<1>5. CASE UNCHANGED userVars
  <2>1. UNCHANGED <<envUsers, envDefault, authMode, userRows, tokenRows, admitted, up, stale, migrated, withdrawn>>
    BY <1>5 DEF userVars, envVars, tokenVars, admitVars, tokenHistory
  <2>2. UsersTypeOK' /\ OneTokenPerSecret' /\ OneTokenPerName' /\ MigratedInFile'
    BY <2>1, FileKept DEF UsersIInv, UsersTypeOK, OneTokenPerSecret, OneTokenPerName, MigratedInFile
  <2>3. MigrationHolds'
    BY <2>1 DEF UsersIInv, MigrationHolds, DatabaseUsers
  <2> QED BY <2>2, <2>3 DEF UsersIInv
<1> QED BY <1>1, <1>2, <1>3, <1>4, <1>5, EditsDefaultInv, DbRevokeInv, DbDisableInv, DbDeleteInv,
           ImportUsersInv, RestartsInv DEF UsersNext

LEMMA UsersSpecInv == UsersSpec => []UsersIInv
  BY UsersInitInv, UsersNextInv, PTL DEF UsersSpec

\* Moving from the file to the database locks nobody out and lets no token back
\* in, for any users and tokens, in whatever order the tools are used and the
\* relay is restarted.
THEOREM MigrationIsSafe == UsersSpec => []MigrationHolds
<1>1. UsersIInv => MigrationHolds
  BY DEF UsersIInv
<1> QED BY <1>1, UsersSpecInv, PTL
==============================================================================
