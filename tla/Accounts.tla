----------------------------- MODULE Accounts ------------------------------
(***************************************************************************)
(* Pilot accounts of the relay: the handlers of account-api.js and of the  *)
(* account half of admin-api.js, over the tables of db.js, the sessions of *)
(* sessions.js and what the relay process (index.js) keeps in memory.      *)
(*                                                                         *)
(* better-sqlite3 is synchronous: a handler runs in one step from the end  *)
(* of its request body.  Only a password change reads the session before   *)
(* it awaits the body; it is a request in flight.  The registration is the *)
(* one by invitation, and pairings persist (the default).                  *)
(*                                                                         *)
(* The mode is sqlite or sqlite-fallback, the two in which these APIs run: *)
(* in the second the process also admits the tokens of its .env file,      *)
(* whatever the tables say of their users.  The handlers make, replace and *)
(* revoke tokens of one name only; the command-line tools (RelayUsers) may *)
(* have left a user a token of another name.                               *)
(***************************************************************************)
EXTENDS Naturals, FiniteSets

CONSTANTS
    Pilots,    \* user names
    Sessions,  \* rows of browser_sessions that may exist at a time
    Tokens,    \* agent tokens that may be known at a time
    FileTokens, \* those that the .env may list and the tools may have imported
    NoToken,   \* no active agent token
    PairableBrowsers, \* browsers that may be paired
    MaxOpen    \* MAX_CLIENTS

ASSUME AccountAssumption == /\ Pilots # {} /\ NoToken \notin Tokens
                            /\ FileTokens \subseteq Tokens

VARIABLES
    account,     \* users: the row of each name, if any, and its disabled_at
    password,    \* users with a password_hash
    token,       \* agent_tokens: the active 'VoxHF agent token' of each user
    otherToken,  \* agent_tokens: one that is active under another name
    rows,        \* browser_sessions
    resetCode,   \* account_recovery_codes: users with a code that has not expired
    pairings,    \* browser_pairings that are not revoked
    envTokens,   \* process.env: the token of each user in sqlite-fallback mode
    relayUsers,  \* relayUsers: the tokens that the process accepts for each user
    allowed,     \* browserAuthorizations
    invite,      \* registrationInvites holds a code
    tabs,        \* open WebSockets of browsers, by the session that authenticated them
    agents,      \* open WebSockets of agents: user and token
    manual,      \* open WebSockets of browsers that gave a token: user and token
    changing,    \* password changes whose body is awaited
    adrift       \* history: users disabled when their pairings were last read or dropped

tables == <<account, password, token, otherToken, rows, resetCode, pairings>>
tokens == <<token, otherToken>>
admission == <<relayUsers, envTokens>>
memory == <<admission, allowed, invite, tabs, agents, manual, changing>>
accountVars == <<tables, memory, adrift>>

NoRow == [user |-> CHOOSE u \in Pilots : TRUE, state |-> "none",
          expired |-> FALSE, current |-> FALSE]

\* Fault: the tokens of disabled users are active.
EveryToken(acc, tok, other, u) == {tok[u], other[u]} \ {NoToken}

\* listActiveRelayTokenUsers(): the tokens that are active of users who are enabled,
\* and loadEnvRelayUsers().
ActiveTokens(acc, tok, other, u) ==
    IF acc[u] = "enabled" THEN {tok[u], other[u]} \ {NoToken} ELSE {}
EnvTokens(env, u) == {env[u]} \ {NoToken}

\* loadRelayUsers() in both modes: without a .env the second set is empty.
LoadedTokens(acc, tok, other, env) ==
    [u \in Pilots |-> ActiveTokens(acc, tok, other, u) \cup EnvTokens(env, u)]

\* The tools may have imported users, and the .env may list tokens.
AccountInit ==
    /\ otherToken \in [Pilots -> FileTokens \cup {NoToken}]
    /\ account = [u \in Pilots |-> IF otherToken[u] = NoToken THEN "none" ELSE "enabled"]
    /\ password = {}
    /\ token = [u \in Pilots |-> NoToken]
    /\ rows = [s \in Sessions |-> NoRow]
    /\ resetCode = {} /\ pairings = {}
    /\ envTokens \in [Pilots -> FileTokens \cup {NoToken}]
    /\ relayUsers = LoadedTokens(account, token, otherToken, envTokens)
    /\ allowed = {} /\ invite = FALSE /\ tabs = {} /\ agents = {} /\ manual = {}
    /\ changing = {} /\ adrift = {}

-----------------------------------------------------------------------------
\* Rows of one user, getBrowserSession(), and a session id that nobody holds.
SessionsOf(u) == {s \in Sessions : rows[s].user = u}
Authentic(s) == /\ rows[s].state = "live" /\ ~rows[s].expired
                /\ account[rows[s].user] = "enabled"
Unused(s) == /\ rows[s].state = "none" /\ s \notin tabs
             /\ \A r \in changing : r.session # s
UnknownToken(t) == /\ \A u \in Pilots : t \notin {token[u], otherToken[u], envTokens[u]}
                   /\ \A a \in agents \cup manual : a[2] # t

\* createBrowserSession()
WithSession(table, u, s) ==
    [table EXCEPT ![s] = [user |-> u, state |-> "live", expired |-> FALSE, current |-> TRUE]]

\* UPDATE browser_sessions SET revoked_at ... WHERE revoked_at IS NULL
Revoked(table, which) ==
    [s \in Sessions |-> IF s \in which /\ table[s].state = "live"
                        THEN [table[s] EXCEPT !.state = "revoked", !.current = FALSE]
                        ELSE table[s]]

\* setRelayUserPassword(): only the session that changed it knows the new one.
Repassworded(table, u, keep) ==
    [s \in Sessions |-> IF table[s].user = u /\ s \notin keep
                        THEN [table[s] EXCEPT !.current = FALSE] ELSE table[s]]
Outdated(u) == {IF r.user = u THEN [r EXCEPT !.right = FALSE] ELSE r : r \in changing}

\* importRelayUserToken(): a user who does not exist is made, one who is disabled
\* is enabled, and the former token of that name is revoked.
TokenImported(u, t) ==
    /\ account' = [account EXCEPT ![u] = "enabled"]
    /\ token' = [token EXCEPT ![u] = t] /\ UNCHANGED otherToken

\* createRelayAccount()
AccountCreated(u, t) ==
    /\ account[u] = "none"
    /\ TokenImported(u, t)
    /\ password' = password \cup {u}

\* revokeRelayUserTokens() with the one name that the handlers give
TokensRevoked(u) == token' = [token EXCEPT ![u] = NoToken] /\ UNCHANGED otherToken

\* setRelayUserDisabled()
DisabledSet(u, state) == account' = [account EXCEPT ![u] = state]

\* createAccountRecoveryCode() replaces an earlier code; consumeAccountRecoveryCode()
\* uses it up.
CodeCreated(u) == u \notin resetCode /\ resetCode' = resetCode \cup {u}
CodeConsumed(u) == u \in resetCode /\ resetCode' = resetCode \ {u}

\* deleteRelayUser(): the tables cascade.
UserDeleted(u) ==
    /\ account' = [account EXCEPT ![u] = "none"]
    /\ password' = password \ {u}
    /\ token' = [token EXCEPT ![u] = NoToken]
    /\ otherToken' = [otherToken EXCEPT ![u] = NoToken]
    /\ rows' = [s \in Sessions |-> IF rows[s].user = u
                                   THEN [rows[s] EXCEPT !.state = "none", !.current = FALSE]
                                   ELSE rows[s]]
    /\ resetCode' = resetCode \ {u}
    /\ pairings' = {p \in pairings : p[1] # u}

\* ensureRelayUser(): a user of the .env gets a row.
UserEnsured(u) ==
    account' = [account EXCEPT ![u] = IF account[u] = "none" THEN "enabled" ELSE account[u]]

\* upsertBrowserPairing()
RowUpserted(u, b) == pairings' = pairings \cup {<<u, b>>}

\* Fault: the row of a revoked pairing stays.
RowsKept(which) == UNCHANGED pairings

\* revokeBrowserPairing() and revokeBrowserPairingById()
RowsRevoked(which) == pairings' = pairings \ which

\* listActiveBrowserPairings(): a disabled user has none.
ActivePairings == {p \in pairings : account[p[1]] = "enabled"}

-----------------------------------------------------------------------------
\* The process: reloadRelayUsers(), closeAgentClientsForUser() and
\* closeBrowserSessionClients().
UsersReloaded == /\ relayUsers' = LoadedTokens(account', token', otherToken', envTokens)
                 /\ UNCHANGED envTokens
Others(u, clients) == {c \in clients : c[1] # u}

\* Fault: the browsers of a revoked session stay connected.
BrowsersStay(which) == UNCHANGED tabs
BrowsersClosed(which) == tabs' = tabs \ which

-----------------------------------------------------------------------------
\* consumeRegistrationInvite()
InviteConsumed == invite /\ invite' = FALSE

\* POST /account/api/register
Register(u, s, t) ==
    /\ Unused(s) /\ UnknownToken(t)
    /\ InviteConsumed
    /\ AccountCreated(u, t)
    /\ rows' = WithSession(rows, u, s)
    /\ UsersReloaded
    /\ UNCHANGED <<resetCode, pairings, allowed, tabs, agents, manual, changing, adrift>>

\* POST /account/api/login
SignIn(u, s) ==
    /\ account[u] = "enabled" /\ u \in password /\ Unused(s)
    /\ rows' = WithSession(rows, u, s)
    /\ UNCHANGED <<account, password, tokens, resetCode, pairings, memory, adrift>>

\* POST /account/api/logout: an expired session is revoked, but its browser is
\* no longer known and stays connected.
LogOut(s) ==
    /\ rows[s].state = "live"
    /\ rows' = Revoked(rows, {s})
    /\ BrowsersClosed(IF Authentic(s) THEN {s} ELSE {})
    /\ UNCHANGED <<account, password, tokens, resetCode, pairings, admission, allowed,
                   invite, agents, manual, changing, adrift>>

\* POST /account/api/sessions/<id>/revoke and .../revoke-others
RevokeSessions(s, which) ==
    /\ Authentic(s)
    /\ \/ \E o \in SessionsOf(rows[s].user) : rows[o].state = "live" /\ which = {o}
       \/ which = {o \in SessionsOf(rows[s].user) \ {s} : rows[o].state = "live"}
    /\ rows' = Revoked(rows, which)
    /\ BrowsersClosed(which)
    /\ UNCHANGED <<account, password, tokens, resetCode, pairings, admission, allowed,
                   invite, agents, manual, changing, adrift>>

\* POST /account/api/password/change up to its await: the session is read, and
\* the body will state the present password or another.
RequestChange(s, right) ==
    /\ Authentic(s) /\ \A r \in changing : r.session # s
    /\ changing' = changing \cup {[session |-> s, user |-> rows[s].user, right |-> right]}
    /\ UNCHANGED <<tables, admission, allowed, invite, tabs, agents, manual, adrift>>

\* Its end: the session and the account may have changed meanwhile, the session
\* is not read again.
CompleteChange(r) ==
    /\ r \in changing /\ r.right /\ r.user \in password
    /\ LET others == {o \in SessionsOf(r.user) \ {r.session} : rows[o].state = "live"}
       IN  /\ rows' = Repassworded(Revoked(rows, others), r.user, {r.session})
           /\ BrowsersClosed(others)
    /\ changing' = Outdated(r.user) \ {[r EXCEPT !.right = FALSE]}
    /\ UNCHANGED <<account, password, tokens, resetCode, pairings, admission, allowed,
                   invite, agents, manual, adrift>>

RefuseChange(r) ==
    /\ r \in changing /\ ~(r.right /\ r.user \in password)
    /\ changing' = changing \ {r}
    /\ UNCHANGED <<tables, admission, allowed, invite, tabs, agents, manual, adrift>>

\* POST /account/api/password/recover with the code of the administrator
Recover(u, s) ==
    /\ account[u] = "enabled" /\ Unused(s)
    /\ CodeConsumed(u)
    /\ password' = password \cup {u}
    /\ rows' = WithSession(Repassworded(Revoked(rows, SessionsOf(u)), u, {}), u, s)
    /\ BrowsersClosed({o \in SessionsOf(u) : rows[o].state = "live"})
    /\ changing' = Outdated(u)
    /\ UNCHANGED <<account, tokens, pairings, admission, allowed, invite, agents, manual, adrift>>

\* POST /account/api/agent-token/rotate: the browsers stay connected, those that
\* gave the former token too.
RotateOwnToken(s, t) ==
    /\ Authentic(s) /\ UnknownToken(t)
    /\ TokenImported(rows[s].user, t)
    /\ UsersReloaded
    /\ agents' = Others(rows[s].user, agents)
    /\ UNCHANGED <<password, rows, resetCode, pairings, allowed, invite, tabs, manual,
                   changing, adrift>>

AccountStep ==
    \/ \E u \in Pilots, s \in Sessions, t \in Tokens : Register(u, s, t)
    \/ \E u \in Pilots, s \in Sessions : SignIn(u, s) \/ Recover(u, s)
    \/ \E s \in Sessions : LogOut(s) \/ \E right \in BOOLEAN : RequestChange(s, right)
    \/ \E s \in Sessions, which \in SUBSET Sessions : RevokeSessions(s, which)
    \/ \E r \in changing : CompleteChange(r) \/ RefuseChange(r)
    \/ \E s \in Sessions, t \in Tokens : RotateOwnToken(s, t)

-----------------------------------------------------------------------------
\* What the administrator does: /admin/api/registration-invites, /admin/api/users
\* and /admin/api/users/<id>/<action>.
CreateInvite ==
    /\ ~invite
    /\ invite' = TRUE
    /\ UNCHANGED <<tables, admission, allowed, tabs, agents, manual, changing, adrift>>

\* closeClientsForUser() after reloadRelayUsers()
EndClients(u) == /\ tabs' = tabs \ SessionsOf(u)
                 /\ agents' = Others(u, agents) /\ manual' = Others(u, manual)

CreateUser(u, t) ==
    /\ account[u] = "none" /\ UnknownToken(t)
    /\ TokenImported(u, t)
    /\ UsersReloaded
    /\ UNCHANGED <<password, rows, resetCode, pairings, allowed, invite, tabs, agents,
                   manual, changing, adrift>>

\* rotate: importRelayUserToken() enables the user again.
RotateToken(u, t) ==
    /\ account[u] # "none" /\ UnknownToken(t)
    /\ TokenImported(u, t)
    /\ UsersReloaded
    /\ EndClients(u)
    /\ UNCHANGED <<password, rows, resetCode, pairings, allowed, invite, changing, adrift>>

RevokeTokens(u) ==
    /\ account[u] # "none"
    /\ TokensRevoked(u) /\ UNCHANGED account
    /\ UsersReloaded
    /\ EndClients(u)
    /\ UNCHANGED <<password, rows, resetCode, pairings, allowed, invite, changing, adrift>>

ResetPassword(u) ==
    /\ account[u] # "none"
    /\ CodeCreated(u)
    /\ UNCHANGED <<account, password, tokens, rows, pairings, memory, adrift>>

Disable(u) ==
    /\ account[u] = "enabled"
    /\ DisabledSet(u, "disabled") /\ UNCHANGED tokens
    /\ UsersReloaded
    /\ EndClients(u)
    /\ UNCHANGED <<password, rows, resetCode, pairings, allowed, invite, changing, adrift>>

Enable(u) ==
    /\ account[u] = "disabled"
    /\ DisabledSet(u, "enabled") /\ UNCHANGED tokens
    /\ UsersReloaded
    /\ UNCHANGED <<password, rows, resetCode, pairings, allowed, invite, tabs, agents,
                   manual, changing, adrift>>

\* delete: the pairings are listed before the rows are gone.
Delete(u) ==
    /\ account[u] # "none"
    /\ UserDeleted(u)
    /\ UsersReloaded
    /\ allowed' = allowed \ {p \in ActivePairings : p[1] = u}
    /\ EndClients(u)
    /\ adrift' = IF account[u] = "disabled" THEN adrift \cup {u} ELSE adrift
    /\ UNCHANGED <<invite, changing>>

TableStep ==
    \/ CreateInvite
    \/ \E u \in Pilots, t \in Tokens : CreateUser(u, t) \/ RotateToken(u, t)
    \/ \E u \in Pilots : RevokeTokens(u) \/ ResetPassword(u) \/ Disable(u) \/ Enable(u) \/ Delete(u)

-----------------------------------------------------------------------------
\* authorizeUpgrade(): a token that the process knows, or the session in the
\* database.
HasRoom == Cardinality(tabs) + Cardinality(agents) + Cardinality(manual) < MaxOpen

AgentConnects(u, t) ==
    /\ HasRoom /\ t \in relayUsers[u]
    /\ agents' = agents \cup {<<u, t>>}
    /\ UNCHANGED <<tables, admission, allowed, invite, tabs, manual, changing, adrift>>

BrowserConnects(u, t) ==
    /\ HasRoom /\ t \in relayUsers[u]
    /\ manual' = manual \cup {<<u, t>>}
    /\ UNCHANGED <<tables, admission, allowed, invite, tabs, agents, changing, adrift>>

\* registerAgent() and rememberRelayAgent()
AgentAnnounces(a) ==
    /\ a \in agents /\ account[a[1]] = "none"
    /\ UserEnsured(a[1])
    /\ UNCHANGED <<password, tokens, rows, resetCode, pairings, memory, adrift>>

TabConnects(s) ==
    /\ HasRoom /\ Authentic(s) /\ s \notin tabs
    /\ tabs' = tabs \cup {s}
    /\ UNCHANGED <<tables, admission, allowed, invite, agents, manual, changing, adrift>>

Disconnects ==
    /\ \/ \E a \in agents : agents' = agents \ {a} /\ UNCHANGED <<tabs, manual>>
       \/ \E b \in manual : manual' = manual \ {b} /\ UNCHANGED <<tabs, agents>>
       \/ \E s \in tabs : tabs' = tabs \ {s} /\ UNCHANGED <<agents, manual>>
    /\ UNCHANGED <<tables, admission, allowed, invite, changing, adrift>>

\* Users with a browser connected.
Browsing == {rows[s].user : s \in tabs} \cup {b[1] : b \in manual}

\* authorizeBrowser() of a connected browser, and its persistence: the agent that
\* gave the code has announced itself, so that the user has a row.
Pair(u, b) ==
    /\ u \in Browsing /\ account[u] # "none"
    /\ allowed' = allowed \cup {<<u, b>>}
    /\ RowUpserted(u, b)
    /\ UNCHANGED <<account, password, tokens, rows, resetCode, admission, invite, tabs, agents,
                   manual, changing, adrift>>

\* revokeBrowserAuthorization(): nothing is written when nothing is in memory.
Unpair(u, b) ==
    /\ u \in Browsing /\ <<u, b>> \in allowed
    /\ allowed' = allowed \ {<<u, b>>}
    /\ RowsRevoked({<<u, b>>})
    /\ UNCHANGED <<account, password, tokens, rows, resetCode, admission, invite, tabs, agents,
                   manual, changing, adrift>>

\* POST /admin/api/pairings/<id>/revoke
RevokePairing(p) ==
    /\ p \in pairings
    /\ RowsRevoked({p})
    /\ allowed' = allowed \ {p}
    /\ UNCHANGED <<account, password, tokens, rows, resetCode, admission, invite, tabs, agents,
                   manual, changing, adrift>>

\* Time passes: an invitation, a code or a session expires.
Ages ==
    /\ \/ invite /\ invite' = FALSE /\ UNCHANGED <<resetCode, rows>>
       \/ \E u \in resetCode : resetCode' = resetCode \ {u} /\ UNCHANGED <<invite, rows>>
       \/ \E s \in Sessions :
              /\ rows[s].state = "live" /\ ~rows[s].expired
              /\ rows' = [rows EXCEPT ![s].expired = TRUE]
              /\ UNCHANGED <<invite, resetCode>>
    /\ UNCHANGED <<account, password, tokens, pairings, admission, allowed, tabs, agents,
                   manual, changing, adrift>>

\* runDataMaintenance(): purgeBrowserSessions()
Maintenance ==
    /\ rows' = [s \in Sessions |-> IF rows[s].expired \/ rows[s].state = "revoked"
                                   THEN [rows[s] EXCEPT !.state = "none", !.current = FALSE]
                                   ELSE rows[s]]
    /\ rows' # rows
    /\ UNCHANGED <<account, password, tokens, resetCode, pairings, memory, adrift>>

\* The relay process starts again, with another .env perhaps.  The pairings of a
\* disabled user are not read, and not when he is enabled again.
RelayProcessRestarts ==
    /\ envTokens' \in [Pilots -> FileTokens \cup {NoToken}]
    /\ relayUsers' = LoadedTokens(account, token, otherToken, envTokens')
    /\ allowed' = ActivePairings
    /\ adrift' = {u \in Pilots : account[u] = "disabled"}
    /\ invite' = FALSE /\ tabs' = {} /\ agents' = {} /\ manual' = {} /\ changing' = {}
    /\ UNCHANGED tables

ConnectionStep ==
    \/ \E u \in Pilots, t \in Tokens : AgentConnects(u, t) \/ BrowserConnects(u, t)
    \/ \E a \in agents : AgentAnnounces(a)
    \/ \E s \in Sessions : TabConnects(s)
    \/ \E u \in Pilots, b \in PairableBrowsers : Pair(u, b) \/ Unpair(u, b)
    \/ Disconnects
    \/ \E p \in pairings : RevokePairing(p)
    \/ Ages
    \/ Maintenance
    \/ RelayProcessRestarts

AccountNext == AccountStep \/ TableStep \/ ConnectionStep
AccountSpec == AccountInit /\ [][AccountNext]_accountVars

-----------------------------------------------------------------------------
\* What may open a connection: an active token of an enabled user, or the token
\* that the .env of the running process lists for him.
Entitled(u, t) == \/ account[u] = "enabled" /\ t \in {token[u], otherToken[u]}
                  \/ t = envTokens[u]

\* No connection outlives its credentials: whatever is created, rotated, revoked,
\* disabled or deleted in whichever order, an open agent connection used a token
\* that is active now and whose user is enabled, and an open browser belongs to
\* an enabled user.  The exception is the .env file of sqlite-fallback mode: its
\* tokens open the relay whatever the tables say, and in sqlite mode there is
\* none.  A browser that gave a token stays when its pilot rotates the token.
ClientsAuthorized ==
    /\ \A a \in agents : Entitled(a[1], a[2])
    /\ \A b \in manual : account[b[1]] = "enabled" \/ b[2] = envTokens[b[1]]
    /\ \A s \in tabs : account[rows[s].user] = "enabled"

\* Once a password was changed or recovered, no session made under the former
\* one is valid and no browser that signed in with it is connected, except the
\* one that asked for the change; a browser whose session has expired meanwhile
\* is no longer found.
SessionsFollowPassword ==
    /\ \A s \in Sessions : rows[s].state = "live" => rows[s].current
    /\ \A s \in tabs : rows[s].state = "live" \/ rows[s].expired

\* The process works from the tables: the tokens it accepts are the active ones
\* of the enabled users and those of its .env, and it knows the pairings of every
\* enabled user, unless he was disabled when they were last loaded or when he was
\* deleted.
MemoryMatchesTables ==
    /\ \A u \in Pilots, t \in Tokens : t \in relayUsers[u] <=> Entitled(u, t)
    /\ \A u \in Pilots \ adrift :
           account[u] # "disabled" =>
               {p \in allowed : p[1] = u} = {p \in pairings : p[1] = u}

\* Who may connect follows the accounts: the process admits whom the tables and its
\* .env entitle, and closes whom they no longer do.
AccessFollowsAccounts == ClientsAuthorized /\ MemoryMatchesTables
=============================================================================
