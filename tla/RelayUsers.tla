----------------------------- MODULE RelayUsers -----------------------------
(***************************************************************************)
(* Where the tokens of the agents live: the users of the .env file         *)
(* (scripts/relay-user.js), the tables of the database                     *)
(* (scripts/relay-db-user.js), the importer that copies the first into the *)
(* second (scripts/import-relay-users.js), and what the relay process      *)
(* loaded from them when it last started (index.js).                       *)
(*                                                                         *)
(* Each tool runs to its end without an await, a command is one step.  A   *)
(* generated token is new: no file and no earlier command holds it.        *)
(***************************************************************************)
EXTENDS Naturals, FiniteSets

CONSTANTS
    Names,        \* user ids
    DefaultName,  \* DEFAULT_USER_ID, the user of VOXHF_RELAY_TOKEN
    Secrets,      \* tokens that may be known at a time
    NoSecret,     \* no token
    CanBootstrap  \* an empty relay may start, for /admin or for registration

ASSUME DefaultAssumption == DefaultName \in Names /\ NoSecret \notin Secrets

VARIABLES
    envUsers,   \* VOXHF_RELAY_USERS
    envDefault, \* VOXHF_RELAY_TOKEN
    authMode,   \* VOXHF_RELAY_AUTH_MODE
    userRows,   \* users: the row of each name, if any, and its disabled_at
    tokenRows,  \* agent_tokens that are not revoked: user, name and secret
    admitted,   \* relayUsers: the user and secret of each hash
    up,         \* the relay runs
    stale,      \* history: a file changed since the relay started
    migrated,   \* history: what was imported and no command has touched since
    withdrawn   \* history: what a database command took away

envVars      == <<envUsers, envDefault, authMode>>
tokenVars    == <<userRows, tokenRows>>
admitVars    == <<admitted, up>>
tokenHistory == <<stale, migrated, withdrawn>>
userVars     == <<envVars, tokenVars, admitVars, tokenHistory>>

AuthModes  == {"env", "sqlite-fallback", "sqlite"}
TokenNames == {"VoxHF agent token", "Default relay token"}

UsersInit ==
    /\ envUsers = [u \in Names |-> NoSecret] /\ envDefault = NoSecret /\ authMode = "env"
    /\ userRows = [u \in Names |-> "none"] /\ tokenRows = {}
    /\ admitted = {} /\ up = FALSE
    /\ stale = TRUE /\ migrated = {} /\ withdrawn = {}

-----------------------------------------------------------------------------
\* The .env file as pairs of a user and a secret, and listActiveRelayTokenUsers().
Listed        == {<<u, envUsers[u]>> : u \in {v \in Names : envUsers[v] # NoSecret}}
Shared        == {<<DefaultName, s>> : s \in {envDefault} \ {NoSecret}}
DatabaseUsers == {<<r.user, r.secret>> : r \in {t \in tokenRows : userRows[t.user] = "enabled"}}

\* VOXHF_RELAY_USERS may not define the user of VOXHF_RELAY_TOKEN.
Reserved == envDefault # NoSecret /\ envUsers[DefaultName] # NoSecret

\* generateToken().
Generated(s) == /\ \A p \in Listed \cup Shared \cup admitted \cup migrated \cup withdrawn : p[2] # s
                /\ \A r \in tokenRows : r.secret # s

-----------------------------------------------------------------------------
\* relay-user.js: add, rotate and remove write the file's list of users.
WritesUsers(u, s) ==
    /\ envUsers' = [envUsers EXCEPT ![u] = s]
    /\ stale' = TRUE /\ migrated' = {p \in migrated : p[1] # u}
    /\ UNCHANGED <<envDefault, authMode, tokenVars, admitVars, withdrawn>>
EnvAdd(u, s)    == envUsers[u] = NoSecret /\ Generated(s) /\ WritesUsers(u, s)
EnvRotate(u, s) == envUsers[u] # NoSecret /\ Generated(s) /\ WritesUsers(u, s)
EnvRemove(u)    == envUsers[u] # NoSecret /\ WritesUsers(u, NoSecret)

\* The operator edits the shared token or the mode.
EditsDefault(s) ==
    /\ envDefault' = s /\ (s # NoSecret => Generated(s))
    /\ stale' = TRUE /\ migrated' = {p \in migrated : p[1] # DefaultName}
    /\ UNCHANGED <<envUsers, authMode, tokenVars, admitVars, withdrawn>>
EditsMode(m) ==
    /\ authMode' = m /\ stale' = TRUE
    /\ UNCHANGED <<envUsers, envDefault, tokenVars, admitVars, migrated, withdrawn>>

-----------------------------------------------------------------------------
\* Fault: the token that is replaced stays active.
KeepsActive(ts) == {}

\* importRelayUserToken(), for users with the name and secret of a token: the
\* row is enabled, and a secret that is not active replaces the one of its name.
Replaced(ts) == {r \in tokenRows : \E t \in ts : /\ t.user = r.user /\ t.name = r.name
                                                 /\ t \notin tokenRows}
ImportTokens(ts) ==
    /\ userRows' = [u \in Names |-> IF \E t \in ts : t.user = u THEN "enabled" ELSE userRows[u]]
    /\ tokenRows' = (tokenRows \ Replaced(ts)) \cup ts
    /\ stale' = TRUE
    /\ UNCHANGED <<envVars, admitVars>>

\* The history: pairs that a command takes away, and pairs that come back
\* with a user who is enabled again.
Row(u, n, s)  == [user |-> u, name |-> n, secret |-> s]
Pairs(rs)     == {<<r.user, r.secret>> : r \in rs}
RowsOf(us)    == {r \in tokenRows : r.user \in us}
TakesAway(rs) == withdrawn' = withdrawn \cup Pairs(rs)
Touches(u)    == stale' = TRUE /\ migrated' = {p \in migrated : p[1] # u}
NamedAs(ts)     == {r \in tokenRows : \E t \in ts : r.user = t.user /\ r.name = t.name}
AfterImport(ts) == withdrawn' = ((withdrawn \ Pairs(RowsOf({t.user : t \in ts})))
                                    \cup Pairs(NamedAs(ts))) \ Pairs(ts)

\* relay-db-user.js: add and rotate print a new token, of the default name or
\* the one that is asked for.
PrintsToken(u, n, s) ==
    /\ Generated(s) /\ Touches(u)
    /\ ImportTokens({Row(u, n, s)}) /\ AfterImport({Row(u, n, s)})
DbAdd(u, n, s)    == userRows[u] = "none" /\ PrintsToken(u, n, s)
DbRotate(u, n, s) == userRows[u] # "none" /\ PrintsToken(u, n, s)

\* revokeRelayUserTokens(), with the name of the option or its default.
DbRevoke(u, n) ==
    /\ userRows[u] # "none"
    /\ tokenRows' = {r \in tokenRows : ~(r.user = u /\ r.name = n)}
    /\ Touches(u) /\ TakesAway({r \in RowsOf({u}) : r.name = n})
    /\ UNCHANGED <<envVars, userRows, admitVars>>

\* setRelayUserDisabled(): what is enabled again is not withdrawn.
DbDisable(u, disabled) ==
    /\ userRows[u] # "none"
    /\ userRows' = [userRows EXCEPT ![u] = IF disabled THEN "disabled" ELSE "enabled"]
    /\ Touches(u)
    /\ LET his == Pairs(RowsOf({u}))
       IN  withdrawn' = IF disabled THEN withdrawn \cup his ELSE withdrawn \ his
    /\ UNCHANGED <<envVars, tokenRows, admitVars>>

\* deleteRelayUser(): the token rows go with the user's.
DbDelete(u) ==
    /\ userRows[u] # "none"
    /\ userRows' = [userRows EXCEPT ![u] = "none"]
    /\ tokenRows' = tokenRows \ RowsOf({u})
    /\ Touches(u) /\ TakesAway(RowsOf({u}))
    /\ UNCHANGED <<envVars, admitVars>>

\* import-relay-users.js: readRelayUsers(), and each user in turn until all
\* are imported or one cannot be (a busy database).
ReadRelayUsers == {Row(p[1], "VoxHF agent token", p[2]) : p \in Listed}
                     \cup {Row(p[1], "Default relay token", p[2]) : p \in Shared}
ImportUsers(done) ==
    /\ ~Reserved /\ done \subseteq ReadRelayUsers
    /\ ImportTokens(done) /\ AfterImport(done)
    /\ migrated' = migrated \cup Pairs(done)

-----------------------------------------------------------------------------
\* loadRelayUsers(): the sources that the mode names.
LoadRelayUsers == (IF authMode # "env" THEN DatabaseUsers ELSE {})
                     \cup (IF authMode # "sqlite" THEN Listed \cup Shared ELSE {})

\* The relay starts again, or exits at once: the reserved user is defined
\* twice, or nobody could connect.
Starts == /\ ~(authMode # "sqlite" /\ Reserved)
          /\ LoadRelayUsers # {} \/ (authMode # "env" /\ CanBootstrap)
Restarts ==
    /\ up' = Starts /\ admitted' = IF Starts THEN LoadRelayUsers ELSE {}
    /\ stale' = FALSE
    /\ UNCHANGED <<envVars, tokenVars, migrated, withdrawn>>

UsersNext ==
    \/ \E u \in Names, s \in Secrets : EnvAdd(u, s) \/ EnvRotate(u, s)
    \/ \E u \in Names : EnvRemove(u) \/ DbDelete(u)
    \/ \E s \in Secrets \cup {NoSecret} : EditsDefault(s)
    \/ \E m \in AuthModes : EditsMode(m)
    \/ \E u \in Names, n \in TokenNames, s \in Secrets : DbAdd(u, n, s) \/ DbRotate(u, n, s)
    \/ \E u \in Names, n \in TokenNames : DbRevoke(u, n)
    \/ \E u \in Names, disabled \in BOOLEAN : DbDisable(u, disabled)
    \/ \E done \in SUBSET ReadRelayUsers : done # {} /\ ImportUsers(done)
    \/ Restarts

-----------------------------------------------------------------------------
(* Moving from the file to the database neither locks a pilot out nor lets *)
(* a token back in.  A pilot whose token was imported is known to a relay  *)
(* that starts after it in whatever mode, as long as no command changes    *)
(* his token; and a token that a database command replaced, revoked,       *)
(* disabled or deleted opens nothing in the database mode until it is      *)
(* imported or enabled again.                                              *)
MigrationHolds ==
    /\ migrated \subseteq DatabaseUsers
    /\ withdrawn \cap DatabaseUsers = {}
    /\ up /\ ~stale => /\ migrated \subseteq admitted
                       /\ authMode = "sqlite" => admitted \cap withdrawn = {}

UsersSpec == UsersInit /\ [][UsersNext]_userVars
==============================================================================
