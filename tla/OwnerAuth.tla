----------------------------- MODULE OwnerAuth -----------------------------
(***************************************************************************)
(* The owner account of the relay (admin-api.js, admin-mfa.js and the      *)
(* admin tables of db.js): sign-in, sessions, passkeys and recovery codes. *)
(*                                                                         *)
(* A handler authenticates the session first, then awaits the body, and    *)
(* the WebAuthn library is awaited between the reading of the tables and   *)
(* their change; `waiting' holds the requests between two such steps.      *)
(* Passwords and signatures are right or refused; only what is accepted    *)
(* changes anything.                                                       *)
(***************************************************************************)
EXTENDS Naturals, FiniteSets

CONSTANTS
    OwnerSessions, \* rows of admin_sessions that may exist at a time
    Passkeys,      \* credentials of the owner's authenticators
    Flows,         \* flow tokens
    Nil,           \* no challenge, session or passkey
    MaxCodes,      \* RECOVERY_CODE_COUNT
    MaxAwaiting    \* bound: requests that are awaited at a time

ASSUME OwnerAssumption == MaxCodes \in Nat \ {0} /\ MaxAwaiting \in Nat

VARIABLES
    owner,       \* admin_accounts has its row
    ownerRows,   \* admin_sessions: none, live, expired (or idle) or revoked
    passkeys,    \* admin_passkeys
    codesIssued, \* admin_recovery_codes holds rows
    codesLeft,   \* those that are not used
    challenges,  \* admin_mfa_challenges, by flow token
    awaiting     \* requests between two steps: what is awaited, session, passkey

ownerVars == <<owner, ownerRows, passkeys, codesIssued, codesLeft, challenges, awaiting>>

Authentication   == [purpose |-> "authentication", session |-> Nil]
Registration(s)  == [purpose |-> "registration", session |-> s]
Awaited(what, s, k) == [what |-> what, session |-> s, key |-> k]

OwnerInit ==
    /\ owner = FALSE
    /\ ownerRows = [s \in OwnerSessions |-> "none"]
    /\ passkeys = {} /\ codesIssued = FALSE /\ codesLeft = 0
    /\ challenges = [f \in Flows |-> Nil]
    /\ awaiting = {}

-----------------------------------------------------------------------------
\* createAdminSession() under a new id
NewId(s) == /\ ownerRows[s] = "none"
            /\ \A w \in awaiting : w.session # s
            /\ \A f \in Flows : challenges[f] # Registration(s)
Opens(s) == NewId(s) /\ ownerRows' = [ownerRows EXCEPT ![s] = "live"]

\* revokeAdminSessionById(), revokeOtherAdminSessions(), revokeAllAdminSessions()
RevokedRows(which) ==
    [s \in OwnerSessions |-> IF s \in which /\ ownerRows[s] # "none" THEN "revoked" ELSE ownerRows[s]]

\* createAdminAccount(), getAdminSession()
AccountMade == ~owner /\ owner' = TRUE
LiveSession(s) == ownerRows[s] = "live"

\* createAdminPasskey(), deleteAdminPasskey()
PasskeyCreated(k) == passkeys' = passkeys \cup {k}
PasskeyDeleted(k) == passkeys' = passkeys \ {k}

\* replaceAdminRecoveryCodes(); consumeAdminRecoveryCode() marks one as used.
CodesReplaced == codesIssued' = TRUE /\ codesLeft' = MaxCodes
CodeUsed == codesLeft > 0 /\ codesLeft' = codesLeft - 1

\* A handler starts to await, or goes on.
Awaits(w) == /\ w \notin awaiting /\ Cardinality(awaiting) < MaxAwaiting  \* bound
             /\ awaiting' = awaiting \cup {w}
Resumes(w) == w \in awaiting /\ awaiting' = awaiting \ {w}

\* POST /admin/api/auth/bootstrap
Bootstrap(s) ==
    /\ AccountMade /\ Opens(s)
    /\ UNCHANGED <<passkeys, codesIssued, codesLeft, challenges, awaiting>>

\* POST /admin/api/auth/login: without passkeys the password is enough, ...
PasswordSignIn(s) ==
    /\ owner /\ passkeys = {} /\ Opens(s)
    /\ UNCHANGED <<owner, passkeys, codesIssued, codesLeft, challenges, awaiting>>

\* ... else beginAdminMfaAuthentication() awaits the options of the challenge.
BeginSignIn ==
    /\ owner /\ passkeys # {}
    /\ Awaits(Awaited("sign-in", Nil, Nil))
    /\ UNCHANGED <<owner, ownerRows, passkeys, codesIssued, codesLeft, challenges>>

\* createAdminMfaChallenge() under a new flow token
OffersChallenge(f, c) ==
    /\ challenges[f] = Nil
    /\ challenges' = [challenges EXCEPT ![f] = c]
    /\ UNCHANGED <<owner, ownerRows, passkeys, codesIssued, codesLeft>>

ChallengeSignIn(f) ==
    /\ Resumes(Awaited("sign-in", Nil, Nil))
    /\ OffersChallenge(f, Authentication)

\* consumeAdminMfaChallenge(): used once, whatever comes of it.
Consumes(f, c) == challenges[f] = c /\ challenges' = [challenges EXCEPT ![f] = Nil]

\* POST /admin/api/auth/mfa/passkey up to its await, and its end: the passkey is
\* not read again.
PresentPasskey(f, k) ==
    /\ Consumes(f, Authentication)
    /\ IF k \in passkeys THEN Awaits(Awaited("verify", Nil, k)) ELSE UNCHANGED awaiting
    /\ UNCHANGED <<owner, ownerRows, passkeys, codesIssued, codesLeft>>

PasskeySignIn(k, s) ==
    /\ Resumes(Awaited("verify", Nil, k))
    /\ Opens(s)
    /\ UNCHANGED <<owner, passkeys, codesIssued, codesLeft, challenges>>

\* POST /admin/api/auth/mfa/recovery: a code is used once.
RecoverySignIn(f, s) ==
    /\ Consumes(f, Authentication)
    /\ \/ CodeUsed /\ Opens(s)
       \/ codesLeft = 0 /\ UNCHANGED <<codesLeft, ownerRows>>
    /\ UNCHANGED <<owner, passkeys, codesIssued, awaiting>>

\* clearAdminMfa()
ClearsMfa == /\ passkeys' = {} /\ codesIssued' = FALSE /\ codesLeft' = 0
             /\ challenges' = [f \in Flows |-> Nil]

\* POST /admin/api/auth/recover with the owner token
BreakGlass(s) ==
    /\ owner /\ NewId(s)
    /\ ownerRows' = [RevokedRows(OwnerSessions) EXCEPT ![s] = "live"]
    /\ ClearsMfa
    /\ UNCHANGED <<owner, awaiting>>

\* POST /admin/api/auth/logout and /admin/api/sessions/...
RevokeOwnerSessions(s, which) ==
    /\ LiveSession(s)
    /\ which = OwnerSessions \ {s} \/ \E o \in OwnerSessions : which = {o}
    /\ ownerRows' = RevokedRows(which) /\ ownerRows' # ownerRows
    /\ UNCHANGED <<owner, passkeys, codesIssued, codesLeft, challenges, awaiting>>

SignInStep ==
    \/ \E s \in OwnerSessions : Bootstrap(s) \/ PasswordSignIn(s) \/ BreakGlass(s)
    \/ BeginSignIn
    \/ \E f \in Flows : ChallengeSignIn(f)
    \/ \E f \in Flows, k \in Passkeys : PresentPasskey(f, k)
    \/ \E k \in Passkeys, s \in OwnerSessions : PasskeySignIn(k, s)
    \/ \E f \in Flows, s \in OwnerSessions : RecoverySignIn(f, s)
    \/ \E s \in OwnerSessions, which \in SUBSET OwnerSessions : RevokeOwnerSessions(s, which)

-----------------------------------------------------------------------------
\* Requests that manage the account: the session is authenticated, the body
\* awaited; the password in the body is checked with the tables open.
Manage(s) ==
    /\ LiveSession(s)
    /\ Awaits(Awaited("body", s, Nil))
    /\ UNCHANGED <<owner, ownerRows, passkeys, codesIssued, codesLeft, challenges>>

Body(s) == Resumes(Awaited("body", s, Nil))

\* POST /admin/api/auth/password
ChangeOwnerPassword(s) ==
    /\ Body(s)
    /\ ownerRows' = RevokedRows(OwnerSessions \ {s})
    /\ UNCHANGED <<owner, passkeys, codesIssued, codesLeft, challenges>>

\* .../mfa/passkeys/options: the options are awaited in turn.
AskOptions(s) ==
    /\ Awaited("body", s, Nil) \in awaiting
    /\ awaiting' = (awaiting \ {Awaited("body", s, Nil)}) \cup {Awaited("options", s, Nil)}
    /\ UNCHANGED <<owner, ownerRows, passkeys, codesIssued, codesLeft, challenges>>

OfferRegistration(s, f) ==
    /\ Resumes(Awaited("options", s, Nil))
    /\ OffersChallenge(f, Registration(s))

\* .../mfa/passkeys/complete up to its await
PresentNewPasskey(s, f, k) ==
    /\ Awaited("body", s, Nil) \in awaiting
    /\ Consumes(f, Registration(s))
    /\ awaiting' = (awaiting \ {Awaited("body", s, Nil)})
                       \cup (IF k \in passkeys THEN {} ELSE {Awaited("new passkey", s, k)})
    /\ UNCHANGED <<owner, ownerRows, passkeys, codesIssued, codesLeft>>

\* Fault: the new passkey counts when the handler asks whether MFA was enabled.
AddsThenAsks(s, k) ==
    /\ Resumes(Awaited("new passkey", s, k))
    /\ PasskeyCreated(k)
    /\ UNCHANGED <<owner, ownerRows, codesIssued, codesLeft, challenges>>

\* Its end.  Recovery codes come with the first passkey; one that was added
\* meanwhile is refused by its primary key.
AddPasskey(s, k) ==
    /\ Resumes(Awaited("new passkey", s, k))
    /\ PasskeyCreated(k)
    /\ IF passkeys = {} THEN CodesReplaced
                        ELSE UNCHANGED <<codesIssued, codesLeft>>
    /\ UNCHANGED <<owner, ownerRows, challenges>>

\* .../mfa/recovery-codes/regenerate
RegenerateCodes(s) ==
    /\ Body(s) /\ passkeys # {}
    /\ CodesReplaced
    /\ UNCHANGED <<owner, ownerRows, passkeys, challenges>>

\* .../mfa/disable
DisableMfa(s) ==
    /\ Body(s) /\ ClearsMfa
    /\ ownerRows' = RevokedRows(OwnerSessions \ {s})
    /\ UNCHANGED owner

\* .../mfa/passkeys/<id>/remove: without the last one MFA is off.
RemovePasskey(s, k) ==
    /\ Body(s) /\ k \in passkeys
    /\ IF passkeys = {k} THEN ClearsMfa
       ELSE PasskeyDeleted(k) /\ UNCHANGED <<codesIssued, codesLeft, challenges>>
    /\ UNCHANGED <<owner, ownerRows>>

\* A request is refused: wrong password, invalid answer, connection lost.
RefusedRequest ==
    /\ \E w \in awaiting : awaiting' = awaiting \ {w}
    /\ UNCHANGED <<owner, ownerRows, passkeys, codesIssued, codesLeft, challenges>>

\* Sessions and challenges expire; runDataMaintenance() purges the sessions.
OwnerAges ==
    /\ \/ \E f \in Flows : challenges' = [challenges EXCEPT ![f] = Nil] /\ UNCHANGED ownerRows
       \/ \E s \in OwnerSessions :
              ownerRows[s] = "live" /\ ownerRows' = [ownerRows EXCEPT ![s] = "expired"]
              /\ UNCHANGED challenges
       \/ /\ ownerRows' = [s \in OwnerSessions |-> IF ownerRows[s] = "live" THEN "live" ELSE "none"]
          /\ UNCHANGED challenges
    /\ UNCHANGED <<owner, passkeys, codesIssued, codesLeft, awaiting>>

ManageStep ==
    \/ \E s \in OwnerSessions :
           \/ Manage(s) \/ ChangeOwnerPassword(s) \/ AskOptions(s)
           \/ RegenerateCodes(s) \/ DisableMfa(s)
    \/ \E s \in OwnerSessions, f \in Flows : OfferRegistration(s, f)
    \/ \E s \in OwnerSessions, f \in Flows, k \in Passkeys : PresentNewPasskey(s, f, k)
    \/ \E s \in OwnerSessions, k \in Passkeys : AddPasskey(s, k) \/ RemovePasskey(s, k)
    \/ RefusedRequest
    \/ OwnerAges

OwnerNext == SignInStep \/ ManageStep
OwnerSpec == OwnerInit /\ [][OwnerNext]_ownerVars

-----------------------------------------------------------------------------
\* The owner is never asked for a passkey without having recovery codes to fall
\* back on, and no code is kept for an account without passkeys, however
\* registrations, removals and recoveries overlap their awaits.
PasskeysHaveCodes == passkeys # {} <=> codesIssued
=============================================================================
