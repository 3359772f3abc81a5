---------------------------- MODULE MCRelayServices ----------------------------
(***************************************************************************)
(* A small instance for TLC of the relay and the page's connection to it:  *)
(* routing, accounts, the files of agent tokens, the owner's sign-in,      *)
(* presence, the backup of its database, the sealed tickets it holds for   *)
(* agents, the rules of the messages it passes on, the operator's commands *)
(* on its server, the page's connection, and the radio panels that several *)
(* pages and PilotUI turn at once, each a module of its own.  The modules  *)
(* meet in code that each of them models in full (the end of an account    *)
(* closes sockets in Accounts and removes clients in RelayRouting), and    *)
(* share no variable: a behaviour is a behaviour of the part chosen        *)
(* initially, so that one run explores them all.                           *)
(***************************************************************************)
EXTENDS RelayRouting, Accounts, RelayUsers, OwnerAuth, RelayPresence, RelayBackup, AgentLink,
        RemoteCommands, ServerUpdate, WebLink, Cockpit

-----------------------------------------------------------------------------
VARIABLE part

relayPartVars == <<part, vars, accountVars, userVars, ownerVars, presenceVars, backupVars, linkVars,
                   commandVars, serverVars, pageVars, cockpitVars>>

RelayParts == {"routing", "accounts", "users", "owner", "presence", "backup", "tickets", "messages",
               "server", "link", "cockpit"}

\* What the parts that are not chosen may choose does not matter.
ServicesInit ==
    /\ part \in RelayParts
    /\ AccountInit
    /\ part # "accounts" => otherToken = [u \in Pilots |-> NoToken] /\ envTokens = otherToken
    /\ Init /\ UsersInit /\ OwnerInit /\ BackupInit /\ LinkInit /\ ServerInit
    /\ PresenceInit /\ (part # "presence" => reading = [t \in Topics |-> Unknown])
    /\ CommandsInit /\ (part # "messages" => hasAgent)
    /\ PageInit /\ (part # "link" => mode = "local")
    /\ CockpitInit /\ (part # "cockpit" => simRadio = CHOOSE f \in Tunings : TRUE)

\* The chosen part steps, the others rest.
PartRests(p, v) == IF part = p THEN TRUE ELSE UNCHANGED v

ServicesNext ==
    /\ UNCHANGED part
    /\ PartRests("routing", vars)
    /\ PartRests("accounts", accountVars)
    /\ PartRests("users", userVars)
    /\ PartRests("owner", ownerVars)
    /\ PartRests("presence", presenceVars)
    /\ PartRests("backup", backupVars)
    /\ PartRests("tickets", linkVars)
    /\ PartRests("messages", commandVars)
    /\ PartRests("server", serverVars)
    /\ PartRests("link", pageVars)
    /\ PartRests("cockpit", cockpitVars)
    /\ \/ part = "routing" /\ Next
       \/ part = "accounts" /\ AccountNext
       \/ part = "users" /\ UsersNext
       \/ part = "owner" /\ OwnerNext
       \/ part = "presence" /\ PresenceNext
       \/ part = "backup" /\ BackupNext
       \/ part = "tickets" /\ LinkNext
       \/ part = "messages" /\ CommandsNext
       \/ part = "server" /\ ServerNext
       \/ part = "link" /\ PageNext
       \/ part = "cockpit" /\ CockpitNext

ServicesSpec == ServicesInit /\ [][ServicesNext]_relayPartVars

-----------------------------------------------------------------------------
\* What the relay's database was given holds: moving the tokens from the file to it
\* locks nobody out and lets no token back in, and no transaction is lost wherever a
\* restore of a backup stops.
DatabaseHolds == MigrationHolds /\ AllCommitsKept

\* What a page shows of an agent is true: its state is the agent's own, and an agent
\* that is gone is not offered for longer than two beats.
PresenceHolds == PagesShowAgent /\ SilentAgentsLeave

\* What passes the relay's rules can be used as it is, and what a page asks for over
\* the relay is done as the local proxy does it, or refused.
RemoteWorksAsLocal == ForwardedIsUsable /\ RemoteDoesAsLocal
==============================================================================
