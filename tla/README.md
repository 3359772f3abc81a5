# VoxHF in TLA+

VoxHF puts a local Node.js agent (`proxy.js` and `proxy/`) between the Altitude
flight-simulation client and the IVAO network. The agent forwards FSD chat and
TS2 voice, serves a web application (`webapp/`), and optionally connects to a
self-hosted relay (`apps/relay/`) through which remote browsers listen, talk and
receive Push alerts. This directory holds TLA+ models of its parts, the TLC runs
that check them on small instances, and TLAPS proofs for every instance.

Source lines below are relative to the repository.

## 1. Inventory

### Local agent

| component | state | operations | hard behaviour | correct when |
|---|---|---|---|---|
| FSD proxy `proxy/fsd-proxy.js` | current session number, confirmed session number, the two current sockets, record buffer of each connection, pending weather requests | PilotCore connects, IVAO answers, data, close of either socket, chat/weather commands | connections replace each other before their close events arrive; records wait for an endpoint | the current session has an owner, stale events change nothing, records keep their order and never stall |
| flight alerts `proxy.js` | disconnect timer, deadline, generation; online timer and generation; flight session of the watchdog | IVAO connected, FSD closed, timers, end of a push, report from the relay | every push is an await; a reconnect, a second loss or a report may come meanwhile | one alert per lost flight, never while connected, by one path |
| UNICOM reminder `proxy/unicom-timer.js` | timer, generation, shown state | start, cancel, expire | cancel or restart in the turn the timer is due | at most one alert, none after cancel |
| push notifications `proxy/push-notifications.js` | subscriptions in memory and on disk, recent messages | subscribe, unsubscribe, deliver, seal tickets | subscriptions change while a delivery is awaited; the write may fail | no lost subscription |
| remote agent `proxy/remote-agent.js` | relay socket, reconnect and refresh timers, remote TX and its limit | connect, hello, sync watchdog, remote commands, TX frames | reconnects, a batch cut by a lost socket, a restarted relay | the relay holds what the agent means it to hold; a remote command does what the local one does, or is refused |
| Web TX `proxy/web-tx.js` | session seed, one transmission per socket with encoder and queue | start, frame, stop, encoder exit, seed replaced | exit of an old encoder, seed lost while talking | a transmission keeps its session, its owner and its encoder |
| TS2 router and proxy `proxy/ts2-voice-router.js`, `ts2-voice-proxy.js` | endpoints, active route, session bytes, UDP flows, decoders | endpoint wanted, bind, packets, reset | late packets of an old login, half-bound endpoints, old decoders | TX goes where the pilot logged in last, old sound is not heard |
| application state `proxy/app-state.js` | connection flag, plan, weather, stations, radios, messages | updates from FSD and PilotCore | replies for a former plan | weather matches the plan, stations and radios are true |
| pilot bridge, PilotCore `proxy/pilot-bridge.js`, `pilot-core.js` | paired TCP sockets, protocol, frame readers | forward, observe, inject | replaced pairs, frames cut anywhere | the panel shows what the aircraft is on, a command fits the Altitude it is for |
| local web `proxy/local-web-server.js`, `websocket-commands.js` | sockets | commands | socket closes while transmitting | TX ends with its socket |
| updater `scripts/update-local.js` | download, new folder | download, verify, extract, copy | half-way failures, two runs at once | the new folder is whole or absent |

### Relay

| component | state | operations | hard behaviour | correct when |
|---|---|---|---|---|
| watchdog `apps/relay/agent-watchdog.js` | armed entry, staged batches and receipt per device, generation, timers | stage, commit, disarm, agent online and offline, fire and its continuation | timers and sends of an old flight meet a new one | alert with its own live tickets, reported once, never lost |
| routing `apps/relay/index.js` | clients, devices, pairing codes, pairings, selection and TX session of each browser | connect, close, hello, pairing, select, TX, administrative disconnects | an old agent socket closes late; removed clients still deliver; tabs share a pairing | no ghost devices, an ended TX reaches the agent |
| heartbeat and snapshots `apps/relay/index.js` | flag per client, last message per topic | ping, pong, terminate, publish, select | messages of the old socket after the new hello | pages show the agent's state, dead agents leave |
| accounts `account-api.js`, `admin-api.js`, `sessions.js`, `credentials.js`, `db.js` | users, tokens, sessions, codes, invites | HTTP handlers | session read before an awaited body, the process's own copy of the tokens | revoked means disconnected (but for a token the `.env` of `sqlite-fallback` mode lists), a new password ends old sessions |
| owner `admin-api.js`, `admin-mfa.js` | admin sessions, passkeys, recovery codes, challenges | sign in, enrol, remove, recover | awaits between reading and changing | passkeys always have codes to fall back on |
| token tools `scripts/relay-user.js`, `relay-db-user.js`, `import-relay-users.js` | `.env`, tables, what the process loaded | add, rotate, revoke, disable, import, restart | two places of truth | nobody locked out, no token let back in |
| backup `scripts/relay-backup.js` | live file, write-ahead log, copies | backup, restore | power failure at every step | no commit is lost |
| operator `infra/docker/voxhf-server.sh` | checkout, image, container, database, backups | start, update, rollback, backup, restore | failing or interrupted steps | no data lost, a reported rollback is one |
| protocol `packages/protocol/index.js` | none | validate | canonical forms | what passes can be used as it is |

### Web application (`webapp/app.js`)

Its control channel (socket generations, retries, heartbeat, agent selection,
online state), push to talk, composer, private tabs and their order, message
list, weather and UNICOM requests, alert settings, received sound, radio and
transponder panels, and station menus. It is one file of 4381 lines whose
functions share one `state`; the models cut it by the fields they touch.

### How they interact

* FSD proxy -> `proxy.js`: `onConnected` and `onClose({wasConnected})` are
  synchronous calls, so both run in the turn of the socket event.
* `proxy.js` -> remote agent -> relay: `syncAgentWatchdog` turns the flight
  session into disarm, ticket and commit messages on the agent's WebSocket.
* relay -> watchdog: `registerAgent` and `removeClient` report presence; agent
  messages are accepted from the currently announced socket only.
* watchdog -> relay -> remote agent -> `proxy.js`: the receipt of a delivered
  alert cancels the local alert of the same flight session.
* browser -> relay -> agent: commands and microphone frames for the selected
  device; agent -> relay -> browsers: snapshots, updates and received voice.
* FSD proxy -> TS2 router -> Web TX: a VOICE reply asks for an endpoint, packets
  of Altitude's login teach Web TX a session, the end of a flow takes it away.
* PilotBridge -> application state -> pages: observed radio changes; pages ->
  bridge: injected commands.

Node runs one callback at a time, so an action of a model is one callback: from
its event to its end, or to its first `await`; what follows an `await` is
another action. Sockets that are being closed deliver their close event in a
later turn. In the shell and maintenance scripts an action is one command that
can fail or be interrupted.

## 2. Modules

| module | models |
|---|---|
| `AgentWatchdog` | `agent-watchdog.js`, its callers in `index.js`; implements `OfflineNotice` |
| `OfflineNotice` | abstract: what the relay promises a pilot whose agent it watches |
| `UnicomTimer` | `unicom-timer.js` |
| `FsdSession`, `FsdRecords` | connections of `fsd-proxy.js`; the record stream on top of them |
| `FlightAlerts` | alert functions of `proxy.js` with any FSD proxy |
| `FlightSession` | `FsdSession` calling the handlers of `FlightAlerts`; implements `FlightAlerts` |
| `FlightState` | flight plan and weather of `app-state.js`, with the records and commands of `fsd-proxy.js` |
| `WebTx`, `VoiceRouter`, `VoicePath` | `web-tx.js`; the TS2 router and proxy, which call it; the sockets that start and stop transmissions |
| `StreamReaders` | the readers and writers of `ogg-speex.js` and `pilot-core.js` over any cut of the stream |
| `PilotBridge` | `pilot-bridge.js` |
| `PushStore` | `push-notifications.js` |
| `AgentLink` | `remote-agent.js`: tickets of the armed flight, the lossy channel and the relay's answer |
| `LocalUpdate` | `update-local.js` |
| `RelayRouting` | routing and pairing of `index.js` |
| `RelayPresence` | heartbeat, published topics and snapshots |
| `Accounts`, `OwnerAuth` | handlers and tables of pilots and of the owner |
| `RelayUsers` | the token tools and what the process loads |
| `RelayBackup`, `ServerUpdate` | `relay-backup.js`, `voxhf-server.sh` |
| `RemoteCommands` | the protocol's rules; what a page asks, by the local and the remote way |
| `WebLink` | push to talk; the page's control channel, which ends a transmission |
| `WebComposer`, `WebTabs`, `TabDrag`, `ChatList` | drafts, private tabs, their order, the message list |
| `WebRequests`, `WebAlerts`, `WebSound` | what the page waits for, its alert settings, its sound |
| `Cockpit`, `StationMenus` | radio and transponder panels; the station named for a radio |
| `LocalServices`, `MCLocalServices`, `MCRelayServices`, `MCFlight` | bundles of the above, see below |
| `AgentWatchdogProofs`, `FlightAlertsProofs`, `RelayRoutingProofs` | proofs about the module they are named after |
| `FlightSessionProofs` | proofs about `FsdSession`, `FsdRecords` and `FlightSession` |
| `AccountsProofs` | proofs about `Accounts`, `OwnerAuth` and `RelayUsers` |
| `RelayServicesProofs` | proofs about the other parts of `MCRelayServices` |
| `LocalServicesProofs` | proofs about the parts of `LocalServices` |

`VoicePath` extends `VoiceRouter` extends `WebTx`, because their callers make
several calls in one turn; `FsdRecords` extends `FsdSession`.

**Bundles.** `MCRelayServices` (11 parts) and `LocalServices` (14 parts) put
modules that share no variable into one specification (`MCLocalServices` adds the
two readers of streams, which are RECURSIVE, to the latter; `MCFlight` does the same
with `FsdRecords` and `FlightAlerts`): the variable `part` is
chosen initially, that part steps and the others rest. A behaviour of the bundle
is therefore a behaviour of one part, and the state space is the sum of the
parts, not their product. They exist so that one run covers the parts; they
claim nothing about interaction. Where parts do interact, the interaction is in
the module itself (`VoicePath`, `WebLink`, `AgentLink`, `FlightSession`,
`FsdRecords`, `Cockpit`, `RemoteCommands`). A property of a bundle that names
several parts (`DatabaseHolds`, `PresenceHolds`, `RemoteWorksAsLocal`,
`VoicePathHolds`, `WeatherForPlanAndPilot`, `PanelTellsTruth`, `NoTextStrays`,
`TabsAsArranged`, `StreamsReassembled`) is a conjunction of the properties those
modules state and explain.

A definition with the comment `Fault:` belongs to no behaviour: it is a
plausible mistake in the definition that follows it, kept to show that the
properties would notice it. `PROJECT.json` pairs one with each property of a
run; the others break further conjuncts of the merged properties.

### Correspondence

Every definition's source lines are in `PROJECT.json` under `map`. What is not
evident from them:

* **AgentWatchdog.** `timers` is the set of timers that Node still holds,
  `sending` the calls of `fire` that are suspended at `Promise.allSettled`.
  `Fire` is the timer callback up to its await, `SettleSent` and `SettleFailed`
  what follows, `onFired` included. A ticket records the flight it was sealed
  for, which the code cannot see. `noticed` is a history variable that keeps the
  device and the flight of each delivery after fire() has returned; with it
  `OfflineNotice` is instantiated: `watched <- Watched` (the flights of the armed
  entries) and `notices <- Deliveries` (each delivery, how far it came, and how
  often the agent heard of it). A commit is a watch, a disarm the end of one, the
  head of `fire()` the notice, its continuation what becomes of it; staging,
  refused commits and `cleanup()` are stutters. The abstract state does not record
  whose request ended a watch, so it says nothing of a disarm that names another
  flight.
* **FsdSession, FsdRecords.** A member of `Pairs` is one connection of PilotCore
  with its connection to IVAO; `sessionOf` is the number in its closure.
  `EndSession` and `StaleClose` are the two ends of `close()`. A record is its
  number in the stream and the kind `drainRecords` distinguishes.
* **FlightAlerts, FlightSession.** `DeliverAlert` is
  `deliverIvaoDisconnectAlert` up to its await, `PushAccepted`, `PushRefused` and
  `PushThrows` the ways it continues. `FlightSession` instantiates
  `FlightAlerts` with `fsdConnected <- IsConnected` and
  `confirmed <- confirmedIvaoSessionId # 0`.
* **PushStore.** The store's array is a set of subscriptions that carry the order
  in which they were added; `addSubscription` puts a new one first and cuts the
  end off, which are the oldest.
* **RelayRouting.** Sockets are used once; a reconnect is another socket.
  `agentTx` is the last TX message an agent was sent. `Closes` and
  `CloseClients` are `removeClient` after and before the socket's close.
* **RelayPresence.** A reading may be one the relay's validation refuses
  (`Refused`) or one the agent does not send (`Unknown`).
* **AgentLink.** Messages are one channel that loses its tail with the socket;
  the relay's side is the part of `AgentWatchdog` that the agent can influence,
  and it may restart.
* **VoicePath.** An encoder or decoder is an operating-system process: it
  delivers output and its exit after its owner has forgotten it. `epoch` is a
  history variable that dates a decoder.
* **Accounts, OwnerAuth.** better-sqlite3 is synchronous, so a handler is one
  step from the end of its awaited body; the state read before it is kept with
  the request (`changing`, `awaiting`). `Accounts` is in `sqlite` or
  `sqlite-fallback` mode, the two in which the account and administration pages
  run. `envTokens` is the process's `.env`: empty in the first mode; in the second
  `loadRelayUsers()` admits its tokens as well, so a user who was revoked, disabled or
  deleted still connects with the one it lists. `docs/SELF_HOSTING.md:377` describes
  the mode so, for a migration. `Entitled` states it, and the properties about open
  connections are relative to it. A user may have a second active token of another name
  (`otherToken`), which the tools have left and no handler revokes but deletion.
  A browser that gave a token instead of a session (`manual`) is closed by what
  closes its user's clients, not by a rotation by the pilot himself.
* **RemoteCommands.** A text of a payload is good, empty, bad, or loose: what the
  local proxy puts right before it sends it (`Tidied`), a chat text over 1024 bytes or
  a recipient with blanks around it. The page limits neither, so `Asks` has them.
* **PilotBridge.** `excuse` is a history variable: why the last change may not be
  shown. A command may be framed wrongly because the pair it is written to was not
  heard yet ("unheard"), or because a newer connection of PilotUI made the bridge
  forget what it had heard (`forgotten`, finding 6).
* **WebAlerts.** `lost` is a history variable: the last message that reached the relay
  did not reach the agent.
* **RelayUsers.** A command is one step; `migrated` and `withdrawn` are history
  variables: tokens imported and not changed since, and tokens a database
  command took away.
* **RelayBackup, ServerUpdate.** A database is the set of commits it holds; the
  write-ahead log holds those the main file lacks. A step fails or is the last
  before a power failure or Ctrl-C.
* **WebLink.** `chosen` is `remoteSelectedDeviceId`; the relay and its agents are
  external: two FIFO channels and the selection kept for the socket.
* **WebTabs, ChatList, TabDrag.** The drawing is left out but for what it
  decides: the tabs that stand on the page and the row that is in view.
* **Cockpit, StationMenus.** A page shows what it asked for at once; commands
  and reports are on their way in queues; PilotCore knows only a toggle for the
  transponder.

## 3. Runs

| run | question | bounds | states |
|---|---|---|---|
| `watchdog` | do timers, tickets and receipts stay with their flight, is an absence noticed, does a receipt settle, is the promise of `OfflineNotice` kept? | 1 device, 2 flights, 2 batches, 1 subscriber, clock 4, 3 absences | 540,686 |
| `flight` | records around an awaited endpoint, replaced pairs; does a lost session end? alerts under every interleaving | records: 2 pairs, 3 records each, chunks of 2; alerts: 2 flights, 3 closes, clock 7 | 828,628 |
| `fsd_stale` | violation, see findings | 2 pairs | |
| `flight_session` | does the FSD proxy keep to the alerts' environment? | 3 pairs, 2 flights, clock 2 | 1,379,776 |
| `flight_replaced` | violation, see findings | 2 pairs | |
| `relay` | the eleven parts of `MCRelayServices` | see below | 2,365,998 |
| `relay_tabs`, `relay_switch` | violations, see findings | 2 tabs; 2 devices | |
| `services` | the parts of `LocalServices`, and the two readers | see below | 902,788 |
| `bridge` | violation, see findings | 2 pairs, 2 frequencies | |
| `select` | violation, see findings | 2 agents, 2 sockets | |
| `server_update` | violation, see findings | 3 releases, 2 writes, 3 commands | |

What the properties of the two bundles say: open connections, the process's
tokens and the sessions follow the accounts (`Accounts`); no device stands in the relay
without a socket that takes it out again, a late close of an old socket takes
nothing, an ended TX is told to the reachable agent (`RelayRouting`); moving tokens to
the database locks nobody out and lets none back in (`RelayUsers`); passkeys have codes; pages show the agent's state and agents
that are gone leave (`RelayPresence`); a restore loses no commit; the relay is
covered as the agent means it (`AgentLink`); messages are usable and do what the
local way does, or are refused; no update, rollback or restore loses data; a microphone is on
the air only for its press; the page keeps up with flight and selection; panels
settle on what PilotCore is on. On the other side: one alert per reminder;
voice sessions, owners and lamps; subscriptions survive awaited deliveries;
weather belongs to plan and pilot; radio (with the exceptions below) and named station are true; no half
installation; texts and tabs stay where the pilot put them; preferences reach
the agent unless they are lost behind the relay; muted sound is not replayed; streams are reassembled; waiting buttons
are answered; the reading place stays; a talker is not cut off.

**Why the bounds are enough.** Each hazard is a meeting of an old thing and a
new one, and the bounds leave room for both and for a return. The watchdog's
clock has a grace period, a return, a second grace period and the expiry of
tickets and receipts; two flights are needed for one to inherit from the other,
three absences for a timer two flights old. The alerts' clock has the delay,
one retry and the end of the window of one alert while a second is scheduled.
Three pairs give a current session, a replaced one and one that follows a close;
two give records of a replaced session. In the relay two agent sockets are an
agent's old and new connection; the third client reaches `MaxClients`.
One pairing code exists at a time: codes are told apart by their device, and no property
compares two. Two
sessions per pilot are the one that changes the password and the one that must
end; one open socket of a pilot is enough, for no handler of `Accounts` compares two
and the properties speak of each (`Accounts` alone also passes with three, 1,478,008
states); one of its two tokens may stand in the `.env`. Two token secrets are the old and the new one (`RelayUsers` alone also
passes with three, 340,191 states). Three commits and two restores give a
restore over a restore; three releases and three commands an update, a second
one and a rollback. Voice has two hosts, two flows and two logins; the store
three installations, of which two contend for an endpoint. The streams are short
but are cut at every byte; packet sizes are none, one segment, exactly full
segments and more. The page's parts have two agents, one or two peers and enough
messages to pass their limits (`Retained`, `MaxMail`). A constant whose name
begins with `Max` is a bound of the model unless its comment names the source's
limit.

Deadlock checking is off where the program may stop: all pairs, sockets,
commands or messages used up, or the clock at its bound.

**Fairness.** `AgentWatchdog!FairSpec`: the clock, due timers, and the end of
sends, which `fetch` bounds by an `AbortSignal` of ten seconds. Nothing is
assumed of the agent. `FsdRecords!RecordsFairSpec`: Node delivers the close
event of a destroyed socket, and the router settles every endpoint (both
transports listen, one fails, or five seconds pass). In `flight` the alerts' part has
none of these actions enabled. All other properties are safety, and their runs assume
no fairness.

### Findings

1. `fsd_stale`: session numbers are used again after a close, so a late close
   event of an old pair can end its replacement (`proxy/fsd-proxy.js:216`). With
   three pairs TLC shows one more consequence: an older pair whose number is in
   use again may keep input that nothing drains, and its buffer has no limit.
   `NeverStalls` therefore speaks of the pair whose sockets are the current ones.
2. `flight_replaced`: a confirmed session that is replaced by one that never
   reaches IVAO leaves the watchdog armed and schedules no alert
   (`proxy/fsd-proxy.js:218`).
3. `relay_tabs`: after a revocation other tabs of the browser keep watching
   (`apps/relay/index.js:781`).
4. `relay_switch`: confirming a pairing switches the device without ending TX
   (`apps/relay/index.js:749`).
5. `select`: a page that opens its socket before its saved agent is online says
   "Ready" once the agent comes, although the relay refused the selection and is
   not asked again (`webapp/app.js:395`).
6. `bridge`: a new PilotUI connection resets the protocol while commands are still
   written to the older pair, so a command to a pair whose Altitude was heard is framed
   for another version, and the page shows a frequency PilotCore did not take
   (`proxy/pilot-bridge.js:154`).
7. `server_update`: a failed build is ignored and the old container passes the
   health check, so the update reports success (`voxhf-server.sh:155`).

The passing properties of the same modules are stated so that they hold with
these behaviours present. Where a property excuses a case, a history variable or a
conjunct names it and the comment says why:

* `NothingHalfStaged`: a power failure, and two runs at once (`overlapped`);
* `RadioAsShown`: a change that passed unseen, a command to a pair not heard yet, and
  the case of finding 6 (`excuse`), which `CommandFitsHandshake` does not excuse;
* `NoGhostDevices`: a late hello of a client that was removed before its socket had
  closed (`removed`);
* `TxEndReachesAgent`: an agent that is gone or replaced is not reached;
* `PagesShowAgent`: a connection overtaken by a newer one (`overtaken`);
* `PreferencesReachAgent`: a message lost between relay and agent (`lost`): the page
  keeps its signature and does not send it again until a preference is changed or its
  socket replaced;
* `RemoteDoesAsLocal`: what the local proxy puts right, the relay refuses (`PutRight`);
* `ClientsAuthorized`: the tokens of the `.env` in `sqlite-fallback` mode.

Hazards of these exceptions that no other property covers are listed in
`PROJECT.json` with a note.

## 4. Proofs

All theorems have the form `Spec => []Inv`, `Spec => [][A]_vars` or, for a
refinement, `Spec => Abstract!Spec`, for every value of the constants that the
named assumptions admit.

* **AgentWatchdogProofs**: `TypeCorrect`, `TimersNeverStale`,
  `NoInheritedReceipt`, `OwnTicketsOnly`, `ReportsAreTrue`, `StagingStaysBounded`
  and the action properties `WholeGracePeriod`, `DevicesAreIndependent`. The
  invariants are not inductive. The strengthening `IInv` adds that the ids of timers, sends and
  receipts are generations already given out and each is used by one of them
  only, that an entry without timer has no generation, that staged batches carry
  tickets of their own flight, and that a reported delivery has no receipt left.
  It was checked by TLC before it was proved. `DueAfterGrace` ties a timer to
  the time its device was dropped, because a device that has a timer cannot be
  dropped again; `Limits` adds that what is staged is finite, which `Cardinality`
  needs. `WatchdogKeepsPromise` is the refinement of `OfflineNotice`, one lemma for
  each action. It rests on `IInv`, on `DueAfterGrace` and on `NoticesKnown`: the
  generation of a pending timer is a notice not yet given, and a delivery or a
  receipt belongs to the device and the flight that its generation was given for.
  Since generations are never used again, one notice changes in each step.
* **FlightAlertsProofs**: `TypeCorrect`, `AlertPathsExclusive`,
  `AlertHasOneCarrier`, `LostFlightAlertedOnce` and the action properties
  `AlertsKeepToWindow`, `AlertsEndForAReason`, `OnlineAlertEarned`. The first
  ones need each other, so `IInv` joins them: a pending alert has one timer or
  push of the current generation (`CarrierInv`), nothing is pending while a
  confirmed session lasts (`PathInv`), the window is counted from the loss and
  the carrier is late enough for it (`WindowInv`), and whoever may still announce
  a flight is alone with it (`OnceInv`). The old generations stay in the
  invariant: a push may be answered long after its alert was cancelled.
  `OnlineInv` does the same for the timers of the online alert.
* **FlightSessionProofs**: of the FSD proxy alone, `TypeCorrect`,
  `CurrentSessionHasOwner`, `NoHalfOpenPair`; the strengthening says that exactly
  the opened pairs have a session number. Neither needs the numbers to be unique,
  which they are not. Of the composition, `AlertsAreImplemented`: every socket
  event maps to a step of the alerts' environment or to a stutter, so `FlightSpec`
  implements `FlightAlerts!Spec`. Thereby the alerts' invariant, proved for any
  FSD proxy, holds with this one, which gives `NothingPendingWhileConnected`.
* **RelayRoutingProofs**: `TypeCorrect`, `NoGhosts`, and the action properties
  `PairingCostsCode`, `OldSocketsCloseAlone`, `EndedTxStopsAgent`. The
  strengthening says that whoever can still deliver a message is a client or was
  removed early; the lemmas `RemoveLeaves` and `StopTells` say what
  `removeClient` leaves in the map and whom `stopBrowserTx` reaches. The
  theorems hold for any number of accounts with any device and browser ids,
  which is how the separation of accounts is covered.

* **FlightSessionProofs**, of `FsdRecords`: `RecordsKeepSessions` (its steps are
  steps of `FsdSession` or stutters, so what is proved of the sessions holds),
  `RecordsStayInOrder` and `SessionsNeverStall`. The invariant drops the session
  number from both properties, because a number that is used again would make
  them true of a pair once more: while both sockets of a pair are open, its
  records are in order and complete (`InOrder`), whether or not the pair is
  current; what the current pair holds back, a reply waits for (`Waits`).
  `drainRecords` is a loop in the code and a split at the first VOICE reply in
  the model; that there is a first one is well-founded induction over positions,
  from the library. The run has two pairs, the theorem any number.
* **AccountsProofs**: `AccessIsAuthorized`, which joins `ConnectionsAuthorized` and
  `ProcessFollowsTables`, and `SessionsEndWithPassword` (`Accounts`), `RecoveryCodesWithPasskeys` (`OwnerAuth`),
  `MigrationIsSafe` (`RelayUsers`). They are nearly inductive. `Accounts` needs
  that a name without a row has no pairings and no token in the tables, and that the pairings of a disabled
  user are the same in the tables and in memory, or he could not be enabled
  again. `OwnerAuth` needs nothing of what is awaited, since each handler asks
  for the passkeys again when it goes on. `RelayUsers` needs that no two tokens
  share a secret, wherever they are kept, and that what was imported is still in
  the file; most of the proof is about what one import leaves in the tables.
* **RelayServicesProofs**: `RestoreLosesNothing` (`RestoreInOrder`: at which step
  a restore is decides what is left in the log, the copy and the retired files),
  `ServerCommandsKeepData` (`CommandAtStep`, `RollbackInOrder`),
  `TransmitsWhileHeld` (`AskingIsForThePress`: one capture waits for each press),
  `PageFollowsLink` (`ChoiceIsOnItsWay`), `PresenceIsTrue` (`TopicKept`: the last
  message of a topic on its way carries the agent's state, or the relay and its
  pages show it), `PanelsFollowRadio` (`LabelFollows`, `ModeFollows`: the same of
  each page's queues), `EntryMatchesFlight` (`EntryFollows`: the tail of the
  channel, with what an open batch has taken, sends the flight's tickets),
  `RelayedIsDoneAsLocal` (`CommandIInv`: where the message is on its way, and what
  the relay, the agent and the two proxies have made of it until then; lemmas such
  as `ShapedIsClean` and `AsksAreCarried` say that a message the protocol's rules
  have rebuilt passes them again and means the same to both proxies). TLC looks at
  the forms of messages of one small instance; the theorem holds for any payloads
  and lists.
* **LocalServicesProofs**: `TypeCorrect`, `TimerMatchesState`, `AlertsAtMostOnce`
  (the handle of a shown reminder is its generation, and later generations have
  not alerted); `VoiceFollowsLogin` and `ExitEndsItsOwn` (encoders and decoders
  outlive what started them, so the invariant speaks of every process);
  `SubscriptionsAreKept` (no two browsers want one endpoint, and every stored
  subscription is the last of its owner); `WeatherIsRight` (what is owed to the
  chat is at most what waits in the list; a reply takes one request out, which
  the lemma `CountAfter` counts); `FrequencyIsTrue`, `MenusAreTrue` and
  `PageShowsAnswers` (queues again); `StagedWholeOrNotAtAll`, `TextsStayInPlace`,
  `PreferencesArrive`, `UnmutingReplaysNothing`, `ClosedTabsStayClosed` and
  `DragsAreHarmless` (a move permutes the layout: `MoveArranges`);
  `ReadersAreLeftAlone` (`PlaceOnTop`: the row the pilot scrolled to stands at the
  top of the view until the view is at the end of the list). The rows are a filter
  of positions, not a `SelectSeq`, whose recursion would be in the way.
* `DatabaseIsKept`, `ServicesKeepPromises`, `TabsStayArranged`, `PanelIsTrue`
  and `PartsKeepPromises` say the same of the bundles. They rest on a lemma
  `PartsBehave` in each of the two modules: a behaviour of the bundle is, for
  each part, a behaviour of that part's specification.

**Queues.** Several invariants say what a queue of messages will have done once
it is handled. A fold over the queue would need induction; instead they say which
message is the last of its kind (`LastWord`, `LastOf`, `LastWave`), or that there
is a chain of states, one for each position, that the messages lead along
(`Leads` in `LocalServicesProofs`). For it three lemmas suffice: the empty queue leads
nowhere, one more message extends the chain at its end, and taking the first
one shortens it at its beginning.

**Assumptions.** What the named assumptions ask is that a bound is a natural
number, that a value that stands for none is none of those it is told from, and
that the page's filters, the topics, the relay's agents and the subscribers are
finitely many, and that the view of the message list has room for a row.
TLC evaluates them in the runs. No theorem assumes how many sockets, users,
tabs or messages there are.

Some proved properties were once runs as well and are no longer: the types,
`NoReceiptWhileArmed`, `ReportedOnceAndOnlyIfAccepted` (the `watchdog` run has it
within `PromiseKept`), `StagingBounded`, `GraceRespected`, `DevicesIndependent`,
`RunningIffPending`, `PushesInWindow`, `OnlineEarned`, `OneCarrier`,
`SessionHasOwner`, `PairsCloseTogether`, `PairingUsesCode`,
`PendingOnlyWhileAway`. Their theorems say more than a run could, and the runs
are kept for what is not proved.

Only model-checked are:

* the liveness properties (`OfflineIsNoticed`, `ReceiptsSettle`,
  `LostSessionsEnd`): fairness and ENABLED are out of the prover's reach;
* `StreamsReassembled`: the readers of `StreamReaders` are recursions over data, and
  what they compute would be proved by induction over it. It is the only module with
  RECURSIVE operators; no module with a theorem reaches it;
* the violations.

## 5. Plan

What is promised of a lost flight is stated and proved for the relay
(`OfflineNotice`) and for the agent (`FlightAlerts`) separately. Left is the promise
across both machines: an abstract `OfflineAlert` with the composition of
`FlightAlerts`, `AgentLink` and `AgentWatchdog` checked against it and the
refinement proved. Also left are action properties that no theorem states (that a
revocation reaches every socket of the user in the step that makes it, that an old
endpoint never takes Web TX back).

## 6. Not modelled

* Audio signal processing, Speex, the contents of TS2 packets beyond their
  session, rendering, themes and log views: no decision that another part
  depends on.
* FSD text parsing, weather formatting, `config.js`, tracing and diagnostics:
  pure functions or start-up, with unit tests in the repository.
* Cryptography (passwords, WebAuthn signatures, Web Push encryption) and SQL: a
  secret is right or refused, a table is a set.
* The relay's and the local server's rate windows, and the caps on
  HTTP requests: fixed counters that reset with time; one hazard about them is
  listed without a property.
* `webapp/auth.js`, `account.js`, `site.js`, `sw.js` and `apps/relay/admin.js`:
  forms over the handlers that `Accounts` and `OwnerAuth` model.
* `scripts/check.js`, the tests, release tooling and the documents: read for
  what the program promises.

`PROJECT.json` lists every component with its status, and the hazards with the
properties that watch them.
