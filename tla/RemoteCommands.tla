---------------------------- MODULE RemoteCommands ----------------------------
(***************************************************************************)
(* The relay's protocol and what it carries.  The rules                    *)
(* (packages/protocol/index.js): which source may send which message, what *)
(* its payload must be, and the canonical form in which the relay passes   *)
(* it on; the agent applies the same rules to what the relay forwards, the *)
(* page uses it as it is.  The commands: what a page asks of the proxy, on *)
(* the two ways it may take, straight to the local proxy                   *)
(* (websocket-commands.js) or as a message through the relay to the        *)
(* agent's own dispatcher (remote-agent.js).                               *)
(*                                                                         *)
(* A value is a text that is good for its field, bad, empty, or loose:     *)
(* good once it is cut to its length or trimmed; null; an object; or a     *)
(* list.  What makes a text good is left out.                              *)
(***************************************************************************)
EXTENDS Naturals, Sequences, SequencesExt, FiniteSets

CONSTANT MaxItems   \* items of a list: 50 messages, 250 stations

Text(class, value) == [tag |-> "text", class |-> class, value |-> value]
Object(f)    == [tag |-> "object", fields |-> f]
Items(list)  == [tag |-> "list", items |-> list]
Null         == [tag |-> "null"]
Refusal      == [tag |-> "refused"]

Good(value) == Text("good", value)
Bad == Text("bad", "")
Loose(value) == Text("loose", value)
Empty == Text("empty", "")
True == Good("true")
False == Good("false")
IsGood(v) == v.tag = "text" /\ v.class = "good"
GoodOrEmpty(v) == IsGood(v) \/ v = Empty
NoFields == [x \in {} |-> Null]
Field(name, v) == [x \in {name} |-> v]
f ++ g == [x \in DOMAIN f \cup DOMAIN g |-> IF x \in DOMAIN f THEN f[x] ELSE g[x]]

-----------------------------------------------------------------------------
(***************************************************************************)
(* Types                                                                   *)
(***************************************************************************)
BareTypes == {"ping", "pong", "device.list", "chat.history.request", "xpdr.ident", "unicom.timer.start",
              "unicom.timer.cancel", "tx.stop", "monitor.stop"}

\* Required and optional fields, and those that may be empty texts.
Shape(req, opt, blank) == [req |-> req, opt |-> opt, blank |-> blank]
ChatShape == Shape({"sender", "recipient", "text", "timestamp"}, {"direction", "messageId"}, {})
TicketShape == Shape({"deviceId", "endpoint", "expiresAt", "authorization", "contentEncoding", "body"}, {}, {})
ShapedTypes ==
    BareTypes \cup {"device.select", "device.state", "pairing.begin", "pairing.code", "pairing.confirm",
                    "pairing.revoke", "pairing.revoked", "relay.identity", "relay.error", "agent.hello",
                    "agent.status", "radio.set", "radio.state", "chat.send", "chat.message",
                    "notification.subscribe", "notification.unsubscribe", "notification.state",
                    "agent.watchdog.commit", "agent.watchdog.disarm", "agent.watchdog.fired",
                    "unicom.timer.expired", "weather.request", "atis.request", "xpdr.setSquawk",
                    "xpdr.setMode", "tx.start", "monitor.start"}
ShapeOf == [t \in ShapedTypes |->
    CASE t \in BareTypes -> Shape({}, {}, {})
      [] t \in {"device.select", "pairing.revoke", "pairing.revoked"} -> Shape({"deviceId"}, {}, {})
      [] t = "device.state" -> Shape({"deviceId", "deviceName", "online"}, {"agentVersion"}, {})
      [] t = "pairing.begin" -> Shape({"deviceName"}, {"agentVersion"}, {})
      [] t = "pairing.code" -> Shape({"code", "expiresAt"}, {}, {})
      [] t = "pairing.confirm" -> Shape({"code"}, {}, {})
      [] t = "relay.identity" -> Shape({"userId"}, {"userName", "relayVersion", "recommendedAgentVersion",
                                                    "minimumAgentVersion", "downloadUrl"}, {})
      [] t = "relay.error" -> Shape({"code", "message"}, {}, {})
      [] t = "agent.hello" -> Shape({"deviceName"}, {"deviceId", "agentVersion"}, {})
      [] t = "agent.status" -> Shape({"connected"}, {"callsign", "flightPlanStatus", "webTxEnabled", "txReady",
                                                     "txSampleRate", "squawk", "xpdrMode", "agentVersion"}, {})
      [] t = "radio.set" -> Shape({"com", "freq"}, {"station"}, {"station"})
      [] t = "radio.state" -> Shape({"com1", "com2"}, {"station1", "station2"}, {"station1", "station2"})
      [] t = "chat.send" -> Shape({"recipient", "text"}, {}, {})
      [] t = "chat.message" -> ChatShape
      [] t = "notification.subscribe" -> Shape({"endpoint", "p256dh", "auth", "deviceId", "deviceName", "appUrl"},
                                               {"notifyIvaoConnected", "notifyAgentOffline"}, {})
      [] t = "notification.unsubscribe" -> Shape({"endpoint"}, {}, {})
      [] t = "notification.state" -> Shape({"available", "vapidPublicKey", "subscriptionCount"}, {}, {})
      [] t = "agent.watchdog.commit" -> Shape({"sessionId", "batchId"}, {}, {})
      [] t \in {"agent.watchdog.disarm", "agent.watchdog.fired"} -> Shape({"sessionId"}, {}, {})
      [] t = "unicom.timer.expired" -> Shape({"expiredAt"}, {}, {})
      [] t = "weather.request" -> Shape({"kind", "icao"}, {"source", "role"}, {})
      [] t = "atis.request" -> Shape({"callsign"}, {}, {"callsign"})
      [] t = "xpdr.setSquawk" -> Shape({"code"}, {}, {})
      [] t = "xpdr.setMode" -> Shape({"mode"}, {}, {})
      [] t \in {"tx.start", "monitor.start"} -> Shape({"com"}, {}, {})]

AgentTypes == {"pairing.begin", "agent.hello", "agent.status", "radio.state", "stations.state", "weather.state",
               "chat.message", "chat.history", "notification.state", "agent.watchdog.ticket",
               "agent.watchdog.commit", "agent.watchdog.disarm", "unicom.timer.state", "unicom.timer.expired"}
RelayTypes == {"device.state", "pairing.code", "pairing.revoked", "relay.identity", "relay.error",
               "agent.watchdog.fired"}
Types == ShapedTypes \cup AgentTypes
\* SOURCE_RULES; the rest is the browser's.
SourcesOf(type) ==
    IF type \in {"ping", "pong"} THEN {"browser", "agent", "relay"}
    ELSE IF type \in AgentTypes THEN {"agent"}
    ELSE IF type \in RelayTypes THEN {"relay"} ELSE {"browser"}

-----------------------------------------------------------------------------
(***************************************************************************)
(* Validators: the canonical value, or Refusal                             *)
(***************************************************************************)
Only(v, names) == v.tag = "object" /\ DOMAIN v.fields \subseteq names
Has(v, name) == name \in DOMAIN v.fields
\* v.name || default
Or(v, name, default) == IF Has(v, name) /\ v.fields[name] \notin {Empty, Null} THEN v.fields[name] ELSE default
AllGood(v, names) == \A n \in names : Has(v, n) /\ IsGood(v.fields[n])
\* Every field is good, or empty where that is allowed.
NoneBad(v, blank) == \A n \in DOMAIN v.fields : IsGood(v.fields[n]) \/ (n \in blank /\ v.fields[n] = Empty)
NoneBadText(v) == NoneBad(v, DOMAIN v.fields)

RequireShape(v, shape) ==
    IF /\ Only(v, shape.req \cup shape.opt) /\ shape.req \subseteq DOMAIN v.fields
       /\ NoneBad(v, shape.blank)
    THEN v ELSE Refusal

\* A list with the results of its items: one that fails refuses the list.
EachItem(v, results) ==
    IF v.tag # "list" \/ Len(v.items) > MaxItems \/ Refusal \in ToSet(results)
    THEN Refusal ELSE Items(results)

ValidateChatHistory(v) ==
    IF ~Only(v, {"messages"}) \/ ~Has(v, "messages") THEN Refusal
    ELSE LET list == v.fields["messages"]
             messages == EachItem(list, [i \in DOMAIN list.items |-> RequireShape(list.items[i], ChatShape)])
         IN  IF messages = Refusal THEN Refusal ELSE Object(Field("messages", messages))

ValidateUnicomTimerState(v) ==
    IF ~Only(v, {"active", "startedAt", "expiresAt"}) \/ ~Has(v, "active") THEN Refusal
    ELSE IF v.fields["active"] = False
         THEN IF DOMAIN v.fields = {"active"} THEN v ELSE Refusal
         ELSE IF v.fields["active"] = True /\ AllGood(v, {"startedAt", "expiresAt"}) THEN v ELSE Refusal

ValidateAgentWatchdogTicket(v) ==
    IF /\ Only(v, {"sessionId", "batchId", "ticket"}) /\ AllGood(v, {"sessionId", "batchId"})
       /\ Has(v, "ticket") /\ RequireShape(v.fields["ticket"], TicketShape) # Refusal
    THEN v ELSE Refusal

NormalizeStationSnapshot(s) ==
    IF /\ Only(s, {"callsign", "freq", "lat", "lon", "voice"}) /\ AllGood(s, {"callsign"})
       /\ NoneBad(s, {"freq", "voice"})
    THEN Object(Field("freq", Or(s, "freq", Empty)) ++ s.fields)
    ELSE Refusal

ValidateStationsState(v) ==
    IF ~Only(v, {"stations", "ownPosition"}) \/ ~Has(v, "stations") THEN Refusal
    ELSE LET list == v.fields["stations"]
             stations == EachItem(list, [i \in DOMAIN list.items |-> NormalizeStationSnapshot(list.items[i])])
             own == IF Has(v, "ownPosition") THEN v.fields["ownPosition"] ELSE Null IN
         IF stations = Refusal THEN Refusal
         ELSE IF own = Null THEN Object(Field("stations", stations))
         ELSE IF own.tag = "object" /\ AllGood(own, {"lat", "lon"})
         THEN Object(Field("stations", stations) ++ Field("ownPosition", Object([n \in {"lat", "lon"} |-> own.fields[n]])))
         ELSE Refusal

NormalizeFlightPlanSnapshot(v) ==
    LET names == {"departure", "destination", "alternate"}
    IN  IF Only(v, names) /\ NoneBadText(v)
        THEN Object([n \in names |-> Or(v, n, Empty)]) ELSE Refusal

NormalizeWeatherEntry(v) ==
    IF v = Null THEN Null
    ELSE IF /\ Only(v, {"text", "receivedAt", "source"}) /\ AllGood(v, {"receivedAt"})
            /\ Has(v, "text") /\ NoneBadText(v)
         THEN Object([n \in {"text", "receivedAt", "source"} |-> Or(v, n, Empty)]) ELSE Refusal

\* Fault: what is missing stays missing.
SlotAsItIs(v) ==
    IF Only(v, {"icao", "metar", "taf"}) /\ GoodOrEmpty(Or(v, "icao", Empty)) THEN v ELSE Refusal

NormalizeWeatherSlot(v) ==
    IF ~Only(v, {"icao", "metar", "taf"}) \/ ~GoodOrEmpty(Or(v, "icao", Empty)) THEN Refusal
    ELSE LET entry(n) == NormalizeWeatherEntry(Or(v, n, Null))
         IN  IF Refusal \in {entry("metar"), entry("taf")} THEN Refusal
             ELSE Object(Field("icao", Or(v, "icao", Empty)) ++ [n \in {"metar", "taf"} |-> entry(n)])

NormalizeWeatherSnapshot(v) ==
    LET names == {"departure", "destination"}
        slots == [n \in names |-> NormalizeWeatherSlot(Or(v, n, Object(NoFields)))]
    IN  IF ~Only(v, names) \/ (\E n \in names : slots[n] = Refusal) THEN Refusal ELSE Object(slots)

ValidateWeatherState(v) ==
    LET flightPlan == NormalizeFlightPlanSnapshot(Or(v, "flightPlan", Object(NoFields)))
        weather == NormalizeWeatherSnapshot(Or(v, "weatherState", Object(NoFields)))
    IN  IF /\ Only(v, {"flightPlanStatus", "flightPlan", "weatherState"}) /\ AllGood(v, {"flightPlanStatus"})
           /\ Refusal \notin {flightPlan, weather}
        THEN Object(Field("flightPlanStatus", v.fields["flightPlanStatus"]) ++ Field("flightPlan", flightPlan) ++ Field("weatherState", weather))
        ELSE Refusal

ValidatePayload(type, v) ==
    CASE type \in ShapedTypes -> RequireShape(v, ShapeOf[type])
      [] type = "stations.state" -> ValidateStationsState(v)
      [] type = "weather.state" -> ValidateWeatherState(v)
      [] type = "chat.history" -> ValidateChatHistory(v)
      [] type = "agent.watchdog.ticket" -> ValidateAgentWatchdogTicket(v)
      [] type = "unicom.timer.state" -> ValidateUnicomTimerState(v)

\* The relay names the source of what it validates, the agent does not.
ValidateRemoteMessage(m, sources) ==
    IF SourcesOf(m.type) \cap sources = {} THEN Refusal ELSE ValidatePayload(m.type, m.payload)

-----------------------------------------------------------------------------
(***************************************************************************)
(* What may be sent: a whole payload, with any of its optional fields, and *)
(* with one field bad, empty, missing or unknown.                          *)
(***************************************************************************)
Full(names) == [n \in names |-> Good(n)]
Variants(f) ==
    {f} \cup {[f EXCEPT ![n] = v] : n \in DOMAIN f, v \in {Bad, Empty}}
        \cup {[n \in DOMAIN f \ {m} |-> f[n]] : m \in DOMAIN f}
        \cup {f ++ Field("unknown", Good(""))}
Shaped(shape) == UNION {Variants(Full(shape.req \cup o)) : o \in {{}, shape.opt} \cup {{n} : n \in shape.opt}}
Objects(fs) == {Object(f) : f \in fs}

Entries == {Null} \cup Objects(Variants(Full({"text", "receivedAt"})))
Slots == Objects({NoFields, Full({"icao"}), Field("icao", Bad)}
                 \cup {Full({"icao"}) ++ Field("metar", e) ++ Field("taf", Null) : e \in Entries})
Stations == Objects(Shaped(Shape({"callsign"}, {"freq", "lat", "voice"}, {})))
Lists(items) == {Items(<<>>)} \cup {Items([i \in 1..n |-> item]) : n \in 1..(MaxItems + 1), item \in items}

Payloads(type) ==
    CASE type \in ShapedTypes -> Objects(Shaped(ShapeOf[type]))
      [] type = "stations.state" ->
           Objects({Field("stations", l) : l \in Lists(Stations)}
                   \cup {Field("stations", Items(<<>>)) ++ Field("ownPosition", Object(f)) : f \in Variants(Full({"lat", "lon"}))})
      [] type = "weather.state" ->
           Objects({Full({"flightPlanStatus"})}
                   \cup {Full({"flightPlanStatus"}) ++ Field("flightPlan", Object(f))
                             : f \in Variants(Full({"departure", "destination"}))}
                   \cup {Full({"flightPlanStatus"}) ++ Field("weatherState", Object(Field("departure", s))) : s \in Slots})
      [] type = "chat.history" -> Objects({Field("messages", l) : l \in Lists(Objects(Shaped(ChatShape)))})
      [] type = "agent.watchdog.ticket" ->
           Objects({Full({"sessionId", "batchId"}) ++ Field("ticket", t) : t \in Objects(Shaped(TicketShape))})
      [] type = "unicom.timer.state" ->
           Objects({Field("active", False)} \cup {Field("active", False) ++ Full({"startedAt"})}
                   \cup {Field("active", True) ++ f : f \in Variants(Full({"startedAt", "expiresAt"}))})

-----------------------------------------------------------------------------
VARIABLES
    message,        \* what a browser or an agent sent
    forwarded,      \* what the relay made of it
    applied         \* what the agent made of that

messageVars == <<message, forwarded, applied>>
NoMessage == [type |-> "none"]

RulesInit == message = NoMessage /\ forwarded = Null /\ applied = Null

Sent(type, source, payload) ==
    /\ message = NoMessage
    /\ message' = [type |-> type, source |-> source, payload |-> payload]
    /\ UNCHANGED <<forwarded, applied>>

\* parseRemoteJson() of the relay
RelayParses ==
    /\ message # NoMessage /\ forwarded = Null
    /\ forwarded' = ValidateRemoteMessage(message, {message.source})
    /\ UNCHANGED <<message, applied>>

\* parseRemoteJson() of the agent
AgentParses ==
    /\ forwarded \notin {Null, Refusal} /\ message.source = "browser" /\ applied = Null
    /\ applied' = ValidateRemoteMessage([message EXCEPT !.payload = forwarded], {"browser", "agent", "relay"})
    /\ UNCHANGED <<message, forwarded>>

-----------------------------------------------------------------------------
\* The commands: what the page asked for, and the call the agent makes of it.
Ask(action, fields) == [action |-> action, fields |-> fields]
Call(name, args) == [call |-> name, args |-> args]
NoAsk == Ask("", NoFields)
NoCall == Call("", <<>>)
Com(n) == IF n = 2 THEN Good("2") ELSE Good("1")
FieldOr(f, name, default) == IF name \in DOMAIN f THEN f[name] ELSE default

\* The send({ action: ... }) of the page, with what each call site puts in it: what
\* the pilot types of a message, its recipient and an ATIS station is not checked.
BareActions == {"ping", "unicom_timer_start", "unicom_timer_cancel", "sim_ident", "voice_tx_stop",
                "voice_tx_monitor_start", "test_audio", "remote_pairing_renew"}
Tuned == {Full({"freq", "station"}), [Full({"freq", "station"}) EXCEPT !["station"] = Empty]}
Asks ==
    {Ask(a, NoFields) : a \in BareActions}
    \cup {Ask(a, f) : a \in {"sim_com1", "sim_com2"}, f \in Tuned}
    \cup {Ask("weather_request", Full(n)) : n \in {{"kind", "icao"}, {"kind", "icao", "source", "role"}}}
    \cup {Ask("voice_tx_start", Field("com", Com(n))) : n \in {1, 2}}
    \cup {Ask("send_message", f) :
              f \in [recipient : {Good("recipient"), Loose("recipient"), Bad}, text : {Good("text"), Loose("text")}]}
    \cup {Ask("atis_request", Field("callsign", c)) : c \in {Good("callsign"), Bad}}
    \cup {Ask("sim_squawk", Full({"code"})), Ask("sim_xpdr", Full({"mode"})),
          Ask("notification_unsubscribe", Full({"endpoint"})),
          Ask("notification_subscribe",
              Full(ShapeOf["notification.subscribe"].req \cup ShapeOf["notification.subscribe"].opt))}

\* sendRemoteAction(): what is local only, or unknown, sends nothing.
SendRemoteAction(a) ==
    LET f == a.fields
        Message(type, names) ==
            [type |-> type, source |-> "browser", payload |-> Object([n \in names \cap DOMAIN f |-> f[n]])]
    IN  CASE a.action = "ping" -> Message("ping", {})
          [] a.action = "notification_subscribe" -> Message("notification.subscribe", DOMAIN f)
          [] a.action = "notification_unsubscribe" -> Message("notification.unsubscribe", {"endpoint"})
          [] a.action = "unicom_timer_start" -> Message("unicom.timer.start", {})
          [] a.action = "unicom_timer_cancel" -> Message("unicom.timer.cancel", {})
          [] a.action \in {"sim_com1", "sim_com2"} ->
               [type |-> "radio.set", source |-> "browser",
                payload |-> Object(Field("com", Com(IF a.action = "sim_com2" THEN 2 ELSE 1))
                                   ++ Field("freq", f["freq"]) ++ Field("station", f["station"]))]
          [] a.action = "send_message" -> Message("chat.send", {"recipient", "text"})
          [] a.action = "weather_request" -> Message("weather.request", {"kind", "icao", "source", "role"})
          [] a.action = "atis_request" -> Message("atis.request", {"callsign"})
          [] a.action = "sim_squawk" -> Message("xpdr.setSquawk", {"code"})
          [] a.action = "sim_xpdr" -> Message("xpdr.setMode", {"mode"})
          [] a.action = "sim_ident" -> Message("xpdr.ident", {})
          [] a.action = "voice_tx_start" -> Message("tx.start", {"com"})
          [] a.action = "voice_tx_stop" -> Message("tx.stop", {})
          [] OTHER -> NoMessage

\* BROWSER_TO_AGENT_TYPES, what the relay's router passes on.
BrowserToAgentTypes ==
    {"radio.set", "chat.send", "chat.history.request", "notification.subscribe", "notification.unsubscribe",
     "unicom.timer.start", "unicom.timer.cancel", "weather.request", "atis.request", "xpdr.setSquawk",
     "xpdr.setMode", "xpdr.ident", "tx.start", "tx.stop", "monitor.start", "monitor.stop"}

\* normalizeFsdRecipient() trims, normalizeFsdText() cuts at 1024 bytes.
Tidied(v) == IF v.class = "loose" THEN Good(v.value) ELSE v

\* sendChatCommand() and sendAtisRequest(), which both ways end in: nothing is sent
\* to a recipient or a station that is none.
SendChatCommand(f) ==
    IF IsGood(Tidied(f["recipient"]))
    THEN Call("sendChatCommand", <<Tidied(f["recipient"]), Tidied(f["text"])>>) ELSE NoCall
SendAtisRequest(f) ==
    IF IsGood(f["callsign"]) THEN Call("sendAtisRequest", <<f["callsign"]>>) ELSE NoCall

\* handleWebCommand() of the local proxy
HandleWebCommand(a) ==
    LET f == a.fields IN
    CASE a.action = "test_audio" -> Call("sendTestTone", <<>>)
      [] a.action = "voice_tx_start" -> Call("startWebTx", <<f["com"]>>)
      [] a.action = "voice_tx_monitor_start" -> Call("startMonitor", <<>>)
      [] a.action = "voice_tx_stop" -> Call("stopWebTx", <<>>)
      [] a.action = "remote_pairing_renew" -> Call("renewPairingCode", <<>>)
      [] a.action = "notification_subscribe" -> Call("addSubscription", <<f>>)
      [] a.action = "notification_unsubscribe" -> Call("removeSubscription", <<f["endpoint"]>>)
      [] a.action = "unicom_timer_start" -> Call("startUnicomTimer", <<>>)
      [] a.action = "unicom_timer_cancel" -> Call("cancelUnicomTimer", <<>>)
      [] a.action \in {"sim_com1", "sim_com2"} ->
           Call("setCom", <<Com(IF a.action = "sim_com2" THEN 2 ELSE 1), f["freq"], f["station"]>>)
      [] a.action = "sim_squawk" -> Call("setSquawk", <<f["code"]>>)
      [] a.action = "sim_xpdr" -> Call("toggleXpdr", <<f["mode"]>>)
      [] a.action = "sim_ident" -> Call("sendIdent", <<>>)
      [] a.action = "weather_request" ->
           Call("sendWeatherRequest", <<f["kind"], f["icao"], FieldOr(f, "source", Null), FieldOr(f, "role", Null)>>)
      [] a.action = "atis_request" -> SendAtisRequest(f)
      [] a.action = "send_message" -> SendChatCommand(f)
      [] OTHER -> NoCall

\* Fault: the name of the station is lost on the way.
RadioSetNameless(f) == Call("setCom", <<f["com"], f["freq"], Empty>>)

RadioSet(f) == Call("setCom", <<f["com"], f["freq"], FieldOr(f, "station", Empty)>>)

\* handleRemoteCommand() of the agent
HandleRemoteCommand(type, f) ==
    CASE type = "radio.set" -> RadioSet(f)
      [] type = "chat.send" -> SendChatCommand(f)
      [] type = "chat.history.request" -> Call("sendChatHistory", <<>>)
      [] type = "notification.subscribe" -> Call("addSubscription", <<f>>)
      [] type = "notification.unsubscribe" -> Call("removeSubscription", <<f["endpoint"]>>)
      [] type = "unicom.timer.start" -> Call("startUnicomTimer", <<>>)
      [] type = "unicom.timer.cancel" -> Call("cancelUnicomTimer", <<>>)
      [] type = "weather.request" ->
           Call("sendWeatherRequest", <<f["kind"], f["icao"], FieldOr(f, "source", Null), FieldOr(f, "role", Null)>>)
      [] type = "atis.request" -> SendAtisRequest(f)
      [] type = "xpdr.setSquawk" -> Call("setSquawk", <<f["code"]>>)
      [] type = "xpdr.setMode" -> Call("toggleXpdr", <<f["mode"]>>)
      [] type = "xpdr.ident" -> Call("sendIdent", <<>>)
      [] type = "tx.start" -> Call("startWebTx", <<f["com"]>>)
      [] type = "tx.stop" -> Call("stopWebTx", <<>>)
      [] OTHER -> NoCall

-----------------------------------------------------------------------------
VARIABLES
    hasAgent,       \* the page has selected an agent
    asked,          \* history variable: what the page asked
    performed       \* what the agent called for it

commandVars == <<messageVars, hasAgent, asked, performed>>

CommandsInit == RulesInit /\ hasAgent \in BOOLEAN /\ asked = NoAsk /\ performed = NoCall

\* send() of a page in remote mode
PageAsks(a) ==
    /\ asked = NoAsk /\ message = NoMessage
    /\ asked' = a
    /\ message' = IF hasAgent \/ a.action = "ping" THEN SendRemoteAction(a) ELSE NoMessage
    /\ UNCHANGED <<forwarded, applied, hasAgent, performed>>

AgentPerforms ==
    /\ applied \notin {Null, Refusal} /\ performed = NoCall
    /\ performed' = HandleRemoteCommand(message.type, applied.fields)
    /\ performed' # NoCall
    /\ UNCHANGED <<messageVars, hasAgent, asked>>

CommandsNext ==
    \/ \E a \in Asks : PageAsks(a)
    \/ AgentPerforms
    \/ /\ asked = NoAsk /\ message = NoMessage
       /\ \E type \in Types, source \in {"browser", "agent"} : \E p \in Payloads(type) : Sent(type, source, p)
       /\ UNCHANGED <<hasAgent, asked, performed>>
    \/ RelayParses /\ UNCHANGED <<hasAgent, asked, performed>>
    \/ message.type \in BrowserToAgentTypes /\ AgentParses /\ UNCHANGED <<hasAgent, asked, performed>>

CommandsSpec == CommandsInit /\ [][CommandsNext]_commandVars

-----------------------------------------------------------------------------
\* A page reads a snapshot without looking whether a field is there.
WholeEntry(e) == e = Null \/ DOMAIN e.fields = {"text", "receivedAt", "source"}
WholeSlot(s) == DOMAIN s.fields = {"icao", "metar", "taf"} /\ WholeEntry(s.fields["metar"]) /\ WholeEntry(s.fields["taf"])
Whole(type, f) ==
    CASE type = "weather.state" ->
           /\ DOMAIN f["flightPlan"].fields = {"departure", "destination", "alternate"}
           /\ \A n \in {"departure", "destination"} : WholeSlot(f["weatherState"].fields[n])
      [] type = "stations.state" ->
           \A s \in ToSet(f["stations"].items) : {"callsign", "freq"} \subseteq DOMAIN s.fields
      [] type = "unicom.timer.state" ->
           f["active"] = False <=> "startedAt" \notin DOMAIN f
      [] OTHER -> TRUE

\* What the relay passes on can be used as it is: a snapshot has every field the page
\* reads, a command is accepted by the agent unchanged, no bad value passes, and no
\* side speaks for another.
ForwardedIsUsable ==
    forwarded \notin {Null, Refusal} =>
        /\ message.source \in SourcesOf(message.type)
        /\ Whole(message.type, forwarded.fields)
        /\ \A n \in DOMAIN forwarded.fields : forwarded.fields[n] # Bad /\ n # "unknown"
        /\ applied # Null => applied = forwarded

\* A message or a recipient that the local proxy puts right before it sends it.
PutRight(a) == \E n \in DOMAIN a.fields : a.fields[n].class = "loose"

\* Remote mode does what local mode does: whatever the page asks for is within what
\* the router passes on, what the agent calls for it is what the local proxy calls
\* for the same action, argument by argument, and what is refused on the way the
\* local proxy would not do either.  The exception is what it puts right: a chat text
\* over 1024 bytes, which it cuts, and a recipient typed with blanks around it, which
\* it trims; the relay refuses them.
RemoteDoesAsLocal ==
    asked # NoAsk =>
        /\ Refusal \in {forwarded, applied} => HandleWebCommand(asked) = NoCall \/ PutRight(asked)
        /\ message # NoMessage => message.type \in BrowserToAgentTypes \cup {"ping"}
        /\ performed # NoCall => performed = HandleWebCommand(asked)
==============================================================================
