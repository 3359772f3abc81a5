---------------------------- MODULE OfflineNotice ----------------------------
(***************************************************************************)
(* What the relay promises a pilot whose agent it watches, without the     *)
(* batches, tickets, timers, generations and receipts by which it does so; *)
(* docs/TECHNICAL_PAPER.md, 10.4, describes it and AgentWatchdog is shown  *)
(* to implement it.  A watch is good for one notice.  A notice is given    *)
(* for the flight watched, when its agent has been away for the whole      *)
(* grace period without a break.  The agent hears of a notice at most      *)
(* once, of none that reached nobody, and, when it ends a flight that was  *)
(* watched, of no other flight.                                            *)
(***************************************************************************)
EXTENDS Integers

CONSTANTS DeviceKeys, Sessions, NoSession, OfflineDelay, Notices

VARIABLES
    watched,       \* the flight watched for each device, or NoSession
    online,        \* the relay has an agent of the device
    offlineSince,  \* when the device's agent was last lost
    now,
    notices        \* each notice: its device and flight, and what became of it

noticeVars == <<watched, online, offlineSince, now, notices>>

\* Whether the notice arrived, and how often the agent heard of it.
Fate(state, heard) == <<state, heard>>
NotGiven == [flight |-> [sessionId |-> NoSession], fate |-> Fate("none", 0)]

NoticeInit ==
    /\ watched = [d \in DeviceKeys |-> NoSession]
    /\ online = [d \in DeviceKeys |-> FALSE]
    /\ offlineSince = [d \in DeviceKeys |-> 0]
    /\ now = 0
    /\ notices = [n \in Notices |-> NotGiven]

Goes(n, from, to) ==
    /\ notices[n].fate = from
    /\ notices' = [notices EXCEPT ![n].fate = to]

\* The agent asks for a flight to be watched.
Watches(d, s) ==
    /\ online[d]
    /\ watched' = [watched EXCEPT ![d] = s]
    /\ UNCHANGED <<online, offlineSince, now, notices>>

\* The agent ends its flight, and may hear that its loss was announced.
Ends(d, s) ==
    /\ online[d]
    /\ watched' = IF watched[d] = s THEN [watched EXCEPT ![d] = NoSession] ELSE watched
    /\ \/ UNCHANGED notices
       \/ \E n \in Notices : /\ notices[n].flight = [deviceKey |-> d, sessionId |-> s]
                             /\ Goes(n, Fate("received", 0), Fate("received", 1))
    /\ UNCHANGED <<online, offlineSince, now>>

AgentComes(d) ==
    /\ online' = [online EXCEPT ![d] = TRUE]
    /\ UNCHANGED <<watched, offlineSince, now, notices>>

AgentGoes(d) ==
    /\ online[d]
    /\ online' = [online EXCEPT ![d] = FALSE]
    /\ offlineSince' = [offlineSince EXCEPT ![d] = now]
    /\ UNCHANGED <<watched, now, notices>>

\* The watch is used up by the notice.
Announces(d, n) ==
    /\ watched[d] # NoSession
    /\ ~online[d] /\ now - offlineSince[d] >= OfflineDelay
    /\ notices[n] = NotGiven
    /\ notices' = [notices EXCEPT ![n] = [flight |-> [deviceKey |-> d, sessionId |-> watched[d]],
                                          fate |-> Fate("sending", 0)]]
    /\ watched' = [watched EXCEPT ![d] = NoSession]
    /\ UNCHANGED <<online, offlineSince, now>>

\* The Push services answer; an agent that is back is told at once.
Settles(n) ==
    /\ \/ \E state \in {"failed", "received"} : Goes(n, Fate("sending", 0), Fate(state, 0))
       \/ /\ Goes(n, Fate("sending", 0), Fate("received", 1))
          /\ online[notices[n].flight.deviceKey]
    /\ UNCHANGED <<watched, online, offlineSince, now>>

TimePasses == now' = now + 1 /\ UNCHANGED <<watched, online, offlineSince, notices>>

NoticeNext ==
    \/ \E d \in DeviceKeys, s \in Sessions : Watches(d, s) \/ Ends(d, s)
    \/ \E d \in DeviceKeys : AgentComes(d) \/ AgentGoes(d)
    \/ \E d \in DeviceKeys, n \in Notices : Announces(d, n)
    \/ \E n \in Notices : Settles(n)
    \/ TimePasses

NoticeSpec == NoticeInit /\ [][NoticeNext]_noticeVars
==============================================================================
