----------------------------- MODULE WebRequests -----------------------------
(***************************************************************************)
(* What the page asks the agent for and waits for (webapp/app.js): the     *)
(* reports of the route panel, whose buttons stay disabled until a report  *)
(* came or WEATHER_REQUEST_TIMEOUT_MS passed, and the UNICOM timer, whose  *)
(* button waits three seconds.  The flight plan may change meanwhile, the  *)
(* agent may answer late or not at all, and another page or the pilot may  *)
(* have asked too.                                                        *)
(*                                                                         *)
(* One role of the plan and one kind of report stand for all four keys,    *)
(* which no code relates; the other page shows itself by what it makes the *)
(* agent do.                                                               *)
(***************************************************************************)
EXTENDS Naturals, Sequences

CONSTANTS
    PlanAirports,   \* airports of the flight plan
    NoPlanned,      \* no plan
    MaxReports,     \* bound: reports of an airport
    MaxPending      \* bound: messages on their way to the page

VARIABLES
    filed,          \* the agent's plan: an airport or none
    report,         \* the agent's last report of the panel: number, 0 without one
    running,        \* the agent's UNICOM timer
    shownPlan, shownReport, \* the same on the page
    shownTimer,
    weatherPending, \* the mark of the button: the signature before, or none
    timerPending,
    requested,          \* commands sent by the page, not handled
    inbox           \* messages to the page, not handled

requestVars == <<filed, report, running, shownPlan, shownReport, shownTimer, weatherPending,
                 timerPending, requested, inbox>>
agentSide == <<filed, report, running>>
pageSide  == <<shownPlan, shownReport, shownTimer, weatherPending, timerPending>>

Absent == [pending |-> FALSE]
Mark(r) == [pending |-> TRUE, previous |-> r]

RequestsInit ==
    /\ filed = NoPlanned /\ report = 0 /\ running = FALSE
    /\ shownPlan = NoPlanned /\ shownReport = 0 /\ shownTimer = FALSE
    /\ weatherPending = Absent /\ timerPending = FALSE
    /\ requested = <<>> /\ inbox = <<>>

RoomInInbox == Len(inbox) < MaxPending  \* bound

-----------------------------------------------------------------------------
(***************************************************************************)
(* The agent                                                               *)
(***************************************************************************)
PlanMessage(plan, r) == [kind |-> "flight_plan_status", plan |-> plan, report |-> r]

\* updateFlightPlanStatus(): the reports of the former airport are gone.
PlanChanges(plan) ==
    /\ RoomInInbox /\ plan # filed
    /\ filed' = plan /\ report' = 0
    /\ inbox' = Append(inbox, PlanMessage(plan, 0))
    /\ UNCHANGED <<running, pageSide, requested>>

\* updateWeather(): a report for the panel, whoever requested for it.
ReportArrives ==
    /\ RoomInInbox /\ filed # NoPlanned /\ report < MaxReports
    /\ report' = report + 1
    /\ inbox' = Append(inbox, [kind |-> "weather_update", report |-> report'])
    /\ UNCHANGED <<filed, running, pageSide, requested>>

\* getPongState(): the status without plan and weather.
PongArrives ==
    /\ RoomInInbox
    /\ inbox' = Append(inbox, [kind |-> "pong", filed |-> filed # NoPlanned])
    /\ UNCHANGED <<agentSide, pageSide, requested>>

\* A start while the timer runs starts it anew, a cancellation without one does
\* nothing; either tells the state.  A weather request may stay without a report.
AgentHears ==
    /\ requested # <<>> /\ RoomInInbox
    /\ requested' = Tail(requested)
    /\ IF Head(requested) = "weather" THEN UNCHANGED <<running, inbox>>
       ELSE /\ running' = (Head(requested) = "start")
            /\ inbox' = IF Head(requested) = "cancel" /\ ~running THEN inbox
                        ELSE Append(inbox, [kind |-> "unicom_timer_state", active |-> running'])
    /\ UNCHANGED <<filed, report, pageSide>>

\* The timer expires, or another page starts or cancels it.
TimerChanges(active) ==
    /\ RoomInInbox /\ running # active
    /\ running' = active
    /\ inbox' = Append(inbox, [kind |-> "unicom_timer_state", active |-> active])
    /\ UNCHANGED <<filed, report, pageSide, requested>>

-----------------------------------------------------------------------------
(***************************************************************************)
(* The page                                                                *)
(***************************************************************************)
\* requestPanelWeather() and markWeatherRequestPending()
RequestPanelWeather ==
    /\ shownPlan # NoPlanned /\ ~weatherPending.pending
    /\ Len(requested) < 2  \* bound
    /\ requested' = Append(requested, "weather")
    /\ weatherPending' = Mark(shownReport)
    /\ UNCHANGED <<agentSide, shownPlan, shownReport, shownTimer, timerPending, inbox>>

WeatherTimesOut ==
    /\ weatherPending.pending
    /\ weatherPending' = Absent
    /\ UNCHANGED <<agentSide, shownPlan, shownReport, shownTimer, timerPending, requested, inbox>>

\* toggleUnicomTimer()
ToggleUnicomTimer ==
    /\ ~timerPending
    /\ Len(requested) < 2  \* bound
    /\ requested' = Append(requested, IF shownTimer THEN "cancel" ELSE "start")
    /\ timerPending' = TRUE
    /\ UNCHANGED <<agentSide, shownPlan, shownReport, shownTimer, weatherPending, inbox>>

TimerPendingEnds ==
    /\ timerPending
    /\ timerPending' = FALSE
    /\ UNCHANGED <<agentSide, shownPlan, shownReport, shownTimer, weatherPending, requested, inbox>>

\* Fault: a report ends the wait by whether there is one, not by whether it is new.
ResolvedIfAny(r) == IF r # 0 THEN Absent ELSE weatherPending

\* clearResolvedWeatherRequests()
Resolved(r) ==
    IF weatherPending.pending /\ weatherPending.previous # r THEN Absent ELSE weatherPending

\* setFlightPlanStatus() with a plan and its reports
SetFlightPlan(plan, r) ==
    /\ shownPlan' = plan
    /\ shownReport' = r
    /\ weatherPending' = Resolved(r)

\* setFlightPlanStatus() with the status alone: without a plan everything is cleared.
SetStatus(isFiled) ==
    /\ shownPlan' = IF isFiled THEN shownPlan ELSE NoPlanned
    /\ shownReport' = IF isFiled THEN shownReport ELSE 0
    /\ weatherPending' = IF isFiled THEN Resolved(shownReport) ELSE Absent

\* The weather_update of handleMessage()
SetWeather(r) ==
    /\ shownReport' = r
    /\ weatherPending' = Resolved(r)
    /\ UNCHANGED shownPlan

\* applyUnicomTimerState()
SetTimer(active) ==
    /\ shownTimer' = active /\ timerPending' = FALSE
    /\ UNCHANGED <<shownPlan, shownReport, weatherPending>>

PageHandles ==
    /\ inbox # <<>>
    /\ inbox' = Tail(inbox)
    /\ LET m == Head(inbox) IN
       \/ m.kind = "flight_plan_status" /\ SetFlightPlan(m.plan, m.report) /\ UNCHANGED <<shownTimer, timerPending>>
       \/ m.kind = "pong" /\ SetStatus(m.filed) /\ UNCHANGED <<shownTimer, timerPending>>
       \/ m.kind = "weather_update" /\ SetWeather(m.report) /\ UNCHANGED <<shownTimer, timerPending>>
       \/ m.kind = "unicom_timer_state" /\ SetTimer(m.active)
    /\ UNCHANGED <<agentSide, requested>>

RequestsNext ==
    \/ \E plan \in PlanAirports \cup {NoPlanned} : PlanChanges(plan)
    \/ ReportArrives \/ PongArrives \/ AgentHears
    \/ \E active \in BOOLEAN : TimerChanges(active)
    \/ RequestPanelWeather \/ WeatherTimesOut \/ ToggleUnicomTimer \/ TimerPendingEnds
    \/ PageHandles

RequestsSpec == RequestsInit /\ [][RequestsNext]_requestVars

-----------------------------------------------------------------------------
\* A button that waits has not been answered: no report came to the page since it
\* was pressed, by whatever message and for whatever plan.  And when all messages
\* have been handled the page shows the agent's plan, report and timer, whoever
\* asked for what in between.
AnswersAreShown ==
    /\ weatherPending.pending => shownReport = weatherPending.previous
    /\ requested = <<>> /\ inbox = <<>> =>
           shownPlan = filed /\ shownReport = report /\ shownTimer = running
==============================================================================
