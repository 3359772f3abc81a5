---------------------------- MODULE UnicomTimer ----------------------------
(***************************************************************************)
(* The three-minute UNICOM reminder of the local agent                     *)
(* (proxy/unicom-timer.js) and its expiry alert in proxy.js.  start() and  *)
(* cancel() come from any local or remote browser at any time; expire() is *)
(* the timer callback.  Timers may run late, never early.                  *)
(***************************************************************************)
EXTENDS Integers

CONSTANTS
    Duration,       \* durationMs
    MaxTime,        \* bound of the clock
    MaxGeneration   \* bound of the generation counter

ASSUME BoundsAssumption ==
    /\ Duration \in Nat \ {0}
    /\ MaxTime \in Nat
    /\ MaxGeneration \in Nat

VARIABLES
    timerId,     \* timerId: generation of the timer it holds, 0 for null
    generation,  \* generation
    state,       \* state: whether it is active, and expiresAt
    timers,      \* timers handed to setTimer and not yet run or cleared
    now,         \* now()
    ended,       \* history: reminders that were restarted or cancelled
    alerted      \* history: how often onExpired ran for each reminder

vars == <<timerId, generation, state, timers, now, ended, alerted>>

Timer    == [generation : Nat, due : Nat]
Inactive == [active |-> FALSE, expiresAt |-> 0]

TypeOK ==
    /\ timerId \in Nat
    /\ generation \in Nat
    /\ state \in [active : BOOLEAN, expiresAt : Nat]
    /\ timers \subseteq Timer
    /\ now \in Nat
    /\ ended \subseteq Nat
    /\ alerted \in [1..MaxGeneration -> Nat]

Init ==
    /\ timerId = 0
    /\ generation = 0
    /\ state = Inactive
    /\ timers = {}
    /\ now = 0
    /\ ended = {}
    /\ alerted = [g \in 1..MaxGeneration |-> 0]

\* clearTimer(timerId), when there is one.
Cleared == {t \in timers : t.generation # timerId}

\* Fault: a restart neither clears nor outdates the running timer.
StartOver ==
    /\ generation < MaxGeneration
    /\ generation' = IF state.active THEN generation ELSE generation + 1
    /\ timers' = timers \cup {[generation |-> generation', due |-> now + Duration]}
    /\ timerId' = generation'
    /\ state' = [active |-> TRUE, expiresAt |-> now + Duration]
    /\ ended' = ended \cup (IF state.active THEN {timerId} ELSE {})
    /\ UNCHANGED <<now, alerted>>

\* start(): from any state; a running reminder is restarted.
Start ==
    /\ generation < MaxGeneration  \* bound
    /\ generation' = generation + 1
    /\ timers' = Cleared \cup {[generation |-> generation + 1, due |-> now + Duration]}
    /\ timerId' = generation + 1
    /\ state' = [active |-> TRUE, expiresAt |-> now + Duration]
    /\ ended' = ended \cup (IF state.active THEN {timerId} ELSE {})
    /\ UNCHANGED <<now, alerted>>

\* cancel()
Cancel ==
    /\ generation < MaxGeneration  \* bound
    /\ generation' = generation + 1
    /\ timers' = Cleared
    /\ timerId' = 0
    /\ state' = Inactive
    /\ ended' = ended \cup (IF state.active THEN {timerId} ELSE {})
    /\ UNCHANGED <<now, alerted>>

\* expire(expectedGeneration): the callback of a timer that is due.
Expire(t) ==
    /\ t.due <= now
    /\ timers' = timers \ {t}
    /\ IF t.generation = generation /\ state.active
       THEN /\ timerId' = 0
            /\ state' = Inactive
            /\ alerted' = [alerted EXCEPT ![t.generation] = @ + 1]
       ELSE UNCHANGED <<timerId, state, alerted>>
    /\ UNCHANGED <<generation, now, ended>>

Tick ==
    /\ now < MaxTime  \* bound
    /\ now' = now + 1
    /\ UNCHANGED <<timerId, generation, state, timers, ended, alerted>>

ExpireStep == \E t \in timers : Expire(t)

Next == Start \/ Cancel \/ ExpireStep \/ Tick

Spec == Init /\ [][Next]_vars

\* Time passes and due timers run; nobody has to press a button.
FairSpec == Spec /\ WF_vars(Tick) /\ WF_vars(ExpireStep)

-----------------------------------------------------------------------------
\* A reminder that is shown as running has its one timer pending, due at the
\* time shown; an idle one has none, so no callback can surprise a later start.
RunningIffPending ==
    timers = IF state.active THEN {[generation |-> generation, due |-> state.expiresAt]}
             ELSE {}

\* One alert at most for one press of the button, and none for a reminder that
\* was cancelled or restarted before it expired.
OneAlertPerReminder ==
    \A g \in 1..MaxGeneration :
        /\ alerted[g] <= 1
        /\ g \in ended => alerted[g] = 0

\* A running reminder ends: it expires or somebody ends it.  (The clock bound
\* must leave room for its duration.)
RemindersEnd ==
    \A g \in 1..MaxGeneration :
        (state.active /\ timerId = g /\ state.expiresAt <= MaxTime)
            ~> (alerted[g] = 1 \/ g \in ended)
=============================================================================
