-------------------------- MODULE LocalServicesProofs --------------------------
(***************************************************************************)
(* Proofs about the parts of LocalServices, for any constants: what the    *)
(* local proxy keeps (voice path, subscription store, flight state, pilot  *)
(* bridge, UNICOM reminder), what the updater leaves behind, and what the  *)
(* web page shows and sends (composer, tabs and their order, alert         *)
(* settings, sound, requests, station menus).  Each part has its own       *)
(* inductive invariant; what the run states of several parts follows at    *)
(* the end.                                                                *)
(***************************************************************************)
EXTENDS LocalServices, TLAPS, FiniteSetTheorems, SequenceTheorems

-----------------------------------------------------------------------------
(***************************************************************************)
(* Sets of numbers, and lists                                              *)
(***************************************************************************)
\* A set of naturals that is not empty has a least member, and a greatest one if it is bounded.
LEMMA LeastOf ==
    ASSUME NEW N, N \subseteq Nat, N # {}
    PROVE  \E n \in N : \A m \in N : n <= m
<1>1. \E n \in N : \A m \in N : ~(<<m, n>> \in OpToRel(<, Nat))
    BY WFMin, NatLessThanWellFounded
<1>2. PICK n \in N : \A m \in N : ~(<<m, n>> \in OpToRel(<, Nat))
    BY <1>1
<1>3. ASSUME NEW m \in N PROVE n <= m
    <2>1. m \in Nat /\ n \in Nat
        OBVIOUS
    <2>2. m < n => <<m, n>> \in OpToRel(<, Nat)
        BY <2>1 DEF OpToRel
    <2>3. ~(m < n)
        BY <1>2, <2>2
    <2> QED BY <2>1, <2>3
<1> QED BY <1>3

LEMMA GreatestOf ==
    ASSUME NEW N, N \subseteq Nat, N # {}, NEW b \in Nat, \A m \in N : m <= b
    PROVE  Max(N) \in N /\ \A m \in N : m <= Max(N)
<1> DEFINE Above == {n \in Nat : \A m \in N : m <= n}
<1>1. PICK n \in Above : \A m \in Above : n <= m
    <2>1. Above \subseteq Nat /\ b \in Above
        OBVIOUS
    <2> HIDE DEF Above
    <2> QED BY <2>1, LeastOf
<1>2. n \in N
    <2> SUFFICES ASSUME n \notin N PROVE FALSE
        OBVIOUS
    <2>1. n \in Nat /\ \A m \in N : m < n
        <3>1. n \in Nat /\ \A m \in N : m <= n
            BY <1>1
        <3>2. \A m \in N : m \in Nat /\ m # n
            OBVIOUS
        <3> HIDE DEF Above
        <3> QED BY <3>1, <3>2
    <2>2. n # 0
        <3>1. PICK m \in N : m \in Nat
            OBVIOUS
        <3>2. m < n
            BY <2>1
        <3> QED BY <2>1, <3>1, <3>2
    <2>3. n - 1 \in Above
        BY <2>1, <2>2
    <2> QED BY <1>1, <2>1, <2>3
<1>3. \A m \in N : n >= m
    BY <1>1, <1>2
<1>4. Max(N) \in N /\ \A m \in N : Max(N) >= m
    BY <1>2, <1>3 DEF Max
<1> QED BY <1>4

\* An entry taken out of a list: the others move up.
LEMMA OneRemoved ==
    ASSUME NEW S, NEW q \in Seq(S), NEW i \in DOMAIN q
    PROVE  /\ RemoveAt(q, i) \in Seq(S) /\ Len(RemoveAt(q, i)) = Len(q) - 1
           /\ DOMAIN RemoveAt(q, i) = 1..(Len(q) - 1)
           /\ \A j \in 1..(Len(q) - 1) : RemoveAt(q, i)[j] = IF j < i THEN q[j] ELSE q[j + 1]
<1> DEFINE a == SubSeq(q, 1, i - 1)
           b == SubSeq(q, i + 1, Len(q))
<1>1. Len(q) \in Nat /\ DOMAIN q = 1..Len(q) /\ \A j \in 1..Len(q) : q[j] \in S
    BY LenProperties, ElementOfSeq
<1>2. i \in Int /\ 1 <= i /\ i <= Len(q)
    BY <1>1
<1>3. /\ a \in Seq(S) /\ Len(a) = i - 1 /\ \A j \in 1..(i - 1) : a[j] = q[j]
    <2>1. \A j \in 1..(i - 1) : q[j] \in S
        BY <1>1, <1>2
    <2>2. i - 1 \in Int /\ 1 \in Int
        BY <1>2
    <2>3. /\ a \in Seq(S) /\ Len(a) = IF 1 <= i - 1 THEN (i - 1) - 1 + 1 ELSE 0
          /\ \A j \in 1..((i - 1) - 1 + 1) : a[j] = q[1 + j - 1]
        BY <2>1, <2>2, SubSeqProperties
    <2>4. \A j \in 1..(i - 1) : 1 + j - 1 = j /\ j \in 1..((i - 1) - 1 + 1)
        BY <1>2
    <2> HIDE DEF a
    <2> QED BY <1>2, <2>3, <2>4
<1>4. /\ b \in Seq(S) /\ Len(b) = Len(q) - i /\ \A j \in 1..(Len(q) - i) : b[j] = q[i + j]
    <2>1. \A j \in (i + 1)..Len(q) : q[j] \in S
        BY <1>1, <1>2
    <2>2. i + 1 \in Int /\ Len(q) \in Int
        BY <1>1, <1>2
    <2>3. /\ b \in Seq(S) /\ Len(b) = IF i + 1 <= Len(q) THEN Len(q) - (i + 1) + 1 ELSE 0
          /\ \A j \in 1..(Len(q) - (i + 1) + 1) : b[j] = q[(i + 1) + j - 1]
        BY <2>1, <2>2, SubSeqProperties
    <2>4. \A j \in 1..(Len(q) - i) : (i + 1) + j - 1 = i + j /\ j \in 1..(Len(q) - (i + 1) + 1)
        BY <1>1, <1>2
    <2> HIDE DEF b
    <2> QED BY <1>1, <1>2, <2>3, <2>4
<1> HIDE DEF a, b
<1>5. /\ a \o b \in Seq(S) /\ Len(a \o b) = Len(q) - 1
      /\ \A j \in 1..(Len(q) - 1) : (a \o b)[j] = IF j <= i - 1 THEN a[j] ELSE b[j - (i - 1)]
    <2>1. /\ a \o b \in Seq(S) /\ Len(a \o b) = Len(a) + Len(b)
          /\ \A j \in 1..Len(a) + Len(b) : (a \o b)[j] = IF j <= Len(a) THEN a[j] ELSE b[j - Len(a)]
        BY <1>3, <1>4, ConcatProperties
    <2>2. Len(a) + Len(b) = Len(q) - 1 /\ Len(a) = i - 1
        BY <1>1, <1>2, <1>3, <1>4
    <2> QED BY <2>1, <2>2
<1>6. \A j \in 1..(Len(q) - 1) : (a \o b)[j] = IF j < i THEN q[j] ELSE q[j + 1]
    <2> TAKE j \in 1..(Len(q) - 1)
    <2>1. CASE j < i
        BY <1>2, <1>3, <1>5, <2>1
    <2>2. CASE ~(j < i)
        <3>1. j - (i - 1) \in 1..(Len(q) - i) /\ i + (j - (i - 1)) = j + 1
            BY <1>1, <1>2, <2>2
        <3> QED BY <1>2, <1>4, <1>5, <2>2, <3>1
    <2> QED BY <2>1, <2>2
<1>7. RemoveAt(q, i) = a \o b
    BY DEF RemoveAt, a, b
<1>8. DOMAIN (a \o b) = 1..(Len(q) - 1)
    BY <1>5, LenProperties
<1> QED BY <1>5, <1>6, <1>7, <1>8

\* The first of a queue is taken: the others move up.
LEMMA TakeFirst ==
    ASSUME NEW S, NEW q \in Seq(S), q # <<>>
    PROVE  /\ Tail(q) \in Seq(S) /\ DOMAIN q = 1..Len(q) /\ DOMAIN Tail(q) = 1..(Len(q) - 1)
           /\ Len(q) \in Nat /\ 1 \in DOMAIN q /\ Head(q) = q[1] /\ Head(q) \in S
           /\ \A i \in DOMAIN Tail(q) : i + 1 \in DOMAIN q /\ Tail(q)[i] = q[i + 1]
           /\ \A i \in DOMAIN q : i # 1 => i - 1 \in DOMAIN Tail(q) /\ Tail(q)[i - 1] = q[i]
<1>1. Len(q) \in Nat /\ Len(q) # 0 /\ DOMAIN q = 1..Len(q)
    BY EmptySeq, LenProperties
<1>2. /\ Tail(q) \in Seq(S) /\ Head(q) \in S /\ Head(q) = q[1] /\ Len(Tail(q)) = Len(q) - 1
      /\ \A i \in 1..Len(Tail(q)) : Tail(q)[i] = q[i + 1]
    BY HeadTailProperties
<1>3. DOMAIN Tail(q) = 1..(Len(q) - 1)
    BY <1>2, LenProperties
<1>4. ASSUME NEW i \in DOMAIN Tail(q) PROVE i + 1 \in DOMAIN q /\ Tail(q)[i] = q[i + 1]
    BY <1>1, <1>2, <1>3
<1>5. ASSUME NEW i \in DOMAIN q, i # 1 PROVE i - 1 \in DOMAIN Tail(q) /\ Tail(q)[i - 1] = q[i]
    <2>1. i - 1 \in DOMAIN Tail(q) /\ (i - 1) + 1 = i
        BY <1>1, <1>3, <1>5
    <2> QED BY <1>4, <2>1
<1> QED BY <1>1, <1>2, <1>3, <1>4, <1>5

\* One more is put at the end of a queue.
LEMMA AppendOne ==
    ASSUME NEW S, NEW q \in Seq(S), NEW m \in S
    PROVE  /\ Append(q, m) \in Seq(S) /\ DOMAIN q \subseteq DOMAIN Append(q, m)
           /\ \A i \in DOMAIN q : Append(q, m)[i] = q[i]
           /\ \E n \in DOMAIN Append(q, m) :
                  /\ Append(q, m)[n] = m
                  /\ \A i \in DOMAIN Append(q, m) : i \in DOMAIN q \/ i = n
                  /\ \A i \in DOMAIN Append(q, m) : ~(i > n)
<1>1. /\ Append(q, m) \in Seq(S) /\ Len(Append(q, m)) = Len(q) + 1
      /\ \A i \in 1..Len(q) : Append(q, m)[i] = q[i]
      /\ Append(q, m)[Len(q) + 1] = m
    BY AppendProperties
<1>2. Len(q) \in Nat /\ DOMAIN q = 1..Len(q) /\ DOMAIN Append(q, m) = 1..(Len(q) + 1)
    BY <1>1, LenProperties
<1>3. Len(q) + 1 \in DOMAIN Append(q, m)
    BY <1>2
<1> QED BY <1>1, <1>2, <1>3

\* The messages of a queue lead from one state to another, each by a step of R.
Leads(q, R, S, a, b) ==
    \E h \in [1..(Len(q) + 1) -> S] :
        h[1] = a /\ h[Len(q) + 1] = b /\ \A i \in DOMAIN q : <<h[i], q[i], h[i + 1]>> \in R

LEMMA LeadsNowhere ==
    ASSUME NEW R, NEW S, NEW a \in S
    PROVE  /\ Leads(<<>>, R, S, a, a)
           /\ \A b : Leads(<<>>, R, S, a, b) => b = a
<1>1. Len(<<>>) = 0 /\ DOMAIN <<>> = {}
    BY EmptySeq
<1>2. Leads(<<>>, R, S, a, a)
    <2> DEFINE h == [i \in 1..1 |-> a]
    <2>1. Len(<<>>) + 1 = 1 /\ 1 \in 1..1
        BY <1>1
    <2>2. h \in [1..1 -> S] /\ h[1] = a
        BY <2>1
    <2> HIDE DEF h
    <2> QED BY <1>1, <2>1, <2>2 DEF Leads
<1> QED BY <1>1, <1>2 DEF Leads

LEMMA LeadsOn ==
    ASSUME NEW M, NEW q \in Seq(M), NEW m \in M, NEW R, NEW S, NEW a, NEW b, NEW c \in S,
           Leads(q, R, S, a, b), <<b, m, c>> \in R
    PROVE  Leads(Append(q, m), R, S, a, c)
<1>1. /\ Append(q, m) \in Seq(M) /\ Len(Append(q, m)) = Len(q) + 1 /\ Len(q) \in Nat
      /\ \A i \in 1..Len(q) : Append(q, m)[i] = q[i]
      /\ Append(q, m)[Len(q) + 1] = m
    BY AppendProperties, LenProperties
<1>2. PICK h \in [1..(Len(q) + 1) -> S] :
          h[1] = a /\ h[Len(q) + 1] = b /\ \A i \in DOMAIN q : <<h[i], q[i], h[i + 1]>> \in R
    BY DEF Leads
<1>3. DOMAIN q = 1..Len(q) /\ DOMAIN Append(q, m) = 1..(Len(q) + 1)
    BY <1>1, LenProperties
<1> DEFINE n == Len(q)
           g == [i \in 1..(n + 2) |-> IF i = n + 2 THEN c ELSE h[i]]
<1>4. g \in [1..(n + 2) -> S] /\ g[n + 2] = c /\ \A i \in 1..(n + 1) : g[i] = h[i]
    BY <1>1, <1>2
<1> HIDE DEF g
<1>5. ASSUME NEW i \in 1..(n + 1) PROVE <<g[i], Append(q, m)[i], g[i + 1]>> \in R
    <2>1. CASE i = n + 1
        BY <1>1, <1>2, <1>4, <2>1
    <2>2. CASE i # n + 1
        <3>1. i \in 1..n /\ i + 1 \in 1..(n + 1)
            BY <1>1, <2>2
        <3> QED BY <1>1, <1>2, <1>3, <1>4, <3>1
    <2> QED BY <2>1, <2>2
<1>6. Len(Append(q, m)) + 1 = n + 2 /\ 1 \in 1..(n + 1)
    BY <1>1
<1> QED BY <1>2, <1>3, <1>4, <1>5, <1>6 DEF Leads

LEMMA LeadsFrom ==
    ASSUME NEW M, NEW q \in Seq(M), q # <<>>, NEW R, NEW S, NEW a, NEW b, Leads(q, R, S, a, b)
    PROVE  \E c \in S : <<a, Head(q), c>> \in R /\ Leads(Tail(q), R, S, c, b)
<1>1. /\ Tail(q) \in Seq(M) /\ DOMAIN q = 1..Len(q) /\ DOMAIN Tail(q) = 1..(Len(q) - 1)
      /\ Len(q) \in Nat /\ 1 \in DOMAIN q /\ Head(q) = q[1]
      /\ \A i \in DOMAIN Tail(q) : i + 1 \in DOMAIN q /\ Tail(q)[i] = q[i + 1]
    BY TakeFirst
<1>2. PICK h \in [1..(Len(q) + 1) -> S] :
          h[1] = a /\ h[Len(q) + 1] = b /\ \A i \in DOMAIN q : <<h[i], q[i], h[i + 1]>> \in R
    BY DEF Leads
<1> DEFINE n == Len(q)
           g == [i \in 1..n |-> h[i + 1]]
<1>3. 1 \in 1..n /\ 2 \in 1..(n + 1) /\ n \in 1..n /\ 1 + 1 = 2
    BY <1>1
<1>4. g \in [1..n -> S] /\ g[1] = h[2] /\ g[n] = b
    BY <1>1, <1>2, <1>3
<1>5. ASSUME NEW i \in DOMAIN Tail(q) PROVE <<g[i], Tail(q)[i], g[i + 1]>> \in R
    <2>1. i + 1 \in 1..n /\ i \in 1..n /\ (i + 1) + 1 = i + 2
        BY <1>1
    <2> QED BY <1>1, <1>2, <2>1
<1> HIDE DEF g
<1>6. Len(Tail(q)) + 1 = n
    BY <1>1, LenProperties
<1>7. <<a, Head(q), h[2]>> \in R /\ h[2] \in S
    BY <1>1, <1>2, <1>3
<1>8. Leads(Tail(q), R, S, h[2], b)
    BY <1>4, <1>5, <1>6 DEF Leads
<1> QED BY <1>7, <1>8

-----------------------------------------------------------------------------
(***************************************************************************)
(* UnicomTimer                                                             *)
(***************************************************************************)
\* RunningIffPending is nearly inductive.  What it needs besides: the handle
\* of a running reminder is its generation, and the counters never ran ahead.
TimerIInv ==
    /\ TypeOK
    /\ RunningIffPending
    /\ OneAlertPerReminder
    /\ generation <= MaxGeneration
    /\ state.active => timerId = generation /\ generation >= 1
    /\ ~state.active => timerId = 0
    /\ \A g \in 1..MaxGeneration : g > generation => alerted[g] = 0
    /\ \A g \in ended : g <= generation
    /\ state.active => generation \notin ended /\ alerted[generation] = 0

LEMMA TimerIInit == Init => TimerIInv
  BY BoundsAssumption DEF Init, TimerIInv, TypeOK, RunningIffPending, OneAlertPerReminder,
     Inactive, Timer

LEMMA TimerStep == TimerIInv /\ [Next]_vars => TimerIInv'
<1> SUFFICES ASSUME TimerIInv, [Next]_vars
             PROVE  TimerIInv'
  OBVIOUS
<1> USE BoundsAssumption DEF TimerIInv, TypeOK, RunningIffPending, OneAlertPerReminder, Timer
<1>1. CASE Start
  BY <1>1 DEF Start, Cleared
<1>2. CASE Cancel
  BY <1>2 DEF Cancel, Cleared, Inactive
<1>3. ASSUME NEW t \in timers, Expire(t)
      PROVE  TimerIInv'
  <2>1. state.active /\ t = [generation |-> generation, due |-> state.expiresAt]
    BY <1>3
  <2>2. t.generation = generation
    BY <2>1
  <2>3. /\ timers' = {}
        /\ timerId' = 0
        /\ state' = Inactive
        /\ alerted' = [alerted EXCEPT ![generation] = 1]
        /\ UNCHANGED <<generation, now, ended>>
    BY <1>3, <2>1, <2>2 DEF Expire
  <2>4. TypeOK'
    BY <2>3 DEF Inactive
  <2>5. OneAlertPerReminder'
    BY <2>1, <2>3
  <2>. QED
    BY <2>1, <2>3, <2>4, <2>5 DEF Inactive
<1>4. CASE Tick
  BY <1>4 DEF Tick
<1>5. CASE UNCHANGED vars
  BY <1>5 DEF vars
<1>. QED
  BY <1>1, <1>2, <1>3, <1>4, <1>5 DEF Next, ExpireStep

LEMMA TimerIInvHolds == Spec => []TimerIInv
  BY TimerIInit, TimerStep, PTL DEF Spec

\* Every state is well typed.
THEOREM TypeCorrect == Spec => []TypeOK
<1>1. TimerIInv => TypeOK
  BY DEF TimerIInv
<1>. QED
  BY <1>1, TimerIInvHolds, PTL

\* unicom-timer.js never has a timer pending for a reminder that is not shown,
\* nor shows one without its timer.
THEOREM TimerMatchesState == Spec => []RunningIffPending
<1>1. TimerIInv => RunningIffPending
  BY DEF TimerIInv
<1>. QED
  BY <1>1, TimerIInvHolds, PTL

\* No reminder alerts twice, and no cancelled or restarted one alerts at all.
THEOREM AlertsAtMostOnce == Spec => []OneAlertPerReminder
<1>1. TimerIInv => OneAlertPerReminder
  BY DEF TimerIInv
<1>. QED
  BY <1>1, TimerIInvHolds, PTL

-----------------------------------------------------------------------------
(***************************************************************************)
(* PilotBridge                                                             *)
(***************************************************************************)
\* While a pair has been heard since PilotUI last connected, the framing is known; a
\* pair that has been heard is a pair that is there; and a legacy Altitude is never
\* taken for the other.
BridgeIInv ==
    /\ altitude \in {"legacy", "messagepack"} /\ pilotProtocol \in {"legacy", "messagepack"}
    /\ ui \in [Pairs -> {"none", "open", "destroyed", "closed"}]
    /\ core \in [Pairs -> {"none", "connecting", "open", "destroyed", "closed"}]
    /\ spoke \subseteq {p \in Pairs : ui[p] # "none"}
    /\ altitude = "legacy" => pilotProtocol = "legacy"
    /\ spoke \ forgotten # {} => pilotProtocol = altitude
    /\ RadioAsShown

LEMMA BridgeIInit == BridgeInit => BridgeIInv
    BY DEF BridgeInit, BridgeIInv, RadioAsShown

LEMMA BridgeStep == BridgeIInv /\ [BridgeNext]_bridgeVars => BridgeIInv'
<1> SUFFICES ASSUME BridgeIInv, [BridgeNext]_bridgeVars PROVE BridgeIInv'
    OBVIOUS
<1> USE DEF BridgeIInv, RadioAsShown, Observed, SocketAfter, DestroyedIfOpen, CoreIsOpen
<1>1. ASSUME NEW p \in Pairs, UiConnects(p) PROVE BridgeIInv'
    BY <1>1 DEF UiConnects
<1>2. ASSUME NEW p \in Pairs, CoreConnects(p) PROVE BridgeIInv'
    BY <1>2 DEF CoreConnects
<1>3. ASSUME NEW p \in Pairs, AltitudeSpeaks(p) PROVE BridgeIInv'
    BY <1>3 DEF AltitudeSpeaks
<1>4. ASSUME NEW p \in Pairs, UiCloses(p) PROVE BridgeIInv'
    BY <1>4 DEF UiCloses
<1>5. ASSUME NEW p \in Pairs, CoreCloses(p) PROVE BridgeIInv'
    BY <1>5 DEF CoreCloses
<1>6. ASSUME NEW p \in Pairs, PairForgotten(p) PROVE BridgeIInv'
    BY <1>6 DEF PairForgotten
<1>7. ASSUME NEW p \in Pairs, NEW f \in Channels, AltitudeTunes(p, f) PROVE BridgeIInv'
    BY <1>7 DEF AltitudeTunes
<1>8. ASSUME NEW f \in Channels, WebTunes(f) PROVE BridgeIInv'
    BY <1>8 DEF WebTunes, CommandShown, FramingExcuse
<1>9. CASE UNCHANGED bridgeVars
    BY <1>9 DEF bridgeVars
<1> QED BY <1>1, <1>2, <1>3, <1>4, <1>5, <1>6, <1>7, <1>8, <1>9 DEF BridgeNext

\* The frequency the pages show is the one PilotCore is on, through lost and replaced
\* connections of PilotUI and PilotCore, except after a change that was not seen and
\* after a command whose framing was not known, or no longer known, when it was sent.
THEOREM FrequencyIsTrue == BridgeSpec => []RadioAsShown
<1>1. BridgeIInv => RadioAsShown
    BY DEF BridgeIInv
<1> QED BY BridgeIInit, BridgeStep, <1>1, PTL DEF BridgeSpec

-----------------------------------------------------------------------------
(***************************************************************************)
(* LocalUpdate                                                             *)
(***************************************************************************)
UpdateTypeOK ==
    /\ zip \in {"absent", "partial", "verified"}
    /\ folder \subseteq Parts \cup {"half"}
    /\ step \in [Updates -> Staging \cup {"idle", "download", "write"}]
    /\ reported \in BOOLEAN /\ overlapped \in BOOLEAN /\ powerLost \in BOOLEAN

\* One run stages at a time, its step tells what the folder holds, and a folder
\* that no run is staging is whole or absent.
FolderFollowsStep ==
    /\ \A u, v \in Updates : u # v => step[u] \notin Staging \/ step[v] \notin Staging
    /\ \A u \in Updates :
        /\ step[u] \in {"extract", "program"} => folder = {}
        /\ step[u] = "config" => folder = {"program"}
        /\ step[u] = "state" => folder = {"program", "config"}
    /\ (\A u \in Updates : step[u] \notin Staging) => folder \in {{}, Parts}

UpdateIInv == UpdateTypeOK /\ (~powerLost /\ ~overlapped => FolderFollowsStep)

LEMMA UpdateIInit == UpdateInit => UpdateIInv
    BY DEF UpdateInit, UpdateIInv, UpdateTypeOK, FolderFollowsStep, Staging, Parts

LEMMA UpdateStep == UpdateIInv /\ [UpdateNext]_updateVars => UpdateIInv'
<1> SUFFICES ASSUME UpdateIInv, [UpdateNext]_updateVars PROVE UpdateIInv'
    OBVIOUS
<1> USE DEF UpdateIInv, UpdateTypeOK, FolderFollowsStep, Staging, Parts, Steps
<1>1. ASSUME NEW u \in Updates, Begins(u) PROVE UpdateIInv'
    BY <1>1 DEF Begins
<1>2. ASSUME NEW u \in Updates, FindsZip(u) PROVE UpdateIInv'
    BY <1>2 DEF FindsZip
<1>3. ASSUME NEW u \in Updates, Downloads(u) PROVE UpdateIInv'
    BY <1>3 DEF Downloads
<1>4. ASSUME NEW u \in Updates, Writes(u) PROVE UpdateIInv'
    BY <1>4 DEF Writes
<1>5. ASSUME NEW u \in Updates, Extracts(u) PROVE UpdateIInv'
    BY <1>5 DEF Extracts
<1>6. ASSUME NEW u \in Updates, CopiesProgram(u) PROVE UpdateIInv'
    BY <1>6 DEF CopiesProgram
<1>7. ASSUME NEW u \in Updates, CopiesConfig(u) PROVE UpdateIInv'
    BY <1>7 DEF CopiesConfig
<1>8. ASSUME NEW u \in Updates, CopiesState(u) PROVE UpdateIInv'
    BY <1>8 DEF CopiesState
<1>9. ASSUME NEW u \in Updates, StagingFails(u) PROVE UpdateIInv'
    BY <1>9 DEF StagingFails
<1>10. ASSUME NEW u \in Updates, PowerFails(u) PROVE UpdateIInv'
    BY <1>10 DEF PowerFails
<1>11. CASE UserClears
    BY <1>11 DEF UserClears
<1>12. CASE UNCHANGED updateVars
    BY <1>12 DEF updateVars
<1> QED BY <1>1, <1>2, <1>3, <1>4, <1>5, <1>6, <1>7, <1>8, <1>9, <1>10, <1>11, <1>12
        DEF UpdateNext

\* A failed run of the updater leaves a whole installation or none.
THEOREM StagedWholeOrNotAtAll == UpdateSpec => []NothingHalfStaged
<1>1. UpdateIInv => NothingHalfStaged
    BY DEF UpdateIInv, UpdateTypeOK, FolderFollowsStep, NothingHalfStaged, Staging, Parts
<1> QED BY UpdateIInit, UpdateStep, <1>1, PTL DEF UpdateSpec

-----------------------------------------------------------------------------
(***************************************************************************)
(* WebComposer                                                             *)
(***************************************************************************)
ComposerTypeOK ==
    /\ sender \in Senders /\ view \in Views /\ frequency \in Frequencies
    /\ draftKey \in Conversations
    /\ drafts \in [Conversations -> Conversations \cup {Blank}]
    /\ unsent \subseteq Conversations

\* What the field and a draft hold was typed in the conversation they stand for.
TextsInPlace ==
    /\ field \in {Blank, draftKey}
    /\ \A conversation \in Conversations : drafts[conversation] \in {Blank, conversation}

ComposerIInv == ComposerTypeOK /\ TextsInPlace /\ NoTextStrays

LEMMA ComposerIInit == ComposerInit => ComposerIInv
    BY ComposerAssumption
    DEF ComposerInit, ComposerIInv, ComposerTypeOK, TextsInPlace, NoTextStrays,
        MessageGoesWhereTyped, DraftsKept, Conversations, Views

LEMMA ComposerStep == ComposerIInv /\ [ComposerNext]_composerVars => ComposerIInv'
<1> SUFFICES ASSUME ComposerIInv, [ComposerNext]_composerVars PROVE ComposerIInv'
    OBVIOUS
<1>a. Blank \notin Conversations
    BY ComposerAssumption DEF Conversations
<1>b. /\ Conversation \in Conversations
      /\ \A peer \in Peers : <<sender, peer>> \in Conversations
    BY DEF ComposerIInv, ComposerTypeOK, Conversations, Conversation, Recipient, Views
<1> USE DEF ComposerIInv, ComposerTypeOK, TextsInPlace, NoTextStrays, MessageGoesWhereTyped,
            DraftsKept
<1>1. ASSUME NEW next \in Senders, SenderChanges(next) PROVE ComposerIInv'
    BY <1>1 DEF SenderChanges
\* The field is put away and the draft of the conversation is taken out.
<1>2. ASSUME SyncDraft, UNCHANGED <<unsent, sent>>,
             sender' \in Senders, view' \in Views, frequency' \in Frequencies
      PROVE  ComposerIInv'
    <2>1. Conversation' \in Conversations
        BY <1>2 DEF Conversations, Conversation, Recipient, Views
    <2> QED BY <1>2, <1>a, <2>1 DEF SyncDraft
<1>3. ASSUME NEW next \in Senders, SelectsSender(next) PROVE ComposerIInv'
    BY <1>2, <1>3 DEF SelectsSender
<1>4. ASSUME NEW v \in Views, ChoosesView(v) PROVE ComposerIInv'
    BY <1>2, <1>4 DEF ChoosesView
<1>5. ASSUME NEW f \in Frequencies, ChoosesFrequency(f) PROVE ComposerIInv'
    BY <1>2, <1>5 DEF ChoosesFrequency
<1>6. CASE Types(draftKey) \/ Types(Blank)
    BY <1>6, <1>a DEF Types
<1>7. CASE SubmitsMessage
    <2>1. CASE draftKey # Conversation
        BY <1>2, <1>7, <2>1 DEF SubmitsMessage
    <2>2. CASE draftKey = Conversation
        BY <1>7, <1>a, <1>b, <2>2 DEF SubmitsMessage, SendsAtOnce, Accepted
    <2> QED BY <2>1, <2>2
<1>8. ASSUME NEW peer \in Peers, SubmitsChat(peer) PROVE ComposerIInv'
    BY <1>8, <1>a, <1>b DEF SubmitsChat, Views
<1>9. CASE UNCHANGED composerVars
    BY <1>9 DEF composerVars
<1> QED BY <1>1, <1>3, <1>4, <1>5, <1>6, <1>7, <1>8, <1>9 DEF ComposerNext

\* No text goes to another recipient than it was typed for, and none is lost.
THEOREM TextsStayInPlace == ComposerSpec => []NoTextStrays
<1>1. ComposerIInv => NoTextStrays
    BY DEF ComposerIInv
<1> QED BY ComposerIInit, ComposerStep, <1>1, PTL DEF ComposerSpec

-----------------------------------------------------------------------------
(***************************************************************************)
(* WebSound                                                                *)
(***************************************************************************)
LEMMA MutingStep == NothingReplayed /\ [SoundNext]_soundVars => NothingReplayed'
<1> SUFFICES ASSUME NothingReplayed, [SoundNext]_soundVars PROVE NothingReplayed'
    OBVIOUS
<1> USE DEF NothingReplayed
<1>1. CASE FrameArrives \/ TestTone
    BY <1>1 DEF FrameArrives, TestTone, Asked
<1>2. CASE ToggleMute
    BY <1>2 DEF ToggleMute
<1>3. CASE Unlock \/ UnlockEnds
    BY <1>3 DEF Unlock, UnlockEnds
<1>4. ASSUME NEW task \in deferred, FrameContinues(task) PROVE NothingReplayed'
    BY <1>4 DEF FrameContinues, StillWanted
<1>5. ASSUME NEW task \in scheduled, FrameEnds(task) PROVE NothingReplayed'
    BY <1>5 DEF FrameEnds
<1>6. ASSUME NEW next \in {"none", "suspended", "running", "closed"}, ContextChanges(next)
      PROVE  NothingReplayed'
    BY <1>6 DEF ContextChanges
<1>7. CASE UNCHANGED soundVars
    BY <1>7 DEF soundVars
<1> QED BY <1>1, <1>2, <1>3, <1>4, <1>5, <1>6, <1>7 DEF SoundNext

\* Unmuting never replays what arrived before.
THEOREM UnmutingReplaysNothing == SoundSpec => []NothingReplayed
<1>1. SoundInit => NothingReplayed
    BY DEF SoundInit, NothingReplayed
<1> QED BY <1>1, MutingStep, PTL DEF SoundSpec
-----------------------------------------------------------------------------
(***************************************************************************)
(* WebAlerts                                                               *)
(***************************************************************************)
AlertPageTypeOK ==
    /\ preference \in Preferences
    /\ subscription \in BOOLEAN /\ syncing \in BOOLEAN /\ unsubscribeFailed \in BOOLEAN /\ lost \in BOOLEAN
    /\ links \in 0..MaxLinks /\ link \in 0..MaxLinks
    /\ toAgent \in Seq(Preferences \cup {Nothing})

\* The last message to the agent is what it will hold.
WillBeStored(p) ==
    \/ toAgent = <<>> /\ stored = p
    \/ \E n \in DOMAIN toAgent : toAgent[n] = p /\ \A i \in DOMAIN toAgent : ~(i > n)

\* On an open socket, a subscription is either up to date with the agent, or the
\* page will hear something that makes it synchronise, or the last message was lost.
SyncIsDue ==
    Online /\ subscription /\ working # "disabling" /\ ~unsubscribeFailed =>
        IF signature = Signature(preference) THEN WillBeStored(preference) \/ (toAgent = <<>> /\ lost)
        ELSE syncing \/ toPage # <<>> \/ toAgent # <<>> \/ lost

AlertPageIInv == AlertPageTypeOK /\ SyncIsDue

LEMMA AlertPageIInit == AlertPageInit => AlertPageIInv
<1> SUFFICES ASSUME AlertPageInit PROVE AlertPageIInv
    OBVIOUS
<1>1. <<>> \in Seq(Preferences \cup {Nothing})
    BY EmptySeq
<1>2. subscription \in BOOLEAN /\ syncing \in BOOLEAN /\ unsubscribeFailed \in BOOLEAN /\ lost \in BOOLEAN
    BY Zenon DEF AlertPageInit
<1> QED BY <1>1, <1>2, AlertPageAssumption
        DEF AlertPageInit, AlertPageIInv, AlertPageTypeOK, SyncIsDue, Online

LEMMA AlertPageStep == AlertPageIInv /\ [AlertPageNext]_alertPageVars => AlertPageIInv'
<1> SUFFICES ASSUME AlertPageIInv, [AlertPageNext]_alertPageVars PROVE AlertPageIInv'
    OBVIOUS
\* The signature that stands for none is that of no preference.
<1>a. Online => \A p \in Preferences : Nothing # Signature(p)
    BY AlertPageAssumption DEF AlertPageIInv, AlertPageTypeOK, Online, Signature
\* What is sent is what will be stored.
<1>b. ASSUME NEW p \in Preferences \cup {Nothing}, toAgent' = Append(toAgent, p)
      PROVE  toAgent' \in Seq(Preferences \cup {Nothing}) /\ WillBeStored(p)' /\ toAgent' # <<>>
    <2>1. PICK n \in DOMAIN Append(toAgent, p) :
              /\ Append(toAgent, p)[n] = p
              /\ \A i \in DOMAIN Append(toAgent, p) : ~(i > n)
        BY AppendOne DEF AlertPageIInv, AlertPageTypeOK
    <2>2. Append(toAgent, p) \in Seq(Preferences \cup {Nothing})
        BY AppendOne DEF AlertPageIInv, AlertPageTypeOK
    <2>3. Append(toAgent, p) # <<>>
        BY <2>1, EmptySeq
    <2> QED BY <1>b, <2>1, <2>2, <2>3 DEF WillBeStored
<1> USE DEF AlertPageIInv, AlertPageTypeOK, SyncIsDue, Online, Signature
<1>1. CASE LinkOpens
    <2>1. links + 1 \in 1..MaxLinks /\ links + 1 # 0
        BY <1>1, AlertPageAssumption DEF LinkOpens
    <2>2. \A p \in Preferences : Nothing # <<links + 1, p>>
        BY <2>1, AlertPageAssumption
    <2>3. toPage' # <<>>
        BY <1>1 DEF LinkOpens
    <2>4. /\ signature' = Nothing /\ link' = links + 1 /\ links' = links + 1
          /\ UNCHANGED <<preference, subscription, syncing, toAgent>>
          /\ unsubscribeFailed' = FALSE /\ lost' = FALSE
        BY <1>1 DEF LinkOpens
    <2>5. unsubscribeFailed' \in BOOLEAN /\ lost' \in BOOLEAN
        BY <2>4, Zenon
    <2>6. AlertPageTypeOK'
        BY <2>1, <2>4, <2>5
    <2>7. signature' # Signature(preference)'
        BY <2>2, <2>4
    <2> QED BY <2>3, <2>6, <2>7
<1>2. CASE LinkCloses
    <2>1. <<>> \in Seq(Preferences \cup {Nothing})
        BY EmptySeq
    <2> QED BY <1>2, <2>1, AlertPageAssumption DEF LinkCloses
<1>3. CASE StateArrives
    BY <1>3 DEF StateArrives, StartSync, WillBeStored
<1>4. CASE SyncContinues
    <2>1. CASE subscription /\ signature # Signature(preference) /\ Online
        <3>1. toAgent' = Append(toAgent, preference) /\ signature' = Signature(preference) /\ preference' = preference
            BY <1>4, <2>1 DEF SyncContinues, SendSubscription
        <3>2. /\ toAgent' \in Seq(Preferences \cup {Nothing})
              /\ WillBeStored(preference)'
            BY <3>1, <1>b
        <3> QED BY <1>4, <3>1, <3>2 DEF SyncContinues, WillBeStored
    <2>2. CASE ~(subscription /\ signature # Signature(preference) /\ Online)
        BY <1>4, <2>2 DEF SyncContinues, SendSubscription, WillBeStored
    <2> QED BY <2>1, <2>2
<1>5. ASSUME NEW p \in Preferences, ChangesPreference(p) PROVE AlertPageIInv'
    BY <1>5, <1>a DEF ChangesPreference, StartSync
<1>6. CASE StartsEnabling
    BY <1>6 DEF StartsEnabling, WillBeStored
<1>7. CASE Enables
    <2>1. CASE subscription' = TRUE /\ SendSubscription(preference) /\ Online
        <3>1. toAgent' = Append(toAgent, preference) /\ signature' = Signature(preference) /\ preference' = preference
            BY <1>7, <2>1 DEF Enables, SendSubscription
        <3>2. /\ toAgent' \in Seq(Preferences \cup {Nothing})
              /\ WillBeStored(preference)'
            BY <3>1, <1>b
        <3> QED BY <1>7, <2>1, <3>1, <3>2 DEF Enables, WillBeStored
    <2>2. CASE subscription' = TRUE /\ SendSubscription(preference) /\ ~Online
        BY <1>7, <2>2 DEF Enables, SendSubscription
    <2>3. CASE UNCHANGED <<subscription, toAgent, signature>>
        BY <1>7, <2>3 DEF Enables, WillBeStored
    <2> QED BY <1>7, <2>1, <2>2, <2>3 DEF Enables
<1>8. CASE StartsDisabling
    <2>1. toAgent' \in Seq(Preferences \cup {Nothing})
        BY <1>8, <1>b DEF StartsDisabling
    <2> QED BY <1>8, <2>1 DEF StartsDisabling
<1>9. CASE Disables
    BY <1>9 DEF Disables
\* The first message on its way is no longer: the last one still is, unless it was the first.
<1>c. ASSUME toAgent # <<>>, toAgent' = Tail(toAgent)
      PROVE  /\ toAgent' \in Seq(Preferences \cup {Nothing})
             /\ \A p : WillBeStored(p) =>
                    \/ toAgent' # <<>> /\ \E n \in DOMAIN toAgent' : /\ toAgent'[n] = p
                                                                 /\ \A i \in DOMAIN toAgent' : ~(i > n)
                    \/ toAgent' = <<>> /\ Head(toAgent) = p
    <2> DEFINE T == Tail(toAgent)
    <2>1. /\ T \in Seq(Preferences \cup {Nothing})
          /\ \A i \in DOMAIN T : i + 1 \in DOMAIN toAgent /\ T[i] = toAgent[i + 1]
          /\ \A i \in DOMAIN toAgent : i # 1 => i - 1 \in DOMAIN T /\ T[i - 1] = toAgent[i]
          /\ Head(toAgent) = toAgent[1] /\ 1 \in DOMAIN toAgent
          /\ DOMAIN toAgent = 1..Len(toAgent) /\ DOMAIN T = 1..(Len(toAgent) - 1) /\ Len(toAgent) \in Nat
        BY <1>c, TakeFirst
    <2>2. T # <<>> => DOMAIN T # {}
        BY <2>1, EmptySeq
    <2>3. toAgent' = T
        BY <1>c
    <2> HIDE DEF T
    <2>4. ASSUME NEW p, WillBeStored(p)
          PROVE  \/ T # <<>> /\ \E n \in DOMAIN T : T[n] = p /\ \A i \in DOMAIN T : ~(i > n)
                 \/ T = <<>> /\ Head(toAgent) = p
        <3>1. PICK n \in DOMAIN toAgent : toAgent[n] = p /\ \A i \in DOMAIN toAgent : ~(i > n)
            BY <1>c, <2>4 DEF WillBeStored
        <3>2. CASE n = 1
            <4>1. T = <<>>
                BY <2>1, <2>2, <3>1, <3>2
            <4> QED BY <2>1, <3>1, <3>2, <4>1
        <3>3. CASE n # 1
            <4>1. n - 1 \in DOMAIN T /\ T[n - 1] = p /\ \A i \in DOMAIN T : ~(i > n - 1)
                BY <2>1, <3>1, <3>3
            <4>2. T # <<>>
                BY <4>1, EmptySeq
            <4> QED BY <4>1, <4>2
        <3> QED BY <3>2, <3>3
    <2> QED BY <2>1, <2>3, <2>4
<1>d. Append(toPage, "state") # <<>>
    OBVIOUS
<1>10. CASE AgentStores
    <2>1. /\ toAgent # <<>> /\ toAgent' = Tail(toAgent) /\ stored' = Head(toAgent)
          /\ lost' = FALSE /\ toPage' = Append(toPage, "state")
          /\ UNCHANGED <<preference, subscription, syncing, working, signature, link, links, unsubscribeFailed>>
        BY <1>10 DEF AgentStores
    <2>2. toAgent' \in Seq(Preferences \cup {Nothing}) /\ \A p : WillBeStored(p) => WillBeStored(p)'
        BY <1>c, <2>1 DEF WillBeStored
    <2>3. toPage' # <<>>
        BY <1>d, <2>1
    <2>4. AlertPageTypeOK'
        BY <2>1, <2>2
    <2>5. SyncIsDue'
        <3> HIDE DEF AlertPageTypeOK
        <3> QED BY <2>1, <2>2, <2>3
    <2> QED BY <2>4, <2>5
<1>12. CASE AgentLoses
    <2>1. /\ toAgent # <<>> /\ toAgent' = Tail(toAgent) /\ lost' = TRUE
          /\ UNCHANGED <<preference, subscription, syncing, working, signature, link, links, stored, unsubscribeFailed>>
        BY <1>12 DEF AgentLoses
    <2>2. /\ toAgent' \in Seq(Preferences \cup {Nothing})
          /\ \A p : WillBeStored(p) => WillBeStored(p)' \/ toAgent' = <<>>
        BY <1>c, <2>1 DEF WillBeStored
    <2>3. AlertPageTypeOK'
        BY <2>1, <2>2
    <2>4. SyncIsDue'
        <3> HIDE DEF AlertPageTypeOK
        <3> QED BY <2>1, <2>2
    <2> QED BY <2>3, <2>4
<1>11. CASE UNCHANGED alertPageVars
    BY <1>11 DEF alertPageVars, WillBeStored
<1> QED BY <1>1, <1>2, <1>3, <1>4, <1>5, <1>6, <1>7, <1>8, <1>9, <1>10, <1>11, <1>12 DEF AlertPageNext

\* The agent gets the preferences that the page shows, whatever was changed during an
\* await and whatever the page's lost socket took with it, unless the last message was
\* lost between the relay and the agent.
THEOREM PreferencesArrive == AlertPageSpec => []PreferencesReachAgent
<1>1. AlertPageIInv => PreferencesReachAgent
    <2>1. DOMAIN <<>> = {}
        BY EmptySeq
    <2> QED BY <2>1 DEF AlertPageIInv, AlertPageTypeOK, SyncIsDue, WillBeStored, Online, Signature, PreferencesReachAgent
<1> QED BY AlertPageIInit, AlertPageStep, <1>1, PTL DEF AlertPageSpec
-----------------------------------------------------------------------------
(***************************************************************************)
(* WebRequests                                                             *)
(***************************************************************************)
PlanStates == (PlanAirports \cup {NoPlanned}) \X Nat \X BOOLEAN
PageMessages ==
    [kind : {"flight_plan_status"}, plan : PlanAirports \cup {NoPlanned}, report : Nat]
    \cup [kind : {"pong"}, filed : BOOLEAN]
    \cup [kind : {"weather_update"}, report : Nat]
    \cup [kind : {"unicom_timer_state"}, active : BOOLEAN]

\* What a page that shows plan, report and timer s shows after message m.
ShownAfter(s, m) ==
    IF m.kind = "flight_plan_status" THEN <<m.plan, m.report, s[3]>>
    ELSE IF m.kind = "weather_update" THEN <<s[1], m.report, s[3]>>
    ELSE IF m.kind = "unicom_timer_state" THEN <<s[1], s[2], m.active>>
    ELSE IF m.filed THEN s
    ELSE <<NoPlanned, 0, s[3]>>
PageSteps == {t \in PlanStates \X PageMessages \X PlanStates : t[3] = ShownAfter(t[1], t[2])}

AgentState == <<filed, report, running>>
ShownState == <<shownPlan, shownReport, shownTimer>>

\* The messages on their way make the page show the agent's state.
RequestsIInv ==
    /\ AgentState \in PlanStates /\ ShownState \in PlanStates
    /\ inbox \in Seq(PageMessages) /\ requested \in Seq({"weather", "start", "cancel"})
    /\ filed = NoPlanned => report = 0
    /\ weatherPending.pending => shownReport = weatherPending.previous
    /\ Leads(inbox, PageSteps, PlanStates, ShownState, AgentState)

LEMMA RequestsIInit == RequestsInit => RequestsIInv
<1> SUFFICES ASSUME RequestsInit PROVE RequestsIInv
    OBVIOUS
<1>1. AgentState \in PlanStates /\ ShownState = AgentState
    BY DEF RequestsInit, PlanStates, AgentState, ShownState
<1>2. Leads(<<>>, PageSteps, PlanStates, AgentState, AgentState)
    BY <1>1, LeadsNowhere
<1>3. <<>> \in Seq(PageMessages) /\ <<>> \in Seq({"weather", "start", "cancel"})
    BY EmptySeq
<1> QED BY <1>1, <1>2, <1>3 DEF RequestsInit, RequestsIInv, Absent

LEMMA RequestsStep == RequestsIInv /\ [RequestsNext]_requestVars => RequestsIInv'
<1> SUFFICES ASSUME RequestsIInv, [RequestsNext]_requestVars PROVE RequestsIInv'
    OBVIOUS
\* The agent changes and says so.
<1>a. ASSUME NEW m \in PageMessages, inbox' = Append(inbox, m), UNCHANGED pageSide,
             AgentState' \in PlanStates, AgentState' = ShownAfter(AgentState, m),
             filed' = NoPlanned => report' = 0, requested' \in Seq({"weather", "start", "cancel"})
      PROVE  RequestsIInv'
    <2>1. <<AgentState, m, AgentState'>> \in PageSteps
        BY <1>a DEF PageSteps, RequestsIInv
    <2>2. Leads(inbox', PageSteps, PlanStates, ShownState, AgentState')
        BY <1>a, <2>1, LeadsOn DEF RequestsIInv
    <2>3. inbox' \in Seq(PageMessages)
        BY <1>a, AppendProperties DEF RequestsIInv
    <2>4. ShownState' = ShownState /\ weatherPending' = weatherPending /\ shownReport' = shownReport
        BY <1>a DEF pageSide, ShownState
    <2> QED BY <1>a, <2>2, <2>3, <2>4 DEF RequestsIInv
\* Nothing that the page shows or the agent said changes.
<1>b. ASSUME UNCHANGED <<filed, report, running, shownPlan, shownReport, shownTimer, inbox>>,
             requested' \in Seq({"weather", "start", "cancel"}),
             weatherPending'.pending => shownReport = weatherPending'.previous
      PROVE  RequestsIInv'
    BY <1>b DEF RequestsIInv, AgentState, ShownState
<1>1. ASSUME NEW plan \in PlanAirports \cup {NoPlanned}, PlanChanges(plan) PROVE RequestsIInv'
    <2>1. PlanMessage(plan, 0) \in PageMessages
        BY DEF PlanMessage, PageMessages
    <2>2. AgentState' \in PlanStates /\ AgentState' = ShownAfter(AgentState, PlanMessage(plan, 0))
        BY <1>1 DEF PlanChanges, PlanStates, AgentState, ShownAfter, PlanMessage, RequestsIInv
    <2> QED BY <1>1, <1>a, <2>1, <2>2 DEF PlanChanges, RequestsIInv
<1>2. CASE ReportArrives
    <2> DEFINE m == [kind |-> "weather_update", report |-> report']
    <2>1. report \in Nat /\ report' \in Nat
        BY <1>2 DEF ReportArrives, RequestsIInv, AgentState, PlanStates
    <2>2. m \in PageMessages
        BY <2>1 DEF PageMessages
    <2>3. AgentState' \in PlanStates /\ AgentState' = ShownAfter(AgentState, m)
        BY <1>2, <2>1 DEF ReportArrives, PlanStates, AgentState, ShownAfter, RequestsIInv
    <2> QED BY <1>2, <1>a, <2>2, <2>3 DEF ReportArrives, RequestsIInv
<1>3. CASE PongArrives
    <2> DEFINE m == [kind |-> "pong", filed |-> filed # NoPlanned]
    <2>1. m \in PageMessages
        BY DEF PageMessages
    <2>2. AgentState' = AgentState /\ UNCHANGED <<filed, report>>
        BY <1>3 DEF PongArrives, agentSide, AgentState
    <2>3. AgentState = ShownAfter(AgentState, m)
        BY DEF AgentState, ShownAfter, RequestsIInv
    <2> QED BY <1>3, <1>a, <2>1, <2>2, <2>3 DEF PongArrives, RequestsIInv
\* The timer's state, as AgentHears and TimerChanges tell it.
<1>c. ASSUME running' \in BOOLEAN, UNCHANGED <<filed, report, pageSide>>,
             inbox' = Append(inbox, [kind |-> "unicom_timer_state", active |-> running']),
             requested' \in Seq({"weather", "start", "cancel"})
      PROVE  RequestsIInv'
    <2> DEFINE m == [kind |-> "unicom_timer_state", active |-> running']
    <2>1. m \in PageMessages
        BY <1>c DEF PageMessages
    <2>2. AgentState' \in PlanStates /\ AgentState' = ShownAfter(AgentState, m)
        BY <1>c DEF PlanStates, AgentState, ShownAfter, RequestsIInv
    <2> QED BY <1>a, <1>c, <2>1, <2>2 DEF RequestsIInv
<1>4. CASE AgentHears
    <2>1. Tail(requested) \in Seq({"weather", "start", "cancel"}) /\ Head(requested) \in {"weather", "start", "cancel"}
        BY <1>4, TakeFirst DEF AgentHears, RequestsIInv
    <2>2. CASE Head(requested) = "weather"
        BY <1>4, <1>b, <2>1, <2>2 DEF AgentHears, RequestsIInv, pageSide
    <2>3. CASE Head(requested) = "cancel" /\ ~running
        <3>1. running \in BOOLEAN
            BY DEF RequestsIInv, AgentState, PlanStates
        <3>2. running' = running
            BY <1>4, <2>3, <3>1, Zenon DEF AgentHears
        <3> QED BY <1>4, <1>b, <2>1, <2>3, <3>2 DEF AgentHears, RequestsIInv, pageSide
    <2>4. CASE Head(requested) # "weather" /\ ~(Head(requested) = "cancel" /\ ~running)
        <3>1. running' \in BOOLEAN
            BY <1>4, <2>4 DEF AgentHears
        <3> QED BY <1>4, <1>c, <2>1, <2>4, <3>1 DEF AgentHears
    <2> QED BY <2>2, <2>3, <2>4
<1>5. ASSUME NEW on \in BOOLEAN, TimerChanges(on) PROVE RequestsIInv'
    <2>1. running' \in BOOLEAN
        BY <1>5, Zenon DEF TimerChanges
    <2> QED BY <1>5, <1>c, <2>1 DEF TimerChanges, RequestsIInv
<1>6. CASE RequestPanelWeather
    <2>1. requested' \in Seq({"weather", "start", "cancel"})
        BY <1>6, AppendProperties DEF RequestPanelWeather, RequestsIInv
    <2> QED BY <1>6, <1>b, <2>1 DEF RequestPanelWeather, agentSide, Mark
<1>7. CASE WeatherTimesOut
    BY <1>7, <1>b DEF WeatherTimesOut, agentSide, Absent, RequestsIInv
<1>8. CASE ToggleUnicomTimer
    <2>1. requested' \in Seq({"weather", "start", "cancel"})
        BY <1>8, AppendProperties DEF ToggleUnicomTimer, RequestsIInv
    <2> QED BY <1>8, <1>b, <2>1 DEF ToggleUnicomTimer, agentSide, RequestsIInv
<1>9. CASE TimerPendingEnds
    BY <1>9, <1>b DEF TimerPendingEnds, agentSide, RequestsIInv
<1>10. CASE PageHandles
    <2> DEFINE m == Head(inbox)
    <2>1. PICK c \in PlanStates : <<ShownState, m, c>> \in PageSteps /\ Leads(Tail(inbox), PageSteps, PlanStates, c, AgentState)
        BY <1>10, LeadsFrom DEF PageHandles, RequestsIInv
    <2>2. Tail(inbox) \in Seq(PageMessages) /\ m \in PageMessages
        BY <1>10, TakeFirst DEF PageHandles, RequestsIInv
    <2>3. c = ShownAfter(ShownState, m)
        BY <2>1 DEF PageSteps
    <2>4. ShownState' = ShownAfter(ShownState, m)
        BY <1>10, <2>2 DEF PageHandles, PageMessages, ShownAfter, ShownState, SetFlightPlan, SetStatus,
              SetWeather, SetTimer
    <2>5. weatherPending'.pending => shownReport' = weatherPending'.previous
        BY <1>10 DEF PageHandles, SetFlightPlan, SetStatus, SetWeather, SetTimer, Resolved, Absent, RequestsIInv
    <2>6. AgentState' = AgentState /\ UNCHANGED <<filed, report, requested>> /\ inbox' = Tail(inbox)
        BY <1>10 DEF PageHandles, agentSide, AgentState
    <2> QED BY <2>1, <2>2, <2>3, <2>4, <2>5, <2>6 DEF RequestsIInv
<1>11. CASE UNCHANGED requestVars
    BY <1>11, <1>b DEF requestVars, RequestsIInv
<1> QED BY <1>1, <1>2, <1>3, <1>4, <1>5, <1>6, <1>7, <1>8, <1>9, <1>10, <1>11 DEF RequestsNext

\* A waiting button has not been answered, and when all has been handled the page
\* shows the agent's plan, report and timer.
THEOREM PageShowsAnswers == RequestsSpec => []AnswersAreShown
<1>1. RequestsIInv => AnswersAreShown
    BY LeadsNowhere DEF RequestsIInv, AnswersAreShown, AgentState, ShownState
<1> QED BY RequestsIInit, RequestsStep, <1>1, PTL DEF RequestsSpec

-----------------------------------------------------------------------------
(***************************************************************************)
(* StationMenus                                                            *)
(***************************************************************************)
WavesOrNone == Waves \cup {Nowhere}
KnownStates == [Controllers -> WavesOrNone] \X (Places \cup {Nowhere})
KnownNews == [kind : {"atc_detected", "own_position", "stations"},
              stations : [Controllers -> WavesOrNone], place : Places \cup {Nowhere}]
WaveNews == [kind : {"freq_update"}, wave : Waves, station : Controllers \cup {Nowhere}]
StationNews == KnownNews \cup WaveNews

\* What a page that knows s knows after message m.
KnownAfter(s, m) ==
    IF m.kind = "freq_update" THEN s
    ELSE <<[c \in Controllers |-> IF m.stations[c] = Nowhere THEN s[1][c] ELSE m.stations[c]],
           IF m.place = Nowhere THEN s[2] ELSE m.place>>
KnownSteps == {t \in KnownStates \X StationNews \X KnownStates : t[3] = KnownAfter(t[1], t[2])}

AgentKnows == <<knownStations, ownPlace>>
PageKnows == <<pageStations, pagePlace>>

\* The last message about the radio says w; no message is about the radio.
LastWave(q, w) ==
    \E n \in DOMAIN q : /\ q[n].kind = "freq_update" /\ q[n].wave = w
                        /\ \A i \in DOMAIN q : i > n => q[i].kind # "freq_update"
NoWave(q) == \A i \in DOMAIN q : q[i].kind # "freq_update"
LastTuning(w) ==
    \E n \in DOMAIN tunings : tunings[n].wave = w /\ \A i \in DOMAIN tunings : ~(i > n)

\* The page will be told the radio's frequency, or shows it, or shows the one it
\* asked for last and is not told another.
WaveFollows ==
    \/ LastWave(stationNews, comWave)
    \/ NoWave(stationNews) /\ (pageWave = comWave \/ LastTuning(pageWave))

NamesWhoIsThere ==
    pageWave # Nowhere =>
        IF OnWave(pageStations, pagePlace, pageWave) = {} THEN pageStation = Nowhere
        ELSE pageStation \in OnWave(pageStations, pagePlace, pageWave)

StationsTypeOK ==
    /\ AgentKnows \in KnownStates /\ PageKnows \in KnownStates
    /\ comWave \in WavesOrNone /\ comStation \in Controllers \cup {Nowhere}
    /\ stationNews \in Seq(StationNews) /\ tunings \in Seq(WaveNews)

StationsIInv ==
    /\ StationsTypeOK
    /\ Leads(stationNews, KnownSteps, KnownStates, PageKnows, AgentKnows)
    /\ WaveFollows /\ NamesWhoIsThere

\* A message leaves the queue, or is put on it.
LEMMA NewsTaken ==
    ASSUME NEW q \in Seq(StationNews), q # <<>>
    PROVE  /\ NoWave(q) => NoWave(Tail(q)) /\ Head(q).kind # "freq_update"
           /\ \A w : LastWave(q, w) =>
                  \/ LastWave(Tail(q), w)
                  \/ Head(q).kind = "freq_update" /\ Head(q).wave = w /\ NoWave(Tail(q))
<1>1. /\ Len(q) \in Nat /\ DOMAIN q = 1..Len(q) /\ DOMAIN Tail(q) = 1..(Len(q) - 1)
      /\ 1 \in DOMAIN q /\ Head(q) = q[1]
      /\ \A i \in DOMAIN Tail(q) : i + 1 \in DOMAIN q /\ Tail(q)[i] = q[i + 1]
      /\ \A i \in DOMAIN q : i # 1 => i - 1 \in DOMAIN Tail(q) /\ Tail(q)[i - 1] = q[i]
    BY TakeFirst
<1>2. NoWave(q) => NoWave(Tail(q)) /\ Head(q).kind # "freq_update"
    BY <1>1 DEF NoWave
<1>3. ASSUME NEW w, LastWave(q, w)
      PROVE  \/ LastWave(Tail(q), w)
             \/ Head(q).kind = "freq_update" /\ Head(q).wave = w /\ NoWave(Tail(q))
    <2>1. PICK n \in DOMAIN q : /\ q[n].kind = "freq_update" /\ q[n].wave = w
                                /\ \A i \in DOMAIN q : i > n => q[i].kind # "freq_update"
        BY <1>3 DEF LastWave
    <2>2. CASE n = 1
        BY <1>1, <2>1, <2>2 DEF NoWave
    <2>3. CASE n # 1
        <3>1. /\ n - 1 \in DOMAIN Tail(q) /\ Tail(q)[n - 1].kind = "freq_update" /\ Tail(q)[n - 1].wave = w
              /\ \A i \in DOMAIN Tail(q) : i > n - 1 => Tail(q)[i].kind # "freq_update"
            BY <1>1, <2>1, <2>3
        <3> QED BY <3>1 DEF LastWave
    <2> QED BY <2>2, <2>3
<1> QED BY <1>2, <1>3

LEMMA NewsPut ==
    ASSUME NEW q \in Seq(StationNews), NEW m \in StationNews
    PROVE  /\ m.kind # "freq_update" =>
                  /\ NoWave(q) => NoWave(Append(q, m))
                  /\ \A w : LastWave(q, w) => LastWave(Append(q, m), w)
           /\ m.kind = "freq_update" => LastWave(Append(q, m), m.wave)
<1>1. PICK n \in DOMAIN Append(q, m) :
          /\ Append(q, m)[n] = m
          /\ \A i \in DOMAIN Append(q, m) : i \in DOMAIN q \/ i = n
          /\ \A i \in DOMAIN Append(q, m) : ~(i > n)
    BY AppendOne
<1>2. DOMAIN q \subseteq DOMAIN Append(q, m) /\ \A i \in DOMAIN q : Append(q, m)[i] = q[i]
    BY AppendOne
<1>3. m.kind # "freq_update" => (NoWave(q) => NoWave(Append(q, m)))
    BY <1>1, <1>2 DEF NoWave
<1>4. ASSUME m.kind # "freq_update", NEW w, LastWave(q, w)
      PROVE  LastWave(Append(q, m), w)
    <2>1. PICK k \in DOMAIN q : /\ q[k].kind = "freq_update" /\ q[k].wave = w
                                /\ \A i \in DOMAIN q : i > k => q[i].kind # "freq_update"
        BY <1>4 DEF LastWave
    <2>2. /\ k \in DOMAIN Append(q, m) /\ Append(q, m)[k] = q[k]
          /\ \A i \in DOMAIN Append(q, m) : i > k => Append(q, m)[i].kind # "freq_update"
        BY <1>1, <1>2, <1>4, <2>1
    <2> QED BY <2>1, <2>2 DEF LastWave
<1>5. m.kind = "freq_update" => LastWave(Append(q, m), m.wave)
    BY <1>1 DEF LastWave
<1> QED BY <1>3, <1>4, <1>5

LEMMA StationsIInit == StationsInit => StationsIInv
<1> SUFFICES ASSUME StationsInit PROVE StationsIInv
    OBVIOUS
<1>1. AgentKnows \in KnownStates /\ PageKnows = AgentKnows
    BY DEF StationsInit, KnownStates, AgentKnows, PageKnows, NotHeard, WavesOrNone
<1>2. <<>> \in Seq(StationNews) /\ <<>> \in Seq(WaveNews) /\ DOMAIN <<>> = {}
    BY EmptySeq
<1>3. Leads(<<>>, KnownSteps, KnownStates, PageKnows, AgentKnows)
    BY <1>1, LeadsNowhere
<1> QED BY <1>1, <1>2, <1>3
        DEF StationsInit, StationsIInv, StationsTypeOK, WaveFollows, NoWave, NamesWhoIsThere, WavesOrNone

\* The agent has heard or moved, and tells the page.
LEMMA KnownIsTold ==
    ASSUME StationsIInv, NEW m \in KnownNews, stationNews' = Append(stationNews, m),
           AgentKnows' \in KnownStates, AgentKnows' = KnownAfter(AgentKnows, m),
           UNCHANGED <<agentRadioVars, menuVars, tunings>>
    PROVE  StationsIInv'
<1>1. m \in StationNews /\ m.kind # "freq_update"
    BY DEF KnownNews, StationNews
<1>2. <<AgentKnows, m, AgentKnows'>> \in KnownSteps
    BY <1>1 DEF KnownSteps, StationsIInv, StationsTypeOK
<1>3. Leads(stationNews', KnownSteps, KnownStates, PageKnows, AgentKnows')
    BY <1>1, <1>2, LeadsOn DEF StationsIInv, StationsTypeOK
<1>4. stationNews' \in Seq(StationNews)
    BY <1>1, AppendProperties DEF StationsIInv, StationsTypeOK
<1>5. WaveFollows'
    BY <1>1, NewsPut DEF StationsIInv, StationsTypeOK, WaveFollows, LastTuning, agentRadioVars, menuVars
<1> QED BY <1>3, <1>4, <1>5
        DEF StationsIInv, StationsTypeOK, NamesWhoIsThere, OnWave, Menu, PageKnows, agentRadioVars, menuVars

\* The radio is tuned, and the page told if that changes anything.
LEMMA RadioIsTold ==
    ASSUME StationsIInv, NEW f \in Waves, NEW c \in Controllers \cup {Nowhere},
           UpdateComFrequency(f, c), UNCHANGED <<heardVars, menuVars>>,
           tunings' \in Seq(WaveNews),
           \A w : LastTuning(w) => LastTuning(w)' \/ w = f
    PROVE  StationsIInv'
<1>1. comWave' = f /\ comStation' \in Controllers \cup {Nowhere}
    BY DEF UpdateComFrequency, StationFor, StationsIInv, StationsTypeOK
<1>2. /\ AgentKnows' = AgentKnows /\ PageKnows' = PageKnows /\ pageWave' = pageWave
      /\ NamesWhoIsThere' /\ comWave' \in WavesOrNone
    BY <1>1 DEF heardVars, menuVars, AgentKnows, PageKnows, StationsIInv, NamesWhoIsThere, OnWave, Menu, WavesOrNone
<1>3. CASE comWave' = comWave /\ UNCHANGED stationNews
    BY <1>1, <1>2, <1>3 DEF StationsIInv, StationsTypeOK, WaveFollows
<1>4. CASE stationNews' = Append(stationNews, Tuned(f, comStation'))
    <2>1. /\ Tuned(f, comStation') \in StationNews /\ Tuned(f, comStation').kind = "freq_update"
          /\ Tuned(f, comStation').wave = f
        BY <1>1 DEF Tuned, WaveNews, StationNews
    <2>2. LastWave(stationNews', f) /\ stationNews' \in Seq(StationNews)
        BY <1>4, <2>1, NewsPut, AppendProperties DEF StationsIInv, StationsTypeOK
    <2>3. <<AgentKnows, Tuned(f, comStation'), AgentKnows>> \in KnownSteps
        BY <2>1 DEF KnownSteps, KnownAfter, StationsIInv, StationsTypeOK
    <2>4. Leads(stationNews', KnownSteps, KnownStates, PageKnows, AgentKnows)
        BY <1>4, <2>1, <2>3, LeadsOn DEF StationsIInv, StationsTypeOK
    <2> QED BY <1>1, <1>2, <2>2, <2>4 DEF StationsIInv, StationsTypeOK, WaveFollows
<1> QED BY <1>3, <1>4 DEF UpdateComFrequency, Publishes, Tuned

\* The menu is drawn with a controller who is there.
LEMMA MenuIsDrawn ==
    ASSUME NEW preferred, RenderStationMenus(preferred)
    PROVE  NamesWhoIsThere'
BY DEF RenderStationMenus, Selection, NamesWhoIsThere

\* The page asks for a frequency and shows it.
LEMMA PageAsks ==
    ASSUME StationsIInv, NEW f \in Waves, NEW c \in Controllers \cup {Nowhere}, PageTunes(f, c)
    PROVE  StationsIInv'
<1>1. Tuned(f, c) \in WaveNews /\ Tuned(f, c).wave = f
    BY DEF Tuned, WaveNews
<1>2. tunings' = Append(tunings, Tuned(f, c)) /\ pageWave' = f
    BY DEF PageTunes, SetLabel
<1>3. tunings' \in Seq(WaveNews) /\ LastTuning(f)'
    <2>1. PICK n \in DOMAIN Append(tunings, Tuned(f, c)) :
              /\ Append(tunings, Tuned(f, c))[n] = Tuned(f, c)
              /\ \A i \in DOMAIN Append(tunings, Tuned(f, c)) : ~(i > n)
        BY <1>1, AppendOne DEF StationsIInv, StationsTypeOK
    <2>2. tunings' \in Seq(WaveNews)
        BY <1>1, <1>2, AppendProperties DEF StationsIInv, StationsTypeOK
    <2> QED BY <1>1, <1>2, <2>1, <2>2 DEF LastTuning
<1>4. LastTuning(pageWave)'
    BY <1>2, <1>3 DEF LastTuning
<1>5. /\ AgentKnows' = AgentKnows /\ PageKnows' = PageKnows
      /\ UNCHANGED <<comWave, comStation, stationNews>> /\ NamesWhoIsThere'
    BY MenuIsDrawn DEF PageTunes, SetLabel, AgentKnows, PageKnows, heardVars, agentRadioVars
<1> QED BY <1>3, <1>4, <1>5 DEF StationsIInv, StationsTypeOK, WaveFollows

LEMMA StationsStep == StationsIInv /\ [StationsNext]_stationVars => StationsIInv'
<1> SUFFICES ASSUME StationsIInv, [StationsNext]_stationVars PROVE StationsIInv'
    OBVIOUS
<1>a. /\ knownStations \in [Controllers -> WavesOrNone] /\ ownPlace \in Places \cup {Nowhere}
      /\ pageStations \in [Controllers -> WavesOrNone] /\ pagePlace \in Places \cup {Nowhere}
    BY DEF StationsIInv, StationsTypeOK, AgentKnows, PageKnows, KnownStates
<1>1. ASSUME NEW c \in Controllers, NEW f \in Waves, ControllerReports(c, f) PROVE StationsIInv'
    <2>1. /\ knownStations' = [knownStations EXCEPT ![c] = f] /\ ownPlace' = ownPlace
          /\ AgentKnows' \in KnownStates /\ f # Nowhere
        BY <1>1, <1>a, StationAssumption DEF ControllerReports, KnownStates, AgentKnows, WavesOrNone
    <2>2. Detected(c, f) \in KnownNews /\ AgentKnows' = KnownAfter(AgentKnows, Detected(c, f))
        BY <1>a, <2>1 DEF Detected, KnownNews, KnownAfter, AgentKnows, NotHeard, WavesOrNone
    <2>3. Snapshot \in KnownNews /\ AgentKnows' = KnownAfter(AgentKnows, Snapshot)
        BY <1>a, <2>1 DEF Snapshot, KnownNews, KnownAfter, AgentKnows, WavesOrNone, KnownStates
    <2>4. stationNews' = Append(stationNews, Snapshot) \/ stationNews' = Append(stationNews, Detected(c, f))
        BY <1>1 DEF ControllerReports, Publishes
    <2> QED BY <1>1, <2>1, <2>2, <2>3, <2>4, KnownIsTold DEF ControllerReports
<1>2. ASSUME NEW p \in Places, OwnMoves(p) PROVE StationsIInv'
    <2>1. /\ ownPlace' = p /\ knownStations' = knownStations
          /\ AgentKnows' \in KnownStates /\ p # Nowhere
        BY <1>2, <1>a, StationAssumption DEF OwnMoves, KnownStates, AgentKnows
    <2>2. Position(p) \in KnownNews /\ AgentKnows' = KnownAfter(AgentKnows, Position(p))
        BY <1>a, <2>1 DEF Position, KnownNews, KnownAfter, AgentKnows, NotHeard, WavesOrNone
    <2>3. Snapshot \in KnownNews /\ AgentKnows' = KnownAfter(AgentKnows, Snapshot)
        BY <1>a, <2>1 DEF Snapshot, KnownNews, KnownAfter, AgentKnows, WavesOrNone, KnownStates
    <2>4. stationNews' = Append(stationNews, Snapshot) \/ stationNews' = Append(stationNews, Position(p))
        BY <1>2 DEF OwnMoves, Publishes
    <2> QED BY <1>2, <2>1, <2>2, <2>3, <2>4, KnownIsTold DEF OwnMoves
<1>3. ASSUME NEW f \in Waves, NEW c \in Controllers \cup {Nowhere}, OthersTune(f, c) PROVE StationsIInv'
    BY <1>3, RadioIsTold DEF OthersTune, StationsIInv, StationsTypeOK, LastTuning
<1>4. ASSUME NEW f \in Waves, PageTunes(f, Nowhere) PROVE StationsIInv'
    BY <1>4, PageAsks
<1>5. ASSUME NEW c \in Controllers, TunesStation(c) PROVE StationsIInv'
    BY <1>5, <1>a, PageAsks DEF TunesStation, Menu, WavesOrNone
<1>6. CASE AgentTunes
    <2> DEFINE m == Head(tunings)
               T == Tail(tunings)
    <2>1. /\ T \in Seq(WaveNews) /\ m \in WaveNews
          /\ Len(tunings) \in Nat /\ DOMAIN tunings = 1..Len(tunings) /\ DOMAIN T = 1..(Len(tunings) - 1)
          /\ m = tunings[1] /\ \A i \in DOMAIN tunings : i # 1 => i - 1 \in DOMAIN T /\ T[i - 1] = tunings[i]
        BY <1>6, TakeFirst DEF AgentTunes, StationsIInv, StationsTypeOK
    <2>2. tunings' = T /\ UpdateComFrequency(m.wave, m.station) /\ UNCHANGED <<heardVars, menuVars>>
        BY <1>6 DEF AgentTunes
    <2> HIDE DEF T, m
    <2>3. ASSUME NEW w, LastTuning(w) PROVE LastTuning(w)' \/ w = m.wave
        <3>1. PICK n \in DOMAIN tunings : tunings[n].wave = w /\ \A i \in DOMAIN tunings : ~(i > n)
            BY <2>3 DEF LastTuning
        <3>2. CASE n # 1
            <4>1. n - 1 \in DOMAIN T /\ T[n - 1].wave = w /\ \A i \in DOMAIN T : ~(i > n - 1)
                BY <2>1, <3>1, <3>2
            <4> QED BY <2>2, <4>1 DEF LastTuning
        <3> QED BY <2>1, <3>1, <3>2
    <2>4. m.wave \in Waves /\ m.station \in Controllers \cup {Nowhere}
        BY <2>1 DEF WaveNews
    <2> QED BY <2>1, <2>2, <2>3, <2>4, RadioIsTold
<1>7. CASE PageHears
    <2> DEFINE m == Head(stationNews)
    <2>1. /\ stationNews # <<>> /\ stationNews' = Tail(stationNews)
          /\ Tail(stationNews) \in Seq(StationNews) /\ m \in StationNews
        BY <1>7, TakeFirst DEF PageHears, StationsIInv, StationsTypeOK
    <2>2. PICK c \in KnownStates :
              /\ <<PageKnows, m, c>> \in KnownSteps
              /\ Leads(Tail(stationNews), KnownSteps, KnownStates, c, AgentKnows)
        BY <2>1, LeadsFrom DEF StationsIInv, StationsTypeOK
    <2>3. c = KnownAfter(PageKnows, m)
        BY <2>2 DEF KnownSteps
    <2>4. AgentKnows' = AgentKnows /\ UNCHANGED <<comWave, comStation, tunings>>
        BY <1>7 DEF PageHears, heardVars, agentRadioVars, AgentKnows
    <2>5. PageKnows' = KnownAfter(PageKnows, m)
        BY <1>7 DEF PageHears, SetLabel, LearnsOf, Merged, PageKnows, KnownAfter
    <2>6. NamesWhoIsThere'
        BY <1>7, MenuIsDrawn DEF PageHears, SetLabel, LearnsOf
    <2>7. pageWave' = IF m.kind = "freq_update" THEN m.wave ELSE pageWave
        BY <1>7 DEF PageHears, SetLabel, LearnsOf
    <2> HIDE DEF m
    <2>8. /\ NoWave(stationNews) => NoWave(stationNews') /\ m.kind # "freq_update"
          /\ \A w : LastWave(stationNews, w) =>
                 \/ LastWave(stationNews', w)
                 \/ m.kind = "freq_update" /\ m.wave = w /\ NoWave(stationNews')
        BY <2>1, NewsTaken DEF StationsIInv, StationsTypeOK, m
    <2>9. WaveFollows'
        BY <2>4, <2>7, <2>8 DEF WaveFollows, StationsIInv, LastTuning
    <2> QED BY <2>1, <2>2, <2>3, <2>4, <2>5, <2>6, <2>9 DEF StationsIInv, StationsTypeOK
<1>8. CASE PageOpens
    <2>1. <<>> \in Seq(StationNews) /\ DOMAIN <<>> = {}
        BY EmptySeq
    <2>2. PageKnows' = AgentKnows /\ AgentKnows' = AgentKnows /\ NamesWhoIsThere' /\ pageWave' = comWave
        BY <1>8, MenuIsDrawn DEF PageOpens, heardVars, AgentKnows, PageKnows
    <2>3. Leads(<<>>, KnownSteps, KnownStates, AgentKnows, AgentKnows)
        BY LeadsNowhere DEF StationsIInv, StationsTypeOK
    <2> QED BY <1>8, <2>1, <2>2, <2>3
            DEF PageOpens, agentRadioVars, StationsIInv, StationsTypeOK, WaveFollows, NoWave
<1>9. CASE UNCHANGED stationVars
    BY <1>9 DEF stationVars, StationsIInv, StationsTypeOK, AgentKnows, PageKnows, WaveFollows, LastTuning,
       NamesWhoIsThere, OnWave, Menu
<1> QED BY <1>1, <1>2, <1>3, <1>4, <1>5, <1>6, <1>7, <1>8, <1>9 DEF StationsNext

\* The panel names a controller who is there, and what the page knows in the end is
\* what the agent knows.
THEOREM MenusAreTrue == StationsSpec => []MenuNamesWhoIsThere
<1>1. StationsIInv => MenuNamesWhoIsThere
    <2> SUFFICES ASSUME StationsIInv PROVE MenuNamesWhoIsThere
        OBVIOUS
    <2>1. DOMAIN <<>> = {}
        BY EmptySeq
    <2>2. ASSUME stationNews = <<>>, tunings = <<>>
          PROVE  pageStations = knownStations /\ pagePlace = ownPlace /\ pageWave = comWave
        <3>1. AgentKnows = PageKnows
            BY <2>2, LeadsNowhere DEF StationsIInv, StationsTypeOK
        <3>2. pageWave = comWave
            BY <2>1, <2>2 DEF StationsIInv, WaveFollows, LastWave, LastTuning
        <3> QED BY <3>1, <3>2 DEF AgentKnows, PageKnows
    <2> QED BY <2>2 DEF StationsIInv, NamesWhoIsThere, MenuNamesWhoIsThere
<1> QED BY StationsIInit, StationsStep, <1>1, PTL DEF StationsSpec

-----------------------------------------------------------------------------
(***************************************************************************)
(* WebTabs                                                                 *)
(***************************************************************************)
\* What was read when a tab of `h` was closed is at most as old as its mark.
HiddenSince(h, shown, mark) ==
    \A caller \in Callers : closings[h][caller].closed =>
        /\ shown[caller] = "hidden"
        /\ \A m \in closings[h][caller].read : m.at <= mark[caller]

TabsTypeOK ==
    /\ host \in Remotes /\ tabs \in Layouts /\ marks \in [Callers -> Nat]
    /\ IsFiniteSet(history) /\ history \subseteq Mail /\ \A m \in history : m.at <= Cardinality(history)
    /\ page \subseteq history
    /\ saved \in [Remotes -> [tabs : Layouts, marks : [Callers -> Nat]]]
    /\ closings \in [Remotes -> [Callers -> [closed : BOOLEAN, read : SUBSET history]]]

TabsIInv ==
    /\ TabsTypeOK
    /\ HiddenSince(host, tabs, marks)
    /\ \A h \in Remotes : HiddenSince(h, saved[h].tabs, saved[h].marks)

LEMMA TabsIInit == TabsInit => TabsIInv
<1> SUFFICES ASSUME TabsInit PROVE TabsIInv
    OBVIOUS
<1>1. NoTab \in Layouts /\ NoMark \in [Callers -> Nat] /\ NeverClosed \in [Callers -> [closed : BOOLEAN, read : {{}}]]
    BY DEF NoTab, NoMark, NeverClosed, NotClosed, Layouts
<1>2. \A caller \in Callers : NeverClosed[caller].closed = FALSE
    BY DEF NeverClosed, NotClosed
<1>3. IsFiniteSet(history)
    BY FS_EmptySet DEF TabsInit
<1>4. TabsTypeOK
    BY <1>1, <1>3 DEF TabsInit, TabsTypeOK
<1> QED BY <1>2, <1>4 DEF TabsInit, TabsIInv, HiddenSince

\* The page's layout, saved: it is hidden since the same time.
LEMMA LayoutIsSaved ==
    ASSUME TabsIInv, SaveLayout, host' \in Remotes, tabs' \in Layouts, marks' \in [Callers -> Nat],
           HiddenSince(host, tabs, marks)',
           \A h \in Remotes \ {host'} : closings'[h] = closings[h]
    PROVE  /\ saved' \in [Remotes -> [tabs : Layouts, marks : [Callers -> Nat]]]
           /\ \A h \in Remotes : HiddenSince(h, saved[h].tabs, saved[h].marks)'
<1> DEFINE mark == [caller \in Callers |-> IF tabs'[caller] = "hidden" THEN marks'[caller] ELSE 0]
<1>1. mark \in [Callers -> Nat]
    OBVIOUS
<1>2. saved' = [saved EXCEPT ![host'] = [tabs |-> tabs', marks |-> mark]]
    BY DEF SaveLayout
<1>3. \A caller \in Callers : tabs'[caller] = "hidden" => mark[caller] = marks'[caller]
    OBVIOUS
<1> HIDE DEF mark
<1>4. saved' \in [Remotes -> [tabs : Layouts, marks : [Callers -> Nat]]]
    BY <1>1, <1>2 DEF TabsIInv, TabsTypeOK
<1>5. saved'[host'].tabs = tabs' /\ saved'[host'].marks = mark
    BY <1>2 DEF TabsIInv, TabsTypeOK
<1>6. HiddenSince(host, saved[host].tabs, saved[host].marks)'
    BY <1>3, <1>5 DEF HiddenSince
<1>7. ASSUME NEW h \in Remotes, h # host' PROVE HiddenSince(h, saved[h].tabs, saved[h].marks)'
    BY <1>2, <1>7 DEF HiddenSince, TabsIInv, TabsTypeOK
<1>8. ASSUME NEW h \in Remotes PROVE HiddenSince(h, saved[h].tabs, saved[h].marks)'
    BY <1>6, <1>7
<1> QED BY <1>4, <1>8

\* Messages the page takes in: one that reveals a closed tab was not read before.
LEMMA MailIsTakenIn ==
    ASSUME TabsIInv, NEW mail, mail \subseteq history', NEW replay \in BOOLEAN, Remembers(mail, replay),
           history \subseteq history', IsFiniteSet(history'), history' \subseteq Mail,
           \A m \in history' : m.at <= Cardinality(history'),
           replay \/ mail \cap history = {}
    PROVE  TabsIInv'
<1> USE DEF TabsIInv, TabsTypeOK
<1> DEFINE fresh == mail \ page
<1>1. /\ page' = page \cup fresh /\ host' = host /\ marks' = marks /\ SaveLayout
      /\ tabs' = [caller \in Callers |->
                     IF caller \notin {m.caller : m \in fresh} THEN tabs[caller]
                     ELSE IF tabs[caller] # "hidden" \/ Reveals(fresh, replay, caller) THEN "shown"
                     ELSE "hidden"]
      /\ closings' = [closings EXCEPT ![host] = [caller \in Callers |->
                         IF Incoming(From(fresh, caller)) \subseteq closings[host][caller].read
                         THEN closings[host][caller] ELSE NotClosed]]
    BY DEF Remembers
<1>2. tabs' \in Layouts
    BY <1>1 DEF Layouts
<1>3. closings' \in [Remotes -> [Callers -> [closed : BOOLEAN, read : SUBSET history']]]
    <2>1. closings \in [Remotes -> [Callers -> [closed : BOOLEAN, read : SUBSET history']]]
        OBVIOUS
    <2>2. NotClosed \in [closed : BOOLEAN, read : SUBSET history']
        BY DEF NotClosed
    <2> QED BY <1>1, <2>1, <2>2
<1>4. ASSUME NEW caller \in Callers, closings'[host][caller].closed
      PROVE  /\ closings'[host][caller] = closings[host][caller] /\ tabs[caller] = "hidden"
             /\ Incoming(From(fresh, caller)) \subseteq closings[host][caller].read
    BY <1>1, <1>4 DEF NotClosed, HiddenSince
<1>5. ASSUME NEW caller \in Callers, closings'[host][caller].closed
      PROVE  ~Reveals(fresh, replay, caller)
    <2> SUFFICES ASSUME NEW m \in Incoming(From(fresh, caller)), replay => m.at > marks[caller] PROVE FALSE
        BY DEF Reveals
    <2>1. m \in closings[host][caller].read /\ m \in mail
        BY <1>4, <1>5 DEF Incoming, From
    <2>2. m \in history /\ m.at \in Nat /\ marks[caller] \in Nat /\ m.at <= marks[caller]
        BY <1>4, <1>5, <2>1, TabsAssumption DEF HiddenSince, Mail
    <2> QED BY <2>1, <2>2
<1>6. HiddenSince(host, tabs, marks)'
    BY <1>1, <1>4, <1>5 DEF HiddenSince
<1>7. \A h \in Remotes \ {host'} : closings'[h] = closings[h]
    BY <1>1
<1>8. page' \subseteq history'
    BY <1>1
<1> QED BY <1>1, <1>2, <1>3, <1>6, <1>7, <1>8, LayoutIsSaved

LEMMA TabsStep == TabsIInv /\ [TabsNext]_tabVars => TabsIInv'
<1> SUFFICES ASSUME TabsIInv, [TabsNext]_tabVars PROVE TabsIInv'
    OBVIOUS
<1>1. /\ TabsTypeOK /\ HiddenSince(host, tabs, marks)
      /\ \A h \in Remotes : HiddenSince(h, saved[h].tabs, saved[h].marks)
    BY DEF TabsIInv
<1>2. ASSUME NEW h \in Remotes, NEW caller \in Callers, NEW incoming \in BOOLEAN, MailArrives(h, caller, incoming)
      PROVE  TabsIInv'
    <2> DEFINE m == [host |-> h, caller |-> caller, at |-> Number, incoming |-> incoming]
    <2>1. Cardinality(history) \in Nat
        BY <1>1, FS_CardinalityType DEF TabsTypeOK
    <2>2. m \in Mail /\ m.at = Cardinality(history) + 1
        BY <1>2, <2>1, TabsAssumption DEF MailArrives, Mail, Number
    <2>3. m \notin history
        BY <1>1, <2>1, <2>2 DEF TabsTypeOK
    <2>4. history' = history \cup {m}
        BY <1>2 DEF MailArrives
    <2> HIDE DEF m
    <2>5. IsFiniteSet(history') /\ Cardinality(history') = Cardinality(history) + 1
        BY <1>1, <2>3, <2>4, FS_AddElement DEF TabsTypeOK
    <2>6. history' \subseteq Mail
        BY <1>1, <2>2, <2>4 DEF TabsTypeOK
    <2>7. \A x \in history : x.at \in Nat
        BY <1>1, TabsAssumption DEF TabsTypeOK, Mail
    <2>8. \A x \in history' : x.at <= Cardinality(history')
        BY <1>1, <2>1, <2>2, <2>4, <2>5, <2>7 DEF TabsTypeOK
    <2>9. CASE Remembers({m}, FALSE)
        BY <2>3, <2>4, <2>5, <2>6, <2>8, <2>9, MailIsTakenIn
    <2>10. CASE UNCHANGED <<host, open, tabs, marks, unread, page, saved, closings>>
        <3>1. closings' \in [Remotes -> [Callers -> [closed : BOOLEAN, read : SUBSET history']]]
            BY <1>1, <2>4, <2>10 DEF TabsTypeOK
        <3>2. TabsTypeOK'
            BY <1>1, <2>4, <2>5, <2>6, <2>8, <2>10, <3>1 DEF TabsTypeOK
        <3> QED BY <1>1, <2>10, <3>2 DEF TabsIInv, HiddenSince
    <2> QED BY <1>2, <2>9, <2>10 DEF MailArrives, m
<1>3. CASE HistoryArrives
    <2>1. history' = history /\ Remembers({m \in history : m.host = host}, TRUE)
        BY <1>3 DEF HistoryArrives
    <2> DEFINE mail == {m \in history : m.host = host}
    <2>2. mail \subseteq history' /\ Remembers(mail, TRUE)
        BY <2>1
    <2> HIDE DEF mail
    <2> QED BY <1>1, <2>1, <2>2, MailIsTakenIn DEF TabsTypeOK
<1>4. ASSUME NEW h \in Remotes, Shows(h), page' \subseteq page PROVE TabsIInv'
    BY <1>1, <1>4 DEF Shows, TabsIInv, TabsTypeOK, HiddenSince
<1>5. ASSUME NEW caller \in Callers, OpensTab(caller) PROVE TabsIInv'
    <2>1. /\ tabs' = [tabs EXCEPT ![caller] = "shown"] /\ UNCHANGED <<host, marks, page, history>> /\ SaveLayout
          /\ closings' = [closings EXCEPT ![host][caller] = NotClosed]
        BY <1>5 DEF OpensTab
    <2>2. closings' \in [Remotes -> [Callers -> [closed : BOOLEAN, read : SUBSET history]]]
        BY <1>1, <2>1 DEF TabsTypeOK, NotClosed
    <2>3. tabs' \in Layouts
        BY <1>1, <2>1 DEF TabsTypeOK, Layouts
    <2>4. HiddenSince(host, tabs, marks)'
        BY <1>1, <2>1 DEF TabsTypeOK, HiddenSince, NotClosed, Layouts
    <2>5. \A x \in Remotes \ {host'} : closings'[x] = closings[x]
        BY <1>1, <2>1 DEF TabsTypeOK
    <2> QED BY <1>1, <2>1, <2>2, <2>3, <2>4, <2>5, LayoutIsSaved DEF TabsIInv, TabsTypeOK
<1>6. ASSUME NEW caller \in Callers, ClosesTab(caller) PROVE TabsIInv'
    <2> DEFINE read == From(page, caller)
               times == {m.at : m \in read}
    <2>1. /\ tabs' = [tabs EXCEPT ![caller] = "hidden"] /\ UNCHANGED <<host, page, history>> /\ SaveLayout
          /\ marks' = [marks EXCEPT ![caller] = IF read = {} THEN Number ELSE Max(times)]
          /\ closings' = [closings EXCEPT ![host][caller] = [closed |-> TRUE, read |-> read]]
        BY <1>6 DEF ClosesTab
    <2>2. read \subseteq history /\ \A m \in read : m.at \in Nat /\ m.at <= MaxMail
        BY <1>1, TabsAssumption DEF From, TabsTypeOK, Mail
    <2> HIDE DEF read
    <2>3. read # {} => Max(times) \in Nat /\ \A m \in read : m.at <= Max(times)
        <3> SUFFICES ASSUME read # {} PROVE Max(times) \in Nat /\ \A m \in read : m.at <= Max(times)
            OBVIOUS
        <3>1. times \subseteq Nat /\ times # {} /\ \A t \in times : t <= MaxMail
            BY <2>2
        <3>2. \A m \in read : m.at \in times
            OBVIOUS
        <3> HIDE DEF times
        <3>3. Max(times) \in times /\ \A t \in times : t <= Max(times)
            BY <3>1, GreatestOf, TabsAssumption
        <3> QED BY <3>1, <3>2, <3>3
    <2> HIDE DEF times
    <2>4. Number \in Nat
        BY <1>1, FS_CardinalityType DEF TabsTypeOK, Number
    <2>5. /\ marks' \in [Callers -> Nat] /\ \A m \in read : m.at <= marks'[caller]
          /\ \A c \in Callers \ {caller} : marks'[c] = marks[c]
        BY <1>1, <2>1, <2>3, <2>4 DEF TabsTypeOK
    <2>6. tabs' \in Layouts /\ tabs'[caller] = "hidden" /\ \A c \in Callers \ {caller} : tabs'[c] = tabs[c]
        BY <1>1, <2>1 DEF TabsTypeOK, Layouts
    <2>7. /\ closings' \in [Remotes -> [Callers -> [closed : BOOLEAN, read : SUBSET history]]]
          /\ closings'[host][caller].read = read
          /\ \A c \in Callers \ {caller} : closings'[host][c] = closings[host][c]
        BY <1>1, <2>1, <2>2 DEF TabsTypeOK
    <2>8. HiddenSince(host, tabs, marks)'
        BY <1>1, <2>1, <2>5, <2>6, <2>7 DEF HiddenSince
    <2>9. \A x \in Remotes \ {host'} : closings'[x] = closings[x]
        BY <1>1, <2>1 DEF TabsTypeOK
    <2> QED BY <1>1, <2>1, <2>5, <2>6, <2>7, <2>8, <2>9, LayoutIsSaved DEF TabsIInv, TabsTypeOK
<1>7. CASE UNCHANGED tabVars
    BY <1>1, <1>7 DEF tabVars, TabsIInv, TabsTypeOK, HiddenSince
<1>8. ASSUME NEW h \in Remotes, SelectsHost(h) PROVE TabsIInv'
    BY <1>4, <1>8 DEF SelectsHost
<1>9. CASE Reload
    BY <1>1, <1>4, <1>9 DEF Reload, TabsTypeOK
<1> QED BY <1>2, <1>3, <1>5, <1>6, <1>7, <1>8, <1>9 DEF TabsNext

\* A tab the pilot closed stays hidden until a message comes in that the page did not
\* hold then, whatever history the agents replay and whichever agent is selected.
THEOREM ClosedTabsStayClosed == TabsSpec => []ClosedTabStaysClosed
<1>1. TabsIInv => ClosedTabStaysClosed
    BY DEF TabsIInv, HiddenSince, ClosedTabStaysClosed
<1> QED BY TabsIInit, TabsStep, <1>1, PTL DEF TabsSpec

-----------------------------------------------------------------------------
(***************************************************************************)
(* FlightState                                                             *)
(***************************************************************************)
Requests == [source : {"manual", "panel"}, role : Roles \cup {NoRole}]
OfSource(list, source) == {i \in DOMAIN list : list[i].source = source}

LEMMA CountsAreNumbers ==
    ASSUME NEW list \in Seq(Requests), NEW source
    PROVE  /\ IsFiniteSet(OfSource(list, source))
           /\ Count(list, source) = Cardinality(OfSource(list, source)) /\ Count(list, source) \in Nat
<1>1. Len(list) \in Nat /\ DOMAIN list = 1..Len(list)
    BY LenProperties
<1>2. IsFiniteSet(1..Len(list))
    BY <1>1, FS_Interval
<1>3. IsFiniteSet(OfSource(list, source))
    BY <1>1, <1>2, FS_Subset DEF OfSource
<1> QED BY <1>3, FS_CardinalityType DEF Count, OfSource

\* Taking a request out leaves the count of its source one lower at most, and no other.
LEMMA CountAfter ==
    ASSUME NEW list \in Seq(Requests), NEW i \in DOMAIN list, NEW source
    PROVE  /\ Count(list, source) <= Count(RemoveAt(list, i), source) + 1
           /\ list[i].source # source => Count(list, source) <= Count(RemoveAt(list, i), source)
<1> DEFINE left == RemoveAt(list, i)
           A == OfSource(list, source)
           B == OfSource(left, source)
<1>1. /\ left \in Seq(Requests) /\ DOMAIN left = 1..(Len(list) - 1)
      /\ \A j \in 1..(Len(list) - 1) : left[j] = IF j < i THEN list[j] ELSE list[j + 1]
    BY OneRemoved
<1>2. Len(list) \in Nat /\ DOMAIN list = 1..Len(list)
    BY LenProperties
<1>3. /\ IsFiniteSet(A) /\ Count(list, source) = Cardinality(A) /\ Count(list, source) \in Nat
      /\ IsFiniteSet(B) /\ Count(left, source) = Cardinality(B) /\ Count(left, source) \in Nat
    BY <1>1, CountsAreNumbers
<1> HIDE DEF left
<1> DEFINE f == [j \in A \ {i} |-> IF j < i THEN j ELSE j - 1]
<1>4. f \in Injection(A \ {i}, B)
    <2>1. ASSUME NEW j \in A \ {i} PROVE f[j] \in B
        <3>1. j \in 1..Len(list) /\ list[j].source = source /\ j # i /\ i \in 1..Len(list)
            BY <1>2 DEF OfSource
        <3>2. CASE j < i
            BY <1>1, <1>2, <3>1, <3>2 DEF OfSource
        <3>3. CASE ~(j < i)
            <4>1. j - 1 \in 1..(Len(list) - 1) /\ ~(j - 1 < i) /\ (j - 1) + 1 = j
                BY <1>2, <3>1, <3>3
            <4> QED BY <1>1, <3>1, <3>3, <4>1 DEF OfSource
        <3> QED BY <3>2, <3>3
    <2>2. ASSUME NEW j \in A \ {i}, NEW k \in A \ {i}, f[j] = f[k] PROVE j = k
        <3>1. j \in Int /\ k \in Int /\ j # i /\ k # i /\ i \in Int
            BY <1>2 DEF OfSource
        <3> QED BY <2>2, <3>1
    <2> QED BY <2>1, <2>2 DEF Injection, IsInjective
<1> HIDE DEF f
<1>5. Cardinality(A \ {i}) <= Cardinality(B)
    BY <1>3, <1>4, FS_Injection
<1>6. Cardinality(A \ {i}) = IF i \in A THEN Cardinality(A) - 1 ELSE Cardinality(A)
    BY <1>3, FS_RemoveElement
<1>7. list[i].source # source => i \notin A
    BY DEF OfSource
<1> HIDE DEF A, B
<1>8. Cardinality(A) \in Nat /\ Cardinality(B) \in Nat
    BY <1>3
<1> QED BY <1>3, <1>5, <1>6, <1>7, <1>8 DEF left

\* First() finds what there is.
LEMMA FirstHit ==
    ASSUME NEW list \in Seq(Requests), NEW hits, hits \subseteq DOMAIN list, hits # {}
    PROVE  /\ (CHOOSE i \in hits : \A j \in hits : i <= j) \in hits
           /\ (CHOOSE i \in hits : \A j \in hits : i <= j) # 0
<1>1. hits \subseteq Nat /\ 0 \notin hits
    BY LenProperties
<1>2. \E i \in hits : \A j \in hits : i <= j
    BY <1>1, LeastOf
<1> QED BY <1>1, <1>2

LEMMA FirstManual ==
    ASSUME NEW list \in Seq(Requests)
    PROVE  \/ First(list, IsManual) = 0 /\ OfSource(list, "manual") = {}
           \/ /\ First(list, IsManual) \in DOMAIN list /\ First(list, IsManual) # 0
              /\ list[First(list, IsManual)].source = "manual"
<1> DEFINE hits == {i \in DOMAIN list : IsManual(list[i])}
<1>1. First(list, IsManual) = IF hits = {} THEN 0 ELSE CHOOSE i \in hits : \A j \in hits : i <= j
    BY DEF First
<1>2. hits \subseteq DOMAIN list /\ OfSource(list, "manual") = hits
    BY DEF OfSource, IsManual
<1>3. \A i \in hits : list[i].source = "manual"
    BY DEF IsManual
<1> HIDE DEF hits
<1> QED BY <1>1, <1>2, <1>3, FirstHit

LEMMA FirstPanel ==
    ASSUME NEW list \in Seq(Requests)
    PROVE  \/ First(list, IsPanel) = 0
           \/ /\ First(list, IsPanel) \in DOMAIN list /\ First(list, IsPanel) # 0
              /\ list[First(list, IsPanel)].source # "manual"
<1> DEFINE hits == {i \in DOMAIN list : IsPanel(list[i])}
<1>1. First(list, IsPanel) = IF hits = {} THEN 0 ELSE CHOOSE i \in hits : \A j \in hits : i <= j
    BY DEF First
<1>2. hits \subseteq DOMAIN list /\ \A i \in hits : list[i].source # "manual"
    BY DEF IsPanel, IsManual
<1> HIDE DEF hits
<1> QED BY <1>1, <1>2, FirstHit

-----------------------------------------------------------------------------
\* What is owed to the chat waits in the list and is on its way.
FlightTypeOK ==
    /\ flightPlan \in Plan
    /\ weather \in [Roles -> [icao : Airports \cup {NoAirport}, reports : [Kinds -> WeatherKeys \cup {NoReport}]]]
    /\ waiting \in [WeatherKeys -> Seq(Requests)]
    /\ replies \in [WeatherKeys -> Nat] /\ owed \in [WeatherKeys -> Nat]
FlightIInv ==
    /\ FlightTypeOK
    /\ WeatherMatchesPlan
    /\ \A k \in WeatherKeys : owed[k] <= replies[k] /\ owed[k] <= Count(waiting[k], "manual")

\* An emptied panel shows the airports of the plan and no report.
LEMMA PanelEmptied ==
    ASSUME NEW plan \in Plan
    PROVE  /\ EmptyWeather(plan) \in
                  [Roles -> [icao : Airports \cup {NoAirport}, reports : [Kinds -> WeatherKeys \cup {NoReport}]]]
           /\ \A r \in Roles : /\ EmptyWeather(plan)[r].icao = plan[r]
                               /\ \A kind \in Kinds : EmptyWeather(plan)[r].reports[kind] = NoReport
    BY DEF EmptyWeather, Plan

LEMMA FlightIInit == FlightInit => FlightIInv
<1> SUFFICES ASSUME FlightInit PROVE FlightIInv
    OBVIOUS
<1>1. NoPlan \in Plan
    BY DEF NoPlan, Plan
<1>2. <<>> \in Seq(Requests)
    BY EmptySeq
<1>3. Count(<<>>, "manual") \in Nat
    BY <1>2, CountsAreNumbers
<1>4. FlightTypeOK
    BY <1>1, <1>2, PanelEmptied DEF FlightInit, FlightTypeOK
<1>5. WeatherMatchesPlan
    BY <1>1, PanelEmptied DEF FlightInit, WeatherMatchesPlan
<1> QED BY <1>3, <1>4, <1>5 DEF FlightInit, FlightIInv

LEMMA PlanKeeps ==
    ASSUME FlightIInv, NEW status \in {"filed", "missing"}, NEW next \in Plan, PlanRecord(status, next)
    PROVE  FlightIInv'
<1> DEFINE plan == IF status = "filed" THEN Filled(next) ELSE NoPlan
<1>1. /\ flightPlan' = plan /\ weather' = (IF plan = flightPlan THEN weather ELSE EmptyWeather(plan))
      /\ UNCHANGED <<waiting, replies, owed>>
    BY DEF PlanRecord
<1>2. plan \in Plan
    BY DEF FlightIInv, FlightTypeOK, Filled, NoPlan, Plan
<1> HIDE DEF plan
<1>3. CASE plan = flightPlan
    BY <1>1, <1>3 DEF FlightIInv, FlightTypeOK, WeatherMatchesPlan
<1>4. CASE plan # flightPlan
    <2>1. FlightTypeOK'
        BY <1>1, <1>2, <1>4, PanelEmptied DEF FlightIInv, FlightTypeOK
    <2>2. WeatherMatchesPlan'
        BY <1>1, <1>2, <1>4, PanelEmptied DEF WeatherMatchesPlan
    <2> QED BY <1>1, <2>1, <2>2 DEF FlightIInv
<1> QED BY <1>3, <1>4

\* A report is put only where its airport is planned.
LEMMA PanelTakes ==
    ASSUME FlightIInv, NEW k \in WeatherKeys, NEW request \in Requests,
           weather' = PanelReport(k, request), flightPlan' = flightPlan
    PROVE  WeatherMatchesPlan' /\ weather' \in
                [Roles -> [icao : Airports \cup {NoAirport}, reports : [Kinds -> WeatherKeys \cup {NoReport}]]]
<1> DEFINE role == IF request.role # NoRole THEN request.role ELSE RoleFor(k[2])
<1>1. role = NoRole \/ role \in Roles
    BY DEF Requests, RoleFor, Roles
<1>2. PanelReport(k, request) = IF role = NoRole \/ weather[role].icao # k[2] THEN weather
                                ELSE [weather EXCEPT ![role].reports[k[1]] = k]
    BY DEF PanelReport
<1> HIDE DEF role
<1>3. CASE role = NoRole \/ weather[role].icao # k[2]
    BY <1>2, <1>3 DEF FlightIInv, FlightTypeOK, WeatherMatchesPlan
<1>4. CASE ~(role = NoRole \/ weather[role].icao # k[2])
    <2>1. role \in Roles /\ weather' = [weather EXCEPT ![role].reports[k[1]] = k] /\ k[2] = flightPlan[role]
        BY <1>1, <1>2, <1>4 DEF FlightIInv, WeatherMatchesPlan
    <2>2. k[1] \in Kinds /\ k = <<k[1], k[2]>>
        BY DEF WeatherKeys
    <2>3. weather' \in [Roles -> [icao : Airports \cup {NoAirport}, reports : [Kinds -> WeatherKeys \cup {NoReport}]]]
        <3> DEFINE T == [icao : Airports \cup {NoAirport}, reports : [Kinds -> WeatherKeys \cup {NoReport}]]
                   reports == [weather[role].reports EXCEPT ![k[1]] = k]
        <3>1. weather \in [Roles -> T] /\ weather[role] \in T
            BY <2>1 DEF FlightIInv, FlightTypeOK
        <3>2. reports \in [Kinds -> WeatherKeys \cup {NoReport}]
            BY <2>2, <3>1
        <3>3. weather' = [weather EXCEPT ![role] = [weather[role] EXCEPT !.reports = reports]]
            BY <2>1
        <3> HIDE DEF reports
        <3>4. [weather[role] EXCEPT !.reports = reports] \in T
            BY <3>1, <3>2
        <3> HIDE DEF T
        <3>5. weather' \in [Roles -> T]
            BY <3>1, <3>3, <3>4
        <3> QED BY <3>5 DEF T
    <2>4. /\ \A r \in Roles : weather'[r].icao = weather[r].icao
          /\ \A r \in Roles, kind \in Kinds :
                 weather'[r].reports[kind] = IF r = role /\ kind = k[1] THEN k ELSE weather[r].reports[kind]
        BY <2>1, <2>2 DEF FlightIInv, FlightTypeOK
    <2> QED BY <2>1, <2>2, <2>3, <2>4 DEF FlightIInv, WeatherMatchesPlan
<1> QED BY <1>3, <1>4

\* A reply goes to the oldest request of the chat, if there is one.
LEMMA ReplyKeeps ==
    ASSUME FlightIInv, NEW k \in WeatherKeys, WeatherReply(k)
    PROVE  FlightIInv'
<1> DEFINE list == waiting[k]
           m == First(list, IsManual)
           rest == Dropped(list, m)
           p == First(rest, IsPanel)
           left == Dropped(rest, p)
<1>1. /\ replies[k] > 0 /\ replies' = [replies EXCEPT ![k] = @ - 1]
      /\ waiting' = [waiting EXCEPT ![k] = left]
      /\ weather' = IF p # 0 THEN PanelReport(k, rest[p]) ELSE weather
      /\ owed' = IF m # 0 \/ p = 0 THEN Shown(k) ELSE owed
      /\ flightPlan' = flightPlan
    BY DEF WeatherReply, ServeReply
<1>2. list \in Seq(Requests) /\ owed[k] \in Nat /\ replies[k] \in Nat /\ owed[k] <= replies[k]
      /\ owed[k] <= Count(list, "manual")
    BY DEF FlightIInv, FlightTypeOK
<1> HIDE DEF list
<1>3. \/ m = 0 /\ OfSource(list, "manual") = {}
      \/ m \in DOMAIN list /\ m # 0
    BY <1>2, FirstManual
<1>4. Count(list, "manual") \in Nat
    BY <1>2, CountsAreNumbers
<1>5. m = 0 => owed[k] = 0
    <2> SUFFICES ASSUME m = 0 PROVE owed[k] = 0
        OBVIOUS
    <2>1. Count(list, "manual") = Cardinality(OfSource(list, "manual"))
        BY <1>2, CountsAreNumbers
    <2>2. OfSource(list, "manual") = {}
        BY <1>3
    <2>3. Count(list, "manual") = 0
        BY <2>1, <2>2, FS_EmptySet
    <2> QED BY <1>2, <2>3
<1> HIDE DEF m
<1>6. rest \in Seq(Requests) /\ Count(list, "manual") <= Count(rest, "manual") + (IF m = 0 THEN 0 ELSE 1)
    <2>1. CASE m = 0
        BY <1>2, <1>4, <2>1 DEF Dropped
    <2>2. CASE m # 0
        BY <1>2, <1>3, <2>2, OneRemoved, CountAfter DEF Dropped
    <2> QED BY <2>1, <2>2
<1> HIDE DEF rest
<1>7. \/ p = 0
      \/ p \in DOMAIN rest /\ p # 0 /\ rest[p].source # "manual"
    BY <1>6, FirstPanel
<1> HIDE DEF p
<1>8. left \in Seq(Requests) /\ Count(rest, "manual") <= Count(left, "manual")
    <2>1. CASE p = 0
        BY <1>6, <2>1, CountsAreNumbers DEF Dropped
    <2>2. CASE p # 0
        BY <1>6, <1>7, <2>2, OneRemoved, CountAfter DEF Dropped
    <2> QED BY <2>1, <2>2
<1> HIDE DEF left
<1>9. Count(rest, "manual") \in Nat /\ Count(left, "manual") \in Nat
    BY <1>6, <1>8, CountsAreNumbers
<1>10. p # 0 => rest[p] \in Requests
    BY <1>6, <1>7, ElementOfSeq, LenProperties
<1>11. /\ WeatherMatchesPlan'
       /\ weather' \in [Roles -> [icao : Airports \cup {NoAirport}, reports : [Kinds -> WeatherKeys \cup {NoReport}]]]
    <2>1. CASE p # 0
        BY <1>1, <1>10, <2>1, PanelTakes
    <2>2. CASE p = 0
        BY <1>1, <2>2 DEF FlightIInv, FlightTypeOK, WeatherMatchesPlan
    <2> QED BY <2>1, <2>2
<1>12. /\ owed' \in [WeatherKeys -> Nat] /\ owed'[k] <= owed[k] /\ (m # 0 /\ owed[k] > 0 => owed'[k] = owed[k] - 1)
       /\ \A x \in WeatherKeys \ {k} : owed'[x] = owed[x]
    BY <1>1, <1>2 DEF Shown, FlightIInv, FlightTypeOK
<1>13. owed'[k] <= replies'[k] /\ owed'[k] <= Count(left, "manual")
    <2>1. replies'[k] = replies[k] - 1 /\ owed'[k] \in Nat
        BY <1>1, <1>12 DEF FlightIInv, FlightTypeOK
    <2>2. CASE owed[k] = 0
        BY <1>1, <1>2, <1>9, <1>12, <2>1, <2>2
    <2>3. CASE owed[k] > 0
        <3>1. owed'[k] = owed[k] - 1 /\ m # 0
            BY <1>5, <1>12, <2>3
        <3> QED BY <1>1, <1>2, <1>4, <1>6, <1>8, <1>9, <2>1, <2>3, <3>1
    <2> QED BY <1>2, <2>2, <2>3
<1>14. replies' \in [WeatherKeys -> Nat] /\ waiting' \in [WeatherKeys -> Seq(Requests)]
    BY <1>1, <1>2, <1>8 DEF FlightIInv, FlightTypeOK
<1>15. waiting'[k] = left /\ \A x \in WeatherKeys \ {k} : waiting'[x] = waiting[x] /\ replies'[x] = replies[x]
    BY <1>1 DEF FlightIInv, FlightTypeOK
<1>16. FlightTypeOK'
    BY <1>1, <1>11, <1>12, <1>14 DEF FlightIInv, FlightTypeOK
<1>17. ASSUME NEW x \in WeatherKeys
       PROVE  owed'[x] <= replies'[x] /\ owed'[x] <= Count(waiting'[x], "manual")
    <2>1. CASE x = k
        BY <1>13, <1>15, <2>1
    <2>2. CASE x # k
        BY <1>12, <1>15, <2>2 DEF FlightIInv
    <2> QED BY <2>1, <2>2
<1>18. \A x \in WeatherKeys : Count(waiting[x], "manual")' = Count(waiting'[x], "manual")
    BY DEF Count
<1> QED BY <1>11, <1>16, <1>17, <1>18 DEF FlightIInv

\* A list of requests as it becomes, with what is owed cut to it.
LEMMA ListKeeps ==
    ASSUME FlightIInv, NEW k \in WeatherKeys, NEW list \in Seq(Requests), NEW n \in Nat, NEW due \in Nat,
           UNCHANGED <<flightPlan, weather>>, waiting' = [waiting EXCEPT ![k] = list],
           replies' = [replies EXCEPT ![k] = n], owed' = [owed EXCEPT ![k] = due],
           due <= n, due <= Count(list, "manual")
    PROVE  FlightIInv'
<1>1. FlightTypeOK' /\ WeatherMatchesPlan'
    BY DEF FlightIInv, FlightTypeOK, WeatherMatchesPlan
<1>2. \A x \in WeatherKeys : owed'[x] <= replies'[x] /\ owed'[x] <= Count(waiting'[x], "manual")
    BY DEF FlightIInv, FlightTypeOK
<1>3. \A x \in WeatherKeys : Count(waiting[x], "manual")' = Count(waiting'[x], "manual")
    BY DEF Count
<1> QED BY <1>1, <1>2, <1>3 DEF FlightIInv

LEMMA FlightStep == FlightIInv /\ [FlightNext]_flightStateVars => FlightIInv'
<1> SUFFICES ASSUME FlightIInv, [FlightNext]_flightStateVars PROVE FlightIInv'
    OBVIOUS
<1>0. FlightTypeOK
    BY DEF FlightIInv
<1>1. CASE SessionOpens \/ SessionEnds
    <2>1. /\ owed' = [k \in WeatherKeys |-> 0] /\ replies' = [k \in WeatherKeys |-> 0]
          /\ UNCHANGED <<flightPlan, weather, waiting>>
        BY <1>1 DEF SessionOpens, SessionEnds
    <2>2. \A k \in WeatherKeys : Count(waiting[k], "manual") \in Nat
        BY <1>0, CountsAreNumbers DEF FlightTypeOK
    <2>3. \A k \in WeatherKeys : Count(waiting[k], "manual")' = Count(waiting[k], "manual")
        BY <2>1 DEF Count
    <2> QED BY <2>1, <2>2, <2>3 DEF FlightIInv, FlightTypeOK, WeatherMatchesPlan
<1>2. CASE LoginSeen \/ UNCHANGED flightStateVars
    BY <1>2 DEF LoginSeen, flightStateVars, FlightIInv, FlightTypeOK, WeatherMatchesPlan, Count
<1>3. ASSUME NEW status \in {"filed", "missing"}, NEW next \in Plan, PlanRecord(status, next)
      PROVE  FlightIInv'
    BY <1>3, PlanKeeps
<1>4. ASSUME NEW k \in WeatherKeys, NEW source \in {"manual", "panel"}, NEW role \in Roles \cup {NoRole},
             RequestWeather(k, source, role)
      PROVE  FlightIInv'
    <2> DEFINE list == Remembered(k, source, role)
    <2>1. list \in Seq(Requests)
        <3> DEFINE more == Append(waiting[k], [source |-> source, role |-> role])
        <3>1. more \in Seq(Requests) /\ Len(more) \in Nat /\ Len(more) = Len(waiting[k]) + 1 /\ Len(waiting[k]) \in Nat
            <4>1. waiting[k] \in Seq(Requests) /\ [source |-> source, role |-> role] \in Requests
                BY <1>0 DEF FlightTypeOK, Requests
            <4> QED BY <4>1, AppendProperties, LenProperties
        <3> HIDE DEF more
        <3>2. more # <<>>
            BY <3>1, EmptySeq
        <3>3. Tail(more) \in Seq(Requests)
            BY <3>1, <3>2, HeadTailProperties
        <3> QED BY <3>1, <3>3 DEF Remembered, more
    <2> DEFINE due == AtMost(owed[k] + (IF source = "manual" THEN 1 ELSE 0), Count(list, "manual"))
    <2>2. /\ replies' = [replies EXCEPT ![k] = replies[k] + 1] /\ waiting' = [waiting EXCEPT ![k] = list]
          /\ owed' = [owed EXCEPT ![k] = due] /\ UNCHANGED <<flightPlan, weather>>
        BY <1>4 DEF RequestWeather
    <2> HIDE DEF list
    <2>3. Count(list, "manual") \in Nat
        BY <2>1, CountsAreNumbers
    <2>4. /\ owed[k] \in Nat /\ replies[k] \in Nat /\ owed[k] <= replies[k]
        BY DEF FlightIInv, FlightTypeOK
    <2>5. due \in Nat /\ due <= replies[k] + 1 /\ due <= Count(list, "manual") /\ replies[k] + 1 \in Nat
        BY <2>3, <2>4 DEF AtMost
    <2> HIDE DEF due
    <2> QED BY <2>1, <2>2, <2>5, ListKeeps
<1>5. ASSUME NEW k \in WeatherKeys, RequestAges(k) PROVE FlightIInv'
    <2> DEFINE list == Tail(waiting[k])
               due == AtMost(owed[k], Count(list, "manual"))
    <2>1. list \in Seq(Requests)
        BY <1>0, <1>5, HeadTailProperties DEF RequestAges, FlightTypeOK
    <2>2. /\ replies' = [replies EXCEPT ![k] = replies[k]] /\ waiting' = [waiting EXCEPT ![k] = list]
          /\ owed' = [owed EXCEPT ![k] = due] /\ UNCHANGED <<flightPlan, weather>>
        BY <1>0, <1>5 DEF RequestAges, Forget, FlightTypeOK
    <2> HIDE DEF list
    <2>3. Count(list, "manual") \in Nat
        BY <2>1, CountsAreNumbers
    <2>4. /\ owed[k] \in Nat /\ replies[k] \in Nat /\ owed[k] <= replies[k]
        BY DEF FlightIInv, FlightTypeOK
    <2>5. due \in Nat /\ due <= replies[k] /\ due <= Count(list, "manual")
        BY <2>3, <2>4 DEF AtMost
    <2> HIDE DEF due
    <2> QED BY <2>1, <2>2, <2>4, <2>5, ListKeeps
<1>6. ASSUME NEW k \in WeatherKeys, WeatherReply(k) PROVE FlightIInv'
    BY <1>6, ReplyKeeps
<1> QED BY <1>1, <1>2, <1>3, <1>4, <1>5, <1>6 DEF FlightNext

\* The weather shown is that of the airports planned now, and no reply that is still due
\* to a chat command goes to the panel.
THEOREM WeatherIsRight == FlightSpec => []WeatherForPlanAndPilot
<1>1. FlightIInv => WeatherForPlanAndPilot
    BY DEF FlightIInv, FlightTypeOK, WeatherForPlanAndPilot, CommandAnswered
<1> QED BY FlightIInit, FlightStep, <1>1, PTL DEF FlightSpec

-----------------------------------------------------------------------------
(***************************************************************************)
(* PushStore                                                               *)
(***************************************************************************)
\* One subscription for an installation and for an endpoint.
Single(s) == \A x, y \in s : x.owner = y.owner \/ x.endpoint = y.endpoint => x = y
KnownSubscriptions == {x \in Subscriptions : x.at <= changes /\ x.endpoint <= changes}

\* No two browsers want the same endpoint, and what is stored is wanted by its owner.
StoreIInv ==
    /\ changes \in 0..MaxChanges
    /\ subs \subseteq KnownSubscriptions /\ Single(subs)
    /\ disk \subseteq KnownSubscriptions /\ Single(disk)
    /\ wanted \in [Installations -> {Nobody} \cup (1..changes)]
    /\ \A i, j \in Installations : wanted[i] = wanted[j] => i = j \/ wanted[i] = Nobody
    /\ \A x \in subs : wanted[x.owner] = x.endpoint
    /\ \A i \in Installations : wanted[i] \in {Nobody} \cup dead \cup EndpointsOf(subs)

LEMMA StoreIInit == StoreInit => StoreIInv
    BY PushStoreAssumption DEF StoreInit, StoreIInv, Single

\* What addSubscription() leaves: the new subscription, and of the others only such as
\* share neither owner nor endpoint with it.
LEMMA AddingKeeps ==
    ASSUME StoreIInv, changes < MaxChanges, NEW i \in Installations, NEW e \in 1..MaxChanges
    PROVE  LET s == Added(subs, i, e)
               new == [owner |-> i, endpoint |-> e, at |-> changes + 1]
           IN  /\ new \in s /\ s \subseteq subs \cup {new} /\ Single(s)
               /\ \A x \in s \ {new} : x \in subs /\ x.endpoint # e /\ x.owner # i
<1> DEFINE new == [owner |-> i, endpoint |-> e, at |-> changes + 1]
           kept == {x \in subs : x.endpoint # e /\ x.owner # i} \cup {new}
           Younger(x) == {y \in kept : y.at > x.at}
           s == {x \in kept : Cardinality(Younger(x)) < MaxSubscriptions}
<1>1. Added(subs, i, e) = s
    BY DEF Added
<1>2. changes \in Nat /\ \A x \in kept : x.at \in Nat /\ x.at <= changes + 1
    BY PushStoreAssumption DEF StoreIInv, KnownSubscriptions, Subscriptions
<1>3. new \in kept /\ new.at = changes + 1
    OBVIOUS
<1>4. Younger(new) = {}
    <2> HIDE DEF kept, new
    <2> QED BY <1>2, <1>3
<1>5. Cardinality(Younger(new)) = 0
    BY <1>4, FS_EmptySet
<1>6. new \in s
    <2> HIDE DEF Younger, kept, new
    <2> QED BY <1>3, <1>5, PushStoreAssumption
<1>7. s \subseteq kept
    OBVIOUS
<1>8. \A x \in kept \ {new} : x \in subs /\ x.endpoint # e /\ x.owner # i
    OBVIOUS
<1>9. new.owner = i /\ new.endpoint = e /\ kept \subseteq subs \cup {new}
    OBVIOUS
<1>10. Single(kept)
    <2> SUFFICES ASSUME NEW x \in kept, NEW y \in kept, x.owner = y.owner \/ x.endpoint = y.endpoint PROVE x = y
        BY DEF Single
    <2> HIDE DEF kept, new
    <2>1. CASE x # new /\ y # new
        BY <1>8, <2>1 DEF StoreIInv, Single
    <2>2. CASE x = new \/ y = new
        BY <1>8, <1>9, <2>2
    <2> QED BY <2>1, <2>2
<1> HIDE DEF s, kept
<1>11. Single(s)
    BY <1>7, <1>10 DEF Single
<1>12. \A x \in s \ {new} : x \in subs /\ x.endpoint # e /\ x.owner # i
    BY <1>7, <1>8
<1>13. s \subseteq subs \cup {new}
    BY <1>7, <1>9
<1> HIDE DEF new
<1> QED BY <1>1, <1>6, <1>11, <1>12, <1>13 DEF new

LEMMA SubscribeKeeps ==
    ASSUME StoreIInv, NEW i \in Installations, NEW e \in 1..MaxChanges, Subscribe(i, e)
    PROVE  StoreIInv'
<1> DEFINE new == [owner |-> i, endpoint |-> e, at |-> changes + 1]
<1>1. /\ changes < MaxChanges /\ changes' = changes + 1 /\ (e = wanted[i] \/ e = changes + 1)
      /\ subs' = Added(subs, i, e) /\ (disk' = subs' \/ disk' = disk) /\ dead' = dead
      /\ wanted' = [j \in Installations |->
                     IF j = i THEN e
                     ELSE IF wanted[j] \in EndpointsOf(subs) \ EndpointsOf(subs') THEN Nobody
                     ELSE wanted[j]]
    BY DEF Subscribe, Saves, Throws
<1>2. /\ new \in subs' /\ subs' \subseteq subs \cup {new} /\ Single(subs')
      /\ \A x \in subs' \ {new} : x \in subs /\ x.endpoint # e /\ x.owner # i
    BY <1>1, AddingKeeps
<1>3. changes \in Nat /\ changes' \in 0..MaxChanges /\ MaxChanges \in Nat
    BY <1>1, PushStoreAssumption DEF StoreIInv
<1>4. e \in 1..changes' /\ e # Nobody
    BY <1>1, <1>3, PushStoreAssumption DEF StoreIInv
<1>5. new \in KnownSubscriptions'
    BY <1>1, <1>3, <1>4 DEF KnownSubscriptions, Subscriptions
<1>6. KnownSubscriptions \subseteq KnownSubscriptions'
    BY <1>1, <1>3 DEF KnownSubscriptions, Subscriptions
<1>7. new.owner = i /\ new.endpoint = e
    OBVIOUS
<1> HIDE DEF new
<1>8. subs' \subseteq KnownSubscriptions' /\ disk' \subseteq KnownSubscriptions' /\ Single(disk')
    BY <1>1, <1>2, <1>5, <1>6 DEF StoreIInv
<1>9. wanted' \in [Installations -> {Nobody} \cup (1..changes')]
    <2>1. 1..changes \subseteq 1..changes'
        BY <1>1, <1>3
    <2> QED BY <1>1, <1>4, <2>1 DEF StoreIInv
<1>10. \A j \in Installations \ {i} : wanted'[j] # e \/ wanted'[j] = Nobody
    <2> SUFFICES ASSUME NEW j \in Installations \ {i}, wanted'[j] = e PROVE FALSE
        OBVIOUS
    <2>1. wanted[j] = e
        BY <1>1, <1>4
    <2>2. CASE e = wanted[i]
        BY <1>4, <2>1, <2>2 DEF StoreIInv
    <2>3. CASE e = changes + 1
        BY <1>3, <1>4, <2>1, <2>3 DEF StoreIInv
    <2> QED BY <1>1, <2>2, <2>3
<1>11. \A j, k \in Installations : wanted'[j] = wanted'[k] => j = k \/ wanted'[j] = Nobody
    <2> SUFFICES ASSUME NEW j \in Installations, NEW k \in Installations, wanted'[j] = wanted'[k], j # k
                 PROVE wanted'[j] = Nobody
        OBVIOUS
    <2>1. CASE j = i \/ k = i
        BY <1>1, <1>4, <1>10, <2>1
    <2>2. CASE j # i /\ k # i
        BY <1>1, <2>2 DEF StoreIInv
    <2> QED BY <2>1, <2>2
<1>12. ASSUME NEW x \in subs' PROVE wanted'[x.owner] = x.endpoint
    <2>1. CASE x = new
        BY <1>1, <1>7, <2>1
    <2>2. CASE x # new
        <3>1. x \in subs /\ x.owner # i /\ x.owner \in Installations /\ wanted[x.owner] = x.endpoint
            BY <1>2, <2>2 DEF StoreIInv, KnownSubscriptions, Subscriptions
        <3>2. x.endpoint \in EndpointsOf(subs')
            BY DEF EndpointsOf
        <3> QED BY <1>1, <3>1, <3>2
    <2> QED BY <2>1, <2>2
<1>13. ASSUME NEW j \in Installations PROVE wanted'[j] \in {Nobody} \cup dead' \cup EndpointsOf(subs')
    <2>1. CASE j = i
        BY <1>1, <1>2, <1>7, <2>1 DEF EndpointsOf
    <2>2. CASE j # i
        BY <1>1, <2>2 DEF StoreIInv
    <2> QED BY <2>1, <2>2
<1>14. /\ EndpointsOf(subs)' = EndpointsOf(subs') /\ Single(subs)' = Single(subs') /\ Single(disk)' = Single(disk')
    BY DEF EndpointsOf, Single
<1> QED BY <1>2, <1>3, <1>8, <1>9, <1>11, <1>12, <1>13, <1>14 DEF StoreIInv

\* Subscriptions leave that nobody wants any more, or whose endpoint is gone.
LEMMA LeavingKeeps ==
    ASSUME StoreIInv, NEW gone, subs' = Without(subs, gone), disk' = subs' \/ disk' = disk, dead' = dead,
           changes' = changes \/ changes' = changes + 1, changes' \in 0..MaxChanges,
           wanted' \in [Installations -> {Nobody} \cup (1..changes)],
           \A i \in Installations : wanted'[i] # wanted[i] => wanted'[i] = Nobody /\ wanted[i] \in gone,
           \A i \in Installations : wanted'[i] \notin gone \ dead
    PROVE  StoreIInv'
<1>0. changes \in Nat
    BY PushStoreAssumption DEF StoreIInv
<1>1. KnownSubscriptions \subseteq KnownSubscriptions' /\ 1..changes \subseteq 1..changes'
    BY <1>0 DEF KnownSubscriptions, Subscriptions
<1>2. subs' \subseteq subs /\ \A x \in subs' : x.endpoint \notin gone
    BY DEF Without
<1>3. Single(subs') /\ Single(disk')
    BY <1>2 DEF StoreIInv, Single
<1>4. ASSUME NEW x \in subs' PROVE wanted'[x.owner] = x.endpoint
    <2>1. x.owner \in Installations /\ wanted[x.owner] = x.endpoint /\ x.endpoint \notin gone
        BY <1>2 DEF StoreIInv, KnownSubscriptions, Subscriptions
    <2> QED BY <2>1
<1>5. ASSUME NEW i \in Installations PROVE wanted'[i] \in {Nobody} \cup dead \cup EndpointsOf(subs')
    <2> SUFFICES ASSUME wanted'[i] # Nobody, wanted'[i] \notin dead PROVE wanted'[i] \in EndpointsOf(subs')
        OBVIOUS
    <2>1. wanted'[i] = wanted[i] /\ wanted[i] \notin gone
        OBVIOUS
    <2>2. wanted[i] \in EndpointsOf(subs)
        BY <2>1 DEF StoreIInv
    <2>3. PICK x \in subs : x.endpoint = wanted[i]
        BY <2>2 DEF EndpointsOf
    <2>4. x \in subs'
        BY <2>1, <2>3 DEF Without
    <2> QED BY <2>1, <2>3, <2>4 DEF EndpointsOf
<1>6. \A j, k \in Installations : wanted'[j] = wanted'[k] => j = k \/ wanted'[j] = Nobody
    BY DEF StoreIInv
<1>7. subs' \subseteq KnownSubscriptions' /\ disk' \subseteq KnownSubscriptions'
    BY <1>1, <1>2 DEF StoreIInv
<1>8. wanted' \in [Installations -> {Nobody} \cup (1..changes')]
    BY <1>1
<1>9. /\ EndpointsOf(subs)' = EndpointsOf(subs') /\ Single(subs)' = Single(subs') /\ Single(disk)' = Single(disk')
    BY DEF EndpointsOf, Single
<1> QED BY <1>3, <1>4, <1>5, <1>6, <1>7, <1>8, <1>9 DEF StoreIInv

LEMMA StoreStep == StoreIInv /\ [StoreNext]_storeVars => StoreIInv'
<1> SUFFICES ASSUME StoreIInv, [StoreNext]_storeVars PROVE StoreIInv'
    OBVIOUS
<1>1. ASSUME NEW i \in Installations, NEW e \in 1..MaxChanges, Subscribe(i, e) PROVE StoreIInv'
    BY <1>1, SubscribeKeeps
<1>2. ASSUME NEW i \in Installations, Unsubscribe(i) PROVE StoreIInv'
    <2>1. /\ changes < MaxChanges /\ changes' = changes + 1 /\ dead' = dead
          /\ wanted[i] # Nobody /\ wanted' = [wanted EXCEPT ![i] = Nobody]
          /\ \/ subs' = Without(subs, {wanted[i]}) /\ (disk' = subs' \/ disk' = disk)
             \/ wanted[i] \notin EndpointsOf(subs) /\ subs' = subs /\ disk' = disk
        BY <1>2 DEF Unsubscribe, Saves, Throws
    <2>2. wanted[i] \notin EndpointsOf(subs) => Without(subs, {wanted[i]}) = subs
        BY DEF Without, EndpointsOf
    <2>3. subs' = Without(subs, {wanted[i]}) /\ (disk' = subs' \/ disk' = disk)
        BY <2>1, <2>2
    <2>4. changes' \in 0..MaxChanges
        BY <2>1, PushStoreAssumption DEF StoreIInv
    <2>5. \A j \in Installations : wanted'[j] = IF j = i THEN Nobody ELSE wanted[j]
        BY <2>1 DEF StoreIInv
    <2>6. \A j \in Installations : wanted'[j] # wanted[j] => wanted'[j] = Nobody /\ wanted[j] \in {wanted[i]}
        BY <2>5
    <2>7. \A j \in Installations : wanted'[j] \notin {wanted[i]} \ dead
        BY <2>1, <2>5 DEF StoreIInv
    <2>8. wanted' \in [Installations -> {Nobody} \cup (1..changes)]
        BY <2>1 DEF StoreIInv
    <2> QED BY <2>1, <2>3, <2>4, <2>6, <2>7, <2>8, LeavingKeeps
<1>3. ASSUME NEW e \in 1..MaxChanges, EndpointDies(e) PROVE StoreIInv'
    BY <1>3 DEF EndpointDies, StoreIInv, Single, KnownSubscriptions, EndpointsOf
<1>4. ASSUME NEW m \in Message, MessageMatches(m) PROVE StoreIInv'
    BY <1>4 DEF MessageMatches, StoreIInv, Single, KnownSubscriptions, EndpointsOf
<1>5. CASE MessageForgotten
    BY <1>5 DEF MessageForgotten, StoreIInv, Single, KnownSubscriptions, EndpointsOf
<1>6. ASSUME NEW targets \in sending, DeliveryEnds(targets) PROVE StoreIInv'
    <2>1. PICK expired \in SUBSET (targets \cap dead) :
              \/ UNCHANGED <<subs, disk>>
              \/ Saves(Without(subs, expired)) \/ Throws(Without(subs, expired))
        BY <1>6 DEF DeliveryEnds
    <2>2. UNCHANGED <<dead, wanted, changes>>
        BY <1>6 DEF DeliveryEnds
    <2>3. CASE UNCHANGED <<subs, disk>>
        BY <2>2, <2>3 DEF StoreIInv, Single, KnownSubscriptions, EndpointsOf
    <2>4. CASE Saves(Without(subs, expired)) \/ Throws(Without(subs, expired))
        BY <2>2, <2>4, LeavingKeeps DEF StoreIInv, Saves, Throws
    <2> QED BY <2>1, <2>3, <2>4
<1>7. CASE StoreRestarts
    <2> DEFINE own(i) == {x \in disk : x.owner = i}
    <2>1. /\ subs' = disk /\ UNCHANGED <<disk, dead, changes>>
          /\ wanted' = [i \in Installations |->
                 IF disk = subs THEN wanted[i]
                 ELSE IF own(i) = {} THEN Nobody ELSE (CHOOSE x \in own(i) : TRUE).endpoint]
        BY <1>7 DEF StoreRestarts
    <2>2. CASE disk = subs
        <3>1. wanted' = wanted
            BY <2>1, <2>2 DEF StoreIInv
        <3> QED BY <2>1, <2>2, <3>1 DEF StoreIInv, Single, KnownSubscriptions, EndpointsOf
    <2>3. CASE disk # subs
        <3>1. ASSUME NEW x \in disk PROVE x.owner \in Installations /\ wanted'[x.owner] = x.endpoint
            <4>1. x.owner \in Installations
                BY DEF StoreIInv, KnownSubscriptions, Subscriptions
            <4>2. x \in own(x.owner) /\ \A y \in own(x.owner) : y = x
                BY DEF StoreIInv, Single
            <4>3. (CHOOSE y \in own(x.owner) : TRUE) = x
                BY <4>2
            <4> QED BY <2>1, <2>3, <4>1, <4>2, <4>3
        <3>2. ASSUME NEW i \in Installations
              PROVE  wanted'[i] = Nobody \/ \E x \in disk : x.owner = i /\ wanted'[i] = x.endpoint
            <4>1. CASE own(i) = {}
                BY <2>1, <2>3, <4>1
            <4>2. CASE own(i) # {}
                BY <2>1, <2>3, <4>2
            <4> QED BY <4>1, <4>2
        <3>3. \A x \in disk : x.endpoint \in 1..changes
            BY DEF StoreIInv, KnownSubscriptions, Subscriptions
        <3>4. wanted' \in [Installations -> {Nobody} \cup (1..changes)]
            <4>1. \A i \in Installations : wanted'[i] \in {Nobody} \cup (1..changes)
                BY <3>2, <3>3
            <4> QED BY <2>1, <4>1
        <3>5. \A i, j \in Installations : wanted'[i] = wanted'[j] => i = j \/ wanted'[i] = Nobody
            BY <3>2 DEF StoreIInv, Single
        <3>6. \A i \in Installations : wanted'[i] \in {Nobody} \cup EndpointsOf(disk)
            BY <3>2 DEF EndpointsOf
        <3> QED BY <2>1, <3>1, <3>4, <3>5, <3>6 DEF StoreIInv, Single, KnownSubscriptions, EndpointsOf
    <2> QED BY <2>2, <2>3
<1>8. CASE UNCHANGED storeVars
    BY <1>8 DEF storeVars, StoreIInv, Single, KnownSubscriptions, EndpointsOf
<1> QED BY <1>1, <1>2, <1>3, <1>4, <1>5, <1>6, <1>7, <1>8 DEF StoreNext

\* The store holds what each browser asked for last, unless the Push service dropped its
\* endpoint, and nobody else, whatever was awaited, thrown or restarted meanwhile.
THEOREM SubscriptionsAreKept == StoreSpec => []StoreKeepsSubscriptions
<1>1. StoreIInv => StoreKeepsSubscriptions
    <2> SUFFICES ASSUME StoreIInv PROVE StoreKeepsSubscriptions
        OBVIOUS
    <2>1. \A x \in subs : x.owner \in Installations /\ wanted[x.owner] = x.endpoint
        BY DEF StoreIInv, KnownSubscriptions, Subscriptions
    <2> QED BY <2>1 DEF StoreIInv, StoreKeepsSubscriptions, EndpointsOf
<1> QED BY StoreIInit, StoreStep, <1>1, PTL DEF StoreSpec

-----------------------------------------------------------------------------
(***************************************************************************)
(* VoicePath                                                               *)
(***************************************************************************)
TxTypeOK ==
    /\ session \in VoiceSession \cup {None}
    /\ tx \in [Sockets -> Transmission \cup {None}]
    /\ \A w \in Sockets : tx[w] # None => (tx[w].sendTimer => tx[w].queued > 0)
    /\ starts \in 0..MaxStarts
    /\ lamp \in [Coms -> BOOLEAN]

RouteTypeOK ==
    /\ active \in Hosts \cup {None} /\ activeKey \in Keys \cup {None}
    /\ sessionBytes \in Headers \cup {None}
    /\ flows \in [Keys -> Flow \cup {None}] /\ flowCount \in 0..MaxFlows
    /\ decoder \in [Hosts -> Process \cup {None}] /\ decoders \subseteq Process /\ epoch \in 0..MaxLogins

\* Only the active route decodes, and what it decodes is of the present login.
DecodersCurrent == \A h \in Hosts : decoder[h] # None => h = active /\ decoder[h].epoch = epoch

\* Whoever transmits has an owner, and encoders serve sockets.
Owned == TxHasOwner /\ \A e \in encoders : e.socket \in Sockets

VoiceIInv ==
    /\ TxTypeOK /\ RouteTypeOK /\ DecodersCurrent
    /\ SessionFollowsLogin /\ TransmissionKeepsSession /\ Owned /\ LampShowsTransmission

\* A step of the router leaves a transmission as it is or stops it.
TxKept == encoders' = encoders /\ \A w \in Sockets : tx'[w] # None => tx'[w] = tx[w]
TxSound == TxTypeOK /\ TransmissionKeepsSession /\ LampShowsTransmission

-----------------------------------------------------------------------------
LEMMA VoiceIInit == VoiceInit => VoiceIInv
    BY WebTxAssumption, VoiceRouterAssumption
    DEF VoiceInit, RouterInit, TxInit, VoiceIInv, TxTypeOK, RouteTypeOK, DecodersCurrent, SessionFollowsLogin,
        TransmissionKeepsSession, Owned, TxHasOwner, LampShowsTransmission, Active, OnAir, OnAirSockets

\* Transmissions that are stopped, with the lamps they lit.
LEMMA StoppingKeeps ==
    ASSUME VoiceIInv, NEW W, tx' = Stopped(W), lamp' = LampsAfter(W), starts' = starts,
           session' \in VoiceSession \cup {None}
    PROVE  /\ TxTypeOK' /\ LampShowsTransmission'
           /\ \A w \in Sockets : tx'[w] # None => tx'[w] = tx[w] /\ w \notin W
           /\ \A w \in Sockets : OnAir(w)' => OnAir(w) /\ w \notin W /\ tx'[w] = tx[w]
<1>1. \A w \in Sockets : tx'[w] = IF w \in W THEN None ELSE tx[w]
    BY DEF Stopped
<1>2. TxTypeOK'
    <2>1. tx' \in [Sockets -> Transmission \cup {None}]
        BY DEF Stopped, VoiceIInv, TxTypeOK
    <2>2. lamp' \in [Coms -> BOOLEAN]
        BY DEF LampsAfter, VoiceIInv, TxTypeOK
    <2> QED BY <1>1, <2>1, <2>2 DEF VoiceIInv, TxTypeOK
<1>3. \A w \in Sockets : OnAir(w)' => OnAir(w) /\ w \notin W /\ tx'[w] = tx[w]
    BY <1>1 DEF OnAir, Active
<1>4. ASSUME NEW c \in Coms, lamp'[c] PROVE \E w \in OnAirSockets' : tx'[w].com = c
    <2>1. lamp[c] /\ ~\E w \in W : OnAir(w) /\ tx[w].com = c
        BY <1>4 DEF LampsAfter
    <2>2. PICK w \in OnAirSockets : tx[w].com = c
        BY <2>1 DEF VoiceIInv, LampShowsTransmission
    <2>3. w \in Sockets /\ OnAir(w) /\ w \notin W
        BY <2>1, <2>2 DEF OnAirSockets
    <2>4. tx'[w] = tx[w]
        BY <1>1, <2>3
    <2>5. w \in OnAirSockets'
        BY <2>3, <2>4 DEF OnAirSockets, OnAir, Active
    <2> QED BY <2>2, <2>4, <2>5
<1>5. LampShowsTransmission'
    BY <1>4 DEF LampShowsTransmission
<1> QED BY <1>1, <1>2, <1>3, <1>5

LEMMA NothingDone == VoiceIInv /\ UNCHANGED txVars => TxSound' /\ TxKept /\ session' = session
    BY DEF VoiceIInv, txVars, TxSound, TxKept, TxTypeOK, TransmissionKeepsSession, LampShowsTransmission,
           OnAirSockets, OnAir, Active, SessionName

\* replaceTxSession()
LEMMA ReplacingKeeps ==
    ASSUME VoiceIInv, NEW s \in VoiceSession, ReplaceSession(s)
    PROVE  TxSound' /\ TxKept /\ session' = s
<1> DEFINE cut == IF session # None /\ SessionName(session) # SessionName(s) THEN OnAirSockets ELSE {}
<1>1. session' = s /\ tx' = Stopped(cut) /\ lamp' = LampsAfter(cut) /\ UNCHANGED <<encoders, starts>>
    BY DEF ReplaceSession
<1> HIDE DEF cut
<1>2. /\ TxTypeOK' /\ LampShowsTransmission'
      /\ \A w \in Sockets : tx'[w] # None => tx'[w] = tx[w] /\ w \notin cut
      /\ \A w \in Sockets : OnAir(w)' => OnAir(w) /\ w \notin cut /\ tx'[w] = tx[w]
    BY <1>1, StoppingKeeps
<1>3. ASSUME NEW w \in OnAirSockets' PROVE s # None /\ tx'[w].startedFor = SessionName(s)
    <2>1. w \in OnAirSockets /\ w \notin cut /\ tx'[w] = tx[w]
        BY <1>2, <1>3 DEF OnAirSockets
    <2>2. session # None /\ tx[w].startedFor = SessionName(session)
        BY <2>1 DEF VoiceIInv, TransmissionKeepsSession
    <2>3. SessionName(session) = SessionName(s)
        BY <2>1, <2>2 DEF cut
    <2>4. s # None
        BY NoneAssumption
    <2> QED BY <2>1, <2>2, <2>3, <2>4
<1>4. SessionName(session)' = SessionName(s)
    BY <1>1 DEF SessionName
<1>5. TransmissionKeepsSession'
    BY <1>1, <1>3, <1>4 DEF TransmissionKeepsSession
<1> QED BY <1>1, <1>2, <1>5 DEF TxSound, TxKept

\* cacheTxSession()
LEMMA CachingKeeps ==
    ASSUME VoiceIInv, NEW s \in VoiceSession, NEW native \in BOOLEAN, CacheSession(s, native)
    PROVE  /\ TxSound' /\ TxKept
           /\ session' = s \/ (session' = session /\ SessionName(s) = SessionName(session))
<1>1. CASE ~native /\ SessionName(s) = SessionName(session)
    BY <1>1, NothingDone DEF CacheSession
<1>2. CASE ~(~native /\ SessionName(s) = SessionName(session))
    BY <1>2, ReplacingKeeps DEF CacheSession
<1> QED BY <1>1, <1>2

\* invalidateTxSession()
LEMMA InvalidatingKeeps ==
    ASSUME VoiceIInv, NEW key, InvalidateSession(key)
    PROVE  /\ TxSound' /\ TxKept
           /\ session' = None \/ session' = session
           /\ (key = None \/ (session # None /\ session.key = key)) => session' = None
<1>1. CASE key # None /\ (session = None \/ session.key # key)
    BY <1>1, NothingDone DEF InvalidateSession
<1>2. CASE ~(key # None /\ (session = None \/ session.key # key))
    <2>1. /\ session' = None /\ tx' = Stopped(OnAirSockets) /\ lamp' = LampsAfter(OnAirSockets)
          /\ UNCHANGED <<encoders, starts>>
        BY <1>2 DEF InvalidateSession
    <2>2. /\ TxTypeOK' /\ LampShowsTransmission'
          /\ \A w \in Sockets : tx'[w] # None => tx'[w] = tx[w] /\ w \notin OnAirSockets
          /\ \A w \in Sockets : OnAir(w)' => OnAir(w) /\ w \notin OnAirSockets /\ tx'[w] = tx[w]
        BY <2>1, StoppingKeeps
    <2>3. OnAirSockets' = {}
        BY <2>2 DEF OnAirSockets
    <2> QED BY <2>1, <2>2, <2>3 DEF TxSound, TxKept, TransmissionKeepsSession
<1> QED BY <1>1, <1>2

\* What is kept has its owner still.
LEMMA OwnersKept == VoiceIInv /\ TxKept /\ UNCHANGED pathVars => Owned'
    BY DEF VoiceIInv, TxKept, pathVars, Owned, TxHasOwner, Active, Encoder

-----------------------------------------------------------------------------
\* What a socket does leaves the session and the router alone.
LEMMA RouterKept ==
    VoiceIInv /\ UNCHANGED <<routerVars, session>> => RouteTypeOK' /\ DecodersCurrent' /\ SessionFollowsLogin'
    BY DEF VoiceIInv, routerVars, endpointVars, routeVars, decoderVars, RouteTypeOK, DecodersCurrent,
           SessionFollowsLogin

LEMMA StartingKeeps ==
    ASSUME VoiceIInv, NEW w \in Sockets, NEW rig \in Coms, NEW monitorOnly \in BOOLEAN,
           StartTx(w, rig, monitorOnly), UNCHANGED routerVars,
           IF w = RemoteTx THEN relayOpen' /\ txTimer' ELSE w \in clients',
           clients \subseteq clients', relayOpen => relayOpen', txTimer => txTimer'
    PROVE  VoiceIInv'
<1> DEFINE new == [id |-> starts + 1, com |-> rig, monitorOnly |-> monitorOnly, queued |-> 0,
                   sendTimer |-> FALSE, startedFor |-> SessionName(session)]
<1>1. /\ MayStart(monitorOnly) /\ starts < MaxStarts /\ starts' = starts + 1
      /\ tx' = [tx EXCEPT ![w] = new] /\ session' = session
      /\ lamp' = [c \in Coms |-> LampsAfter({w})[c] \/ (c = rig /\ ~monitorOnly)]
      /\ encoders' = encoders \cup {[socket |-> w, id |-> starts + 1]}
    BY DEF StartTx
<1>2. starts' \in 1..MaxStarts /\ starts + 1 \in 1..MaxStarts
    BY <1>1, WebTxAssumption DEF VoiceIInv, TxTypeOK
<1>3. new \in Transmission
    <2>1. SessionName(session) \in {None} \cup (Keys \X Headers)
        BY DEF SessionName, VoiceIInv, TxTypeOK, VoiceSession
    <2> QED BY <1>2, <2>1, WebTxAssumption DEF Transmission
<1>4. new # None /\ new.sendTimer = FALSE /\ new.com = rig /\ new.monitorOnly = monitorOnly
      /\ new.startedFor = SessionName(session) /\ new.id = starts + 1
    BY <1>3, NoneAssumption
<1> HIDE DEF new
<1>5. tx'[w] = new /\ \A v \in Sockets \ {w} : tx'[v] = tx[v]
    BY <1>1 DEF VoiceIInv, TxTypeOK
<1>6. TxTypeOK'
    <2>1. tx' \in [Sockets -> Transmission \cup {None}]
        BY <1>1, <1>3 DEF VoiceIInv, TxTypeOK
    <2>2. lamp' \in [Coms -> BOOLEAN]
        BY <1>1, Zenon DEF LampsAfter
    <2> QED BY <1>1, <1>2, <1>4, <1>5, <2>1, <2>2 DEF VoiceIInv, TxTypeOK
<1>7. /\ OnAir(w)' <=> ~monitorOnly
      /\ \A v \in Sockets \ {w} : OnAir(v)' <=> OnAir(v)
    BY <1>4, <1>5 DEF OnAir, Active
<1>8. TransmissionKeepsSession'
    <2> SUFFICES ASSUME NEW v \in OnAirSockets' PROVE session # None /\ tx'[v].startedFor = SessionName(session)
        BY <1>1 DEF TransmissionKeepsSession, SessionName
    <2>1. CASE v = w
        BY <1>1, <1>4, <1>5, <1>7, <2>1 DEF OnAirSockets, MayStart
    <2>2. CASE v # w
        BY <1>5, <1>7, <2>2 DEF OnAirSockets, VoiceIInv, TransmissionKeepsSession
    <2> QED BY <2>1, <2>2
<1>9. LampShowsTransmission'
    <2> SUFFICES ASSUME NEW c \in Coms, lamp'[c] PROVE \E v \in OnAirSockets' : tx'[v].com = c
        BY DEF LampShowsTransmission
    <2>1. CASE c = rig /\ ~monitorOnly
        BY <1>4, <1>5, <1>7, <2>1 DEF OnAirSockets
    <2>2. CASE LampsAfter({w})[c]
        <3>1. lamp[c] /\ ~(OnAir(w) /\ tx[w].com = c)
            BY <2>2 DEF LampsAfter
        <3>2. PICK v \in OnAirSockets : tx[v].com = c
            BY <3>1 DEF VoiceIInv, LampShowsTransmission
        <3>3. v # w /\ v \in Sockets
            BY <3>1, <3>2 DEF OnAirSockets
        <3> QED BY <1>5, <1>7, <3>2, <3>3 DEF OnAirSockets
    <2> QED BY <1>1, <2>1, <2>2
<1>10. Owned'
    <2>0. \A e \in encoders' : e.socket \in Sockets
        BY <1>1 DEF VoiceIInv, Owned
    <2> SUFFICES ASSUME NEW v \in Sockets, Active(v)'
                 PROVE  /\ IF v = RemoteTx THEN relayOpen' /\ txTimer' ELSE v \in clients'
                        /\ [socket |-> v, id |-> tx'[v].id] \in encoders'
        BY <2>0 DEF Owned, TxHasOwner, Encoder
    <2>1. CASE v = w
        BY <1>1, <1>4, <1>5, <2>1
    <2>2. CASE v # w
        <3>1. Active(v) /\ tx'[v] = tx[v]
            BY <1>5, <2>2 DEF Active
        <3> QED BY <1>1, <3>1 DEF VoiceIInv, Owned, TxHasOwner, Encoder
    <2> QED BY <2>1, <2>2
<1>11. RouteTypeOK' /\ DecodersCurrent' /\ SessionFollowsLogin'
    BY <1>1, RouterKept
<1> QED BY <1>6, <1>8, <1>9, <1>10, <1>11 DEF VoiceIInv

\* stop() of a socket that goes, or of one that stays.
LEMMA SocketStops ==
    ASSUME VoiceIInv, NEW w \in Sockets, Stop(w), UNCHANGED routerVars,
           \A v \in Sockets \ {w} : IF v = RemoteTx THEN UNCHANGED <<relayOpen, txTimer>>
                                    ELSE v \in clients => v \in clients'
    PROVE  VoiceIInv'
<1>1. tx' = Stopped({w}) /\ lamp' = LampsAfter({w}) /\ UNCHANGED <<session, encoders, starts>>
    BY DEF Stop
<1>2. /\ TxTypeOK' /\ LampShowsTransmission'
      /\ \A v \in Sockets : tx'[v] # None => tx'[v] = tx[v] /\ v \notin {w}
      /\ \A v \in Sockets : OnAir(v)' => OnAir(v) /\ v \notin {w} /\ tx'[v] = tx[v]
    BY <1>1, StoppingKeeps DEF VoiceIInv, TxTypeOK
<1>3. TransmissionKeepsSession'
    BY <1>1, <1>2 DEF VoiceIInv, TransmissionKeepsSession, OnAirSockets, SessionName
<1>4. Owned'
    BY <1>1, <1>2 DEF VoiceIInv, Owned, TxHasOwner, Active, Encoder
<1>5. RouteTypeOK' /\ DecodersCurrent' /\ SessionFollowsLogin'
    BY <1>1, RouterKept
<1> QED BY <1>2, <1>3, <1>4, <1>5 DEF VoiceIInv

LEMMA SocketKeeps == ASSUME VoiceIInv, SocketStep PROVE VoiceIInv'
<1> USE RemoteTxAssumption DEF pathVars
<1>1. ASSUME NEW w \in Sockets \ {RemoteTx}, BrowserOpens(w) PROVE VoiceIInv'
    <2>1. /\ UNCHANGED <<txVars, routerVars, relayOpen, txTimer>> /\ clients \subseteq clients'
        BY <1>1 DEF BrowserOpens
    <2>2. TxSound' /\ TxKept /\ session' = session
        BY <2>1, NothingDone
    <2>3. Owned'
        BY <2>1, <2>2 DEF VoiceIInv, Owned, TxHasOwner, TxKept, Active, Encoder
    <2> QED BY <2>1, <2>2, <2>3, RouterKept DEF VoiceIInv, TxSound
<1>2. ASSUME NEW w \in Sockets \ {RemoteTx}, BrowserCloses(w) PROVE VoiceIInv'
    BY <1>2, SocketStops DEF BrowserCloses
<1>3. ASSUME NEW w \in Sockets \ {RemoteTx}, NEW rig \in Coms, NEW monitorOnly \in BOOLEAN,
             BrowserStarts(w, rig, monitorOnly)
      PROVE  VoiceIInv'
    BY <1>3, StartingKeeps DEF BrowserStarts
<1>4. ASSUME NEW w \in Sockets \ {RemoteTx}, BrowserStops(w) PROVE VoiceIInv'
    BY <1>4, SocketStops DEF BrowserStops
<1>5. CASE RelayOpens
    <2>1. UNCHANGED <<txVars, routerVars, clients, txTimer>> /\ relayOpen'
        BY <1>5 DEF RelayOpens
    <2>2. TxSound' /\ TxKept /\ session' = session
        BY <2>1, NothingDone
    <2>3. Owned'
        BY <2>1, <2>2 DEF VoiceIInv, Owned, TxHasOwner, TxKept, Active, Encoder
    <2> QED BY <2>1, <2>2, <2>3, RouterKept DEF VoiceIInv, TxSound
<1>6. CASE RelayCloses
    BY <1>6, SocketStops DEF RelayCloses, StopRemote
<1>7. ASSUME NEW rig \in Coms, RemoteStarts(rig) PROVE VoiceIInv'
    BY <1>7, StartingKeeps DEF RemoteStarts
<1>8. CASE RemoteStops
    BY <1>8, SocketStops DEF RemoteStops, StopRemote
<1>9. CASE RemoteTimesOut
    BY <1>9, SocketStops DEF RemoteTimesOut, StopRemote
<1> QED BY <1>1, <1>2, <1>3, <1>4, <1>5, <1>6, <1>7, <1>8, <1>9 DEF SocketStep

-----------------------------------------------------------------------------
LEMMA FlowOpened ==
    ASSUME VoiceIInv, NEW k \in Keys, OpenFlow(k)
    PROVE  /\ flows' \in [Keys -> Flow \cup {None}] /\ flowCount' \in 0..MaxFlows
           /\ flows'[k] # None /\ flows'[k] \in Flow
           /\ \A x \in Keys : flows[x] # None => flows'[x] = flows[x]
<1>1. flows \in [Keys -> Flow \cup {None}] /\ flowCount \in 0..MaxFlows
    BY DEF VoiceIInv, RouteTypeOK
<1>2. CASE flows[k] # None
    BY <1>1, <1>2 DEF OpenFlow
<1>3. CASE flows[k] = None
    <2>1. PICK resolved \in BOOLEAN :
              /\ flowCount < MaxFlows /\ flowCount' = flowCount + 1
              /\ flows' = [flows EXCEPT ![k] = [socket |-> flowCount + 1, target |-> <<k[1], resolved>>]]
        BY <1>3 DEF OpenFlow
    <2> DEFINE new == [socket |-> flowCount + 1, target |-> <<k[1], resolved>>]
    <2>2. flowCount + 1 \in 1..MaxFlows /\ k[1] \in Hosts
        BY <1>1, <2>1, VoiceRouterAssumption DEF Keys
    <2>3. new \in Flow
        BY <2>2 DEF Flow
    <2> HIDE DEF new
    <2>4. new # None
        BY <2>3, NoneAssumption
    <2>5. flows' = [flows EXCEPT ![k] = new]
        BY <2>1 DEF new
    <2> QED BY <1>1, <1>3, <2>1, <2>2, <2>3, <2>4, <2>5
<1> QED BY <1>2, <1>3

LEMMA LoginKeeps ==
    ASSUME VoiceIInv, NEW k \in Keys, Login(k), UNCHANGED pathVars
    PROVE  VoiceIInv'
<1>1. /\ epoch < MaxLogins /\ OpenFlow(k) /\ active' = k[1] /\ activeKey' = k /\ sessionBytes' = None
      /\ decoder' = DecodersWithout({active}) /\ epoch' = epoch + 1 /\ InvalidateSession(None)
      /\ decoders' = decoders
    BY DEF Login, ActiveStopped
<1>2. TxSound' /\ TxKept /\ session' = None
    BY <1>1, InvalidatingKeeps
<1>3. k[1] \in Hosts
    BY DEF Keys
<1>4. flows' \in [Keys -> Flow \cup {None}] /\ flowCount' \in 0..MaxFlows
    BY <1>1, FlowOpened
<1>5. \A h \in Hosts : decoder'[h] = None
    BY <1>1 DEF DecodersWithout, VoiceIInv, DecodersCurrent
<1>6. decoder' \in [Hosts -> Process \cup {None}]
    BY <1>1 DEF DecodersWithout, VoiceIInv, RouteTypeOK
<1>7. epoch' \in 0..MaxLogins
    BY <1>1, VoiceRouterAssumption DEF VoiceIInv, RouteTypeOK
<1>8. RouteTypeOK'
    BY <1>1, <1>3, <1>4, <1>6, <1>7 DEF VoiceIInv, RouteTypeOK
<1> QED BY <1>2, <1>5, <1>8, OwnersKept DEF VoiceIInv, TxSound, DecodersCurrent, SessionFollowsLogin

LEMMA PacketKeeps ==
    ASSUME VoiceIInv, NEW k \in Keys, NEW kind \in PacketKinds \ {"login"}, NEW header \in Headers \cup {ZeroHeader},
           Packet(k, kind, header), UNCHANGED pathVars
    PROVE  VoiceIInv'
<1> DEFINE counts  == active = k[1]
           learned == IF counts THEN Learned(k, kind, header) ELSE sessionBytes
           matches == counts /\ kind \in SeedKinds /\ learned # None /\ header = learned
           s == [key |-> k, socket |-> flows'[k].socket, header |-> header]
<1>1. /\ OpenFlow(k) /\ sessionBytes' = learned /\ active' = active
      /\ activeKey' = (IF matches THEN k ELSE activeKey)
      /\ activeTarget' = (IF matches THEN flows'[k].target ELSE activeTarget)
      /\ IF matches THEN CacheSession(s, kind = "voice") ELSE UNCHANGED txVars
      /\ UNCHANGED <<decoder, decoders, epoch>>
    BY DEF Packet, decoderVars
<1>2. /\ flows' \in [Keys -> Flow \cup {None}] /\ flowCount' \in 0..MaxFlows
      /\ flows'[k] # None /\ flows'[k] \in Flow
      /\ \A x \in Keys : flows[x] # None => flows'[x] = flows[x]
    BY <1>1, FlowOpened
<1>3. k[1] \in Hosts
    BY DEF Keys
<1>4. learned \in Headers \cup {None} /\ (matches => header \in Headers) /\ (~matches => learned = sessionBytes)
    <2>1. CASE learned = sessionBytes
        <3>1. learned \in Headers \cup {None}
            BY <2>1 DEF VoiceIInv, RouteTypeOK
        <3> HIDE DEF learned
        <3> QED BY <2>1, <3>1
    <2>2. CASE learned # sessionBytes
        <3>1. counts /\ kind = "setup" /\ header # ZeroHeader /\ learned = header
            BY <2>2 DEF Learned
        <3>2. header \in Headers /\ header # None
            BY <3>1, NoneAssumption
        <3>3. "setup" \in SeedKinds
            BY DEF SeedKinds
        <3>4. matches
            BY <3>1, <3>2, <3>3
        <3> HIDE DEF matches, learned
        <3> QED BY <3>1, <3>2, <3>4
    <2> QED BY <2>1, <2>2
<1>5. matches => active = k[1] /\ header = learned /\ learned # None
    OBVIOUS
<1> HIDE DEF learned, matches
<1>6. RouteTypeOK' /\ DecodersCurrent'
    BY <1>1, <1>2, <1>4 DEF VoiceIInv, RouteTypeOK, DecodersCurrent
<1>7. CASE matches
    <2>1. s \in VoiceSession
        BY <1>2, <1>4, <1>7 DEF VoiceSession, Flow
    <2>2. s.key = k /\ s.socket = flows'[k].socket /\ s.header = header
        OBVIOUS
    <2> HIDE DEF s
    <2>3. (kind = "voice") \in BOOLEAN
        OBVIOUS
    <2>4. /\ TxSound' /\ TxKept
          /\ session' = s \/ (session' = session /\ SessionName(s) = SessionName(session))
        BY <1>1, <1>7, <2>1, <2>3, CachingKeeps
    <2>5. active' # None /\ active' = k[1]
        BY <1>1, <1>3, <1>5, <1>7, NoneAssumption
    <2>6. ASSUME session' = s PROVE SessionFollowsLogin'
        BY <1>1, <1>2, <1>5, <1>7, <2>2, <2>5, <2>6 DEF SessionFollowsLogin
    <2>7. ASSUME session' = session, SessionName(s) = SessionName(session) PROVE SessionFollowsLogin'
        <3> SUFFICES ASSUME session # None PROVE SessionFollowsLogin'
            BY <2>7 DEF SessionFollowsLogin
        <3>1. s # None
            BY <2>1, NoneAssumption
        <3>2. session.key = k /\ session.header = header
            BY <2>2, <2>7, <3>1 DEF SessionName
        <3>3. flows[k] # None /\ session.socket = flows[k].socket
            BY <3>2 DEF VoiceIInv, SessionFollowsLogin
        <3> QED BY <1>1, <1>2, <1>5, <1>7, <2>5, <2>7, <3>2, <3>3 DEF SessionFollowsLogin
    <2>8. SessionFollowsLogin'
        BY <2>4, <2>6, <2>7
    <2> QED BY <1>6, <2>4, <2>8, OwnersKept DEF VoiceIInv, TxSound
<1>8. CASE ~matches
    <2>1. TxSound' /\ TxKept /\ session' = session
        BY <1>1, <1>8, NothingDone
    <2>2. activeKey \in Keys \cup {None}
        BY DEF VoiceIInv, RouteTypeOK
    <2>3. session # None => activeKey \in Keys
        BY DEF VoiceIInv, SessionFollowsLogin, TxTypeOK, VoiceSession
    <2>4. SessionFollowsLogin'
        BY <1>1, <1>2, <1>4, <1>8, <2>1, <2>3 DEF VoiceIInv, SessionFollowsLogin
    <2> QED BY <1>6, <2>1, <2>4, OwnersKept DEF VoiceIInv, TxSound
<1> QED BY <1>7, <1>8

\* Flows that end, and the active route with them if it was one of them.
LEMMA RouteEnds ==
    ASSUME VoiceIInv, RouteCleared, InvalidateSession(None), epoch < MaxLogins, epoch' = epoch + 1,
           \A h \in Hosts : decoder'[h] = None, decoder' \in [Hosts -> Process \cup {None}],
           flows' \in [Keys -> Flow \cup {None}], UNCHANGED <<flowCount, decoders, pathVars>>
    PROVE  VoiceIInv'
<1>1. TxSound' /\ TxKept /\ session' = None
    BY InvalidatingKeeps
<1>2. epoch' \in 0..MaxLogins
    BY VoiceRouterAssumption DEF VoiceIInv, RouteTypeOK
<1>3. RouteTypeOK'
    BY <1>2 DEF RouteCleared, VoiceIInv, RouteTypeOK
<1> QED BY <1>1, <1>3, OwnersKept DEF VoiceIInv, TxSound, DecodersCurrent, SessionFollowsLogin

LEMMA FlowEnds ==
    ASSUME VoiceIInv, NEW k \in Keys, FlowCloses(k), UNCHANGED pathVars
    PROVE  VoiceIInv'
<1>1. /\ epoch < MaxLogins /\ flows' = FlowsWithout({k}) /\ UNCHANGED <<flowCount, decoders>>
      /\ IF active # None /\ activeKey \in {k}
         THEN /\ RouteCleared /\ decoder' = DecodersWithout({active}) /\ epoch' = epoch + 1
              /\ InvalidateSession(None)
         ELSE /\ UNCHANGED <<active, activeKey, activeTarget, sessionBytes, decoder, epoch>>
              /\ IF session # None /\ session.key \in {k} THEN InvalidateSession(session.key) ELSE UNCHANGED txVars
    BY DEF FlowCloses, CloseFlows, ActiveStopped
<1>2. /\ flows' \in [Keys -> Flow \cup {None}]
      /\ \A x \in Keys \ {k} : flows'[x] = flows[x]
    BY <1>1 DEF FlowsWithout, VoiceIInv, RouteTypeOK
<1>3. CASE active # None /\ activeKey \in {k}
    <2>1. /\ RouteCleared /\ decoder' = DecodersWithout({active}) /\ epoch' = epoch + 1 /\ InvalidateSession(None)
        BY <1>1, <1>3
    <2>2. decoder' \in [Hosts -> Process \cup {None}]
        BY <2>1 DEF DecodersWithout, VoiceIInv, RouteTypeOK
    <2>3. \A h \in Hosts : decoder'[h] = None
        BY <2>1 DEF DecodersWithout, VoiceIInv, DecodersCurrent
    <2> QED BY <1>1, <1>2, <2>1, <2>2, <2>3, RouteEnds
<1>4. CASE ~(active # None /\ activeKey \in {k})
    <2>1. UNCHANGED <<active, activeKey, activeTarget, sessionBytes, decoder, epoch>>
        BY <1>1, <1>4
    <2>2. RouteTypeOK' /\ DecodersCurrent'
        BY <1>1, <1>2, <2>1 DEF VoiceIInv, RouteTypeOK, DecodersCurrent
    <2>3. CASE session # None /\ session.key \in {k}
        <3>1. InvalidateSession(session.key)
            BY <1>1, <1>4, <2>3
        <3>2. TxSound' /\ TxKept /\ session' = None
            BY <2>3, <3>1, InvalidatingKeeps
        <3> QED BY <2>2, <3>2, OwnersKept DEF VoiceIInv, TxSound, SessionFollowsLogin
    <2>4. CASE ~(session # None /\ session.key \in {k})
        <3>1. UNCHANGED txVars
            BY <1>1, <1>4, <2>4
        <3>2. TxSound' /\ TxKept /\ session' = session
            BY <3>1, NothingDone
        <3>3. session # None => activeKey \in Keys /\ activeKey # k
            BY <2>4 DEF VoiceIInv, SessionFollowsLogin, TxTypeOK, VoiceSession
        <3>4. SessionFollowsLogin'
            BY <1>2, <2>1, <3>2, <3>3 DEF VoiceIInv, SessionFollowsLogin
        <3> QED BY <2>2, <3>2, <3>4, OwnersKept DEF VoiceIInv, TxSound
    <2> QED BY <2>3, <2>4
<1> QED BY <1>3, <1>4

LEMMA EndpointKeeps ==
    ASSUME VoiceIInv, EndpointStep, UNCHANGED pathVars
    PROVE  VoiceIInv'
<1>1. ASSUME NEW h \in Hosts, WantEndpoint(h) \/ \E transport \in {"tcp", "udp"} : Listening(h, transport)
      PROVE  VoiceIInv'
    <2>1. UNCHANGED <<routeVars, decoderVars, txVars>>
        BY <1>1 DEF WantEndpoint, Listening
    <2>2. TxSound' /\ TxKept /\ session' = session
        BY <2>1, NothingDone
    <2> QED BY <2>1, <2>2, OwnersKept DEF VoiceIInv, TxSound, routeVars, decoderVars, RouteTypeOK, DecodersCurrent,
           SessionFollowsLogin
<1>2. ASSUME NEW h \in Hosts, EndpointFails(h) PROVE VoiceIInv'
    <2>1. /\ epoch < MaxLogins /\ flows' = FlowsWithout({h} \X Sources) /\ decoder' = DecodersWithout({h})
          /\ UNCHANGED <<flowCount, decoders>>
          /\ IF active = h THEN RouteCleared /\ epoch' = epoch + 1 /\ InvalidateSession(None)
             ELSE UNCHANGED <<active, activeKey, activeTarget, sessionBytes, epoch, txVars>>
        BY <1>2 DEF EndpointFails
    <2>2. flows' \in [Keys -> Flow \cup {None}]
        BY <2>1 DEF FlowsWithout, VoiceIInv, RouteTypeOK
    <2>3. \A x \in Keys : x[1] # h => flows'[x] = flows[x]
        BY <2>1 DEF FlowsWithout
    <2>4. decoder' \in [Hosts -> Process \cup {None}] /\ \A g \in Hosts : decoder'[g] = IF g = h THEN None ELSE decoder[g]
        BY <2>1 DEF DecodersWithout, VoiceIInv, RouteTypeOK
    <2>5. CASE active = h
        <3>1. RouteCleared /\ epoch' = epoch + 1 /\ InvalidateSession(None)
            BY <2>1, <2>5
        <3>2. \A g \in Hosts : decoder'[g] = None
            BY <2>4, <2>5 DEF VoiceIInv, DecodersCurrent
        <3> QED BY <2>1, <2>2, <2>4, <3>1, <3>2, RouteEnds
    <2>6. CASE active # h
        <3>1. UNCHANGED <<active, activeKey, activeTarget, sessionBytes, epoch, txVars>>
            BY <2>1, <2>6
        <3>2. TxSound' /\ TxKept /\ session' = session
            BY <3>1, NothingDone
        <3>3. RouteTypeOK' /\ DecodersCurrent'
            BY <2>1, <2>2, <2>4, <3>1 DEF VoiceIInv, RouteTypeOK, DecodersCurrent
        <3>4. session # None => activeKey \in Keys /\ activeKey[1] # h
            BY <2>6 DEF VoiceIInv, SessionFollowsLogin, TxTypeOK, VoiceSession
        <3>5. SessionFollowsLogin'
            BY <2>3, <3>1, <3>2, <3>4 DEF VoiceIInv, SessionFollowsLogin
        <3> QED BY <3>2, <3>3, <3>5, OwnersKept DEF VoiceIInv, TxSound
    <2> QED BY <2>5, <2>6
<1> QED BY <1>1, <1>2 DEF EndpointStep

LEMMA SoundKeeps ==
    ASSUME VoiceIInv, SoundStep, UNCHANGED pathVars
    PROVE  VoiceIInv'
<1>1. UNCHANGED <<routeVars, txVars, epoch>>
    BY DEF SoundStep, VoiceReply, DecoderExit
<1>2. TxSound' /\ TxKept /\ session' = session
    BY <1>1, NothingDone
<1>3. SessionFollowsLogin'
    BY <1>1, <1>2 DEF routeVars, VoiceIInv, SessionFollowsLogin
<1>4. decoder' \in [Hosts -> Process \cup {None}] /\ DecodersCurrent'
    <2>1. ASSUME NEW k \in Keys, VoiceReply(k)
          PROVE  decoder' \in [Hosts -> Process \cup {None}] /\ DecodersCurrent'
        <3> DEFINE d == [host |-> k[1], epoch |-> epoch]
        <3>1. active = k[1] /\ k[1] \in Hosts /\ decoder' = [decoder EXCEPT ![k[1]] = d]
            BY <2>1 DEF VoiceReply, StartVoiceDecoder, Keys
        <3>2. d \in Process /\ d.epoch = epoch
            BY <3>1 DEF Process, VoiceIInv, RouteTypeOK
        <3> HIDE DEF d
        <3> QED BY <1>1, <3>1, <3>2 DEF VoiceIInv, RouteTypeOK, DecodersCurrent, routeVars
    <2>2. ASSUME NEW d \in decoders, DecoderExit(d)
          PROVE  decoder' \in [Hosts -> Process \cup {None}] /\ DecodersCurrent'
        BY <1>1, <2>2 DEF DecoderExit, VoiceIInv, RouteTypeOK, DecodersCurrent, routeVars
    <2> QED BY <2>1, <2>2 DEF SoundStep
<1>5. decoders' \subseteq Process
    <2>1. ASSUME NEW k \in Keys, VoiceReply(k) PROVE decoders' \subseteq Process
        BY <2>1 DEF VoiceReply, StartVoiceDecoder, Keys, Process, VoiceIInv, RouteTypeOK
    <2>2. ASSUME NEW d \in decoders, DecoderExit(d) PROVE decoders' \subseteq Process
        BY <2>2 DEF DecoderExit, VoiceIInv, RouteTypeOK
    <2> QED BY <2>1, <2>2 DEF SoundStep
<1>6. RouteTypeOK'
    BY <1>1, <1>4, <1>5 DEF VoiceIInv, RouteTypeOK, routeVars
<1> QED BY <1>2, <1>3, <1>4, <1>6, OwnersKept DEF VoiceIInv, TxSound

LEMMA FsdKeeps ==
    ASSUME VoiceIInv, FsdCloses, UNCHANGED pathVars
    PROVE  VoiceIInv'
<1>1. /\ epoch < MaxLogins /\ flows' = [k \in Keys |-> None] /\ decoder' = [h \in Hosts |-> None]
      /\ RouteCleared /\ epoch' = epoch + 1 /\ InvalidateSession(None) /\ UNCHANGED <<flowCount, decoders>>
    BY DEF FsdCloses, ResetVoice
<1> QED BY <1>1, RouteEnds

-----------------------------------------------------------------------------
\* Packets and exits of the encoders.
LEMMA EncodingKeeps ==
    ASSUME VoiceIInv, TxStep, UNCHANGED <<routerVars, pathVars>>
    PROVE  VoiceIInv'
<1>0. UNCHANGED session /\ UNCHANGED starts
    BY DEF TxStep, EncoderStep, PumpStep, EncoderOutput, EncoderExit, SendPacket
<1>1. RouteTypeOK' /\ DecodersCurrent' /\ SessionFollowsLogin'
    BY <1>0, RouterKept
<1>2. ASSUME NEW w \in Sockets, tx[w] # None, NEW queued \in 0..MaxQueue, NEW sendTimer \in BOOLEAN,
             sendTimer => queued > 0,
             tx' = [tx EXCEPT ![w] = [tx[w] EXCEPT !.queued = queued, !.sendTimer = sendTimer]],
             UNCHANGED <<encoders, lamp>>
      PROVE  VoiceIInv'
    <2> DEFINE new == [tx[w] EXCEPT !.queued = queued, !.sendTimer = sendTimer]
    <2>1. /\ new \in Transmission /\ new.queued = queued /\ new.sendTimer = sendTimer /\ new.id = tx[w].id
          /\ new.com = tx[w].com /\ new.monitorOnly = tx[w].monitorOnly /\ new.startedFor = tx[w].startedFor
        BY <1>2 DEF VoiceIInv, TxTypeOK, Transmission
    <2> HIDE DEF new
    <2>2. tx' = [tx EXCEPT ![w] = new]
        BY <1>2 DEF new
    <2>3. new # None
        BY <2>1, NoneAssumption
    <2>4. tx'[w] = new /\ \A v \in Sockets \ {w} : tx'[v] = tx[v]
        BY <2>2 DEF VoiceIInv, TxTypeOK
    <2>5. TxTypeOK'
        BY <1>0, <1>2, <2>1, <2>2, <2>4 DEF VoiceIInv, TxTypeOK
    <2>6. \A v \in Sockets : /\ Active(v)' <=> Active(v)
                             /\ OnAir(v)' <=> OnAir(v)
        BY <1>2, <2>1, <2>3, <2>4 DEF Active, OnAir
    <2>7. \A v \in Sockets : /\ tx'[v].com = tx[v].com /\ tx'[v].startedFor = tx[v].startedFor
                             /\ tx'[v].id = tx[v].id
        BY <2>1, <2>4
    <2>8. OnAirSockets' = OnAirSockets
        BY <2>6 DEF OnAirSockets
    <2>9. TransmissionKeepsSession'
        BY <1>0, <2>7, <2>8 DEF VoiceIInv, TransmissionKeepsSession, SessionName, OnAirSockets
    <2>10. LampShowsTransmission'
        BY <1>2, <2>7, <2>8 DEF VoiceIInv, LampShowsTransmission, OnAirSockets
    <2>11. Owned'
        BY <1>2, <2>6, <2>7 DEF VoiceIInv, Owned, TxHasOwner, Encoder, pathVars
    <2> QED BY <1>1, <2>5, <2>9, <2>10, <2>11 DEF VoiceIInv
<1>3. ASSUME NEW e \in encoders, EncoderOutput(e), e.socket \in Sockets PROVE VoiceIInv'
    <2> DEFINE w == e.socket
               queued == IF tx[w].queued < MaxQueue THEN tx[w].queued + 1 ELSE tx[w].queued
    <2>1. tx[w] # None /\ tx[w] \in Transmission
        BY <1>3 DEF EncoderOutput, Serves, Active, VoiceIInv, TxTypeOK
    <2>2. queued \in 0..MaxQueue /\ queued > 0
        BY <2>1, WebTxAssumption DEF Transmission
    <2>3. tx' = [tx EXCEPT ![w] = [tx[w] EXCEPT !.queued = queued, !.sendTimer = TRUE]] /\ UNCHANGED <<encoders, lamp>>
        BY <1>3 DEF EncoderOutput, VoiceIInv, TxTypeOK
    <2> HIDE DEF queued
    <2>4. TRUE \in BOOLEAN
        OBVIOUS
    <2> QED BY <1>2, <1>3, <2>1, <2>2, <2>3, <2>4
<1>4. ASSUME NEW w \in Sockets, SendPacket(w) PROVE VoiceIInv'
    <2> DEFINE queued == tx[w].queued - 1
               more == tx[w].queued > 1
    <2>1. tx[w] # None /\ tx[w] \in Transmission /\ tx[w].queued > 0
        BY <1>4 DEF SendPacket, Active, VoiceIInv, TxTypeOK
    <2>2. queued \in 0..MaxQueue /\ (more => queued > 0)
        BY <2>1, WebTxAssumption DEF Transmission
    <2>3. tx' = [tx EXCEPT ![w] = [tx[w] EXCEPT !.queued = queued, !.sendTimer = more]] /\ UNCHANGED <<encoders, lamp>>
        BY <1>4 DEF SendPacket, VoiceIInv, TxTypeOK
    <2>4. more \in BOOLEAN
        OBVIOUS
    <2> HIDE DEF queued, more
    <2> QED BY <1>2, <2>1, <2>2, <2>3, <2>4
<1>5. ASSUME NEW e \in encoders, EncoderExit(e) PROVE VoiceIInv'
    <2> DEFINE cut == IF Serves(e) THEN {e.socket} ELSE {}
    <2>1. encoders' = encoders \ {e} /\ tx' = Stopped(cut) /\ lamp' = LampsAfter(cut)
        BY <1>5 DEF EncoderExit
    <2>2. \A w \in Sockets : Active(w) /\ w \notin cut => Encoder(w) # e
        BY DEF Serves, Encoder
    <2> HIDE DEF cut
    <2>3. session' \in VoiceSession \cup {None}
        BY <1>0 DEF VoiceIInv, TxTypeOK
    <2>4. /\ TxTypeOK' /\ LampShowsTransmission'
          /\ \A w \in Sockets : tx'[w] # None => tx'[w] = tx[w] /\ w \notin cut
          /\ \A w \in Sockets : OnAir(w)' => OnAir(w) /\ w \notin cut /\ tx'[w] = tx[w]
        BY <1>0, <2>1, <2>3, StoppingKeeps
    <2>5. TransmissionKeepsSession'
        BY <1>0, <2>4 DEF VoiceIInv, TransmissionKeepsSession, OnAirSockets, SessionName
    <2>6. Owned'
        BY <2>1, <2>2, <2>4 DEF VoiceIInv, Owned, TxHasOwner, Active, Encoder, pathVars
    <2> QED BY <1>1, <2>4, <2>5, <2>6 DEF VoiceIInv
<1>6. \A e \in encoders : e.socket \in Sockets
    BY DEF VoiceIInv, Owned
<1> QED BY <1>3, <1>4, <1>5, <1>6 DEF TxStep, EncoderStep, PumpStep

LEMMA VoiceStep == VoiceIInv /\ [VoiceNext]_voiceVars => VoiceIInv'
<1> SUFFICES ASSUME VoiceIInv, [VoiceNext]_voiceVars PROVE VoiceIInv'
    OBVIOUS
<1>1. CASE SocketStep
    BY <1>1, SocketKeeps
<1>2. CASE RouterStep /\ UNCHANGED pathVars
    <2>1. ASSUME NEW k \in Keys, Login(k) PROVE VoiceIInv'
        BY <1>2, <2>1, LoginKeeps
    <2>2. ASSUME NEW k \in Keys, NEW kind \in PacketKinds \ {"login"}, NEW header \in Headers \cup {ZeroHeader},
                 Packet(k, kind, header)
          PROVE  VoiceIInv'
        BY <1>2, <2>2, PacketKeeps
    <2>3. CASE FlowStep
        BY <1>2, <2>3, FlowEnds DEF FlowStep
    <2> QED BY <1>2, <2>1, <2>2, <2>3, EndpointKeeps, FsdKeeps, SoundKeeps DEF RouterStep, PacketStep
<1>3. CASE TxStep /\ UNCHANGED <<routerVars, pathVars>>
    BY <1>3, EncodingKeeps
<1>4. CASE UNCHANGED voiceVars
    <2>1. UNCHANGED <<txVars, routerVars, pathVars>>
        BY <1>4 DEF voiceVars
    <2>2. TxSound' /\ TxKept /\ session' = session
        BY <2>1, NothingDone
    <2> QED BY <2>1, <2>2, OwnersKept, RouterKept DEF VoiceIInv, TxSound
<1> QED BY <1>1, <1>2, <1>3, <1>4 DEF VoiceNext

\* Web TX speaks under the session of the last login, a transmission never moves to
\* another session or outlives its owner, a lit lamp is one that is transmitted on,
\* and nothing is heard of an earlier login.
THEOREM VoiceFollowsLogin == VoiceSpec => []VoicePathHolds
<1>1. VoiceIInv => VoicePathHolds
    <2> SUFFICES ASSUME VoiceIInv PROVE SoundIsCurrent
        BY DEF VoiceIInv, Owned, VoicePathHolds
    <2> SUFFICES ASSUME NEW d \in decoders, Heard(d) PROVE d.epoch = epoch
        BY DEF SoundIsCurrent
    <2>1. d.host = active /\ decoder[d.host] = d
        BY DEF Heard
    <2>2. d \in Process /\ d.host \in Hosts
        BY DEF VoiceIInv, RouteTypeOK, Process
    <2> QED BY <2>1, <2>2, NoneAssumption DEF VoiceIInv, DecodersCurrent
<1> QED BY VoiceIInit, VoiceStep, <1>1, PTL DEF VoiceSpec

\* The exit of an encoder ends only the transmission it serves.
THEOREM ExitEndsItsOwn == VoiceSpec => TalkerNotCutOff
<1> DEFINE Spared == \A e \in encoders \ encoders', w \in Sockets : tx'[w] # tx[w] => e = Encoder(w)
<1>1. ASSUME VoiceNext PROVE Spared
    <2>1. CASE encoders \subseteq encoders'
        BY <2>1
    <2>2. ASSUME NEW e \in encoders, EncoderExit(e) PROVE Spared
        <3>1. encoders' = encoders \ {e} /\ tx' = Stopped(IF Serves(e) THEN {e.socket} ELSE {})
            BY <2>2 DEF EncoderExit
        <3>2. \A w \in Sockets : tx'[w] # tx[w] => Serves(e) /\ w = e.socket
            BY <3>1 DEF Stopped
        <3> QED BY <3>1, <3>2 DEF Serves
    <2>3. SocketStep => encoders \subseteq encoders'
        BY DEF SocketStep, BrowserOpens, BrowserCloses, BrowserStarts, BrowserStops, RelayOpens, RelayCloses,
               RemoteStarts, RemoteStops, RemoteTimesOut, StopRemote, Stop, StartTx, txVars
    <2>4. \A key : InvalidateSession(key) => encoders' = encoders
        BY DEF InvalidateSession, txVars
    <2>5. \A s, native : CacheSession(s, native) => encoders' = encoders
        BY DEF CacheSession, ReplaceSession, txVars
    <2>6. PacketStep => encoders' = encoders
        <3>1. \A k : Login(k) => encoders' = encoders
            BY <2>4 DEF Login
        <3>2. \A k, kind, header : Packet(k, kind, header) => encoders' = encoders
            BY <2>5 DEF Packet, txVars
        <3> QED BY <3>1, <3>2 DEF PacketStep
    <2>7. EndpointStep \/ SoundStep => encoders' = encoders
        BY <2>4 DEF EndpointStep, WantEndpoint, Listening, EndpointFails, SoundStep, VoiceReply, DecoderExit, txVars
    <2>8. FlowStep \/ FsdCloses => encoders' = encoders
        BY <2>4 DEF FlowStep, FlowCloses, CloseFlows, FsdCloses, ResetVoice, txVars
    <2>9. (\E e \in encoders : EncoderOutput(e)) \/ PumpStep => encoders' = encoders
        BY DEF EncoderOutput, PumpStep, SendPacket
    <2> QED BY <1>1, <2>1, <2>2, <2>3, <2>6, <2>7, <2>8, <2>9 DEF VoiceNext, RouterStep, TxStep, EncoderStep
<1>2. [VoiceNext]_voiceVars => [Spared]_voiceVars
    BY <1>1
<1> QED BY <1>2, PTL DEF VoiceSpec, TalkerNotCutOff

-----------------------------------------------------------------------------
(***************************************************************************)
(* TabDrag                                                                 *)
(***************************************************************************)
\* An entry put into a list: those from its place on move down.
LEMMA OneInserted ==
    ASSUME NEW S, NEW q \in Seq(S), NEW e \in S, NEW i \in 1..(Len(q) + 1)
    PROVE  /\ InsertAt(q, i, e) \in Seq(S)
           /\ DOMAIN InsertAt(q, i, e) = 1..(Len(q) + 1)
           /\ \A j \in 1..(Len(q) + 1) :
                 InsertAt(q, i, e)[j] = IF j < i THEN q[j] ELSE IF j = i THEN e ELSE q[j - 1]
<1> DEFINE a == SubSeq(q, 1, i - 1)
           b == SubSeq(q, i, Len(q))
           c == a \o <<e>>
<1>1. Len(q) \in Nat /\ DOMAIN q = 1..Len(q) /\ \A j \in 1..Len(q) : q[j] \in S
    BY LenProperties, ElementOfSeq
<1>2. i \in Int /\ 1 <= i /\ i <= Len(q) + 1
    BY <1>1
<1>3. /\ a \in Seq(S) /\ Len(a) = i - 1 /\ \A j \in 1..(i - 1) : a[j] = q[j]
    <2>1. \A j \in 1..(i - 1) : q[j] \in S
        BY <1>1, <1>2
    <2>2. i - 1 \in Int /\ 1 \in Int
        BY <1>2
    <2>3. /\ a \in Seq(S) /\ Len(a) = IF 1 <= i - 1 THEN (i - 1) - 1 + 1 ELSE 0
          /\ \A j \in 1..((i - 1) - 1 + 1) : a[j] = q[1 + j - 1]
        BY <2>1, <2>2, SubSeqProperties
    <2>4. \A j \in 1..(i - 1) : 1 + j - 1 = j /\ j \in 1..((i - 1) - 1 + 1)
        BY <1>2
    <2> HIDE DEF a
    <2> QED BY <1>2, <2>3, <2>4
<1>4. /\ b \in Seq(S) /\ Len(b) = Len(q) + 1 - i /\ \A j \in 1..(Len(q) + 1 - i) : b[j] = q[i + j - 1]
    <2>1. \A j \in i..Len(q) : q[j] \in S
        BY <1>1, <1>2
    <2>2. Len(q) \in Int
        BY <1>1
    <2>3. /\ b \in Seq(S) /\ Len(b) = IF i <= Len(q) THEN Len(q) - i + 1 ELSE 0
          /\ \A j \in 1..(Len(q) - i + 1) : b[j] = q[i + j - 1]
        BY <1>2, <2>1, <2>2, SubSeqProperties
    <2>4. \A j \in 1..(Len(q) + 1 - i) : j \in 1..(Len(q) - i + 1)
        BY <1>1, <1>2
    <2> HIDE DEF b
    <2> QED BY <1>1, <1>2, <2>3, <2>4
<1>5. <<e>> \in Seq(S) /\ Len(<<e>>) = 1 /\ <<e>>[1] = e
    OBVIOUS
<1> HIDE DEF a, b
<1>6. /\ c \in Seq(S) /\ Len(c) = i
      /\ \A j \in 1..i : c[j] = IF j < i THEN q[j] ELSE e
    <2>1. /\ c \in Seq(S) /\ Len(c) = Len(a) + Len(<<e>>)
          /\ \A j \in 1..Len(a) + Len(<<e>>) : c[j] = IF j <= Len(a) THEN a[j] ELSE <<e>>[j - Len(a)]
        BY <1>3, <1>5, ConcatProperties
    <2>2. Len(a) + Len(<<e>>) = i /\ Len(a) = i - 1
        BY <1>2, <1>3, <1>5
    <2> HIDE DEF c
    <2>3. ASSUME NEW j \in 1..i PROVE c[j] = IF j < i THEN q[j] ELSE e
        <3>1. CASE j < i
            BY <1>2, <1>3, <2>1, <2>2, <3>1
        <3>2. CASE ~(j < i)
            <4>1. j = i /\ j - Len(a) = 1 /\ ~(j <= Len(a)) /\ j \in 1..Len(a) + Len(<<e>>)
                BY <1>2, <2>2, <3>2
            <4>2. c[j] = <<e>>[j - Len(a)]
                BY <2>1, <4>1
            <4> QED BY <1>5, <3>2, <4>1, <4>2
        <3> QED BY <3>1, <3>2
    <2> QED BY <2>1, <2>2, <2>3
<1> HIDE DEF c
<1>7. /\ c \o b \in Seq(S) /\ Len(c \o b) = Len(q) + 1
      /\ \A j \in 1..(Len(q) + 1) : (c \o b)[j] = IF j <= i THEN c[j] ELSE b[j - i]
    <2>1. /\ c \o b \in Seq(S) /\ Len(c \o b) = Len(c) + Len(b)
          /\ \A j \in 1..Len(c) + Len(b) : (c \o b)[j] = IF j <= Len(c) THEN c[j] ELSE b[j - Len(c)]
        BY <1>4, <1>6, ConcatProperties
    <2>2. Len(c) + Len(b) = Len(q) + 1 /\ Len(c) = i
        BY <1>1, <1>2, <1>4, <1>6
    <2> QED BY <2>1, <2>2
<1>8. \A j \in 1..(Len(q) + 1) : (c \o b)[j] = IF j < i THEN q[j] ELSE IF j = i THEN e ELSE q[j - 1]
    <2> TAKE j \in 1..(Len(q) + 1)
    <2>1. CASE j <= i
        BY <1>2, <1>6, <1>7, <2>1
    <2>2. CASE ~(j <= i)
        <3>1. j - i \in 1..(Len(q) + 1 - i) /\ i + (j - i) - 1 = j - 1
            BY <1>1, <1>2, <2>2
        <3> QED BY <1>2, <1>4, <1>7, <2>2, <3>1
    <2> QED BY <2>1, <2>2
<1>9. InsertAt(q, i, e) = c \o b
    BY DEF InsertAt, a, b, c
<1>10. DOMAIN (c \o b) = 1..(Len(q) + 1)
    BY <1>7, LenProperties
<1> QED BY <1>7, <1>8, <1>9, <1>10

\* A layout has every filter, and every tab once.
Arranged(o) == o \in Seq(TabKeys) /\ IsInjective(o) /\ Filters \subseteq ToSet(o)

\* A move neither loses nor doubles a tab.
LEMMA MoveArranges ==
    ASSUME NEW o, Arranged(o), NEW key, NEW target
    PROVE  Arranged(Moved(o, key, target))
<1>1. CASE ~({key, target} \subseteq ToSet(o))
    BY <1>1 DEF Moved
<1>2. CASE {key, target} \subseteq ToSet(o)
    <2> DEFINE i == At1(o, key)
               t == At1(o, target)
               m == RemoveAt(o, i)
               r == InsertAt(m, t, key)
    <2>1. /\ o \in Seq(TabKeys) /\ Len(o) \in Nat /\ DOMAIN o = 1..Len(o)
          /\ \A j \in 1..Len(o) : o[j] \in TabKeys
        BY LenProperties, ElementOfSeq DEF Arranged
    <2>2. i \in DOMAIN o /\ o[i] = key /\ t \in DOMAIN o
        <3>1. (\E k \in DOMAIN o : o[k] = key) /\ (\E k \in DOMAIN o : o[k] = target)
            BY <1>2 DEF ToSet
        <3>2. i \in DOMAIN o /\ o[i] = key
            BY <3>1, Zenon DEF At1
        <3>3. t \in DOMAIN o
            BY <3>1, Zenon DEF At1
        <3> QED BY <3>2, <3>3
    <2>3. /\ m \in Seq(TabKeys) /\ Len(m) = Len(o) - 1 /\ DOMAIN m = 1..(Len(o) - 1)
          /\ \A j \in 1..(Len(o) - 1) : m[j] = IF j < i THEN o[j] ELSE o[j + 1]
        <3> HIDE DEF i
        <3>1. o \in Seq(TabKeys) /\ i \in DOMAIN o
            BY <2>1, <2>2
        <3> QED BY <3>1, OneRemoved
    <2>4. key \in TabKeys /\ Moved(o, key, target) = r
        BY <1>2, <2>1, <2>2 DEF Moved
    <2>5. i \in Int /\ t \in Int /\ 1 <= i /\ i <= Len(o) /\ 1 <= t /\ t <= Len(o)
        BY <2>1, <2>2
    <2> HIDE DEF i, t, m
    <2>6. Len(m) = Len(o) - 1
        BY <2>3
    <2>7. /\ r \in Seq(TabKeys) /\ DOMAIN r = 1..Len(o)
          /\ \A j \in 1..Len(o) : r[j] = IF j < t THEN m[j] ELSE IF j = t THEN key ELSE m[j - 1]
        <3>1. t \in 1..(Len(m) + 1) /\ Len(m) + 1 = Len(o)
            BY <2>1, <2>5, <2>6
        <3>2. /\ r \in Seq(TabKeys) /\ DOMAIN r = 1..(Len(m) + 1)
              /\ \A j \in 1..(Len(m) + 1) : r[j] = IF j < t THEN m[j] ELSE IF j = t THEN key ELSE m[j - 1]
            <4> HIDE DEF r
            <4> QED BY <2>3, <2>4, <3>1, OneInserted DEF r
        <3> QED BY <3>1, <3>2
    <2> HIDE DEF r
    \* where the entry at j of the new order stood in the old one, and back
    <2> DEFINE from(j) == IF j = t THEN i ELSE IF j < t THEN (IF j < i THEN j ELSE j + 1)
                                             ELSE (IF j - 1 < i THEN j - 1 ELSE j)
               to(j) == IF j = i THEN t ELSE IF j < i THEN (IF j < t THEN j ELSE j + 1)
                                           ELSE (IF j - 1 < t THEN j - 1 ELSE j)
    <2>8. ASSUME NEW j \in 1..Len(o) PROVE from(j) \in 1..Len(o) /\ r[j] = o[from(j)]
        <3>1. CASE j = t
            BY <2>1, <2>2, <2>5, <2>7, <3>1
        <3>2. CASE j < t
            <4>1. j \in 1..(Len(o) - 1)
                BY <2>1, <2>5, <3>2
            <4> QED BY <2>1, <2>3, <2>5, <2>7, <3>2, <4>1
        <3>3. CASE j > t
            <4>1. j - 1 \in 1..(Len(o) - 1) /\ (j - 1) + 1 = j /\ ~(j < t) /\ j # t
                BY <2>1, <2>5, <3>3
            <4> QED BY <2>1, <2>3, <2>5, <2>7, <3>3, <4>1
        <3> QED BY <2>1, <2>5, <3>1, <3>2, <3>3
    <2>9. ASSUME NEW j \in 1..Len(o) PROVE to(j) \in 1..Len(o) /\ from(to(j)) = j
        BY <2>1, <2>5
    <2>10. \A j, k \in 1..Len(o) : from(j) = from(k) => j = k
        BY <2>1, <2>5
    <2> HIDE DEF from, to
    <2>11. IsInjective(r)
        <3>1. ASSUME NEW j \in 1..Len(o), NEW k \in 1..Len(o), r[j] = r[k] PROVE j = k
            BY <2>1, <2>8, <2>10, <3>1 DEF Arranged, IsInjective
        <3> QED BY <2>7, <3>1 DEF IsInjective
    <2>12. Filters \subseteq ToSet(r)
        <3>1. ASSUME NEW f \in Filters PROVE f \in ToSet(r)
            <4>1. PICK j \in 1..Len(o) : o[j] = f
                BY <2>1 DEF Arranged, ToSet
            <4>2. to(j) \in 1..Len(o) /\ r[to(j)] = o[j]
                BY <2>8, <2>9
            <4> QED BY <2>7, <4>1, <4>2 DEF ToSet
        <3> QED BY <3>1
    <2> QED BY <2>4, <2>7, <2>11, <2>12 DEF Arranged
<1> QED BY <1>1, <1>2

\* A new layout has the filters.
LEMMA NewIsArranged == Arranged(NewLayout.order)
<1> DEFINE n == Cardinality(Filters)
           o == SetToSeq(Filters)
<1>1. n \in Nat /\ ExistsBijection(1..n, Filters)
    BY FiltersAssumption, FS_CardinalityType
<1>2. PICK g : g \in Bijection(1..n, Filters)
    BY <1>1 DEF ExistsBijection
<1>3. g \in [1..n -> Filters] /\ IsInjective(g)
    BY <1>2 DEF Bijection, Injection, Surjection
<1>4. o \in [1..n -> Filters] /\ IsInjective(o)
    BY <1>3 DEF SetToSeq
<1> HIDE DEF o
<1>5. o \in Injection(1..n, Filters)
    BY <1>4 DEF Injection
<1>6. IsFiniteSet(1..n) /\ Cardinality(1..n) = n
    BY <1>1, FS_Interval
<1>7. o \in Surjection(1..n, Filters)
    BY <1>5, <1>6, FiltersAssumption, FS_Injection
<1>8. Filters \subseteq ToSet(o)
    BY <1>4, <1>7 DEF Surjection, ToSet
<1>9. o \in Seq(Filters)
    BY <1>1, <1>4
<1>10. o \in Seq(TabKeys)
    <2>1. \A j \in 1..n : o[j] \in TabKeys
        BY <1>4 DEF TabKeys
    <2>2. o \in [1..n -> TabKeys]
        BY <1>4, <2>1
    <2> QED BY <1>1, <2>2
<1>11. NewLayout.order = o
    BY DEF NewLayout, o
<1> QED BY <1>4, <1>8, <1>10, <1>11 DEF Arranged

LEMMA AppendArranges ==
    ASSUME NEW o, Arranged(o), NEW peer \in Partners, ~Contains(o, peer)
    PROVE  Arranged(Append(o, peer))
<1>1. o \in Seq(TabKeys) /\ Len(o) \in Nat /\ DOMAIN o = 1..Len(o)
    BY LenProperties DEF Arranged
<1>2. peer \in TabKeys
    BY DEF TabKeys
<1> DEFINE r == Append(o, peer)
<1>3. /\ r \in Seq(TabKeys) /\ Len(r) = Len(o) + 1 /\ r[Len(o) + 1] = peer
      /\ \A j \in 1..Len(o) : r[j] = o[j]
    BY <1>1, <1>2, AppendProperties
<1>4. DOMAIN r = 1..(Len(o) + 1)
    BY <1>3, LenProperties
<1> HIDE DEF r
<1>5. \A j \in 1..Len(o) : o[j] # peer
    BY DEF Contains
<1>6. \A j \in 1..(Len(o) + 1) : j \in 1..Len(o) \/ j = Len(o) + 1
    BY <1>1
<1>7. IsInjective(r)
    <2>1. ASSUME NEW j \in 1..(Len(o) + 1), NEW k \in 1..(Len(o) + 1), r[j] = r[k] PROVE j = k
        BY <1>1, <1>3, <1>5, <1>6, <2>1 DEF Arranged, IsInjective
    <2> QED BY <1>4, <2>1 DEF IsInjective
<1>8. Filters \subseteq ToSet(r)
    <2>1. ASSUME NEW f \in Filters PROVE f \in ToSet(r)
        <3>1. PICK j \in 1..Len(o) : o[j] = f
            BY <1>1 DEF Arranged, ToSet
        <3>2. j \in 1..(Len(o) + 1)
            BY <1>1
        <3> QED BY <1>3, <1>4, <3>1, <3>2 DEF ToSet
    <2> QED BY <2>1
<1> QED BY <1>3, <1>7, <1>8 DEF Arranged, r

Scopes == Aircraft \cup {NoKey}
ScopeLayout == [order : Seq(TabKeys), hid : SUBSET TabKeys]

\* The layout at hand is the saved one; what is not drawn is owed, which it is during
\* a gesture only; and the click that follows a drag is suppressed.
LayoutSound ==
    /\ agent \in Scopes /\ layout \in Scopes /\ layouts \in [Scopes -> ScopeLayout]
    /\ layouts[layout] = [order |-> order, hid |-> hid]
    /\ \A a \in Scopes : Arranged(layouts[a].order)
DrawSound ==
    /\ needRender \in BOOLEAN /\ gesture \in BOOLEAN /\ drawnOf \in Scopes
    /\ ~gesture => ~needRender
    /\ ~needRender => drawn = Visible(layouts[drawnOf].order, layouts[drawnOf].hid)
PressSound == gesture \/ press = NoPress
ClickSound == suppress \in BOOLEAN /\ click.dragged \in BOOLEAN /\ (click.dragged => suppress) /\ ~slipped

DragIInv == LayoutSound /\ DrawSound /\ PressSound /\ ClickSound

LEMMA DragIInit == DragInit => DragIInv
<1> SUFFICES ASSUME DragInit PROVE DragIInv
    OBVIOUS
<1>1. Arranged(NewLayout.order) /\ NewLayout = [order |-> NewLayout.order, hid |-> {}] /\ NewLayout.hid = {}
    BY NewIsArranged DEF NewLayout
<1> DEFINE l == NewLayout
<1>2. l \in ScopeLayout
    <2>1. NewLayout.order \in Seq(TabKeys)
        BY <1>1 DEF Arranged
    <2>2. [order |-> NewLayout.order, hid |-> {}] \in ScopeLayout
        BY <2>1 DEF ScopeLayout
    <2> QED BY <1>1, <2>2
<1> HIDE DEF l
<1>3. agent \in Scopes /\ layout = agent /\ layouts = [a \in Scopes |-> l]
    BY DEF DragInit, Scopes, l
<1>4. order = l.order /\ hid = l.hid /\ l = [order |-> l.order, hid |-> l.hid] /\ Arranged(l.order)
    BY <1>1 DEF DragInit, l
<1>5. LayoutSound
    BY <1>2, <1>3, <1>4 DEF LayoutSound
<1>6. drawn = Visible(order, hid) /\ drawnOf = layout /\ needRender = FALSE /\ gesture = FALSE
    BY DEF DragInit
<1>7. DrawSound
    BY <1>3, <1>4, <1>6 DEF DrawSound
<1> QED BY <1>5, <1>7 DEF DragIInv, DragInit, PressSound, ClickSound, NoClick

\* syncChatLayout() finds the saved layout of the agent, which is sound.
LEMMA SyncFindsSaved ==
    ASSUME LayoutSound
    PROVE  Synced = layouts[agent] /\ Synced \in ScopeLayout /\ Arranged(Synced.order)
BY DEF LayoutSound, Synced

\* Whatever sound layout is saved, drawing it leaves the page in order ...
LEMMA ChangeIsDrawn ==
    ASSUME DragIInv, NEW l \in ScopeLayout, Arranged(l.order), Becomes(l), Render, agent' = agent, gesture' \in BOOLEAN
    PROVE  LayoutSound' /\ DrawSound'
<1> USE DEF DragIInv, LayoutSound
<1>1. /\ layout' = agent /\ order' = l.order /\ hid' = l.hid
      /\ layouts' = [layouts EXCEPT ![agent] = l]
    BY DEF Becomes
<1>2. l = [order |-> l.order, hid |-> l.hid]
    BY DEF ScopeLayout
<1>3. layouts' \in [Scopes -> ScopeLayout] /\ layouts'[agent] = l /\ \A a \in Scopes : Arranged(layouts'[a].order)
    BY <1>1
<1>4. LayoutSound'
    BY <1>1, <1>2, <1>3
<1>5. CASE gesture'
    <2>1. needRender' = TRUE /\ drawnOf' = drawnOf
        BY <1>5 DEF Render
    <2>2. needRender' \in BOOLEAN /\ needRender'
        BY <2>1, Zenon
    <2>3. drawnOf' \in Scopes
        BY <2>1 DEF DrawSound
    <2> QED BY <1>4, <1>5, <2>1, <2>2, <2>3 DEF DrawSound
<1>6. CASE ~gesture'
    <2>1. needRender' = FALSE /\ drawn' = Visible(order', hid') /\ drawnOf' = agent
        BY <1>1, <1>6 DEF Render
    <2>2. drawn' = Visible(layouts'[drawnOf'].order, layouts'[drawnOf'].hid)
        BY <1>1, <1>3, <2>1
    <2>3. needRender' \in BOOLEAN /\ ~needRender'
        BY <2>1, Zenon
    <2>4. drawnOf' \in Scopes
        BY <2>1
    <2> QED BY <1>4, <2>2, <2>3, <2>4 DEF DrawSound
<1> QED BY <1>5, <1>6

\* ... and so does taking up the layout of the agent without drawing it.
LEMMA SyncIsSound ==
    ASSUME DragIInv, layout' = agent', order' = Synced.order, hid' = Synced.hid,
           agent' = agent, UNCHANGED <<layouts, drawVars>>, gesture' \in BOOLEAN, gesture => needRender = FALSE \/ gesture'
    PROVE  LayoutSound' /\ DrawSound'
<1>1. Synced = layouts[agent] /\ Synced \in ScopeLayout /\ Arranged(Synced.order)
    BY SyncFindsSaved DEF DragIInv
<1>2. Synced = [order |-> Synced.order, hid |-> Synced.hid]
    BY <1>1 DEF ScopeLayout
<1>3. LayoutSound'
    BY <1>1, <1>2 DEF DragIInv, LayoutSound
<1> QED BY <1>3 DEF DragIInv, DrawSound, drawVars

LEMMA ChangesKeep ==
    ASSUME DragIInv, NEW l \in ScopeLayout, Arranged(l.order), Changes(l)
    PROVE  DragIInv'
<1>1. Becomes(l) /\ Render /\ UNCHANGED <<agent, press, gesture, suppress, click, slipped>>
    BY DEF Changes, pressVars, clickVars
<1>2. LayoutSound' /\ DrawSound'
    BY <1>1, ChangeIsDrawn DEF DragIInv, DrawSound
<1> QED BY <1>1, <1>2 DEF DragIInv, PressSound, ClickSound

LEMMA ReorderKeeps ==
    ASSUME DragIInv, NEW key, NEW target, Reorders(key, target), agent' = agent, gesture' \in BOOLEAN,
           ~needRender \/ gesture' = gesture
    PROVE  LayoutSound' /\ DrawSound'
<1>1. Synced \in ScopeLayout /\ Arranged(Synced.order)
    BY SyncFindsSaved DEF DragIInv
<1> DEFINE o == Moved(Synced.order, key, target)
           l == [Synced EXCEPT !.order = Moved(@, key, target)]
<1>2. Arranged(o)
    BY <1>1, MoveArranges
<1>3. l.order = o /\ l \in ScopeLayout
    BY <1>1, <1>2 DEF ScopeLayout, Arranged
<1>4. CASE o # Synced.order
    <2>1. Becomes(l) /\ Render
        BY <1>4 DEF Reorders
    <2> HIDE DEF l, o
    <2> QED BY <1>2, <1>3, <2>1, ChangeIsDrawn
<1>5. CASE o = Synced.order
    <2>1. layout' = agent /\ order' = Synced.order /\ hid' = Synced.hid /\ UNCHANGED <<layouts, drawVars>>
        BY <1>5 DEF Reorders
    <2>2. gesture => needRender = FALSE \/ gesture'
        BY DEF DragIInv, DrawSound
    <2> QED BY <2>1, <2>2, SyncIsSound
<1> QED BY <1>4, <1>5

\* The end of a gesture draws what was put off.
LEMMA ClearKeeps ==
    ASSUME DragIInv, Clear, SyncsIfDrawn, agent' = agent
    PROVE  LayoutSound' /\ DrawSound' /\ PressSound'
<1>1. Synced = layouts[agent] /\ Synced \in ScopeLayout /\ Arranged(Synced.order)
    BY SyncFindsSaved DEF DragIInv
<1>2. Synced = [order |-> Synced.order, hid |-> Synced.hid]
    BY <1>1 DEF ScopeLayout
<1>3. PressSound' /\ gesture' = FALSE
    BY DEF Clear, PressSound
<1>4. CASE ~needRender
    BY <1>3, <1>4 DEF Clear, SyncsIfDrawn, DragIInv, LayoutSound, DrawSound, layoutVars, drawVars
<1>5. CASE needRender
    <2>1. /\ layout' = agent /\ order' = Synced.order /\ hid' = Synced.hid /\ layouts' = layouts
          /\ drawn' = Visible(Synced.order, Synced.hid) /\ drawnOf' = agent /\ needRender' = FALSE
        BY <1>5 DEF Clear, SyncsIfDrawn
    <2>2. LayoutSound'
        BY <1>1, <1>2, <2>1 DEF DragIInv, LayoutSound
    <2>3. DrawSound'
        BY <1>1, <1>3, <2>1 DEF DragIInv, LayoutSound, DrawSound
    <2> QED BY <1>3, <2>2, <2>3
<1> QED BY <1>4, <1>5 DEF DragIInv, DrawSound

LEMMA ReleaseKeeps ==
    ASSUME DragIInv, Releases
    PROVE  DragIInv'
<1>1. /\ suppress' = (dragged # NoKey) /\ press' = NoPress /\ gesture' = FALSE
      /\ UNCHANGED <<agent, slipped>>
    BY DEF Releases
<1>2. ClickSound'
    <2>1. click' = NoClick \/ click' = [key |-> press.key, dragged |-> dragged # NoKey]
        BY DEF Releases
    <2>2. click'.dragged = FALSE \/ click'.dragged = (dragged # NoKey)
        BY <2>1 DEF NoClick
    <2> QED BY <1>1, <2>2 DEF DragIInv, ClickSound
<1>3. PressSound'
    BY <1>1 DEF PressSound
<1>4. CASE ~(dragged # NoKey /\ over # NoKey)
    BY <1>1, <1>2, <1>4, ClearKeeps DEF Releases, DragIInv
<1>5. CASE dragged # NoKey /\ over # NoKey /\ ~needRender
    <2>1. Reorders(dragged, over)
        BY <1>5 DEF Releases
    <2> QED BY <1>1, <1>2, <1>3, <1>5, <2>1, ReorderKeeps DEF DragIInv
<1>6. CASE dragged # NoKey /\ over # NoKey /\ needRender
    <2> DEFINE l == [Synced EXCEPT !.order = Moved(@, dragged, over)]
    <2>1. Becomes(l) /\ Render
        BY <1>6 DEF Releases
    <2>2. Synced \in ScopeLayout /\ Arranged(Synced.order)
        BY SyncFindsSaved DEF DragIInv
    <2>3. Arranged(Moved(Synced.order, dragged, over))
        BY <2>2, MoveArranges
    <2>4. l \in ScopeLayout /\ Arranged(l.order)
        BY <2>2, <2>3 DEF ScopeLayout, Arranged
    <2> HIDE DEF l
    <2> QED BY <1>1, <1>2, <1>3, <2>1, <2>4, ChangeIsDrawn DEF DragIInv
<1> QED BY <1>4, <1>5, <1>6

LEMMA ClickKeeps ==
    ASSUME DragIInv, NEW key, NEW ofDrag \in BOOLEAN, ofDrag => suppress, Clicked(key, ofDrag),
           UNCHANGED <<agent, press, gesture>>, click' = NoClick
    PROVE  DragIInv'
<1>1. click'.dragged = FALSE
    BY DEF NoClick
<1>2. CASE suppress
    BY <1>1, <1>2 DEF Clicked, DragIInv, LayoutSound, DrawSound, PressSound, ClickSound, layoutVars, drawVars
<1>3. CASE ~suppress
    <2> DEFINE l == [Synced EXCEPT !.hid = @ \ {key}]
    <2>1. Becomes(l) /\ Render /\ suppress' = suppress /\ slipped' = (slipped \/ ofDrag)
        BY <1>3 DEF Clicked
    <2>2. Synced \in ScopeLayout /\ Arranged(Synced.order)
        BY SyncFindsSaved DEF DragIInv
    <2>3. l \in ScopeLayout /\ Arranged(l.order)
        BY <2>2 DEF ScopeLayout
    <2> HIDE DEF l
    <2>4. LayoutSound' /\ DrawSound'
        BY <2>1, <2>3, ChangeIsDrawn DEF DragIInv, DrawSound
    <2> QED BY <1>1, <1>3, <2>1, <2>4 DEF DragIInv, PressSound, ClickSound
<1> QED BY <1>2, <1>3

LEMMA SelectionKeeps ==
    ASSUME DragIInv, NEW a \in Aircraft, AgentSelected(a)
    PROVE  DragIInv'
<1>1. /\ agent' = a /\ layout' = a /\ Render
      /\ UNCHANGED <<layouts, press, gesture, suppress, click, slipped>>
    BY DEF AgentSelected, pressVars, clickVars
<1>2. a \in Scopes
    BY DEF Scopes
<1>3. layouts[a] = [order |-> order', hid |-> hid']
    <2>1. layouts[a] \in ScopeLayout
        BY <1>2 DEF DragIInv, LayoutSound
    <2>2. layouts[a] = [order |-> layouts[a].order, hid |-> layouts[a].hid]
        BY <2>1 DEF ScopeLayout
    <2>3. CASE layout = a
        BY <2>3 DEF AgentSelected, DragIInv, LayoutSound
    <2>4. CASE layout # a
        BY <2>2, <2>4 DEF AgentSelected
    <2> QED BY <2>3, <2>4
<1>4. LayoutSound'
    BY <1>1, <1>2, <1>3 DEF DragIInv, LayoutSound
<1>5. order' = layouts[a].order /\ hid' = layouts[a].hid
    BY <1>3
<1>6. DrawSound'
    <2>1. CASE gesture
        BY <1>1, <2>1 DEF Render, DragIInv, DrawSound
    <2>2. CASE ~gesture
        BY <1>1, <1>2, <1>5, <2>2 DEF Render, DragIInv, DrawSound
    <2> QED BY <2>1, <2>2
<1> QED BY <1>1, <1>4, <1>6 DEF DragIInv, PressSound, ClickSound

LEMMA DragStep == DragIInv /\ [DragNext]_dragVars => DragIInv'
<1> SUFFICES ASSUME DragIInv, [DragNext]_dragVars PROVE DragIInv'
    OBVIOUS
<1>0. Synced \in ScopeLayout /\ Arranged(Synced.order)
    BY SyncFindsSaved DEF DragIInv
<1>1. ASSUME NEW p \in Partners, MessageArrives(p) PROVE DragIInv'
    <2> DEFINE l == [order |-> IF Contains(Synced.order, p) THEN Synced.order ELSE Append(Synced.order, p),
                     hid |-> Synced.hid \ {p}]
    <2>1. Arranged(l.order)
        BY <1>0, AppendArranges
    <2>2. l \in ScopeLayout
        BY <1>0, <2>1 DEF ScopeLayout, Arranged
    <2>3. Changes(l)
        BY <1>1 DEF MessageArrives
    <2> HIDE DEF l
    <2> QED BY <2>1, <2>2, <2>3, ChangesKeep
<1>2. ASSUME NEW p \in Partners, ClosesPeer(p) PROVE DragIInv'
    <2> DEFINE l == [Synced EXCEPT !.hid = @ \cup {p}]
    <2>1. Arranged(l.order) /\ l \in ScopeLayout
        BY <1>0 DEF ScopeLayout, TabKeys
    <2>2. Changes(l)
        BY <1>2 DEF ClosesPeer
    <2> HIDE DEF l
    <2> QED BY <2>1, <2>2, ChangesKeep
<1>3. ASSUME NEW f \in Filters, NEW visible \in BOOLEAN, ShowsFilter(f, visible) PROVE DragIInv'
    <2> DEFINE l == [Synced EXCEPT !.hid = IF visible THEN @ \ {f} ELSE @ \cup {f}]
    <2>1. Arranged(l.order) /\ l \in ScopeLayout
        BY <1>0 DEF ScopeLayout, TabKeys
    <2>2. Changes(l)
        BY <1>3 DEF ShowsFilter
    <2> HIDE DEF l
    <2> QED BY <2>1, <2>2, ChangesKeep
<1>4. ASSUME NEW k \in TabKeys, NEW d \in {-1, 1}, MovesBy(k, d) PROVE DragIInv'
    <2>1. PICK t : Reorders(k, t)
        BY <1>4 DEF MovesBy
    <2>2. UNCHANGED <<agent, press, gesture, suppress, click, slipped>>
        BY <1>4 DEF MovesBy, pressVars, clickVars
    <2>3. LayoutSound' /\ DrawSound'
        BY <2>1, <2>2, ReorderKeeps DEF DragIInv, DrawSound
    <2> QED BY <2>2, <2>3 DEF DragIInv, PressSound, ClickSound
<1>5. ASSUME NEW a \in Aircraft, AgentSelected(a) PROVE DragIInv'
    BY <1>5, SelectionKeeps
<1>6. CASE AgentLost
    BY <1>6 DEF AgentLost, DragIInv, LayoutSound, DrawSound, PressSound, ClickSound, Scopes, layoutVars,
       drawVars, pressVars, clickVars
<1>7. ASSUME NEW k \in TabKeys, NEW kind \in {"mouse", "touch"}, Presses(k, kind) PROVE DragIInv'
    <2>1. /\ gesture' = TRUE /\ suppress' = FALSE /\ click = NoClick /\ press = NoPress
          /\ UNCHANGED <<agent, layout, order, hid, layouts, drawn, drawnOf, needRender, click, slipped>>
        BY <1>7 DEF Presses, layoutVars, drawVars
    <2>2. click.dragged = FALSE
        BY <2>1 DEF NoClick
    <2> QED BY <2>1, <2>2 DEF DragIInv, LayoutSound, DrawSound, PressSound, ClickSound
<1>8. ASSUME NEW k \in TabKeys, Drags(k) PROVE DragIInv'
    BY <1>8 DEF Drags, DragIInv, LayoutSound, DrawSound, PressSound, ClickSound, layoutVars, drawVars, clickVars
<1>9. ASSUME NEW k \in TabKeys, KeyActivates(k) PROVE DragIInv'
    BY <1>9, ClickKeeps DEF KeyActivates, pressVars
<1>10. CASE GestureCancelled
    <2>1. UNCHANGED <<agent, suppress, click, slipped>>
        BY <1>10 DEF GestureCancelled, clickVars
    <2>2. LayoutSound' /\ DrawSound' /\ PressSound'
        BY <1>10, <2>1, ClearKeeps DEF GestureCancelled
    <2> QED BY <2>1, <2>2 DEF DragIInv, ClickSound
<1>11. CASE Releases
    BY <1>11, ReleaseKeeps
<1>12. CASE ClickArrives
    <2>1. click.dragged \in BOOLEAN /\ (click.dragged => suppress)
        BY DEF DragIInv, ClickSound
    <2> QED BY <1>12, <2>1, ClickKeeps DEF ClickArrives, pressVars
<1>13. CASE UNCHANGED dragVars
    BY <1>13 DEF dragVars, DragIInv, LayoutSound, DrawSound, PressSound, ClickSound
<1> QED BY <1>1, <1>2, <1>3, <1>4, <1>5, <1>6, <1>7, <1>8, <1>9, <1>10, <1>11, <1>12, <1>13 DEF DragNext

\* However a drag is interrupted, the tabs on the page are those of their layout once the
\* gesture is over, no move loses or doubles a tab, and no drag selects a conversation.
THEOREM DragsAreHarmless == DragSpec => []DragIsHarmless
<1>1. DragIInv => DragIsHarmless
    <2> SUFFICES ASSUME DragIInv PROVE DragIsHarmless
        OBVIOUS
    <2>1. Arranged(order)
        BY DEF DragIInv, LayoutSound
    <2>2. ~gesture /\ drawnOf = layout => drawn = Visible(order, hid)
        <3> SUFFICES ASSUME ~gesture, drawnOf = layout PROVE drawn = Visible(order, hid)
            OBVIOUS
        <3>1. layouts[layout].order = order /\ layouts[layout].hid = hid
            BY DEF DragIInv, LayoutSound
        <3> QED BY <3>1 DEF DragIInv, DrawSound
    <2> QED BY <2>1, <2>2 DEF DragIsHarmless, Arranged, DragIInv, ClickSound
<1> QED BY DragIInit, DragStep, <1>1, PTL DEF DragSpec

-----------------------------------------------------------------------------
(***************************************************************************)
(* ChatList                                                                *)
(***************************************************************************)
\* The message the pilot scrolled to is the first in view.
PlaceOnTop == place # NoPlace => top \in DOMAIN RowsBefore /\ RowsBefore[top].id = place

\* The list is drawn again: where the place is still listed, the view stays at it.
LEMMA RendersAtPlace == ASSUME PlaceOnTop, Renders, Rows = RowsBefore' PROVE PlaceOnTop'
<1> SUFFICES ASSUME place' # NoPlace PROVE top' \in DOMAIN Rows /\ Rows[top'].id = place'
    BY DEF PlaceOnTop
<1>1. place' = place /\ place \in Ids(Rows) /\ ~AtEnd(top', Rows)
    BY DEF Renders
<1>2. top \in DOMAIN RowsBefore /\ RowsBefore[top].id = place
    BY <1>1 DEF PlaceOnTop
<1> DEFINE kept == {i \in DOMAIN RowsBefore : i >= top /\ RowsBefore[i].id \in Ids(Rows)}
<1>3. DOMAIN RowsBefore \subseteq Int
    BY DEF RowsBefore, Filtered
<1>4. top \in kept /\ \A i \in kept : i \in Int /\ top <= i
    BY <1>1, <1>2, <1>3
<1> HIDE DEF kept
<1>5. Min(kept) = top
    <2>1. Min(kept) \in kept /\ \A j \in kept : Min(kept) <= j
        BY <1>4, Zenon DEF Min
    <2> QED BY <1>3, <1>4, <2>1
<1>6. Anchored(Rows) = IndexOf(Rows, place)
    BY <1>2, <1>4, <1>5, Zenon DEF Anchored, kept
<1>7. top' = Clamped(Anchored(Rows), Rows)
    BY <1>1 DEF Renders, AtEnd
<1>8. IndexOf(Rows, place) \in DOMAIN Rows /\ Rows[IndexOf(Rows, place)].id = place
    BY <1>1, Zenon DEF Ids, IndexOf
<1>9. 0 \notin DOMAIN Rows
    BY DEF Rows, Filtered
<1>10. top' = IndexOf(Rows, place)
    BY <1>1, <1>6, <1>7, <1>8, <1>9, Zenon DEF Clamped, AtEnd
<1> QED BY <1>1, <1>8, <1>10

LEMMA ChatStep == PlaceOnTop /\ [ChatNext]_chatVars => PlaceOnTop'
<1> SUFFICES ASSUME PlaceOnTop, [ChatNext]_chatVars PROVE PlaceOnTop'
    OBVIOUS
<1>1. Rows = RowsBefore'
    BY DEF Rows, RowsBefore, Matches, IsRelevant, Filtered
<1>2. CASE Renders
    BY <1>1, <1>2, RendersAtPlace
<1>3. CASE UNCHANGED <<messages, filter, radio, top, place>>
    BY <1>3 DEF PlaceOnTop, RowsBefore, Filtered
<1>4. ASSUME NEW i \in 1..MaxChat, Scrolls(i) PROVE PlaceOnTop'
    <2>1. RowsBefore' = RowsBefore
        BY <1>4 DEF Scrolls, RowsBefore, Filtered
    <2> QED BY <1>4, <2>1 DEF Scrolls, PlaceOnTop
<1> QED BY <1>2, <1>3, <1>4 DEF ChatNext, ChatArrives, ChatMissed, ReplayArrives, NoticeAppears, NoticeEnds,
           RadioTuned, FilterChosen, chatVars

\* Where the pilot reads, the list stands still, for any messages, radios and sizes
\* of the list and of the view.
THEOREM ReadersAreLeftAlone == ChatSpec => []ReadingPlaceKept
<1>1. ChatInit => PlaceOnTop
    BY DEF ChatInit, PlaceOnTop
<1>2. PlaceOnTop => ReadingPlaceKept
    <2>1. DOMAIN RowsBefore \subseteq Int
        BY DEF RowsBefore, Filtered
    <2> QED BY <2>1, ViewAssumption DEF PlaceOnTop, ReadingPlaceKept
<1> QED BY <1>1, <1>2, ChatStep, PTL DEF ChatSpec

-----------------------------------------------------------------------------
(***************************************************************************)
(* The parts together                                                      *)
(***************************************************************************)
\* A behaviour of LocalServices is one of each part, which rests when it is not chosen.
LEMMA PartsBehave ==
    LocalSpec => /\ Spec /\ VoiceSpec /\ StoreSpec /\ FlightSpec /\ BridgeSpec /\ UpdateSpec
                 /\ ComposerSpec /\ TabsSpec /\ AlertPageSpec /\ SoundSpec /\ RequestsSpec
                 /\ ChatSpec /\ DragSpec /\ StationsSpec
<1>1. PartsInit => /\ Init /\ VoiceInit /\ StoreInit /\ FlightInit /\ BridgeInit /\ UpdateInit
                   /\ ComposerInit /\ TabsInit /\ AlertPageInit /\ SoundInit /\ RequestsInit
                   /\ ChatInit /\ DragInit /\ StationsInit
    BY DEF PartsInit
<1>2. [PartsNext]_<<part, proxyVars, webVars>> =>
          /\ [Next]_vars /\ [VoiceNext]_voiceVars /\ [StoreNext]_storeVars
          /\ [FlightNext]_flightStateVars /\ [BridgeNext]_bridgeVars /\ [UpdateNext]_updateVars
          /\ [ComposerNext]_composerVars /\ [TabsNext]_tabVars /\ [AlertPageNext]_alertPageVars
          /\ [SoundNext]_soundVars /\ [RequestsNext]_requestVars /\ [ChatNext]_chatVars
          /\ [DragNext]_dragVars /\ [StationsNext]_stationVars
    BY DEF PartsNext, proxyVars, webVars
<1> QED BY <1>1, <1>2, PTL DEF LocalSpec, Spec, VoiceSpec, StoreSpec, FlightSpec, BridgeSpec, UpdateSpec,
           ComposerSpec, TabsSpec, AlertPageSpec, SoundSpec, RequestsSpec, ChatSpec, DragSpec,
           StationsSpec

\* What the pilot closed stays closed, and what he dragged, or did not mean to drag,
\* stands where he put it.
THEOREM TabsStayArranged == LocalSpec => []TabsAsArranged
<1>1. ClosedTabStaysClosed /\ DragIsHarmless => TabsAsArranged
    BY DEF TabsAsArranged
<1> QED BY PartsBehave, ClosedTabsStayClosed, DragsAreHarmless, <1>1, PTL

\* The panel shows the radio the aircraft is on, with the exceptions of FrequencyIsTrue,
\* and a station that is there.
THEOREM PanelIsTrue == LocalSpec => []PanelTellsTruth
<1>1. RadioAsShown /\ MenuNamesWhoIsThere => PanelTellsTruth
    BY DEF PanelTellsTruth
<1> QED BY PartsBehave, FrequencyIsTrue, MenusAreTrue, <1>1, PTL

\* Whichever part is at work on the pilot's computer and in the browser, it keeps what
\* it promises.
THEOREM PartsKeepPromises ==
    LocalSpec => /\ []( /\ OneAlertPerReminder /\ VoicePathHolds /\ StoreKeepsSubscriptions
                        /\ WeatherForPlanAndPilot /\ NothingHalfStaged /\ NoTextStrays
                        /\ PreferencesReachAgent /\ NothingReplayed /\ AnswersAreShown
                     /\ ReadingPlaceKept )
                 /\ TalkerNotCutOff
BY PartsBehave, AlertsAtMostOnce, VoiceFollowsLogin, SubscriptionsAreKept, WeatherIsRight,
   StagedWholeOrNotAtAll, TextsStayInPlace, PreferencesArrive, UnmutingReplaysNothing,
   PageShowsAnswers, ReadersAreLeftAlone, ExitEndsItsOwn, PTL

================================================================================
