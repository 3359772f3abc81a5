------------------------ MODULE AgentWatchdogProofs ------------------------
(***************************************************************************)
(* The watchdog's safety for every number of devices, sessions, batches    *)
(* and tickets, and for every choice of its delays.                        *)
(***************************************************************************)
EXTENDS AgentWatchdog, FiniteSetTheorems, TLAPS

(***************************************************************************)
(* The inductive invariant.  A generation names at most one thing at a     *)
(* time: a pending timer, then the delivery that timer started, then an    *)
(* accepted delivery.  That is what makes a report unique.                 *)
(***************************************************************************)
TicketsOwned ==
    /\ \A b \in batches : \A k \in b.tickets : k.sealedFor = b.sessionId
    /\ \A d \in DeviceKeys : ~Armed(d) => active[d].tickets = {}
    /\ ArmedWithOwnTickets

TimerIds ==
    \A t \in timers :
        /\ t.generation \in 1..generation
        /\ t.generation \notin accepted
        /\ reports[t.generation] = 0
        /\ \A u \in timers : u.generation = t.generation => u = t
        /\ \A f \in sending : f.receipt # t.generation
        /\ \A d \in DeviceKeys : fired[d].receipt # t.generation

SendIds ==
    \A f \in sending :
        /\ f.receipt \in 1..generation
        /\ f.receipt \notin accepted
        /\ reports[f.receipt] = 0
        /\ \A g \in sending : g.receipt = f.receipt => g = f
        /\ \A d \in DeviceKeys :
             fired[d].receipt = f.receipt => d = f.deviceKey /\ fired[d].status = "sending"

ReceiptIds ==
    \A d \in DeviceKeys :
        /\ ~HasReceipt(d) => fired[d] = NoReceipt
        /\ HasReceipt(d) =>
             /\ fired[d].receipt \in 1..generation
             /\ reports[fired[d].receipt] = 0
             /\ fired[d].status = "sent" => fired[d].receipt \in accepted
             /\ \A e \in DeviceKeys : fired[e].receipt = fired[d].receipt => e = d

CountersBounded ==
    /\ generation <= MaxGeneration
    /\ accepted \subseteq 1..generation
    /\ \A g \in 1..MaxGeneration : reports[g] > 0 => g \in accepted /\ reports[g] = 1

Ids == TimerIds /\ SendIds /\ ReceiptIds /\ CountersBounded

IInv ==
    /\ TypeOK
    /\ TimersBelongToEntry
    /\ NoReceiptWhileArmed
    /\ TicketsOwned
    /\ Ids

-----------------------------------------------------------------------------
(***************************************************************************)
(* What the helpers return.                                                *)
(***************************************************************************)

LEMMA EmptyRecords == NoEntry \in Entry /\ NoReceipt \in Receipt
  BY DEF NoEntry, Entry, NoReceipt, Receipt

\* cleanup() only drops: a receipt is kept as it is or gone.
LEMMA CleanupReceipts ==
    ASSUME TypeOK
    PROVE  /\ FreshReceipts \in [DeviceKeys -> Receipt]
           /\ \A d \in DeviceKeys : FreshReceipts[d] = fired[d] \/ FreshReceipts[d] = NoReceipt
  BY EmptyRecords DEF TypeOK, FreshReceipts

LEMMA CleanupBatches ==
    /\ FreshBatches \subseteq batches
    /\ \A d, i : BatchAt(d, i) \subseteq FreshBatches
    /\ \A d : BatchesOfOthers(d, FreshBatches) \subseteq batches
    /\ \A d : BatchesOfOthers(d, batches) \subseteq batches
  BY DEF FreshBatches, BatchAt, BatchesOfOthers

\* A device that is online has no grace timer, so stopping the timer of an
\* entry leaves no timer of its device.
LEMMA ClearedTimers ==
    ASSUME TimersBelongToEntry, NEW d \in DeviceKeys
    PROVE  TimersWithout(d) = {t \in timers : t.deviceKey # d}
  BY DEF TimersBelongToEntry, TimersWithout

\* stage() writes back a well-formed batch whose tickets are its session's.
LEMMA StagedBatchFacts ==
    ASSUME TypeOK, TicketsOwned,
           NEW d \in DeviceKeys, NEW i \in BatchIds, NEW s \in Sessions,
           NEW u \in Subscribers, NEW life \in Lifetimes, NEW ok \in BOOLEAN,
           StageAllowed(d, i, s, u, life, ok)
    PROVE  /\ StagedBatch(d, i, s, u, life) \in Batch
           /\ \A k \in StagedBatch(d, i, s, u, life).tickets :
                k.sealedFor = StagedBatch(d, i, s, u, life).sessionId
<1> DEFINE ticket == [deviceId |-> u, expiresAt |-> now + life, sealedFor |-> s]
<1>1. ticket \in Ticket
  BY DelaysAssumption DEF TypeOK, Ticket
<1>2. CASE BatchAt(d, i) = {}
  BY <1>1, <1>2 DEF StagedBatch, Batch, TypeOK
<1>3. CASE BatchAt(d, i) # {}
  <2> DEFINE b == CHOOSE b \in BatchAt(d, i) : TRUE
  <2>1. b \in BatchAt(d, i)
    BY <1>3
  <2>2. b \in batches /\ b \in Batch /\ b.sessionId = s
    BY <2>1, CleanupBatches DEF TypeOK, StageAllowed
  <2>3. StagedBatch(d, i, s, u, life) =
          [b EXCEPT !.tickets = {t \in b.tickets : t.deviceId # u} \cup {ticket}]
    BY <1>3 DEF StagedBatch
  <2> HIDE DEF b
  <2>4. {t \in b.tickets : t.deviceId # u} \cup {ticket} \in SUBSET Ticket
    BY <1>1, <2>2 DEF Batch
  <2>5. \A k \in b.tickets : k.sealedFor = s
    BY <2>2 DEF TicketsOwned
  <2> HIDE DEF ticket
  <2>6. ticket.sealedFor = s
    BY DEF ticket
  <2>. QED
    BY <2>2, <2>3, <2>4, <2>5, <2>6 DEF Batch
<1>. QED
  BY <1>2, <1>3

\* A step that only drops timers and receipts keeps every identity unique.
LEMMA DroppingKeepsIds ==
    ASSUME Ids, timers' \subseteq timers,
           \A d \in DeviceKeys : fired'[d] = fired[d] \/ fired'[d] = NoReceipt,
           UNCHANGED <<sending, generation, accepted, reports>>
    PROVE  Ids'
<1> USE DEF Ids
<1>1. \A t \in timers : t.generation # 0
  BY DelaysAssumption DEF TimerIds
<1>2. TimerIds'
  BY <1>1 DEF TimerIds, NoReceipt
<1>3. SendIds'
  BY DEF SendIds, NoReceipt
<1>4. ReceiptIds'
  <2>1. \A d \in DeviceKeys : fired'[d] = NoReceipt => ~HasReceipt(d)'
    BY DEF HasReceipt, NoReceipt
  <2>2. \A d \in DeviceKeys : HasReceipt(d)' => fired'[d] = fired[d] /\ HasReceipt(d)
    BY <2>1 DEF HasReceipt
  <2>3. \A d \in DeviceKeys : ~HasReceipt(d)' => fired'[d] = NoReceipt
    BY DEF HasReceipt, ReceiptIds
  <2>4. \A d, e \in DeviceKeys : HasReceipt(d)' /\ fired'[e].receipt = fired'[d].receipt => e = d
    BY <2>2, DelaysAssumption DEF ReceiptIds, NoReceipt
  <2>. QED
    BY <2>2, <2>3, <2>4 DEF ReceiptIds
<1>5. CountersBounded'
  BY DEF CountersBounded
<1>. QED
  BY <1>2, <1>3, <1>4, <1>5

-----------------------------------------------------------------------------
(***************************************************************************)
(* Each action preserves the invariant.                                    *)
(***************************************************************************)

LEMMA InitIInv == Init => IInv
<1> SUFFICES ASSUME Init
             PROVE  IInv
  OBVIOUS
<1> USE DEF Init
<1>1. TypeOK
  BY EmptyRecords DEF TypeOK
<1>2. TimersBelongToEntry /\ NoReceiptWhileArmed /\ TicketsOwned
  BY DEF TimersBelongToEntry, NoReceiptWhileArmed, TicketsOwned, ArmedWithOwnTickets,
         HasReceipt, NoReceipt, NoEntry
<1>3. TimerIds /\ SendIds /\ ReceiptIds /\ CountersBounded
  BY DelaysAssumption DEF TimerIds, SendIds, ReceiptIds, CountersBounded, HasReceipt, NoReceipt
<1>. QED
  BY <1>1, <1>2, <1>3 DEF IInv, Ids

LEMMA StageIInv ==
    ASSUME IInv,
           NEW d \in DeviceKeys, NEW i \in BatchIds, NEW s \in Sessions,
           NEW u \in Subscribers, NEW life \in Lifetimes, NEW ok \in BOOLEAN,
           Stage(d, i, s, u, life, ok)
    PROVE  IInv'
<1> USE DEF IInv, Stage
<1>1. /\ batches' \subseteq Batch
      /\ \A b \in batches' : \A k \in b.tickets : k.sealedFor = b.sessionId
  BY CleanupBatches, StagedBatchFacts DEF TypeOK, TicketsOwned
<1>2. TypeOK'
  BY <1>1, CleanupReceipts DEF TypeOK, historyVars
<1>3. TimersBelongToEntry'
  BY DEF TimersBelongToEntry
<1>4. NoReceiptWhileArmed'
  BY CleanupReceipts DEF NoReceiptWhileArmed, HasReceipt, Armed, NoReceipt
<1>5. TicketsOwned'
  BY <1>1 DEF TicketsOwned, ArmedWithOwnTickets, Armed
<1>6. Ids'
  BY DroppingKeepsIds, CleanupReceipts DEF historyVars
<1>. QED
  BY <1>2, <1>3, <1>4, <1>5, <1>6

LEMMA CommitRefusedIInv ==
    ASSUME IInv, NEW d \in DeviceKeys, NEW i \in BatchIds, NEW s \in Sessions,
           CommitRefused(d, i, s)
    PROVE  IInv'
<1> USE DEF IInv, CommitRefused
<1>1. TypeOK'
  BY CleanupBatches, CleanupReceipts DEF TypeOK, historyVars
<1>2. TimersBelongToEntry'
  BY DEF TimersBelongToEntry
<1>3. NoReceiptWhileArmed'
  BY CleanupReceipts DEF NoReceiptWhileArmed, HasReceipt, Armed, NoReceipt
<1>4. TicketsOwned'
  BY CleanupBatches DEF TicketsOwned, ArmedWithOwnTickets, Armed
<1>5. Ids'
  BY DroppingKeepsIds, CleanupReceipts DEF historyVars
<1>. QED
  BY <1>1, <1>2, <1>3, <1>4, <1>5

LEMMA CommitIInv ==
    ASSUME IInv, NEW d \in DeviceKeys, NEW i \in BatchIds, NEW s \in Sessions,
           Commit(d, i, s)
    PROVE  IInv'
<1> USE DEF IInv, Commit
<1>1. PICK b \in BatchAt(d, i) :
        /\ b.sessionId = s
        /\ active' = [active EXCEPT ![d] = [sessionId |-> s, tickets |-> b.tickets,
                                            offlineTimer |-> 0, offlineGeneration |-> 0]]
  OBVIOUS
<1>2. b \in batches /\ b \in Batch
  BY CleanupBatches DEF TypeOK
<1>3. TimersWithout(d) = {t \in timers : t.deviceKey # d}
  BY ClearedTimers
<1>4. fired' \in [DeviceKeys -> Receipt] /\ \A e \in DeviceKeys : fired'[e] = fired[e] \/ fired'[e] = NoReceipt
  BY CleanupReceipts, EmptyRecords
<1>5. TypeOK'
  <2>1. active' \in [DeviceKeys -> Entry]
    BY <1>1, <1>2 DEF TypeOK, Entry, Batch
  <2>2. timers' \subseteq Timer /\ batches' \subseteq Batch
    BY <1>3, CleanupBatches DEF TypeOK
  <2>. QED
    BY <1>4, <2>1, <2>2 DEF TypeOK, historyVars
<1>6. TimersBelongToEntry'
  BY <1>1, <1>3 DEF TimersBelongToEntry, TypeOK
<1>7. NoReceiptWhileArmed'
  <2>1. fired'[d] = NoReceipt
    BY CleanupReceipts
  <2>2. \A e \in DeviceKeys : e # d => active'[e] = active[e]
    BY <1>1 DEF TypeOK
  <2>. QED
    BY <1>4, <2>1, <2>2 DEF NoReceiptWhileArmed, HasReceipt, Armed, NoReceipt
<1>8. TicketsOwned'
  <2>1. active'[d].sessionId = s /\ \A k \in active'[d].tickets : k.sealedFor = s
    BY <1>1, <1>2 DEF TypeOK, TicketsOwned
  <2>2. \A e \in DeviceKeys : e # d => active'[e] = active[e]
    BY <1>1 DEF TypeOK
  <2>3. \A c \in batches' : \A k \in c.tickets : k.sealedFor = c.sessionId
    BY CleanupBatches DEF TicketsOwned
  <2>. QED
    BY <2>1, <2>2, <2>3, NoSessionAssumption DEF TicketsOwned, ArmedWithOwnTickets, Armed
<1>9. Ids'
  BY <1>3, <1>4, DroppingKeepsIds DEF historyVars
<1>. QED
  BY <1>5, <1>6, <1>7, <1>8, <1>9

\* disarm(): the entry and its timer go, unless another flight owns them.
LEMMA DisarmIInv ==
    ASSUME IInv, NEW d \in DeviceKeys, NEW s \in Sessions, Disarm(d, s)
    PROVE  IInv'
<1> USE DEF IInv
<1>1. /\ timers' \subseteq timers
      /\ \/ active' = [active EXCEPT ![d] = NoEntry] /\ timers' = {t \in timers : t.deviceKey # d}
         \/ active' = active
      /\ batches' \subseteq batches
  BY CleanupBatches, ClearedTimers DEF Disarm
<1>2. \A e \in DeviceKeys : active'[e] = active[e] \/ active'[e] = NoEntry
  BY <1>1 DEF TypeOK
<1>3. fired' \in [DeviceKeys -> Receipt] /\ \A e \in DeviceKeys : fired'[e] = fired[e] \/ fired'[e] = NoReceipt
  BY CleanupReceipts, EmptyRecords DEF Disarm
<1>4. UNCHANGED <<generation, sending, online, now, offlineSince, noticed, accepted>>
  BY DEF Disarm
<1>5. /\ reports' \in [1..MaxGeneration -> Nat]
      /\ \/ reports' = reports
         \/ /\ HasReceipt(d) /\ fired[d].status = "sent" /\ fired'[d] = NoReceipt
            /\ reports' = [reports EXCEPT ![fired[d].receipt] = @ + 1]
  <2>1. CASE DidFire(d, s)
    <3>1. fired[d] = FreshReceipts[d] /\ HasReceipt(d) /\ fired[d].status = "sent"
      BY <2>1, CleanupReceipts, NoSessionAssumption DEF DidFire, HasReceipt, NoReceipt
    <3>2. fired'[d] = NoReceipt /\ reports' = [reports EXCEPT ![fired[d].receipt] = @ + 1]
      BY <2>1, CleanupReceipts DEF Disarm
    <3>3. fired[d].receipt \in 1..MaxGeneration
      BY <3>1, DelaysAssumption DEF Ids, ReceiptIds, CountersBounded, TypeOK
    <3>. QED
      BY <3>1, <3>2, <3>3 DEF TypeOK
  <2>2. CASE ~DidFire(d, s)
    BY <2>2 DEF Disarm, TypeOK
  <2>. QED
    BY <2>1, <2>2
<1>6. TypeOK'
  BY <1>1, <1>3, <1>4, <1>5, EmptyRecords DEF TypeOK
<1>7. TimersBelongToEntry'
  <2>1. \A t \in timers' : t \in timers /\ active'[t.deviceKey] = active[t.deviceKey]
    BY <1>1 DEF TypeOK, Timer
  <2>. QED
    BY <1>4, <2>1 DEF TimersBelongToEntry
<1>8. NoReceiptWhileArmed'
  BY <1>2, <1>3 DEF NoReceiptWhileArmed, HasReceipt, Armed, NoReceipt, NoEntry
<1>9. TicketsOwned'
  BY <1>1, <1>2 DEF TicketsOwned, ArmedWithOwnTickets, Armed, NoEntry
<1>10. Ids'
  <2>1. CASE reports' = reports
    BY <1>1, <1>3, <1>4, <2>1, DroppingKeepsIds
  <2>2. CASE /\ HasReceipt(d) /\ fired[d].status = "sent" /\ fired'[d] = NoReceipt
             /\ reports' = [reports EXCEPT ![fired[d].receipt] = @ + 1]
    <3> DEFINE r == fired[d].receipt
    <3>1. r \in 1..MaxGeneration /\ r \in accepted /\ reports[r] = 0
      BY <2>2, DelaysAssumption DEF Ids, ReceiptIds, CountersBounded, TypeOK
    <3>2. reports'[r] = 1 /\ \A g \in 1..MaxGeneration : g # r => reports'[g] = reports[g]
      BY <2>2, <3>1 DEF TypeOK
    <3>3. TimerIds'
      BY <1>1, <1>3, <1>4, <2>2, <3>1, <3>2, DelaysAssumption
         DEF Ids, TimerIds, NoReceipt, CountersBounded, TypeOK
    <3>4. SendIds'
      BY <1>3, <1>4, <2>2, <3>1, <3>2, DelaysAssumption
         DEF Ids, SendIds, NoReceipt, CountersBounded, TypeOK
    <3>5. \A e \in DeviceKeys : HasReceipt(e)' => HasReceipt(e) /\ fired'[e] = fired[e] /\ e # d
      BY <1>3, <2>2 DEF HasReceipt, NoReceipt
    <3>6. ReceiptIds'
      <4>1. \A e \in DeviceKeys : ~HasReceipt(e)' => fired'[e] = NoReceipt
        BY <1>3 DEF Ids, ReceiptIds, HasReceipt
      <4>2. \A e \in DeviceKeys : HasReceipt(e)' =>
              /\ fired'[e].receipt \in 1..generation
              /\ fired'[e].status = "sent" => fired'[e].receipt \in accepted
              /\ reports'[fired'[e].receipt] = 0
        BY <2>2, <3>2, <3>5, DelaysAssumption DEF Ids, ReceiptIds, CountersBounded, TypeOK
      <4>3. \A e, c \in DeviceKeys : HasReceipt(e)' /\ fired'[c].receipt = fired'[e].receipt => c = e
        BY <1>3, <3>5, <4>2, DelaysAssumption DEF Ids, ReceiptIds, NoReceipt, TypeOK
      <4>. QED
        BY <1>4, <4>1, <4>2, <4>3 DEF ReceiptIds
    <3>7. CountersBounded'
      BY <1>4, <3>1, <3>2 DEF Ids, CountersBounded
    <3>. QED
      BY <3>3, <3>4, <3>6, <3>7 DEF Ids
  <2>. QED
    BY <1>5, <2>1, <2>2
<1>. QED
  BY <1>6, <1>7, <1>8, <1>9, <1>10

\* registerAgent: the entry loses its timer, and with it the device's only one.
LEMMA AgentOnlineIInv ==
    ASSUME IInv, NEW d \in DeviceKeys, AgentOnline(d)
    PROVE  IInv'
<1> USE DEF IInv, AgentOnline
<1>1. TimersWithout(d) = {t \in timers : t.deviceKey # d}
  BY ClearedTimers
<1>2. \A e \in DeviceKeys :
        /\ active'[e].sessionId = active[e].sessionId
        /\ active'[e].tickets = active[e].tickets
        /\ e # d => active'[e] = active[e]
  BY DEF TypeOK, Entry, Untimed
<1>3. TypeOK'
  <2>1. active' \in [DeviceKeys -> Entry]
    BY DEF TypeOK, Entry, Untimed
  <2>. QED
    BY <1>1, <2>1 DEF TypeOK, historyVars
<1>4. TimersBelongToEntry'
  BY <1>1, <1>2 DEF TimersBelongToEntry, TypeOK, Timer
<1>5. NoReceiptWhileArmed'
  BY <1>2 DEF NoReceiptWhileArmed, HasReceipt, Armed
<1>6. TicketsOwned'
  BY <1>2 DEF TicketsOwned, ArmedWithOwnTickets, Armed
<1>7. Ids'
  BY <1>1, DroppingKeepsIds DEF historyVars
<1>. QED
  BY <1>3, <1>4, <1>5, <1>6, <1>7

\* removeClient: a new generation names the new timer and nothing else.
LEMMA AgentOfflineIInv ==
    ASSUME IInv, NEW d \in DeviceKeys, AgentOffline(d)
    PROVE  IInv'
<1> USE DEF IInv
<1>1. /\ UNCHANGED <<sending, now, noticed, accepted, reports>>
      /\ online[d]
      /\ online' = [online EXCEPT ![d] = FALSE]
      /\ offlineSince' = [offlineSince EXCEPT ![d] = now]
      /\ batches' \subseteq batches
      /\ fired' \in [DeviceKeys -> Receipt]
      /\ \A e \in DeviceKeys : fired'[e] = fired[e] \/ fired'[e] = NoReceipt
  BY CleanupReceipts, CleanupBatches DEF AgentOffline
<1>2. \A t \in timers : t.deviceKey # d
  BY <1>1 DEF TimersBelongToEntry
<1>3. CASE UNCHANGED <<generation, active, timers>>
  <2>1. TypeOK'
    BY <1>1, <1>3 DEF TypeOK
  <2>2. TimersBelongToEntry'
    BY <1>1, <1>2, <1>3 DEF TimersBelongToEntry, TypeOK, Timer
  <2>3. NoReceiptWhileArmed'
    BY <1>1, <1>3 DEF NoReceiptWhileArmed, HasReceipt, Armed, NoReceipt
  <2>4. TicketsOwned'
    BY <1>1, <1>3 DEF TicketsOwned, ArmedWithOwnTickets, Armed
  <2>5. Ids'
    BY <1>1, <1>3, DroppingKeepsIds
  <2>. QED
    BY <2>1, <2>2, <2>3, <2>4, <2>5
<1>4. CASE Armed(d) /\ active[d].offlineTimer = 0 /\ active[d].tickets # {}
  <2> DEFINE timer == [deviceKey |-> d, sessionId |-> active[d].sessionId,
                       generation |-> generation + 1, due |-> now + OfflineDelay]
  <2>1. /\ generation < MaxGeneration
        /\ generation' = generation + 1
        /\ active' = [active EXCEPT ![d] = [@ EXCEPT !.offlineTimer = generation + 1,
                                                     !.offlineGeneration = generation + 1]]
        /\ timers' = timers \cup {timer}
    BY <1>4 DEF AgentOffline
  <2>2. timer \in Timer
    BY <1>4, DelaysAssumption DEF TypeOK, Timer, Entry, Armed
  <2>3. \A e \in DeviceKeys :
          /\ active'[e].sessionId = active[e].sessionId
          /\ active'[e].tickets = active[e].tickets
          /\ e # d => active'[e] = active[e]
    BY <2>1 DEF TypeOK, Entry
  <2>4. TypeOK'
    <3>1. active' \in [DeviceKeys -> Entry]
      <4> DEFINE e == [active[d] EXCEPT !.offlineTimer = generation + 1,
                                        !.offlineGeneration = generation + 1]
      <4>1. e \in Entry
        <5>1. active[d] \in Entry /\ generation + 1 \in Nat
          BY DEF TypeOK
        <5>. QED
          BY <5>1 DEF Entry
      <4>2. active' = [active EXCEPT ![d] = e]
        BY <2>1
      <4> HIDE DEF e
      <4>. QED
        BY <4>1, <4>2 DEF TypeOK
    <3>2. timers' \subseteq Timer
      BY <2>1, <2>2 DEF TypeOK
    <3>. QED
      BY <1>1, <2>1, <3>1, <3>2 DEF TypeOK
  <2>5. TimersBelongToEntry'
    <3>1. /\ active'[d].sessionId = timer.sessionId
          /\ active'[d].offlineTimer = timer.generation
          /\ active'[d].offlineGeneration = timer.generation
          /\ ~online'[d]
      BY <1>1, <2>1 DEF TypeOK, Entry
    <3>2. \A t \in timers : t.deviceKey \in DeviceKeys /\ t.deviceKey # d
      BY <1>2 DEF TypeOK, Timer
    <3>3. \A t \in timers : active'[t.deviceKey] = active[t.deviceKey] /\ ~online'[t.deviceKey]
      BY <1>1, <2>3, <3>2 DEF TimersBelongToEntry, TypeOK
    <3>4. timer.deviceKey = d
      OBVIOUS
    <3> HIDE DEF timer
    <3>. QED
      BY <2>1, <3>1, <3>3, <3>4 DEF TimersBelongToEntry
  <2>6. NoReceiptWhileArmed'
    BY <1>1, <2>3 DEF NoReceiptWhileArmed, HasReceipt, Armed, NoReceipt
  <2>7. TicketsOwned'
    BY <1>1, <2>3 DEF TicketsOwned, ArmedWithOwnTickets, Armed
  <2>8. Ids'
    <3>1. timer.generation \in 1..MaxGeneration /\ timer.generation \notin 1..generation
      BY <2>1, DelaysAssumption DEF TypeOK
    <3>2. reports[timer.generation] = 0 /\ timer.generation \notin accepted
      BY <3>1 DEF Ids, CountersBounded, TypeOK
    <3>3. \A e \in DeviceKeys : fired'[e].receipt # timer.generation
      <4>1. \A e \in DeviceKeys : fired[e].receipt \in 1..generation \/ fired[e] = NoReceipt
        BY DEF Ids, ReceiptIds
      <4>2. NoReceipt.receipt = 0 /\ timer.generation # 0
        BY <3>1 DEF NoReceipt
      <4>. QED
        BY <1>1, <3>1, <4>1, <4>2
    <3>4. TimerIds'
      <4>1. \A f \in sending : f.receipt # timer.generation
        BY <3>1 DEF Ids, SendIds
      <4>2. \A t \in timers : t.generation \in 1..generation /\ t.generation # timer.generation
        BY <3>1 DEF Ids, TimerIds
      <4>3. \A t \in timers : t.generation \in 1..generation'
        BY <2>1, <4>2 DEF TypeOK
      <4>4. timer.generation \in 1..generation'
        BY <2>1 DEF TypeOK
      <4>5. \A t \in timers, e \in DeviceKeys : fired'[e].receipt # t.generation
        BY <1>1, <4>2, DelaysAssumption DEF Ids, TimerIds, NoReceipt, TypeOK
      <4> HIDE DEF timer
      <4>. QED
        BY <1>1, <2>1, <3>2, <3>3, <4>1, <4>2, <4>3, <4>4, <4>5 DEF Ids, TimerIds
    <3>5. SendIds'
      BY <1>1, <2>1 DEF Ids, SendIds, NoReceipt, TypeOK
    <3>6. ReceiptIds'
      <4>1. \A e \in DeviceKeys : HasReceipt(e)' => HasReceipt(e) /\ fired'[e] = fired[e]
        BY <1>1 DEF HasReceipt, NoReceipt
      <4>2. \A e \in DeviceKeys : ~HasReceipt(e)' => fired'[e] = NoReceipt
        BY <1>1 DEF Ids, ReceiptIds, HasReceipt
      <4>3. \A e, c \in DeviceKeys : HasReceipt(e)' /\ fired'[c].receipt = fired'[e].receipt => c = e
        BY <1>1, <4>1, DelaysAssumption DEF Ids, ReceiptIds, NoReceipt, TypeOK
      <4>4. \A n \in 1..generation : n \in 1..generation'
        BY <2>1 DEF TypeOK
      <4>5. \A e \in DeviceKeys : HasReceipt(e)' =>
              /\ fired'[e].receipt \in 1..generation'
              /\ reports'[fired'[e].receipt] = 0
              /\ fired'[e].status = "sent" => fired'[e].receipt \in accepted'
        BY <1>1, <4>1, <4>4 DEF Ids, ReceiptIds
      <4> HIDE DEF timer
      <4>. QED
        BY <4>2, <4>3, <4>5 DEF ReceiptIds
    <3>7. CountersBounded'
      BY <1>1, <2>1, DelaysAssumption DEF Ids, CountersBounded, TypeOK
    <3>. QED
      BY <3>4, <3>5, <3>6, <3>7 DEF Ids
  <2>. QED
    BY <2>4, <2>5, <2>6, <2>7, <2>8
<1>. QED
  BY <1>3, <1>4 DEF AgentOffline

\* fire(): the generation moves from the timer to the delivery it starts.
LEMMA FireIInv ==
    ASSUME IInv, NEW t \in timers, Fire(t)
    PROVE  IInv'
<1> DEFINE d == t.deviceKey
<1> DEFINE receipt == [sessionId |-> t.sessionId, status |-> "sending",
                       expiresAt |-> now + FiredReceiptTtl, receipt |-> t.generation]
<1> DEFINE send == [deviceKey |-> d, sessionId |-> t.sessionId,
                    receipt |-> t.generation, tickets |-> LiveTickets(d)]
<1> USE DEF IInv
<1>1. /\ t \in Timer /\ d \in DeviceKeys /\ t.generation \in 1..generation
      /\ FireGuard(t)
  BY NoSessionAssumption DEF TypeOK, Timer, Ids, TimerIds, TimersBelongToEntry, FireGuard, Armed
<1>2. /\ timers' = timers \ {t}
      /\ active' = [active EXCEPT ![d] = NoEntry]
      /\ batches' \subseteq batches
      /\ fired' = [fired EXCEPT ![d] = receipt]
      /\ sending' = sending \cup {send}
      /\ noticed' = [noticed EXCEPT ![t.generation] = [deviceKey |-> d, sessionId |-> t.sessionId]]
      /\ UNCHANGED <<generation, online, now, offlineSince, accepted, reports>>
  BY <1>1, CleanupBatches DEF Fire, historyVars
<1>3. send \in Send /\ receipt \in Receipt
  <2>1. LiveTickets(d) \subseteq Ticket
    BY <1>1 DEF LiveTickets, TypeOK, Entry
  <2>. QED
    BY <1>1, <2>1, DelaysAssumption DEF Send, Receipt, Timer, TypeOK
<1>4. /\ receipt.sessionId = t.sessionId /\ receipt.receipt = t.generation
      /\ receipt.status = "sending" /\ send.receipt = t.generation /\ send.deviceKey = d
      /\ t.sessionId # NoSession
  BY <1>1, NoSessionAssumption DEF Timer
<1> HIDE DEF receipt, send
<1>5. TypeOK'
  <2>1. noticed' \in [1..MaxGeneration -> Notice \cup {NoNotice}]
    BY <1>1, <1>2 DEF TypeOK, Notice, Timer
  <2>. QED
    BY <1>1, <1>2, <1>3, <2>1, EmptyRecords DEF TypeOK
<1>6. \A u \in timers' : u.deviceKey # d /\ u.deviceKey \in DeviceKeys
  BY <1>2 DEF TimersBelongToEntry, Ids, TimerIds, TypeOK, Timer
<1>7. TimersBelongToEntry'
  BY <1>2, <1>6 DEF TimersBelongToEntry, TypeOK
<1>8. \A e \in DeviceKeys : \/ e # d /\ active'[e] = active[e] /\ fired'[e] = fired[e]
                            \/ e = d /\ active'[e] = NoEntry /\ fired'[e] = receipt
  BY <1>1, <1>2 DEF TypeOK
<1> HIDE DEF d
<1>9. NoReceiptWhileArmed'
  BY <1>8 DEF NoReceiptWhileArmed, HasReceipt, Armed, NoEntry
<1>10. TicketsOwned'
  BY <1>2, <1>8 DEF TicketsOwned, ArmedWithOwnTickets, Armed, NoEntry
<1>11. TimerIds'
  BY <1>2, <1>4, <1>8 DEF Ids, TimerIds
<1>12. SendIds'
  <2>1. \A f \in sending : f.receipt # t.generation
    BY DEF Ids, TimerIds
  <2>2. \A e \in DeviceKeys : fired[e].receipt # t.generation
    BY DEF Ids, TimerIds
  <2>3. t.generation \notin accepted /\ reports[t.generation] = 0
    BY DEF Ids, TimerIds
  <2>. QED
    BY <1>1, <1>2, <1>4, <1>8, <2>1, <2>2, <2>3 DEF Ids, SendIds
<1>13. ReceiptIds'
  <2>1. \A e \in DeviceKeys : fired[e].receipt # t.generation
    BY DEF Ids, TimerIds
  <2>2. t.generation \notin accepted /\ reports[t.generation] = 0
    BY DEF Ids, TimerIds
  <2>. QED
    BY <1>1, <1>2, <1>4, <1>8, <2>1, <2>2 DEF Ids, ReceiptIds, HasReceipt
<1>14. CountersBounded'
  BY <1>2 DEF Ids, CountersBounded
<1>. QED
  BY <1>5, <1>7, <1>9, <1>10, <1>11, <1>12, <1>13, <1>14 DEF Ids

\* The continuation of fire() drops its own receipt or leaves the map alone.
LEMMA SettleFailedIInv ==
    ASSUME IInv, NEW f \in sending, SettleFailed(f)
    PROVE  IInv'
<1> USE DEF IInv, SettleFailed
<1>1. /\ fired' \in [DeviceKeys -> Receipt]
      /\ \A e \in DeviceKeys : fired'[e] = fired[e] \/ fired'[e] = NoReceipt
  BY EmptyRecords DEF TypeOK, Send
<1>2. TypeOK'
  BY <1>1 DEF TypeOK, historyVars
<1>3. TimersBelongToEntry'
  BY DEF TimersBelongToEntry
<1>4. NoReceiptWhileArmed'
  BY <1>1 DEF NoReceiptWhileArmed, HasReceipt, Armed, NoReceipt
<1>5. TicketsOwned'
  BY DEF TicketsOwned, ArmedWithOwnTickets, Armed
<1>6. TimerIds'
  BY <1>1, DelaysAssumption DEF Ids, TimerIds, NoReceipt, historyVars
<1>7. SendIds'
  BY <1>1, DelaysAssumption DEF Ids, SendIds, NoReceipt, historyVars
<1>8. ReceiptIds'
  <2>1. \A e \in DeviceKeys : HasReceipt(e)' => HasReceipt(e) /\ fired'[e] = fired[e]
    BY <1>1 DEF HasReceipt, NoReceipt
  <2>2. \A e \in DeviceKeys : ~HasReceipt(e)' => fired'[e] = NoReceipt
    BY <1>1 DEF Ids, ReceiptIds, HasReceipt
  <2>3. \A e, c \in DeviceKeys : HasReceipt(e)' /\ fired'[c].receipt = fired'[e].receipt => c = e
    BY <1>1, <2>1, DelaysAssumption DEF Ids, ReceiptIds, NoReceipt, TypeOK
  <2>. QED
    BY <1>1, <2>1, <2>2, <2>3 DEF Ids, ReceiptIds, historyVars
<1>9. CountersBounded'
  BY DEF Ids, CountersBounded, historyVars
<1>. QED
  BY <1>2, <1>3, <1>4, <1>5, <1>6, <1>7, <1>8, <1>9 DEF Ids

LEMMA TickIInv == IInv /\ Tick => IInv'
<1> SUFFICES ASSUME IInv, Tick
             PROVE  IInv'
  OBVIOUS
<1> USE DEF IInv, Tick
<1>1. TypeOK'
  BY DEF TypeOK, watchdogVars, historyVars
<1>2. TimersBelongToEntry' /\ NoReceiptWhileArmed' /\ TicketsOwned'
  BY DEF TimersBelongToEntry, NoReceiptWhileArmed, TicketsOwned, ArmedWithOwnTickets,
         HasReceipt, Armed, watchdogVars
<1>3. Ids'
  BY DroppingKeepsIds DEF watchdogVars, historyVars
<1>. QED
  BY <1>1, <1>2, <1>3

LEMMA StutterIInv == IInv /\ UNCHANGED vars => IInv'
  BY DEF IInv, vars, TypeOK, TimersBelongToEntry, NoReceiptWhileArmed, TicketsOwned,
         ArmedWithOwnTickets, HasReceipt, Armed, Ids, TimerIds, SendIds, ReceiptIds, CountersBounded

\* A delivery that was accepted: its receipt is answered at once, kept as
\* "sent" for the next disarm, or was dropped meanwhile and stays dropped.
LEMMA SettleSentIInv ==
    ASSUME IInv, NEW f \in sending, NEW open \in BOOLEAN, SettleSent(f, open)
    PROVE  IInv'
<1> DEFINE d == f.deviceKey
<1> DEFINE r == f.receipt
<1> USE DEF IInv
<1>1. /\ d \in DeviceKeys /\ r \in 1..generation /\ r \in 1..MaxGeneration
      /\ r # 0 /\ r \notin accepted /\ reports[r] = 0
  BY DelaysAssumption DEF TypeOK, Send, Ids, SendIds, CountersBounded
<1>2. /\ sending' = sending \ {f}
      /\ accepted' = accepted \cup {r}
      /\ UNCHANGED <<active, batches, generation, timers, online, now, offlineSince, noticed>>
  BY DEF SettleSent
<1>3. /\ fired' \in [DeviceKeys -> Receipt]
      /\ \A e \in DeviceKeys :
           \/ fired'[e] = fired[e] /\ fired[e].receipt # r
           \/ fired'[e] = NoReceipt
           \/ /\ fired'[e].sessionId = fired[e].sessionId
              /\ fired'[e].receipt = fired[e].receipt
              /\ fired[e].receipt = r /\ e = d
              /\ fired'[e].status = "sent"
              /\ reports' = reports
  <2>1. \A e \in DeviceKeys : fired[e].receipt = r => HasReceipt(e)
    BY <1>1 DEF Ids, ReceiptIds, NoReceipt
  <2>2. \A e \in DeviceKeys : fired[e].receipt = r /\ fired[d].receipt = r => e = d
    BY <1>1, <2>1 DEF Ids, ReceiptIds
  <2>3. CASE ~OwnsReceipt(f)
    <3>1. fired' = fired
      BY <1>1, <2>3 DEF SettleSent, TypeOK
    <3>2. \A e \in DeviceKeys : fired[e].receipt = r => e = d
      BY <2>1, <1>1 DEF Ids, SendIds
    <3>. QED
      BY <2>3, <3>1, <3>2 DEF OwnsReceipt, TypeOK
  <2>4. CASE OwnsReceipt(f) /\ online[d] /\ open
    <3>1. fired' = [fired EXCEPT ![d] = NoReceipt]
      BY <1>1, <2>4 DEF SettleSent
    <3>. QED
      BY <1>1, <2>2, <2>4, <3>1, EmptyRecords DEF OwnsReceipt, TypeOK
  <2>5. CASE OwnsReceipt(f) /\ ~(online[d] /\ open)
    <3>1. /\ fired' = [fired EXCEPT ![d] = [fired[d] EXCEPT !.status = "sent",
                                                            !.expiresAt = now + FiredReceiptTtl]]
          /\ reports' = reports
      BY <1>1, <2>5 DEF SettleSent
    <3>2. fired[d] \in Receipt /\ now + FiredReceiptTtl \in Nat
      BY <1>1, DelaysAssumption DEF TypeOK
    <3>3. [fired[d] EXCEPT !.status = "sent", !.expiresAt = now + FiredReceiptTtl] \in Receipt
      BY <3>2 DEF Receipt
    <3>4. /\ fired'[d].sessionId = fired[d].sessionId
          /\ fired'[d].receipt = fired[d].receipt
          /\ fired'[d].status = "sent"
      BY <1>1, <3>1, <3>2 DEF TypeOK, Receipt
    <3>. QED
      BY <1>1, <2>2, <2>5, <3>1, <3>3, <3>4 DEF OwnsReceipt, TypeOK
  <2>. QED
    BY <2>3, <2>4, <2>5
<1>4. /\ reports' \in [1..MaxGeneration -> Nat]
      /\ \A g \in 1..MaxGeneration : g # r => reports'[g] = reports[g]
      /\ reports'[r] \in {0, 1}
  BY <1>1 DEF SettleSent, TypeOK
<1>5. TypeOK'
  <2>1. accepted' \subseteq Nat
    <3>1. r \in Nat /\ accepted \subseteq Nat
      BY <1>1 DEF TypeOK
    <3>. QED
      BY <1>2, <3>1
  <2>2. sending' \subseteq Send
    BY <1>2 DEF TypeOK
  <2>. QED
    BY <1>2, <1>3, <1>4, <2>1, <2>2 DEF TypeOK
<1> HIDE DEF d, r
<1>6. TimersBelongToEntry'
  BY <1>2 DEF TimersBelongToEntry
<1>7. NoReceiptWhileArmed'
  BY <1>2, <1>3 DEF NoReceiptWhileArmed, HasReceipt, Armed, NoReceipt
<1>8. TicketsOwned'
  BY <1>2 DEF TicketsOwned, ArmedWithOwnTickets, Armed
<1>9. \A e \in DeviceKeys : fired'[e].receipt = fired[e].receipt \/ fired'[e] = NoReceipt
  BY <1>3
<1>10. TimerIds'
  <2>1. \A t \in timers : t.generation # r /\ t.generation \in 1..MaxGeneration
    BY DelaysAssumption DEF Ids, TimerIds, CountersBounded, TypeOK, r
  <2>2. \A t \in timers, e \in DeviceKeys : fired'[e].receipt # t.generation
    BY <1>9, DelaysAssumption DEF Ids, TimerIds, NoReceipt
  <2>. QED
    BY <1>2, <1>4, <2>1, <2>2 DEF Ids, TimerIds
<1>11. SendIds'
  <2>1. \A g \in sending' : g \in sending /\ g.receipt # r /\ g.receipt \in 1..MaxGeneration
    BY <1>2, DelaysAssumption DEF Ids, SendIds, CountersBounded, TypeOK, r
  <2>2. \A g \in sending', e \in DeviceKeys : fired'[e].receipt = g.receipt => fired'[e] = fired[e]
    BY <1>1, <1>3, <2>1, DelaysAssumption DEF Ids, SendIds, NoReceipt
  <2>. QED
    BY <1>2, <1>4, <2>1, <2>2 DEF Ids, SendIds
<1>12. ReceiptIds'
  <2>1. \A e \in DeviceKeys : HasReceipt(e)' => HasReceipt(e) /\ fired'[e].receipt = fired[e].receipt
    BY <1>3 DEF HasReceipt, NoReceipt
  <2>2. \A e \in DeviceKeys : ~HasReceipt(e)' => fired'[e] = NoReceipt
    BY <1>1, <1>3 DEF Ids, ReceiptIds, HasReceipt, NoReceipt
  <2>3. \A e \in DeviceKeys : HasReceipt(e)' =>
          /\ fired'[e].receipt \in 1..generation
          /\ fired'[e].receipt \in 1..MaxGeneration
    <3>1. \A g \in 1..generation : g \in 1..MaxGeneration
      BY DelaysAssumption DEF Ids, CountersBounded, TypeOK
    <3>. QED
      BY <2>1, <3>1 DEF Ids, ReceiptIds
  <2>4. \A e \in DeviceKeys : HasReceipt(e)' => reports'[fired'[e].receipt] = 0
    <3> SUFFICES ASSUME NEW e \in DeviceKeys, HasReceipt(e)'
                 PROVE  reports'[fired'[e].receipt] = 0
      OBVIOUS
    <3>1. fired'[e] # NoReceipt
      BY DEF HasReceipt, NoReceipt
    <3>2. reports[fired[e].receipt] = 0 /\ fired'[e].receipt = fired[e].receipt
      BY <2>1 DEF Ids, ReceiptIds
    <3>. QED
      BY <1>1, <1>3, <1>4, <2>3, <3>1, <3>2
  <2>5. \A e \in DeviceKeys : HasReceipt(e)' =>
          (fired'[e].status = "sent" => fired'[e].receipt \in accepted')
    BY <1>2, <1>3, <2>1 DEF Ids, ReceiptIds, HasReceipt, NoReceipt
  <2>6. \A e, c \in DeviceKeys : HasReceipt(e)' /\ fired'[c].receipt = fired'[e].receipt => c = e
    BY <1>9, <2>1, <2>3, DelaysAssumption DEF Ids, ReceiptIds, NoReceipt
  <2>. QED
    BY <1>2, <2>2, <2>3, <2>4, <2>5, <2>6 DEF ReceiptIds
<1>13. CountersBounded'
  BY <1>1, <1>2, <1>4 DEF Ids, CountersBounded
<1>. QED
  BY <1>5, <1>6, <1>7, <1>8, <1>10, <1>11, <1>12, <1>13 DEF Ids

LEMMA NextIInv == IInv /\ [Next]_vars => IInv'
<1> SUFFICES ASSUME IInv, [Next]_vars
             PROVE  IInv'
  OBVIOUS
<1>1. CASE StageStep
  BY <1>1, StageIInv DEF StageStep
<1>2. CASE \E d \in DeviceKeys, i \in BatchIds, s \in Sessions :
             Commit(d, i, s) \/ CommitRefused(d, i, s)
  BY <1>2, CommitIInv, CommitRefusedIInv
<1>3. CASE \E d \in DeviceKeys, s \in Sessions : Disarm(d, s)
  BY <1>3, DisarmIInv
<1>4. CASE \E d \in DeviceKeys : AgentOnline(d) \/ AgentOffline(d)
  BY <1>4, AgentOnlineIInv, AgentOfflineIInv
<1>5. CASE FireStep
  BY <1>5, FireIInv DEF FireStep
<1>6. CASE SettleStep
  BY <1>6, SettleFailedIInv, SettleSentIInv DEF SettleStep
<1>7. CASE Tick
  BY <1>7, TickIInv
<1>8. CASE UNCHANGED vars
  BY <1>8, StutterIInv
<1>. QED
  BY <1>1, <1>2, <1>3, <1>4, <1>5, <1>6, <1>7, <1>8 DEF Next

LEMMA SpecIInv == Spec => []IInv
  BY InitIInv, NextIInv, PTL DEF Spec

-----------------------------------------------------------------------------
(***************************************************************************)
(* The grace period.  A timer of a device is due one grace period after    *)
(* the device was last dropped, for a device with a timer is not online    *)
(* and cannot be dropped again.                                            *)
(***************************************************************************)
DueAfterGrace ==
    \A t \in timers : t.due >= offlineSince[t.deviceKey] + OfflineDelay

LEMMA InitGrace == Init => DueAfterGrace
  BY DEF Init, DueAfterGrace

\* Only a closed agent socket starts a timer or moves offlineSince.
LEMMA GraceKept ==
    ASSUME DueAfterGrace, timers' \subseteq timers, UNCHANGED offlineSince
    PROVE  DueAfterGrace'
  BY DEF DueAfterGrace

LEMMA AgentOfflineGrace ==
    ASSUME IInv, DueAfterGrace, NEW d \in DeviceKeys, AgentOffline(d)
    PROVE  DueAfterGrace'
<1> DEFINE timer == [deviceKey |-> d, sessionId |-> active[d].sessionId,
                     generation |-> generation + 1, due |-> now + OfflineDelay]
<1>1. timers' \subseteq timers \cup {timer}
  BY DEF AgentOffline
<1>2. \A t \in timers : t.deviceKey # d /\ t.deviceKey \in DeviceKeys
  BY DEF AgentOffline, IInv, TypeOK, Timer, TimersBelongToEntry
<1>3. /\ offlineSince'[d] = now
      /\ \A e \in DeviceKeys : e # d => offlineSince'[e] = offlineSince[e]
  BY DEF AgentOffline, IInv, TypeOK
<1>4. timer.due >= offlineSince'[timer.deviceKey] + OfflineDelay
  BY <1>3, DelaysAssumption DEF IInv, TypeOK
<1> HIDE DEF timer
<1>. QED
  BY <1>1, <1>2, <1>3, <1>4 DEF DueAfterGrace

LEMMA NextGrace == IInv /\ DueAfterGrace /\ [Next]_vars => DueAfterGrace'
<1> SUFFICES ASSUME IInv, DueAfterGrace, [Next]_vars
             PROVE  DueAfterGrace'
  OBVIOUS
<1>1. \/ \E d \in DeviceKeys : AgentOffline(d)
      \/ timers' \subseteq timers /\ UNCHANGED offlineSince
  BY DEF Next, vars, StageStep, Stage, Commit, CommitRefused, Disarm, AgentOnline, FireStep,
         Fire, SettleStep, SettleFailed, SettleSent, Tick, TimersWithout, watchdogVars, historyVars
<1>. QED
  BY <1>1, AgentOfflineGrace, GraceKept

\* A delivery starts in fire() only, with its guard passed.
LEMMA StepGrace ==
    ASSUME IInv, DueAfterGrace, [Next]_vars, NEW f \in sending' \ sending
    PROVE  /\ ~online[f.deviceKey]
           /\ now - offlineSince[f.deviceKey] >= OfflineDelay
           /\ \A k \in f.tickets : k.expiresAt > now
<1>1. FireStep
  BY DEF Next, vars, StageStep, Stage, Commit, CommitRefused, Disarm, AgentOnline, AgentOffline,
         SettleStep, SettleFailed, SettleSent, Tick, watchdogVars, historyVars
<1>2. PICK t \in timers : Fire(t)
  BY <1>1 DEF FireStep
<1>3. f.deviceKey = t.deviceKey /\ f.tickets = LiveTickets(t.deviceKey) /\ t.due <= now
  BY <1>2 DEF Fire
<1>4. ~online[t.deviceKey]
  BY DEF IInv, TimersBelongToEntry
<1>5. now - offlineSince[t.deviceKey] >= OfflineDelay
  <2>1. t.due >= offlineSince[t.deviceKey] + OfflineDelay
    BY DEF DueAfterGrace
  <2>2. t.due \in Nat /\ now \in Nat /\ offlineSince[t.deviceKey] \in Nat /\ OfflineDelay \in Nat
    BY DelaysAssumption DEF IInv, TypeOK, Timer
  <2>. QED
    BY <1>3, <2>1, <2>2
<1>. QED
  BY <1>3, <1>4, <1>5 DEF LiveTickets

-----------------------------------------------------------------------------
(***************************************************************************)
(* The promise of OfflineNotice.  A generation is one notice: it is unused *)
(* while its timer runs, and afterwards the delivery and the receipt that  *)
(* bear its number are those of the device and flight it was given for.    *)
(***************************************************************************)
NoticesKnown ==
    /\ \A g \in 1..MaxGeneration : g \notin 1..generation => noticed[g] = NoNotice
    /\ \A t \in timers : noticed[t.generation] = NoNotice
    /\ \A f \in sending :
         noticed[f.receipt] = [deviceKey |-> f.deviceKey, sessionId |-> f.sessionId]
    /\ \A d \in DeviceKeys : HasReceipt(d) =>
         noticed[fired[d].receipt] = [deviceKey |-> d, sessionId |-> fired[d].sessionId]

PInv == IInv /\ NoticesKnown

LEMMA InitNotices == Init => NoticesKnown
  BY DEF Init, NoticesKnown, HasReceipt, NoReceipt

\* Only fire() gives a notice and makes a receipt, and only a closed agent
\* socket starts a timer.
LEMMA NoticesStayKnown ==
    ASSUME NoticesKnown, timers' \subseteq timers, sending' \subseteq sending,
           UNCHANGED <<noticed, generation>>,
           \A d \in DeviceKeys : HasReceipt(d)' =>
               /\ HasReceipt(d)
               /\ fired'[d].receipt = fired[d].receipt
               /\ fired'[d].sessionId = fired[d].sessionId
    PROVE  NoticesKnown'
  BY DEF NoticesKnown

LEMMA AgentOfflineNotices ==
    ASSUME PInv, NEW d \in DeviceKeys, AgentOffline(d)
    PROVE  NoticesKnown'
<1> USE DEF PInv
<1>1. \A e \in DeviceKeys : HasReceipt(e)' => HasReceipt(e) /\ fired'[e] = fired[e]
  BY CleanupReceipts DEF IInv, AgentOffline, HasReceipt, NoReceipt
<1>2. UNCHANGED <<sending, noticed>>
  BY DEF AgentOffline
<1>3. CASE UNCHANGED <<generation, timers>>
  BY <1>1, <1>2, <1>3, NoticesStayKnown
<1>4. CASE ~UNCHANGED <<generation, timers>>
  <2> DEFINE timer == [deviceKey |-> d, sessionId |-> active[d].sessionId,
                       generation |-> generation + 1, due |-> now + OfflineDelay]
  <2>1. /\ generation < MaxGeneration
        /\ generation' = generation + 1
        /\ timers' = timers \cup {timer}
    BY <1>4 DEF AgentOffline
  <2>2. timer.generation = generation + 1
    OBVIOUS
  <2> HIDE DEF timer
  <2>3. generation \in Nat /\ generation + 1 \in 1..MaxGeneration /\ generation + 1 \notin 1..generation
    BY <2>1, DelaysAssumption DEF IInv, TypeOK
  <2>4. noticed[generation + 1] = NoNotice
    BY <2>3 DEF NoticesKnown
  <2>5. \A g \in 1..MaxGeneration : g \notin 1..generation' => g \notin 1..generation
    BY <2>1, <2>3
  <2>. QED
    BY <1>1, <1>2, <2>1, <2>2, <2>4, <2>5 DEF NoticesKnown
<1>. QED
  BY <1>3, <1>4

LEMMA FireNotices ==
    ASSUME PInv, NEW t \in timers, Fire(t)
    PROVE  NoticesKnown'
<1> DEFINE d == t.deviceKey
<1> DEFINE g == t.generation
<1> DEFINE flight == [deviceKey |-> d, sessionId |-> t.sessionId]
<1> DEFINE send == [deviceKey |-> d, sessionId |-> t.sessionId,
                    receipt |-> g, tickets |-> LiveTickets(d)]
<1> DEFINE receipt == [sessionId |-> t.sessionId, status |-> "sending",
                       expiresAt |-> now + FiredReceiptTtl, receipt |-> g]
<1> USE DEF PInv
<1>1. /\ d \in DeviceKeys /\ g \in 1..generation /\ g \in 1..MaxGeneration
      /\ FireGuard(t)
  BY NoSessionAssumption, DelaysAssumption
     DEF IInv, TypeOK, Timer, Ids, TimerIds, CountersBounded, TimersBelongToEntry, FireGuard, Armed
<1>2. /\ timers' = timers \ {t}
      /\ sending' = sending \cup {send}
      /\ fired' = [fired EXCEPT ![d] = receipt]
      /\ noticed' = [noticed EXCEPT ![g] = flight]
      /\ generation' = generation
  BY <1>1 DEF Fire
<1>3. send.receipt = g /\ [deviceKey |-> send.deviceKey, sessionId |-> send.sessionId] = flight
  OBVIOUS
<1>4. receipt.receipt = g /\ [deviceKey |-> d, sessionId |-> receipt.sessionId] = flight
  OBVIOUS
<1>5. noticed'[g] = flight /\ \A h \in 1..MaxGeneration : h # g => noticed'[h] = noticed[h]
  BY <1>1, <1>2 DEF IInv, TypeOK
<1>6. \A e \in DeviceKeys : fired'[e] = IF e = d THEN receipt ELSE fired[e]
  BY <1>1, <1>2 DEF IInv, TypeOK
<1> HIDE DEF d, g, flight, send, receipt
<1>7. \A h \in 1..generation : h \in 1..MaxGeneration
  BY DelaysAssumption DEF IInv, Ids, CountersBounded, TypeOK
<1>8. \A h \in 1..MaxGeneration : h \notin 1..generation' => noticed'[h] = NoNotice
  BY <1>1, <1>2, <1>5 DEF NoticesKnown
<1>9. \A u \in timers' : noticed'[u.generation] = NoNotice
  <2>1. \A u \in timers' : u \in timers /\ u.generation \in 1..MaxGeneration /\ u.generation # g
    BY <1>2, <1>7 DEF IInv, Ids, TimerIds, g
  <2>. QED
    BY <1>5, <2>1 DEF NoticesKnown
<1>10. \A f \in sending' :
         noticed'[f.receipt] = [deviceKey |-> f.deviceKey, sessionId |-> f.sessionId]
  <2>1. \A f \in sending : f.receipt \in 1..MaxGeneration /\ f.receipt # g
    BY <1>7 DEF IInv, Ids, TimerIds, SendIds, g
  <2>. QED
    BY <1>2, <1>3, <1>5, <2>1 DEF NoticesKnown
<1>11. \A e \in DeviceKeys : HasReceipt(e)' =>
         noticed'[fired'[e].receipt] = [deviceKey |-> e, sessionId |-> fired'[e].sessionId]
  <2>1. \A e \in DeviceKeys : HasReceipt(e) =>
          fired[e].receipt \in 1..MaxGeneration /\ fired[e].receipt # g
    BY <1>7 DEF IInv, Ids, TimerIds, ReceiptIds, g
  <2>. QED
    BY <1>4, <1>5, <1>6, <2>1 DEF NoticesKnown, HasReceipt
<1>. QED
  BY <1>8, <1>9, <1>10, <1>11 DEF NoticesKnown

LEMMA NextNotices == PInv /\ [Next]_vars => NoticesKnown'
<1> SUFFICES ASSUME PInv, [Next]_vars
             PROVE  NoticesKnown'
  OBVIOUS
<1>1. CASE \E d \in DeviceKeys : AgentOffline(d)
  BY <1>1, AgentOfflineNotices
<1>2. CASE FireStep
  BY <1>2, FireNotices DEF FireStep
<1>3. CASE SettleStep
  <2>1. \A d \in DeviceKeys : HasReceipt(d)' =>
          /\ HasReceipt(d)
          /\ fired'[d].receipt = fired[d].receipt
          /\ fired'[d].sessionId = fired[d].sessionId
    <3>1. PICK f \in sending : SettleFailed(f) \/ \E open \in BOOLEAN : SettleSent(f, open)
      BY <1>3 DEF SettleStep
    <3> DEFINE sent == [fired[f.deviceKey] EXCEPT !.status = "sent", !.expiresAt = now + FiredReceiptTtl]
    <3>2. /\ f.deviceKey \in DeviceKeys
          /\ fired \in [DeviceKeys -> Receipt]
      BY DEF PInv, IInv, TypeOK, Send
    <3>3. /\ sent.receipt = fired[f.deviceKey].receipt
          /\ sent.sessionId = fired[f.deviceKey].sessionId
      BY <3>2 DEF Receipt
    <3>4. \E new \in {fired[f.deviceKey], NoReceipt, sent} : fired' = [fired EXCEPT ![f.deviceKey] = new]
      BY <3>1 DEF SettleFailed, SettleSent
    <3> HIDE DEF sent
    <3>. QED
      BY <3>2, <3>3, <3>4 DEF HasReceipt, NoReceipt
  <2>2. sending' \subseteq sending /\ UNCHANGED <<timers, noticed, generation>>
    BY <1>3 DEF SettleStep, SettleFailed, SettleSent, historyVars
  <2>. QED
    BY <2>1, <2>2, NoticesStayKnown DEF PInv
<1>4. CASE /\ ~\E d \in DeviceKeys : AgentOffline(d)
           /\ ~FireStep /\ ~SettleStep
  <2>1. UNCHANGED <<sending, noticed, generation>> /\ timers' \subseteq timers
    BY <1>4 DEF Next, vars, StageStep, Stage, Commit, CommitRefused, Disarm, AgentOnline,
                Tick, TimersWithout, watchdogVars, historyVars
  <2>2. \A d \in DeviceKeys : fired'[d] = fired[d] \/ fired'[d] = NoReceipt
    <3>1. /\ FreshReceipts \in [DeviceKeys -> Receipt]
          /\ \A d \in DeviceKeys : FreshReceipts[d] = fired[d] \/ FreshReceipts[d] = NoReceipt
      BY CleanupReceipts DEF PInv, IInv
    <3>2. \/ fired' = fired \/ fired' = FreshReceipts
          \/ \E e \in DeviceKeys : fired' = [FreshReceipts EXCEPT ![e] = NoReceipt]
      BY <1>4 DEF Next, vars, StageStep, Stage, Commit, CommitRefused, Disarm, AgentOnline,
                  Tick, watchdogVars, historyVars
    <3>. QED
      BY <3>1, <3>2
  <2>. QED
    BY <2>1, <2>2, NoticesStayKnown DEF PInv, HasReceipt, NoReceipt
<1>. QED
  BY <1>1, <1>2, <1>3, <1>4

LEMMA SpecPInv == Spec => []PInv
<1>1. Spec => []NoticesKnown
  BY InitNotices, NextNotices, SpecIInv, PTL DEF Spec, PInv
<1>. QED
  BY <1>1, SpecIInv, PTL DEF PInv

LEMMA InitPromise == Init => Promise!NoticeInit
  BY DEF Init, NoEntry, NoNotice, Watched, Deliveries, State,
         Promise!NoticeInit, Promise!NotGiven, Promise!Fate

\* What no delivery is part of leaves every notice as it is.
LEMMA SameDeliveries ==
    ASSUME UNCHANGED <<noticed, accepted, reports, sending>>
    PROVE  Deliveries' = Deliveries
  BY DEF Deliveries, State

\* One notice changes its fate.
LEMMA OneDelivery ==
    ASSUME NEW n \in 1..MaxGeneration, NEW from, NEW to, UNCHANGED noticed,
           <<State(n), reports[n]>> = from, <<State(n)', reports'[n]>> = to,
           \A g \in 1..MaxGeneration : g # n => State(g)' = State(g) /\ reports'[g] = reports[g]
    PROVE  Promise!Goes(n, from, to)
<1>1. Deliveries[n].fate = from
  BY DEF Deliveries
<1>2. Deliveries' = [Deliveries EXCEPT ![n].fate = to]
  BY DEF Deliveries
<1>. QED
  BY <1>1, <1>2 DEF Promise!Goes

\* The generations of the entries, timers, deliveries and receipts are notices.
LEMMA NumbersAreNotices ==
    ASSUME PInv
    PROVE  /\ \A t \in timers : t.generation \in 1..MaxGeneration
           /\ \A f \in sending : f.receipt \in 1..MaxGeneration
           /\ \A d \in DeviceKeys : HasReceipt(d) => fired[d].receipt \in 1..MaxGeneration
<1>1. \A g \in 1..generation : g \in 1..MaxGeneration
  BY DelaysAssumption DEF PInv, IInv, Ids, CountersBounded, TypeOK
<1>. QED
  BY <1>1 DEF PInv, IInv, Ids, TimerIds, SendIds, ReceiptIds

\* commit(): a watch.
LEMMA CommitWatches ==
    ASSUME PInv, NEW d \in DeviceKeys, NEW i \in BatchIds, NEW s \in Sessions, Commit(d, i, s)
    PROVE  Promise!Watches(d, s)
<1>1. Deliveries' = Deliveries
  BY SameDeliveries DEF Commit, historyVars
<1>2. Watched' = [Watched EXCEPT ![d] = s]
  <2>1. active \in [DeviceKeys -> Entry]
    BY DEF PInv, IInv, TypeOK
  <2>2. PICK b \in BatchAt(d, i) :
          active' = [active EXCEPT ![d] = [sessionId |-> s, tickets |-> b.tickets,
                                           offlineTimer |-> 0, offlineGeneration |-> 0]]
    BY DEF Commit
  <2>. QED
    BY <2>1, <2>2 DEF Watched
<1>. QED
  BY <1>1, <1>2 DEF Commit, historyVars, Promise!Watches

\* disarm(): an end, with the news of the delivery when there is any.
LEMMA DisarmEnds ==
    ASSUME PInv, NEW d \in DeviceKeys, NEW s \in Sessions, Disarm(d, s)
    PROVE  Promise!Ends(d, s)
<1> USE DEF PInv
<1>1. Watched' = IF Watched[d] = s THEN [Watched EXCEPT ![d] = NoSession] ELSE Watched
  <2>1. active \in [DeviceKeys -> Entry] /\ NoEntry.sessionId = NoSession /\ s # NoSession
    BY NoSessionAssumption DEF IInv, TypeOK, NoEntry
  <2>2. CASE active[d].sessionId = s
    BY <2>1, <2>2 DEF Disarm, DisarmMatches, Watched
  <2>3. CASE ~Armed(d)
    BY <2>1, <2>3 DEF Disarm, DisarmMatches, Armed, Watched
  <2>4. CASE Armed(d) /\ active[d].sessionId # s
    BY <2>1, <2>4 DEF Disarm, DisarmMatches, Watched
  <2>. QED
    BY <2>2, <2>3, <2>4
<1>2. CASE ~DidFire(d, s)
  <2>1. Deliveries' = Deliveries
    BY <1>2, SameDeliveries DEF Disarm
  <2>. QED
    BY <1>1, <2>1 DEF Disarm, Promise!Ends
<1>3. CASE DidFire(d, s)
  <2>1. HasReceipt(d) /\ fired[d].status = "sent" /\ fired[d].sessionId = s
    BY <1>3, CleanupReceipts, NoSessionAssumption DEF IInv, DidFire, HasReceipt, NoReceipt
  <2>2. PICK n \in 1..MaxGeneration : n = fired[d].receipt
    BY <2>1, NumbersAreNotices
  <2>3. n \in accepted /\ reports[n] = 0 /\ noticed[n] = [deviceKey |-> d, sessionId |-> s]
    BY <2>1, <2>2 DEF IInv, Ids, ReceiptIds, NoticesKnown
  <2>4. noticed[n] # NoNotice
    BY <2>3, NoSessionAssumption DEF NoNotice
  <2>5. /\ UNCHANGED <<noticed, accepted, sending>>
        /\ reports' = [reports EXCEPT ![n] = @ + 1]
    BY <1>3, <2>2 DEF Disarm
  <2>6. /\ reports'[n] = 1
        /\ \A g \in 1..MaxGeneration : g # n => reports'[g] = reports[g]
    BY <2>2, <2>3, <2>5 DEF IInv, TypeOK
  <2>7. State(n) = "received" /\ State(n)' = "received"
    BY <2>3, <2>4, <2>5 DEF State
  <2>8. \A g \in 1..MaxGeneration : State(g)' = State(g)
    BY <2>5 DEF State
  <2>9. Promise!Goes(n, Promise!Fate("received", 0), Promise!Fate("received", 1))
    BY <2>3, <2>5, <2>6, <2>7, <2>8, OneDelivery DEF Promise!Fate
  <2>10. Deliveries[n].flight = [deviceKey |-> d, sessionId |-> s]
    BY <2>2, <2>3 DEF Deliveries
  <2>. QED
    BY <1>1, <2>2, <2>9, <2>10 DEF Disarm, Promise!Ends
<1>. QED
  BY <1>2, <1>3

\* registerAgent and removeClient: the agent comes and goes, and is watched as before.
LEMMA OnlineComes ==
    ASSUME PInv, NEW d \in DeviceKeys, AgentOnline(d)
    PROVE  Promise!AgentComes(d)
<1>1. Deliveries' = Deliveries
  BY SameDeliveries DEF AgentOnline, historyVars
<1>2. Watched' = Watched
  BY DEF PInv, IInv, TypeOK, Entry, AgentOnline, Untimed, Watched
<1>. QED
  BY <1>1, <1>2 DEF AgentOnline, historyVars, Promise!AgentComes

LEMMA OfflineGoes ==
    ASSUME PInv, NEW d \in DeviceKeys, AgentOffline(d)
    PROVE  Promise!AgentGoes(d)
<1>1. Deliveries' = Deliveries
  BY SameDeliveries DEF AgentOffline
<1>2. Watched' = Watched
  <2>1. \A e \in DeviceKeys : active'[e].sessionId = active[e].sessionId
    <3>1. active \in [DeviceKeys -> Entry]
      BY DEF PInv, IInv, TypeOK
    <3>2. \/ active' = active
          \/ active' = [active EXCEPT ![d] = [active[d] EXCEPT !.offlineTimer = generation + 1,
                                                              !.offlineGeneration = generation + 1]]
      BY DEF AgentOffline
    <3>3. active[d].sessionId = [active[d] EXCEPT !.offlineTimer = generation + 1,
                                                  !.offlineGeneration = generation + 1].sessionId
      BY <3>1 DEF Entry
    <3>. QED
      BY <3>1, <3>2, <3>3
  <2>. QED
    BY <2>1 DEF Watched
<1>. QED
  BY <1>1, <1>2 DEF AgentOffline, Promise!AgentGoes

\* fire(): the one notice of the watch, after the whole grace period.
LEMMA FireAnnounces ==
    ASSUME PInv, DueAfterGrace, NEW t \in timers, Fire(t)
    PROVE  Promise!Announces(t.deviceKey, t.generation)
<1> DEFINE d == t.deviceKey
<1> DEFINE n == t.generation
<1> DEFINE flight == [deviceKey |-> d, sessionId |-> t.sessionId]
<1> USE DEF PInv
<1>1. /\ d \in DeviceKeys /\ n \in 1..MaxGeneration /\ t.sessionId # NoSession
      /\ ~online[d] /\ active[d].sessionId = t.sessionId
      /\ noticed[n] = NoNotice
  BY NumbersAreNotices, NoSessionAssumption
     DEF IInv, TypeOK, Timer, TimersBelongToEntry, NoticesKnown
<1>2. FireGuard(t)
  BY <1>1 DEF IInv, TimersBelongToEntry, FireGuard, Armed
<1>3. now - offlineSince[d] >= OfflineDelay
  <2>1. t.due >= offlineSince[d] + OfflineDelay /\ t.due <= now
    BY DEF DueAfterGrace, Fire
  <2>2. t.due \in Nat /\ now \in Nat /\ offlineSince[d] \in Nat /\ OfflineDelay \in Nat
    BY DelaysAssumption DEF IInv, TypeOK, Timer
  <2>. QED
    BY <2>1, <2>2
<1>4. /\ active' = [active EXCEPT ![d] = NoEntry]
      /\ sending' = sending \cup {[deviceKey |-> d, sessionId |-> t.sessionId,
                                   receipt |-> n, tickets |-> LiveTickets(d)]}
      /\ noticed' = [noticed EXCEPT ![n] = flight]
      /\ UNCHANGED <<online, now, offlineSince, accepted, reports>>
  BY <1>2 DEF Fire
<1>5. Watched[d] = t.sessionId /\ Watched' = [Watched EXCEPT ![d] = NoSession]
  BY <1>1, <1>4 DEF IInv, TypeOK, NoEntry, Watched
<1>6. flight # NoNotice
  BY <1>1 DEF NoNotice
<1>7. n \notin accepted /\ reports[n] = 0
  BY DEF IInv, Ids, TimerIds
<1>8. \A g \in 1..MaxGeneration :
        (\E f \in sending' : f.receipt = g) <=> (\E f \in sending : f.receipt = g) \/ g = n
  <2> DEFINE send == [deviceKey |-> d, sessionId |-> t.sessionId,
                      receipt |-> n, tickets |-> LiveTickets(d)]
  <2>1. sending' = sending \cup {send} /\ send.receipt = n
    BY <1>4
  <2> HIDE DEF d, n, send
  <2>. QED
    BY <2>1
<1> HIDE DEF d, n, flight
<1>9. noticed'[n] = flight /\ \A g \in 1..MaxGeneration : g # n => noticed'[g] = noticed[g]
  BY <1>1, <1>4 DEF IInv, TypeOK
<1>10. State(n) = "none" /\ State(n)' = "sending"
  BY <1>1, <1>4, <1>6, <1>7, <1>8, <1>9 DEF State
<1>11. \A g \in 1..MaxGeneration : g # n => State(g)' = State(g)
  BY <1>4, <1>8, <1>9 DEF State
<1>12. Deliveries[n] = Promise!NotGiven
  BY <1>1, <1>7, <1>10 DEF Deliveries, NoNotice, Promise!NotGiven, Promise!Fate
<1>13. Deliveries' = [Deliveries EXCEPT ![n] = [flight |-> flight, fate |-> Promise!Fate("sending", 0)]]
  BY <1>1, <1>4, <1>7, <1>9, <1>10, <1>11 DEF Deliveries, Promise!Fate
<1>14. flight = [deviceKey |-> d, sessionId |-> Watched[d]]
  BY <1>5 DEF flight, d
<1>. QED
  BY <1>1, <1>3, <1>4, <1>5, <1>12, <1>13, <1>14 DEF Promise!Announces, d, n

\* The continuation of fire(): the notice failed, was received, or was heard
\* of at once by the agent that is back.
LEMMA ContinuationSettles ==
    ASSUME PInv, NEW f \in sending,
           SettleFailed(f) \/ \E open \in BOOLEAN : SettleSent(f, open)
    PROVE  Promise!Settles(f.receipt)
<1> DEFINE n == f.receipt
<1> USE DEF PInv
<1>1. /\ n \in 1..MaxGeneration /\ n \notin accepted /\ reports[n] = 0
      /\ noticed[n] = [deviceKey |-> f.deviceKey, sessionId |-> f.sessionId]
      /\ f.sessionId # NoSession
      /\ \A g \in sending : g.receipt = n => g = f
  BY NumbersAreNotices, NoSessionAssumption DEF IInv, TypeOK, Send, Ids, SendIds, NoticesKnown
<1>2. noticed[n] # NoNotice
  BY <1>1 DEF NoNotice
<1>3. sending' = sending \ {f} /\ UNCHANGED <<active, online, now, offlineSince, noticed>>
  BY DEF SettleFailed, SettleSent, historyVars
<1>4. UNCHANGED <<Watched, online, offlineSince, now>>
  BY <1>3 DEF Watched
<1>5. /\ ~\E g \in sending' : g.receipt = n
      /\ \A g \in 1..MaxGeneration : g # n =>
           ((\E e \in sending' : e.receipt = g) <=> (\E e \in sending : e.receipt = g))
  BY <1>1, <1>3
<1>6. State(n) = "sending"
  BY <1>1, <1>2 DEF State
<1>7. Deliveries[n].flight.deviceKey = f.deviceKey
  BY <1>1 DEF Deliveries
<1>8. CASE SettleFailed(f)
  <2>1. UNCHANGED <<accepted, reports>>
    BY <1>8 DEF SettleFailed, historyVars
  <2> HIDE DEF n
  <2>2. State(n)' = "failed"
    BY <1>1, <1>2, <1>3, <1>5, <2>1 DEF State
  <2>3. \A g \in 1..MaxGeneration : g # n => State(g)' = State(g)
    BY <1>3, <1>5, <2>1 DEF State
  <2>4. Promise!Goes(n, Promise!Fate("sending", 0), Promise!Fate("failed", 0))
    BY <1>1, <1>3, <1>6, <2>1, <2>2, <2>3, OneDelivery DEF Promise!Fate
  <2>. QED
    BY <1>4, <2>4 DEF Promise!Settles, n
<1>9. ASSUME NEW open \in BOOLEAN, SettleSent(f, open)
      PROVE  Promise!Settles(n)
  <2> DEFINE told == OwnsReceipt(f) /\ online[f.deviceKey] /\ open
  <2>1. /\ accepted' = accepted \cup {n}
        /\ reports' = IF told THEN [reports EXCEPT ![n] = @ + 1] ELSE reports
    BY <1>9 DEF SettleSent
  <2>2. told => online[Deliveries[n].flight.deviceKey]
    BY <1>7
  <2> HIDE DEF n, told
  <2>3. /\ \A g \in 1..MaxGeneration : g # n => reports'[g] = reports[g]
        /\ reports'[n] = IF told THEN 1 ELSE 0
    BY <1>1, <2>1 DEF IInv, TypeOK
  <2>4. State(n)' = "received"
    BY <1>2, <1>3, <2>1 DEF State
  <2>5. \A g \in 1..MaxGeneration : g # n => State(g)' = State(g)
    BY <1>3, <1>5, <2>1 DEF State
  <2>6. /\ told => Promise!Goes(n, Promise!Fate("sending", 0), Promise!Fate("received", 1))
        /\ ~told => Promise!Goes(n, Promise!Fate("sending", 0), Promise!Fate("received", 0))
    BY <1>1, <1>3, <1>6, <2>3, <2>4, <2>5, OneDelivery DEF Promise!Fate
  <2>. QED
    BY <1>4, <2>2, <2>6 DEF Promise!Settles
<1>. QED
  BY <1>8, <1>9

\* stage(), a refused commit() and cleanup() touch nothing that was promised.
LEMMA StagingIsUnseen ==
    ASSUME \/ StageStep \/ UNCHANGED vars
           \/ \E d \in DeviceKeys, i \in BatchIds, s \in Sessions : CommitRefused(d, i, s)
    PROVE  UNCHANGED Promise!noticeVars
<1>1. UNCHANGED <<active, sending, online, now, offlineSince, noticed, accepted, reports>>
  BY DEF StageStep, Stage, CommitRefused, vars, historyVars
<1>. QED
  BY <1>1, SameDeliveries DEF Watched, Promise!noticeVars

LEMMA TickPasses == Tick => Promise!TimePasses
<1> SUFFICES ASSUME Tick
             PROVE  Promise!TimePasses
  OBVIOUS
<1>1. Deliveries' = Deliveries
  BY SameDeliveries DEF Tick, watchdogVars, historyVars
<1>. QED
  BY <1>1 DEF Tick, watchdogVars, historyVars, Watched, Promise!TimePasses

LEMMA NextPromise ==
    PInv /\ DueAfterGrace /\ [Next]_vars => [Promise!NoticeNext]_(Promise!noticeVars)
<1> SUFFICES ASSUME PInv, DueAfterGrace, [Next]_vars
             PROVE  Promise!NoticeNext \/ UNCHANGED Promise!noticeVars
  OBVIOUS
<1>1. ASSUME NEW d \in DeviceKeys, NEW i \in BatchIds, NEW s \in Sessions, Commit(d, i, s)
      PROVE  Promise!NoticeNext
  BY <1>1, CommitWatches DEF Promise!NoticeNext
<1>2. ASSUME NEW d \in DeviceKeys, NEW s \in Sessions, Disarm(d, s)
      PROVE  Promise!NoticeNext
  BY <1>2, DisarmEnds DEF Promise!NoticeNext
<1>3. CASE \E d \in DeviceKeys : AgentOnline(d) \/ AgentOffline(d)
  BY <1>3, OnlineComes, OfflineGoes DEF Promise!NoticeNext
<1>4. CASE FireStep
  <2>1. PICK t \in timers : Fire(t)
    BY <1>4 DEF FireStep
  <2>2. t.deviceKey \in DeviceKeys /\ t.generation \in 1..MaxGeneration
    BY NumbersAreNotices DEF PInv, IInv, TypeOK, Timer
  <2>. QED
    BY <2>1, <2>2, FireAnnounces DEF Promise!NoticeNext
<1>5. CASE SettleStep
  BY <1>5, ContinuationSettles, NumbersAreNotices DEF SettleStep, Promise!NoticeNext
<1>6. CASE Tick
  BY <1>6, TickPasses DEF Promise!NoticeNext
<1>7. CASE \/ StageStep \/ UNCHANGED vars
           \/ \E d \in DeviceKeys, i \in BatchIds, s \in Sessions : CommitRefused(d, i, s)
  BY <1>7, StagingIsUnseen
<1>. QED
  BY <1>1, <1>2, <1>3, <1>4, <1>5, <1>6, <1>7 DEF Next

-----------------------------------------------------------------------------
(***************************************************************************)
(* The limits of staging.                                                  *)
(***************************************************************************)
StagingFinite ==
    /\ IsFiniteSet(batches)
    /\ \A b \in batches : IsFiniteSet(b.tickets)

Limits == StagingFinite /\ StagingBounded

LEMMA InitLimits == Init => Limits
<1>. {b \in {} : TRUE} = {}
  OBVIOUS
<1>. QED
  BY FS_EmptySet, DelaysAssumption DEF Init, Limits, StagingFinite, StagingBounded

\* Dropping batches exceeds no limit.
LEMMA FewerBatchesKeepLimits ==
    ASSUME Limits, batches' \subseteq batches
    PROVE  Limits'
<1>1. StagingFinite'
  BY FS_Subset DEF Limits, StagingFinite
<1>2. ASSUME NEW d \in DeviceKeys
      PROVE  Cardinality({b \in batches' : b.deviceKey = d}) <= MaxBatchesPerDevice
  <2> DEFINE B == {b \in batches : b.deviceKey = d}
  <2> DEFINE C == {b \in batches' : b.deviceKey = d}
  <2>1. IsFiniteSet(B) /\ C \subseteq B
    BY FS_Subset DEF Limits, StagingFinite
  <2>2. Cardinality(B) <= MaxBatchesPerDevice
    BY DEF Limits, StagingBounded
  <2> HIDE DEF B, C
  <2>3. Cardinality(C) <= Cardinality(B) /\ Cardinality(C) \in Nat /\ Cardinality(B) \in Nat
    BY <2>1, FS_Subset, FS_CardinalityType
  <2>4. Cardinality(C) <= MaxBatchesPerDevice
    BY <2>2, <2>3, DelaysAssumption
  <2>. QED
    BY <2>4 DEF C
<1>3. \A b \in batches' : Cardinality(b.tickets) <= MaxTickets
  BY DEF Limits, StagingBounded
<1>. QED
  BY <1>1, <1>2, <1>3 DEF Limits, StagingBounded

\* Replacing the elements of P by one element makes a set at most as large as
\* before when something was replaced, and one larger when nothing was.
LEMMA ReplaceCardinality ==
    ASSUME NEW S, IsFiniteSet(S), NEW P, P \subseteq S, NEW x, NEW m \in Nat,
           Cardinality(S) <= m, P # {} \/ Cardinality(S) < m
    PROVE  /\ IsFiniteSet((S \ P) \cup {x})
           /\ Cardinality((S \ P) \cup {x}) <= m
<1>1. /\ IsFiniteSet(S \ P) /\ Cardinality(S) \in Nat /\ Cardinality(S \ P) \in Nat
      /\ Cardinality(S \ P) <= Cardinality(S)
  BY FS_Subset, FS_CardinalityType
<1>2. P # {} => Cardinality(S \ P) < Cardinality(S)
  <2>1. P # {} => S \ P # S
    OBVIOUS
  <2>2. Cardinality(S \ P) = Cardinality(S) => S \ P = S
    BY FS_Subset
  <2>. QED
    BY <1>1, <2>1, <2>2
<1>3. /\ IsFiniteSet((S \ P) \cup {x})
      /\ \/ Cardinality((S \ P) \cup {x}) = Cardinality(S \ P)
         \/ Cardinality((S \ P) \cup {x}) = Cardinality(S \ P) + 1
  BY <1>1, FS_AddElement
<1>. QED
  BY <1>1, <1>2, <1>3

LEMMA StageLimits ==
    ASSUME TypeOK, Limits,
           NEW d \in DeviceKeys, NEW i \in BatchIds, NEW s \in Sessions,
           NEW u \in Subscribers, NEW life \in Lifetimes, NEW ok \in BOOLEAN,
           Stage(d, i, s, u, life, ok)
    PROVE  Limits'
<1>1. CASE ~StageAllowed(d, i, s, u, life, ok)
  BY <1>1, CleanupBatches, FewerBatchesKeepLimits DEF Stage
<1>2. CASE StageAllowed(d, i, s, u, life, ok)
  <2> DEFINE P == BatchAt(d, i)
  <2> DEFINE x == StagedBatch(d, i, s, u, life)
  <2> DEFINE ticket == [deviceId |-> u, expiresAt |-> now + life, sealedFor |-> s]
  <2>1. batches' = (FreshBatches \ P) \cup {x} /\ FreshBatches \subseteq batches /\ P \subseteq FreshBatches
    BY <1>2, CleanupBatches DEF Stage
  <2>2. IsFiniteSet(FreshBatches) /\ IsFiniteSet(FreshBatches \ P)
    BY <2>1, FS_Subset DEF Limits, StagingFinite
  <2>3. x.deviceKey = d /\ IsFiniteSet(x.tickets) /\ Cardinality(x.tickets) <= MaxTickets
    <3>1. CASE P = {}
      <4>1. x.deviceKey = d /\ x.tickets = {ticket}
        BY <3>1 DEF StagedBatch
      <4>2. IsFiniteSet({ticket}) /\ Cardinality({ticket}) = 1
        BY FS_Singleton
      <4>. QED
        BY <4>1, <4>2, DelaysAssumption
    <3>2. CASE P # {}
      <4> DEFINE b == CHOOSE b \in BatchAt(d, i) : TRUE
      <4> DEFINE Q == {t \in b.tickets : t.deviceId = u}
      <4>1. b \in P /\ b \in batches /\ b \in Batch /\ b.deviceKey = d
        BY <2>1, <3>2 DEF TypeOK, BatchAt
      <4>2. x = [b EXCEPT !.tickets = {t \in b.tickets : t.deviceId # u} \cup {ticket}]
        BY <3>2 DEF StagedBatch
      <4>3. Q # {} \/ Cardinality(b.tickets) < MaxTickets
        BY <1>2, <4>1 DEF StageAllowed
      <4>4. IsFiniteSet(b.tickets) /\ Cardinality(b.tickets) <= MaxTickets
        BY <4>1 DEF Limits, StagingFinite, StagingBounded
      <4> HIDE DEF b, ticket
      <4>5. x.deviceKey = d /\ x.tickets = (b.tickets \ Q) \cup {ticket}
        BY <4>1, <4>2 DEF Batch
      <4> HIDE DEF x, Q
      <4>6. Q \subseteq b.tickets
        BY DEF Q
      <4>7. MaxTickets \in Nat
        BY DelaysAssumption
      <4>8. /\ IsFiniteSet((b.tickets \ Q) \cup {ticket})
            /\ Cardinality((b.tickets \ Q) \cup {ticket}) <= MaxTickets
        BY <4>3, <4>4, <4>6, <4>7, ReplaceCardinality
      <4>. QED
        BY <4>5, <4>8
    <3>. QED
      BY <3>1, <3>2
  <2> HIDE DEF x
  <2>4. StagingFinite'
    <3>1. IsFiniteSet((FreshBatches \ P) \cup {x})
      BY <2>2, FS_AddElement
    <3>. QED
      BY <2>1, <2>3, <3>1 DEF Limits, StagingFinite
  <2>5. ASSUME NEW e \in DeviceKeys
        PROVE  Cardinality({b \in batches' : b.deviceKey = e}) <= MaxBatchesPerDevice
    <3> DEFINE B == {b \in batches : b.deviceKey = e}
    <3> DEFINE F == {b \in FreshBatches : b.deviceKey = e}
    <3> DEFINE C == {b \in batches' : b.deviceKey = e}
    <3>1. IsFiniteSet(B) /\ F \subseteq B
      BY <2>1, FS_Subset DEF Limits, StagingFinite
    <3>2. Cardinality(B) <= MaxBatchesPerDevice
      BY DEF Limits, StagingBounded
    <3>3. CASE e # d
      <4>1. C \subseteq F
        BY <2>1, <2>3, <3>3
      <4> HIDE DEF B, F, C
      <4>2. Cardinality(C) <= Cardinality(B) /\ Cardinality(C) \in Nat /\ Cardinality(B) \in Nat
        BY <3>1, <4>1, FS_Subset, FS_CardinalityType
      <4>3. Cardinality(C) <= MaxBatchesPerDevice
        BY <3>2, <4>2, DelaysAssumption
      <4>. QED
        BY <4>3 DEF C
    <3>4. CASE e = d
      <4>1. C = (F \ P) \cup {x} /\ P \subseteq F
        BY <2>1, <2>3, <3>4 DEF BatchAt
      <4>2. P # {} \/ Cardinality(F) < MaxBatchesPerDevice
        BY <1>2, <3>4 DEF StageAllowed
      <4> HIDE DEF B, F, C, P
      <4>3. IsFiniteSet(F) /\ Cardinality(F) <= MaxBatchesPerDevice
        BY <3>1, <3>2, FS_Subset, FS_CardinalityType, DelaysAssumption
      <4>4. Cardinality(C) <= MaxBatchesPerDevice
        BY <4>1, <4>2, <4>3, ReplaceCardinality, DelaysAssumption
      <4>. QED
        BY <4>4 DEF C
    <3>. QED
      BY <3>3, <3>4
  <2>6. \A b \in batches' : Cardinality(b.tickets) <= MaxTickets
    BY <2>1, <2>3 DEF Limits, StagingBounded
  <2>. QED
    BY <2>4, <2>5, <2>6 DEF Limits, StagingBounded
<1>. QED
  BY <1>1, <1>2

LEMMA NextLimits == TypeOK /\ Limits /\ [Next]_vars => Limits'
<1> SUFFICES ASSUME TypeOK, Limits, [Next]_vars
             PROVE  Limits'
  OBVIOUS
<1>1. CASE StageStep
  BY <1>1, StageLimits DEF StageStep
<1>2. CASE ~StageStep
  <2>1. batches' \subseteq batches
    <3>1. ASSUME NEW d \in DeviceKeys, NEW i \in BatchIds, NEW s \in Sessions,
                 Commit(d, i, s) \/ CommitRefused(d, i, s)
          PROVE  batches' \subseteq batches
      BY <3>1, CleanupBatches DEF Commit, CommitRefused
    <3>2. ASSUME NEW d \in DeviceKeys, NEW s \in Sessions, Disarm(d, s) PROVE batches' \subseteq batches
      BY <3>2, CleanupBatches DEF Disarm
    <3>3. ASSUME NEW d \in DeviceKeys, AgentOnline(d) \/ AgentOffline(d) PROVE batches' \subseteq batches
      BY <3>3, CleanupBatches DEF AgentOnline, AgentOffline
    <3>4. CASE FireStep
      BY <3>4, CleanupBatches DEF FireStep, Fire
    <3>5. CASE SettleStep \/ Tick \/ UNCHANGED vars
      BY <3>5 DEF SettleStep, SettleFailed, SettleSent, Tick, vars, watchdogVars
    <3> QED BY <1>2, <3>1, <3>2, <3>3, <3>4, <3>5 DEF Next
  <2>. QED
    BY <2>1, FewerBatchesKeepLimits
<1>. QED
  BY <1>1, <1>2

-----------------------------------------------------------------------------
(***************************************************************************)
(* Devices.                                                                *)
(***************************************************************************)

\* A step that changes the entry of d leaves every other entry, and drops no
\* other device's batch that cleanup() would keep.
LEMMA StepIndependent ==
    ASSUME TypeOK, [Next]_vars, NEW d \in DeviceKeys, NEW e \in DeviceKeys,
           d # e, active'[d] # active[d]
    PROVE  /\ active'[e] = active[e]
           /\ \A b \in FreshBatches : b.deviceKey = e => b \in batches'
<1> DEFINE Touches(x) == /\ \A c \in DeviceKeys : c # x => active'[c] = active[c]
                         /\ \A b \in FreshBatches : b.deviceKey # x => b \in batches'
<1>1. SUFFICES \E x \in DeviceKeys : Touches(x)
  OBVIOUS
<1>2. FreshBatches \subseteq batches
  BY CleanupBatches
<1>3. CASE StageStep
  BY <1>3 DEF StageStep, Stage
<1>4. CASE \E x \in DeviceKeys, i \in BatchIds, s \in Sessions :
             Commit(x, i, s) \/ CommitRefused(x, i, s)
  BY <1>4 DEF Commit, CommitRefused, BatchesOfOthers, TypeOK
<1>5. CASE \E x \in DeviceKeys, s \in Sessions : Disarm(x, s)
  BY <1>5 DEF Disarm, BatchesOfOthers, TypeOK
<1>6. CASE \E x \in DeviceKeys : AgentOnline(x) \/ AgentOffline(x)
  BY <1>2, <1>6 DEF AgentOnline, AgentOffline, TypeOK
<1>7. CASE FireStep
  <2>1. PICK t \in timers : Fire(t)
    BY <1>7 DEF FireStep
  <2>2. t.deviceKey \in DeviceKeys
    BY DEF TypeOK, Timer
  <2>. QED
    BY <1>2, <2>1, <2>2 DEF Fire, BatchesOfOthers, TypeOK
<1>8. CASE SettleStep \/ Tick \/ UNCHANGED vars
  BY <1>8 DEF SettleStep, SettleFailed, SettleSent, Tick, vars, watchdogVars
<1>. QED
  BY <1>3, <1>4, <1>5, <1>6, <1>7, <1>8 DEF Next

-----------------------------------------------------------------------------
(***************************************************************************)
(* Theorems.                                                               *)
(***************************************************************************)

\* Every state of the watchdog is well typed.
THEOREM TypeCorrect == Spec => []TypeOK
<1>1. IInv => TypeOK
  BY DEF IInv
<1>. QED
  BY <1>1, SpecIInv, PTL

\* Whatever happens to an armed entry, no timer of its predecessor survives:
\* the callback guards of fire() never have anything to refuse.
THEOREM TimersNeverStale == Spec => []TimersBelongToEntry
<1>1. IInv => TimersBelongToEntry
  BY DEF IInv
<1>. QED
  BY <1>1, SpecIInv, PTL

\* A new flight never inherits the receipt of an earlier one.
THEOREM NoInheritedReceipt == Spec => []NoReceiptWhileArmed
<1>1. IInv => NoReceiptWhileArmed
  BY DEF IInv
<1>. QED
  BY <1>1, SpecIInv, PTL

\* No flight is armed with tickets sealed for another.
THEOREM OwnTicketsOnly == Spec => []ArmedWithOwnTickets
<1>1. IInv => ArmedWithOwnTickets
  BY DEF IInv, TicketsOwned
<1>. QED
  BY <1>1, SpecIInv, PTL

\* Each delivery is reported to the agent at most once, and only if a Push
\* service accepted it.
THEOREM ReportsAreTrue == Spec => []ReportedOnceAndOnlyIfAccepted
<1>1. IInv => ReportedOnceAndOnlyIfAccepted
  BY DEF IInv, Ids, CountersBounded, ReportedOnceAndOnlyIfAccepted
<1>. QED
  BY <1>1, SpecIInv, PTL

\* A delivery starts only after the agent was away for the whole grace period,
\* without a break, and carries no expired ticket.
THEOREM WholeGracePeriod == Spec => GraceRespected
<1>1. Spec => []DueAfterGrace
  BY InitGrace, NextGrace, SpecIInv, PTL DEF Spec
<1>2. IInv /\ DueAfterGrace /\ [Next]_vars =>
        [\A f \in sending' \ sending :
           /\ ~online[f.deviceKey]
           /\ now - offlineSince[f.deviceKey] >= OfflineDelay
           /\ \A k \in f.tickets : k.expiresAt > now]_vars
  BY StepGrace
<1>. QED
  BY <1>1, <1>2, SpecIInv, PTL DEF Spec, GraceRespected

\* Staging is bounded for every device, whatever the agent sends.
THEOREM StagingStaysBounded == Spec => []StagingBounded
<1>1. Spec => []Limits
  BY InitLimits, NextLimits, TypeCorrect, PTL DEF Spec
<1>2. Limits => StagingBounded
  BY DEF Limits
<1>. QED
  BY <1>1, <1>2, PTL

\* What one device does arms, disarms or empties no other device.
THEOREM DevicesAreIndependent == Spec => DevicesIndependent
<1>1. TypeOK /\ [Next]_vars =>
        [\A d, e \in DeviceKeys : d # e /\ active'[d] # active[d] =>
           /\ active'[e] = active[e]
           /\ \A b \in FreshBatches : b.deviceKey = e => b \in batches']_vars
  BY StepIndependent
<1>. QED
  BY <1>1, TypeCorrect, PTL DEF Spec, DevicesIndependent
\* Batches, tickets, timers, generations and receipts keep what OfflineNotice
\* promises: one notice for a watch, after the whole grace period, and the agent
\* hears at most once, of notices that arrived, and of the flight it ends only.
THEOREM WatchdogKeepsPromise == Spec => PromiseKept
<1>1. Spec => []DueAfterGrace
  BY InitGrace, NextGrace, SpecIInv, PTL DEF Spec
<1>. QED
  BY <1>1, InitPromise, NextPromise, SpecPInv, PTL DEF Spec, PromiseKept, Promise!NoticeSpec
=============================================================================
