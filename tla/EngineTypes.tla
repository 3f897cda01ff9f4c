------------------------------ MODULE EngineTypes ------------------------------
(***************************************************************************)
(* The type invariant of the engine.  Each group of variables is treated on *)
(* its own: a frame lemma says which steps touch the group, a step lemma    *)
(* that those steps keep its types.                                         *)
(***************************************************************************)
EXTENDS Engine, TLAPS, WellFoundedInduction

-----------------------------------------------------------------------------
(* Least elements.                                                          *)

LEMMA MinIs ==
    ASSUME NEW S, S \subseteq Nat, S # {}
    PROVE  Min(S) \in S /\ \A n \in S : Min(S) <= n
  <1>1. PICK x \in S : \A y \in S : <<y, x>> \notin OpToRel(<, Nat)
    BY NatLessThanWellFounded, WFMin
  <1>2. ASSUME NEW y \in S, y < x
        PROVE  <<y, x>> \in OpToRel(<, Nat)
    <2>1. <<y, x>> \in Nat \X Nat
      OBVIOUS
    <2>2. <<y, x>>[1] < <<y, x>>[2]
      BY <1>2
    <2> QED
      BY <2>1, <2>2, Zenon DEF OpToRel
  <1>3. ASSUME NEW y \in S
        PROVE  x <= y
    <2>1. ~(y < x)
      BY <1>1, <1>2
    <2>2. x \in Nat /\ y \in Nat
      OBVIOUS
    <2> QED
      BY <2>1, <2>2
  <1>4. Min(S) = CHOOSE n \in S : \A m \in S : n <= m
    BY DEF Min
  <1> QED
    BY <1>3, <1>4

\* The row the worker takes next is one of those it can take.
LEMMA NextPendingIs ==
    ASSUME AlertsTypeOK, Fetchable # {}
    PROVE  NextPending \in Fetchable
  <1> DEFINE pri(a) == Priority(rows[a].sev)
             best   == Min({pri(a) : a \in Fetchable})
             firsts == {a \in Fetchable : pri(a) = best}
  <1>1. \A a \in Fetchable : a \in Nat /\ pri(a) \in Nat
    <2> SUFFICES ASSUME NEW a \in Fetchable
                 PROVE  a \in Nat /\ pri(a) \in Nat
      OBVIOUS
    <2>1. a \in Alert /\ rows[a].sev \in Severity
      BY DEF Fetchable, AlertsTypeOK, Record
    <2>2. \E n \in 1 .. 4 : rows[a].sev = <<"CRITICAL", "HIGH", "MEDIUM", "LOW">>[n]
      <3>1. CASE rows[a].sev = "CRITICAL"
        BY <3>1
      <3>2. CASE rows[a].sev = "HIGH"
        BY <3>2
      <3>3. CASE rows[a].sev = "MEDIUM"
        BY <3>3
      <3>4. CASE rows[a].sev = "LOW"
        BY <3>4
      <3> QED
        BY <2>1, <3>1, <3>2, <3>3, <3>4 DEF Severity
    <2>3. pri(a) \in 1 .. 4
      BY <2>2 DEF Priority
    <2> QED
      BY <2>1, <2>3, AlertsAssumption DEF Alert
  <1>2. best \in {pri(a) : a \in Fetchable} /\ \A a \in Fetchable : best <= pri(a)
    <2> HIDE DEF pri
    <2>1. {pri(a) : a \in Fetchable} \subseteq Nat /\ {pri(a) : a \in Fetchable} # {}
      BY <1>1
    <2> QED
      BY <2>1, MinIs
  <1>3. firsts \subseteq Nat /\ firsts # {}
    BY <1>1, <1>2
  <1>4. Min(firsts) \in firsts /\ \A a \in firsts : Min(firsts) <= a
    BY <1>3, MinIs
  <1>5. \E a \in Fetchable : \A b \in Fetchable : Before(a, b)
    <2> DEFINE m == Min(firsts)
    <2>1. m \in Fetchable /\ pri(m) = best
      BY <1>4
    <2>2. ASSUME NEW b \in Fetchable
          PROVE  pri(m) < pri(b) \/ (pri(m) = pri(b) /\ m <= b)
      <3>1. best <= pri(b)
        BY <1>2
      <3>2. pri(b) = best => m <= b
        BY <1>4
      <3>3. pri(b) \in Nat /\ best \in Nat
        BY <1>1, <2>1
      <3> HIDE DEF pri, best, m
      <3> QED
        BY <2>1, <3>1, <3>2, <3>3
    <2>3. \A b \in Fetchable : Before(m, b)
      BY <2>2 DEF Before
    <2> QED
      BY <2>1, <2>3
  <1> QED
    BY <1>5 DEF NextPending

-----------------------------------------------------------------------------
(* Alerts.                                                                  *)

\* What a step does to the rows, the breaker and the worker.
AlertsMove ==
    \/ UNCHANGED alertVars
    \/ AlertsStep
    \/ (\E sev \in Severity, key \in Key : Enqueue(sev, key)) /\ UNCHANGED <<breaker, worker, told>>
    \/ /\ Crash \/ Exit \/ Detach
       /\ UNCHANGED <<rows, told>> /\ breaker' \in {breaker, Closed} /\ worker' \in {worker, Asleep}

LEMMA BridgeAlerts ==
    ASSUME BridgeStep
    PROVE  AlertsMove
  <1>1. CASE \/ Boot \/ Build \/ AttachRaises \/ RecoveryEnters \/ RecoveryResubscribes
             \/ ResubscribeBreaks \/ RecoveryReleases \/ Shutdown
    BY <1>1 DEF AlertsMove, Boot, Build, AttachRaises, RecoveryEnters, RecoveryResubscribes,
                ResubscribeBreaks, RecoveryReleases, Shutdown, Disconnected
  <1>2. CASE RecoveryReports
    BY <1>2 DEF RecoveryReports, AlertsMove, Severity
  <1>3. CASE Crash \/ Exit
    BY <1>3 DEF Crash, Exit, ProcessEnds, AlertsMove
  <1>4. CASE Detach
    BY <1>4 DEF Detach, Cancels, AlertsMove
  <1>5. CASE \/ WebPause \/ WebResume \/ TelegramStop \/ TelegramResume
             \/ WindowOpens \/ WindowEnds
    BY <1>5 DEF WebPause, WebResume, TelegramStop, TelegramResume, WindowOpens, WindowEnds,
                KeepsParts, AlertsMove
  <1>6. CASE \/ MaintenanceEnters \/ MaintenanceReleases \/ MaintenanceCatchesUp
             \/ MaintenanceSnapshots \/ CallAsksToken
    BY <1>6 DEF MaintenanceEnters, MaintenanceReleases, MaintenanceCatchesUp,
                MaintenanceSnapshots, CallAsksToken, KeepsParts, AlertsMove
  <1>7. CASE MaintenanceTells
    BY <1>7 DEF MaintenanceTells, Notified, NotifyRaises, AlertsMove, Severity, alertVars
  <1> QED
    BY <1>1, <1>2, <1>3, <1>4, <1>5, <1>6, <1>7 DEF BridgeStep, BridgeAlone, Commanded, MaintenanceLoop

LEMMA StreamAlerts ==
    ASSUME StreamStep
    PROVE  AlertsMove
  <1>1. CASE \/ Dial \/ Connect \/ BrokerRefuses \/ TransportFails \/ ServerCloses
             \/ RestoreSubscriptions \/ ReadOther \/ TokenRejected \/ TokenAges \/ Halt \/ Resume
    BY <1>1 DEF Dial, Connect, BrokerRefuses, TransportFails, ServerCloses, Disconnected,
                RestoreSubscriptions, ReadOther, TokenRejected, TokenAges, Halt, Resume, AlertsMove
  <1>2. CASE ReadVI \/ Heard \/ CatchUp
    BY <1>2 DEF ReadVI, Heard, CatchUp, AlertsMove
  <1>3. CASE Resettle \/ TakeSnapshot
    BY <1>3 DEF Resettle, TakeSnapshot, KeepsStream, AlertsMove, alertVars
  <1>4. CASE TellTriggered \/ TellSnapshot
    BY <1>4 DEF TellTriggered, TellSnapshot, Notified, NotifyRaises, KeepsStream, AlertsMove,
                alertVars, Severity
  <1>5. CASE TellResumed
    BY <1>5 DEF TellResumed, Notified, NotifyRaises, KeepsStream, AlertsMove, alertVars, Severity
  <1> QED
    BY <1>1, <1>2, <1>3, <1>4, <1>5 DEF StreamStep, Receive

LEMMA FeedAlerts ==
    ASSUME FeedStep
    PROVE  UNCHANGED alertVars
  <1>1. CASE \/ NextBucket \/ ClockSetBack \/ SessionCloses \/ NextDay \/ ReadTick
             \/ FlushLists \/ FlushWrites \/ FlushFails \/ RowCloses
    BY <1>1 DEF NextBucket, ClockSetBack, SessionCloses, NextDay, ReadTick, FlushLists,
                FlushWrites, FlushFails, RowCloses, OtherVars
  <1>2. CASE EodStarts \/ EodFetched \/ EodFails \/ PrimeFetched \/ PrimeFails
    BY <1>2 DEF EodStarts, EodFetched, EodFails, PrimeFetched, PrimeFails, OtherVars
  <1> QED
    BY <1>1, <1>2 DEF FeedStep

LEMMA AlertsFrame ==
    ASSUME Next
    PROVE  AlertsMove
  <1>1. CASE BridgeStep
    BY <1>1, BridgeAlerts
  <1>2. CASE AlertsStep
    BY <1>2 DEF AlertsMove
  <1>3. CASE StreamStep
    BY <1>3, StreamAlerts
  <1>4. CASE FeedStep
    BY <1>4, FeedAlerts DEF AlertsMove
  <1> QED
    BY <1>1, <1>2, <1>3, <1>4 DEF Next, Step, TasksStep

\* A new row is a row.
LEMMA EnqueueTypes ==
    ASSUME AlertsTypeOK, NEW sev \in Severity, NEW key \in Key, Enqueue(sev, key)
    PROVE  rows' \in [Alert -> Record]
  <1> DEFINE new == [sev |-> sev, key |-> key, status |-> "PENDING", aged |-> FALSE]
  <1>1. new \in Record
    BY DEF Record
  <1>2. rows \in [Alert -> Record]
    BY DEF AlertsTypeOK
  <1> HIDE DEF new
  <1>3. rows' = rows \/ rows' = [rows EXCEPT ![Min(Absent)] = new]
    BY DEF Enqueue, new
  <1> QED
    BY <1>1, <1>2, <1>3

LEMMA StatusTypes ==
    ASSUME NEW r \in Record,
           NEW status \in {"absent", "PENDING", "SENT", "FAILED", "EXPIRED"}, NEW aged \in BOOLEAN
    PROVE  [r EXCEPT !.status = status] \in Record /\ [r EXCEPT !.aged = aged] \in Record
  BY DEF Record

LEMMA BreakerTypes ==
    ASSUME AlertsTypeOK
    PROVE  LET B == [state : {"CLOSED", "OPEN", "HALF_OPEN"}, failures : 0 .. TripAfter, due : BOOLEAN]
           IN  /\ Closed \in B /\ Looked(breaker) \in B /\ AfterFailure(breaker) \in B
               /\ [breaker EXCEPT !.due = TRUE] \in B
  <1> DEFINE B == [state : {"CLOSED", "OPEN", "HALF_OPEN"}, failures : 0 .. TripAfter, due : BOOLEAN]
  <1>1. breaker \in B
    BY DEF AlertsTypeOK
  <1>2. Closed \in B /\ Tripped \in B
    BY AlertsAssumption DEF Closed, Tripped
  <1>3. AfterFailure(breaker) \in B
    <2>1. CASE \/ breaker.state = "OPEN" /\ ~breaker.due
               \/ breaker.state = "HALF_OPEN" \/ breaker.failures + 1 >= TripAfter
      <3>1. AfterFailure(breaker) = breaker \/ AfterFailure(breaker) = Tripped
        BY <2>1 DEF AfterFailure
      <3> QED
        BY <1>1, <1>2, <3>1
    <2>2. CASE ~(\/ breaker.state = "OPEN" /\ ~breaker.due
                 \/ breaker.state = "HALF_OPEN" \/ breaker.failures + 1 >= TripAfter)
      <3>1. AfterFailure(breaker) = [breaker EXCEPT !.failures = @ + 1]
        BY <2>2 DEF AfterFailure
      <3>2. breaker.failures + 1 \in 0 .. TripAfter
        BY <1>1, <2>2, AlertsAssumption
      <3> QED
        BY <1>1, <3>1, <3>2
    <2> QED
      BY <2>1, <2>2
  <1>4. Looked(breaker) \in B /\ [breaker EXCEPT !.due = TRUE] \in B
    BY <1>1 DEF Looked
  <1> QED
    BY <1>2, <1>3, <1>4

\* The worker shows a row once more.
LEMMA ToldTypes ==
    ASSUME AlertsTypeOK, NEW a
    PROVE  [told EXCEPT ![a] = @ + 1] \in [Alert -> Nat]
  <1>1. told \in [Alert -> Nat]
    BY DEF AlertsTypeOK
  <1>2. a \in Alert => told[a] + 1 \in Nat
    BY <1>1
  <1> QED
    BY <1>1, <1>2

LEMMA WorkerTypes ==
    ASSUME AlertsTypeOK, AlertsStep
    PROVE  AlertsTypeOK'
  <1> USE DEF AlertsTypeOK
  <1>1. CASE Expire
    <2>1. rows' \in [Alert -> Record]
      BY <1>1, StatusTypes DEF Expire
    <2> QED
      BY <1>1, <2>1 DEF Expire
  <1>2. CASE Fetch
    <2>1. Fetchable # {} => NextPending \in Alert
      BY NextPendingIs DEF Fetchable
    <2>2. worker' \in [pc : {"idle", "fetch", "send", "sent", "unsent"}, row : 0 .. MaxAlerts,
                       tries : 0 .. CriticalTries]
      BY <1>2, <2>1, AlertsAssumption DEF Fetch, Asleep, Alert
    <2> QED
      BY <1>2, <2>2, BreakerTypes DEF Fetch
  <1>3. CASE SendAccepted
    BY <1>3, BreakerTypes, ToldTypes DEF SendAccepted, Accepted
  <1>4. CASE SendFails
    <2>1. worker' \in [pc : {"idle", "fetch", "send", "sent", "unsent"}, row : 0 .. MaxAlerts,
                       tries : 0 .. CriticalTries]
      BY <1>4, AlertsAssumption DEF SendFails
    <2> QED
      BY <1>4, <2>1, BreakerTypes, ToldTypes DEF SendFails
  <1>5. CASE MarkRow
    <2>1. Outcome(worker) \in {"absent", "PENDING", "SENT", "FAILED", "EXPIRED"}
      BY DEF Outcome
    <2>2. rows' \in [Alert -> Record]
      BY <1>5, <2>1, StatusTypes DEF MarkRow
    <2> QED
      BY <1>5, <2>2, AlertsAssumption DEF MarkRow, Asleep
  <1>6. CASE StepRaises
    BY <1>6, AlertsAssumption DEF StepRaises, Asleep
  <1>7. CASE BreakerTimesOut
    BY <1>7, BreakerTypes DEF BreakerTimesOut
  <1>8. CASE AlertsAge
    <2>1. rows' \in [Alert -> Record]
      BY <1>8, StatusTypes DEF AlertsAge
    <2> QED
      BY <1>8, <2>1 DEF AlertsAge
  <1>9. CASE OthersNotify
    BY <1>9, EnqueueTypes DEF OthersNotify
  <1> QED
    BY <1>1, <1>2, <1>3, <1>4, <1>5, <1>6, <1>7, <1>8, <1>9 DEF AlertsStep, WorkerStep

LEMMA AlertsTypes ==
    ASSUME AlertsTypeOK, AlertsMove
    PROVE  AlertsTypeOK'
  <1>1. CASE UNCHANGED alertVars
    BY <1>1 DEF AlertsTypeOK, alertVars
  <1>2. CASE AlertsStep
    BY <1>2, WorkerTypes
  <1>3. CASE /\ \E sev \in Severity, key \in Key : Enqueue(sev, key)
             /\ UNCHANGED <<breaker, worker, told>>
    BY <1>3, EnqueueTypes DEF AlertsTypeOK
  <1>4. CASE /\ UNCHANGED <<rows, told>>
             /\ breaker' \in {breaker, Closed} /\ worker' \in {worker, Asleep}
    <2>1. Asleep \in [pc : {"idle", "fetch", "send", "sent", "unsent"}, row : 0 .. MaxAlerts,
                      tries : 0 .. CriticalTries]
      BY AlertsAssumption DEF Asleep
    <2> QED
      BY <1>4, <2>1, BreakerTypes DEF AlertsTypeOK
  <1> QED
    BY <1>1, <1>2, <1>3, <1>4 DEF AlertsMove

-----------------------------------------------------------------------------
(* Stream.                                                                  *)

\* A run loop that has not ended has refusals left.
AuthOK(w) == w.st # "closed" => w.auth < MaxAuth

StreamInv == StreamTypeOK /\ AuthOK(ws)

LEMMA ConnectionTypes ==
    ASSUME NEW w \in Connection, AuthOK(w), w.st # "closed"
    PROVE  /\ TransportFailed(w) \in Connection /\ AuthOK(TransportFailed(w))
           /\ AuthFailed(w) \in Connection /\ AuthOK(AuthFailed(w))
           /\ \A st \in {"idle", "dialing", "connected"} :
                  [w EXCEPT !.st = st] \in Connection /\ AuthOK([w EXCEPT !.st = st])
  <1> USE StreamAssumption DEF Connection, AuthOK, Counted
  <1>1. CountFailure(w) \in Connection /\ CountFailure(w).auth = w.auth /\ CountFailure(w).st = w.st
    BY DEF CountFailure
  <1>2. ASSUME NEW c \in Connection
        PROVE  Sleeping(c) \in Connection /\ Sleeping(c).auth = c.auth /\ Sleeping(c).st # "closed"
    BY DEF Sleeping
  <1>3. TransportFailed(w) \in Connection /\ AuthOK(TransportFailed(w))
    <2> HIDE DEF Connection
    <2>1. TransportFailed(w) \in Connection /\ TransportFailed(w).auth = w.auth
      BY <1>1, <1>2 DEF TransportFailed
    <2> QED
      BY <2>1
  <1>4. AuthFailed(w) \in Connection /\ AuthOK(AuthFailed(w))
    <2> DEFINE c == [CountFailure(w) EXCEPT !.auth = @ + 1]
    <2>1. c \in Connection /\ c.auth = w.auth + 1
      BY <1>1
    <2>2. CASE c.auth >= MaxAuth
      <3>1. AuthFailed(w) = [c EXCEPT !.st = "closed"]
        BY <2>2 DEF AuthFailed
      <3> HIDE DEF c
      <3> QED
        BY <2>1, <3>1
    <2>3. CASE ~(c.auth >= MaxAuth)
      <3>1. AuthFailed(w) = Sleeping(c)
        BY <2>3 DEF AuthFailed
      <3> HIDE DEF c
      <3>2. c.auth \in Nat /\ c.auth < MaxAuth
        BY <2>1, <2>3
      <3> QED
        BY <1>2, <2>1, <3>1, <3>2
    <2> QED
      BY <2>2, <2>3
  <1>5. ASSUME NEW st \in {"idle", "dialing", "connected"}
        PROVE  [w EXCEPT !.st = st] \in Connection /\ AuthOK([w EXCEPT !.st = st])
    OBVIOUS
  <1> QED
    BY <1>3, <1>4, <1>5

LEMMA ResetTypes ==
    ASSUME NEW w \in Connection
    PROVE  /\ [w EXCEPT !.fails = 0, !.auth = 0] \in Connection
           /\ AuthOK([w EXCEPT !.fails = 0, !.auth = 0])
           /\ [w EXCEPT !.st = "closed"] \in Connection /\ AuthOK([w EXCEPT !.st = "closed"])
           /\ NewConnection \in Connection /\ AuthOK(NewConnection)
  <1> USE StreamAssumption DEF Connection, AuthOK, Counted
  <1>1. /\ [w EXCEPT !.fails = 0, !.auth = 0] \in Connection
        /\ AuthOK([w EXCEPT !.fails = 0, !.auth = 0])
    <2>1. [w EXCEPT !.fails = 0] \in Connection
      OBVIOUS
    <2>2. \A v \in Connection : [v EXCEPT !.auth = 0] \in Connection /\ AuthOK([v EXCEPT !.auth = 0])
      OBVIOUS
    <2>3. [w EXCEPT !.fails = 0, !.auth = 0] = [[w EXCEPT !.fails = 0] EXCEPT !.auth = 0]
      BY Zenon
    <2> HIDE DEF Connection, AuthOK
    <2> QED
      BY <2>1, <2>2, <2>3
  <1>2. [w EXCEPT !.st = "closed"] \in Connection /\ AuthOK([w EXCEPT !.st = "closed"])
    OBVIOUS
  <1>3. NewConnection \in Connection /\ AuthOK(NewConnection)
    BY DEF NewConnection
  <1> QED
    BY <1>1, <1>2, <1>3

LEMMA ConnectionSteps ==
    ASSUME StreamInv,
           \/ Dial \/ Connect \/ BrokerRefuses \/ TransportFails \/ ServerCloses
           \/ RestoreSubscriptions \/ TokenRejected \/ TokenAges
    PROVE  StreamInv'
  <1> USE DEF StreamInv, StreamTypeOK
  <1>0. << >> \in Seq({"on", "off"})
    OBVIOUS
  <1>1. CASE Dial
    BY <1>1, ConnectionTypes DEF Dial, GetToken
  <1>2. CASE Connect
    BY <1>2, ConnectionTypes DEF Connect
  <1>3. CASE BrokerRefuses
    BY <1>0, <1>3, ConnectionTypes DEF BrokerRefuses, Disconnected
  <1>4. CASE TransportFails
    BY <1>0, <1>4, ConnectionTypes DEF TransportFails, Disconnected
  <1>5. CASE ServerCloses
    BY <1>0, <1>5, ConnectionTypes DEF ServerCloses, Disconnected
  <1>6. CASE RestoreSubscriptions
    BY <1>6 DEF RestoreSubscriptions
  <1>7. CASE TokenRejected \/ TokenAges
    BY <1>7 DEF TokenRejected, TokenAges
  <1> QED
    BY <1>1, <1>2, <1>3, <1>4, <1>5, <1>6, <1>7

LEMMA SnapshotTypes ==
    ASSUME StreamTypeOK
    PROVE  /\ Snapshot \in [state : {"NORMAL", "TRIGGERED", "RESUMED"}, recovered : BOOLEAN]
           /\ \A st \in {"NORMAL", "TRIGGERED", "RESUMED"} :
                  [vi EXCEPT !.state = st] \in [state : {"NORMAL", "TRIGGERED", "RESUMED"},
                                                recovered : BOOLEAN]
  BY DEF StreamTypeOK, Snapshot, Triggered

LEMMA ReceiveSteps ==
    ASSUME StreamInv, ReadOther \/ Receive \/ Halt \/ Resume
    PROVE  StreamInv'
  <1> USE DEF StreamInv, StreamTypeOK
  <1>1. CASE ReadVI
    <2>1. inbox' \in Seq({"on", "off"})
      BY <1>1 DEF ReadVI
    <2>2. vi' \in [state : {"NORMAL", "TRIGGERED", "RESUMED"}, recovered : BOOLEAN]
      BY <1>1, SnapshotTypes DEF ReadVI, Triggered
    <2> QED
      BY <1>1, <2>1, <2>2 DEF ReadVI
  <1>2. CASE ReadOther
    BY <1>2 DEF ReadOther
  <1>3. CASE TellTriggered \/ TellResumed \/ TellSnapshot
    BY <1>3 DEF TellTriggered, TellResumed, TellSnapshot, KeepsStream
  <1>4. CASE Resettle
    BY <1>4 DEF Resettle, KeepsStream
  <1>5. CASE Heard
    BY <1>5, ResetTypes DEF Heard
  <1>6. CASE CatchUp
    BY <1>6 DEF CatchUp, GetToken
  <1>7. CASE TakeSnapshot
    BY <1>7, SnapshotTypes DEF TakeSnapshot, KeepsStream
  <1>8. CASE Halt \/ Resume
    <2>1. Append(inbox, "on") \in Seq({"on", "off"}) /\ Append(inbox, "off") \in Seq({"on", "off"})
      OBVIOUS
    <2>2. market' \in [halted : BOOLEAN, listed : BOOLEAN]
      <3>1. CASE Halt
        BY <3>1 DEF Halt
      <3>2. CASE Resume
        BY <3>2 DEF Resume
      <3> QED
        BY <1>8, <3>1, <3>2
    <2> QED
      BY <1>8, <2>1, <2>2 DEF Halt, Resume
  <1> QED
    BY <1>1, <1>2, <1>3, <1>4, <1>5, <1>6, <1>7, <1>8 DEF Receive

\* The steps of the bridge that reach the stream.
BridgeStreams ==
    \/ Build \/ RecoveryEnters \/ RecoveryResubscribes \/ ResubscribeBreaks
    \/ Crash \/ Detach \/ Exit
    \/ MaintenanceCatchesUp \/ MaintenanceSnapshots \/ CallAsksToken

LEMMA StreamFrame ==
    ASSUME Next
    PROVE  UNCHANGED streamVars \/ StreamStep \/ BridgeStreams \/ ReadTick \/ EodStarts
  <1>1. CASE BridgeStep
    <2>1. CASE Boot \/ AttachRaises \/ RecoveryReleases \/ RecoveryReports \/ Shutdown
      BY <2>1 DEF Boot, AttachRaises, RecoveryReleases, RecoveryReports, Shutdown
    <2>2. CASE \/ WebPause \/ WebResume \/ TelegramStop \/ TelegramResume
               \/ WindowOpens \/ WindowEnds
      BY <2>2 DEF WebPause, WebResume, TelegramStop, TelegramResume, WindowOpens, WindowEnds,
                  KeepsParts
    <2>3. CASE MaintenanceEnters \/ MaintenanceReleases \/ MaintenanceTells
      BY <2>3 DEF MaintenanceEnters, MaintenanceReleases, MaintenanceTells, KeepsParts
    <2> QED
      BY <1>1, <2>1, <2>2, <2>3 DEF BridgeStep, BridgeAlone, Commanded, MaintenanceLoop, BridgeStreams
  <1>2. CASE FeedStep
    <2>1. CASE \/ NextBucket \/ ClockSetBack \/ SessionCloses \/ NextDay
               \/ FlushLists \/ FlushWrites \/ FlushFails \/ RowCloses \/ EodFetched \/ EodFails
      BY <2>1 DEF NextBucket, ClockSetBack, SessionCloses, NextDay, FlushLists, FlushWrites,
                  FlushFails, RowCloses, EodFetched, EodFails, OtherVars
    <2>2. CASE PrimeFetched \/ PrimeFails
      BY <2>2 DEF PrimeFetched, PrimeFails
    <2> QED
      BY <1>2, <2>1, <2>2 DEF FeedStep
  <1> QED
    BY <1>1, <1>2 DEF Next, Step, TasksStep

LEMMA BridgeStreamTypes ==
    ASSUME StreamInv, BridgeStreams
    PROVE  StreamInv'
  <1> USE DEF StreamInv, StreamTypeOK
  <1>0. << >> \in Seq({"on", "off"})
    OBVIOUS
  <1>1. CASE Build
    <2>1. NewConnection \in Connection /\ AuthOK(NewConnection)
      BY ResetTypes
    <2> QED
      BY <1>1, <2>1 DEF Build, NoSubs, Channel
  <1>2. CASE RecoveryEnters \/ MaintenanceCatchesUp \/ CallAsksToken
    BY <1>2 DEF RecoveryEnters, MaintenanceCatchesUp, CallAsksToken, GetToken
  <1>3. CASE RecoveryResubscribes
    BY <1>3 DEF RecoveryResubscribes, Subscribed, Channel
  <1>4. CASE ResubscribeBreaks
    BY <1>0, <1>4, ConnectionTypes DEF ResubscribeBreaks, Disconnected, Channel
  <1>5. CASE Crash \/ Exit
    <2>1. ProcessEnds
      BY <1>5 DEF Crash, Exit
    <2>2. ws' \in Connection /\ AuthOK(ws')
      BY <2>1, ResetTypes DEF ProcessEnds
    <2>3. subs' \in [want : SUBSET Channel, reg : SUBSET Channel]
      BY <2>1 DEF ProcessEnds, NoSubs
    <2>4. vi' \in [state : {"NORMAL", "TRIGGERED", "RESUMED"}, recovered : BOOLEAN]
      BY <2>1 DEF ProcessEnds, NewMonitor
    <2> QED
      BY <1>0, <2>1, <2>2, <2>3, <2>4 DEF ProcessEnds
  <1>6. CASE Detach
    <2>1. UNCHANGED <<token, market, vi>>
      BY <1>6 DEF Detach
    <2>2. CASE "websocket" \in Teardown[Min(Standing)]
      <3>1. /\ ws' = [ws EXCEPT !.st = "closed"] /\ subs' = NoSubs /\ recv' = "wait"
            /\ inbox' = << >> /\ unheard' = FALSE
        BY <1>6, <2>2 DEF Detach, Cancels
      <3>2. ws' \in Connection /\ AuthOK(ws')
        BY <3>1, ResetTypes
      <3>3. subs' \in [want : SUBSET Channel, reg : SUBSET Channel]
        BY <3>1 DEF NoSubs
      <3> QED
        BY <1>0, <2>1, <3>1, <3>2, <3>3
    <2>3. CASE "websocket" \notin Teardown[Min(Standing)]
      BY <1>6, <2>1, <2>3 DEF Detach, Cancels
    <2> QED
      BY <2>2, <2>3
  <1>7. CASE MaintenanceSnapshots
    BY <1>7, SnapshotTypes DEF MaintenanceSnapshots
  <1> QED
    BY <1>1, <1>2, <1>3, <1>4, <1>5, <1>6, <1>7 DEF BridgeStreams

LEMMA StreamTypes ==
    ASSUME StreamInv, Next
    PROVE  StreamInv'
  <1>1. CASE UNCHANGED streamVars
    BY <1>1 DEF StreamInv, StreamTypeOK, streamVars
  <1>2. CASE StreamStep
    BY <1>2, ConnectionSteps, ReceiveSteps DEF StreamStep
  <1>3. CASE BridgeStreams
    BY <1>3, BridgeStreamTypes
  <1>4. CASE ReadTick \/ EodStarts
    BY <1>4 DEF ReadTick, EodStarts, GetToken, StreamInv, StreamTypeOK
  <1> QED
    BY <1>1, <1>2, <1>3, <1>4, StreamFrame

-----------------------------------------------------------------------------
(* Feed.                                                                    *)

BarType == [start : 0 .. MaxBucket, volume : Nat]

SentType == [ticks : [Bucket -> Nat], bar : 0 .. MaxBucket, exact : BOOLEAN,
             daily : SUBSET Nat, once : BOOLEAN, since : Nat]

QuoteType == [got : Quoted, published : Nat, flushing : Quoted, listed : BOOLEAN]

DailyType == [seen : SUBSET Nat, last : Nat, eod : Nat, prime : Nat]

ClockType == [bucket : Bucket, day : Nat, closed : BOOLEAN]

RowType == [status : {"OPEN", "CLOSED"}, price : Nat, at : Nat]

\* The types again, one name each.
Typed ==
    /\ clock \in ClockType /\ daily \in DailyType /\ quote \in QuoteType
    /\ row \in RowType /\ sent \in SentType
    /\ bar \in BarType
    /\ ticks \in Nat

LEMMA TypedIs == (FeedTypeOK <=> Typed) /\ (FeedTypeOK' <=> Typed')
  BY DEF FeedTypeOK, Typed, BarType, ClockType, DailyType, QuoteType, RowType, SentType

LEMMA DailyTypes ==
    ASSUME NEW d \in DailyType, NEW s \in SUBSET Nat, NEW l \in Nat, NEW e \in Nat, NEW p \in Nat
    PROVE  /\ [d EXCEPT !.eod = e] \in DailyType
           /\ [d EXCEPT !.prime = p] \in DailyType
           /\ [d EXCEPT !.eod = e, !.last = l] \in DailyType
           /\ [d EXCEPT !.prime = p, !.seen = s] \in DailyType
           /\ [d EXCEPT !.prime = p, !.eod = e] \in DailyType
           /\ [d EXCEPT !.eod = e, !.last = l, !.seen = s] \in DailyType
  BY DEF DailyType

LEMMA QuoteTypes ==
    ASSUME NEW q \in QuoteType, NEW f \in Quoted, NEW b \in BOOLEAN, NEW n \in Nat
    PROVE  /\ [q EXCEPT !.flushing = f, !.listed = b] \in QuoteType
           /\ [q EXCEPT !.published = n, !.flushing = f, !.listed = b] \in QuoteType
           /\ NoQuote \in Quoted
  <1>1. NoQuote \in Quoted
    BY FeedAssumption DEF NoQuote, Quoted
  <1> QED
    BY <1>1 DEF QuoteType

\* What a tick of a bucket makes of the bar and of what was sent.
LEMMA TickTypes ==
    ASSUME Typed, NEW b \in Bucket
    PROVE  AfterTick(b) \in BarType /\ SentAfter(b) \in SentType
  <1>1. bar \in BarType /\ sent \in SentType
    BY DEF Typed
  <1>2. AfterTick(b) \in BarType
    <2>1. b \in 0 .. MaxBucket
      BY FeedAssumption DEF Bucket
    <2>2. [start |-> b, volume |-> 1] \in BarType
      BY <2>1 DEF BarType
    <2> QED
      BY <1>1, <2>2 DEF AfterTick, BarType
  <1>3. SentAfter(b) \in SentType
    <2> DEFINE counts == Counts(b)
               last   == IF Finishes(b) THEN bar.start ELSE sent.bar
               exact  == sent.exact /\ (Finishes(b) => bar.start > sent.bar
                                                       /\ bar.volume = sent.ticks[bar.start])
    <2>1. counts \in [Bucket -> Nat]
      BY <1>1 DEF Counts, SentType
    <2>2. last \in 0 .. MaxBucket /\ exact \in BOOLEAN
      BY <1>1 DEF SentType, BarType
    <2>3. SentAfter(b) = [sent EXCEPT !.ticks = counts, !.bar = last, !.exact = exact]
      BY DEF SentAfter
    <2> HIDE DEF counts, last, exact
    <2> QED
      BY <1>1, <2>1, <2>2, <2>3 DEF SentType
  <1> QED
    BY <1>2, <1>3

LEMMA ReceivedTypes ==
    ASSUME Typed, NEW p \in Quote
    PROVE  Received(p) \in QuoteType
  <1>1. quote \in QuoteType /\ ticks \in Nat
    BY DEF Typed
  <1>2. [price |-> p, at |-> ticks + 1] \in Quoted
    BY <1>1, FeedAssumption DEF Quoted
  <1> QED
    BY <1>1, <1>2 DEF Received, QuoteType

\* The bar and the publisher a stop leaves.
LEMMA StopTypes ==
    ASSUME Typed
    PROVE  /\ NoBar \in BarType /\ NewPublisher \in QuoteType /\ NewDaily \in DailyType
           /\ NothingSent \in SentType /\ SentOnStop \in SentType
  <1>1. NoBar \in BarType
    BY FeedAssumption DEF NoBar, BarType
  <1>2. NewPublisher \in QuoteType
    BY FeedAssumption DEF NewPublisher, QuoteType, Quoted, NoQuote
  <1>3. NothingSent \in SentType
    BY FeedAssumption DEF NothingSent, SentType
  <1>4. SentOnStop \in SentType
    <2> DEFINE exact == sent.exact /\ bar.start > sent.bar /\ bar.volume = sent.ticks[bar.start]
    <2>1. sent \in SentType /\ bar.start \in 0 .. MaxBucket /\ exact \in BOOLEAN
      BY DEF Typed, BarType, SentType
    <2>2. SentOnStop = sent \/ SentOnStop = [sent EXCEPT !.bar = bar.start, !.exact = exact]
      BY DEF SentOnStop
    <2> HIDE DEF exact
    <2> QED
      BY <2>1, <2>2 DEF SentType
  <1>5. NewDaily \in DailyType
    BY FeedAssumption DEF NewDaily, DailyType
  <1> QED
    BY <1>1, <1>2, <1>3, <1>4, <1>5

LEMMA FeedFrame ==
    ASSUME Next
    PROVE  UNCHANGED feedVars \/ FeedStep \/ Build \/ ProcessEnds \/ Detach
  <1>1. CASE BridgeStep
    <2>1. CASE \/ Boot \/ AttachRaises \/ RecoveryEnters \/ RecoveryResubscribes
               \/ ResubscribeBreaks \/ RecoveryReleases \/ RecoveryReports \/ Shutdown
      BY <2>1 DEF Boot, AttachRaises, RecoveryEnters, RecoveryResubscribes, ResubscribeBreaks,
                  RecoveryReleases, RecoveryReports, Shutdown
    <2>2. CASE \/ WebPause \/ WebResume \/ TelegramStop \/ TelegramResume
               \/ WindowOpens \/ WindowEnds
      BY <2>2 DEF WebPause, WebResume, TelegramStop, TelegramResume, WindowOpens, WindowEnds,
                  KeepsParts
    <2>3. CASE MaintenanceLoop \/ CallAsksToken
      BY <2>3 DEF MaintenanceLoop, MaintenanceEnters, MaintenanceReleases, MaintenanceCatchesUp,
                  MaintenanceSnapshots, MaintenanceTells, CallAsksToken, KeepsParts
    <2>4. CASE Crash \/ Exit
      BY <2>4 DEF Crash, Exit
    <2> QED
      BY <1>1, <2>1, <2>2, <2>3, <2>4 DEF BridgeStep, BridgeAlone, Commanded
  <1> QED
    BY <1>1 DEF Next, Step, TasksStep

LEMMA ClockSteps ==
    ASSUME Typed, NextBucket \/ ClockSetBack \/ SessionCloses \/ NextDay
    PROVE  Typed'
  <1>1. CASE NextBucket \/ ClockSetBack
    <2>1. /\ NextBucket => clock.bucket + 1 \in Bucket
          /\ ClockSetBack => clock.bucket - 1 \in Bucket
      BY FeedAssumption DEF NextBucket, ClockSetBack, Typed, ClockType, Bucket
    <2>2. clock' \in ClockType
      BY <1>1, <2>1 DEF NextBucket, ClockSetBack, Typed, ClockType
    <2> QED
      BY <1>1, <2>2 DEF NextBucket, ClockSetBack, Typed
  <1>2. CASE SessionCloses
    <2>1. clock' \in ClockType
      BY <1>2 DEF SessionCloses, Typed, ClockType
    <2> QED
      BY <1>2, <2>1 DEF SessionCloses, Typed
  <1>3. CASE NextDay
    <2>1. clock' \in ClockType
      BY <1>3 DEF NextDay, Typed, ClockType
    <2> QED
      BY <1>3, <2>1 DEF NextDay, Typed
  <1> QED
    BY <1>1, <1>2, <1>3

LEMMA ReadTickTypes ==
    ASSUME Typed, ReadTick
    PROVE  Typed'
  <1>1. PICK p \in Quote : quote' = Received(p)
    BY DEF ReadTick
  <1>2. quote' \in QuoteType
    BY <1>1, ReceivedTypes
  <1>3. clock.bucket \in Bucket
    BY DEF Typed, ClockType
  <1>4. bar' \in BarType /\ sent' \in SentType
    BY <1>3, TickTypes DEF ReadTick, Typed
  <1> QED
    BY <1>2, <1>4 DEF ReadTick, Typed

LEMMA FlushTypes ==
    ASSUME Typed, FlushLists \/ FlushWrites \/ FlushFails \/ RowCloses
    PROVE  Typed'
  <1>1. quote \in QuoteType /\ quote.got \in Quoted /\ quote.flushing \in Quoted /\ row \in RowType
    BY DEF Typed, QuoteType
  <1>2. CASE FlushLists
    <2> DEFINE open == row.status = "OPEN"
    <2>1. quote' = [quote EXCEPT !.flushing = quote.got, !.listed = open]
      BY <1>2 DEF FlushLists
    <2>2. open \in BOOLEAN
      OBVIOUS
    <2> HIDE DEF open
    <2>3. quote' \in QuoteType
      BY <1>1, <2>1, <2>2, QuoteTypes
    <2> QED
      BY <1>2, <2>3 DEF FlushLists, Typed
  <1>3. CASE FlushWrites
    <2>1. quote.flushing.price \in Nat /\ quote.flushing.at \in Nat
      BY <1>1 DEF Quoted
    <2>2. quote' = [quote EXCEPT !.published = quote.flushing.price, !.flushing = NoQuote,
                                 !.listed = FALSE]
      BY <1>3 DEF FlushWrites
    <2>3. quote' \in QuoteType
      BY <1>1, <2>1, <2>2, QuoteTypes
    <2>4. Written \in RowType
      BY <1>1, <2>1 DEF Written, RowType
    <2>5. row' \in RowType
      BY <1>1, <1>3, <2>4 DEF FlushWrites
    <2> QED
      BY <1>3, <2>3, <2>5 DEF FlushWrites, Typed
  <1>4. CASE FlushFails
    <2>1. quote' = [quote EXCEPT !.flushing = NoQuote, !.listed = FALSE]
      BY <1>4 DEF FlushFails
    <2>2. quote' \in QuoteType
      BY <1>1, <2>1, QuoteTypes
    <2> QED
      BY <1>4, <2>2 DEF FlushFails, Typed
  <1>5. CASE RowCloses
    <2>1. row' \in RowType
      BY <1>1, <1>5 DEF RowCloses, RowType
    <2> QED
      BY <1>5, <2>1 DEF RowCloses, Typed
  <1> QED
    BY <1>2, <1>3, <1>4, <1>5

LEMMA NewestIs ==
    ASSUME NEW d, NEW n \in Newest(d)
    PROVE  n \in Sessions(d)
  BY DEF Newest

LEMMA SessionsAre ==
    ASSUME NEW d \in Nat
    PROVE  Sessions(d) \subseteq 1 .. d /\ Sessions(d) \subseteq Nat
  BY DEF Sessions

LEMMA DailySteps ==
    ASSUME Typed, EodStarts \/ EodFetched \/ EodFails \/ PrimeFetched \/ PrimeFails
    PROVE  Typed'
  <1>1. /\ daily \in DailyType /\ daily.seen \in SUBSET Nat /\ sent \in SentType
        /\ daily.eod \in Nat /\ daily.prime \in Nat /\ clock.day \in Nat /\ 0 \in Nat
    BY DEF Typed, DailyType, ClockType
  <1>2. CASE EodStarts
    <2>1. daily' = [daily EXCEPT !.eod = clock.day]
      BY <1>2 DEF EodStarts
    <2>2. daily' \in DailyType
      BY <1>1, <2>1, DailyTypes
    <2> QED
      BY <1>2, <2>2 DEF EodStarts, Typed
  <1>3. CASE EodFetched
    <2>1. PICK n \in Newest(daily.eod) :
             /\ sent' = IF n \in daily.seen THEN sent ELSE Dispatched(n)
             /\ daily' = [daily EXCEPT !.eod = 0, !.last = daily.eod, !.seen = @ \cup {n}]
      BY <1>3 DEF EodFetched
    <2>2. n \in Nat
      BY <1>1, <2>1, NewestIs, SessionsAre
    <2>3. daily' \in DailyType
      BY <1>1, <2>1, <2>2 DEF DailyType
    <2>4. Dispatched(n) \in SentType
      <3> DEFINE once == sent.once /\ n \notin sent.daily
                 all  == sent.daily \cup {n}
      <3>1. once \in BOOLEAN /\ all \in SUBSET Nat
        BY <1>1, <2>2 DEF SentType
      <3>2. Dispatched(n) = [sent EXCEPT !.daily = all, !.once = once]
        BY DEF Dispatched
      <3> HIDE DEF once, all
      <3> QED
        BY <1>1, <3>1, <3>2 DEF SentType
    <2>5. sent' \in SentType
      BY <1>1, <2>1, <2>4
    <2> QED
      BY <1>3, <2>3, <2>5 DEF EodFetched, Typed
  <1>4. CASE EodFails
    <2>1. daily' = [daily EXCEPT !.eod = 0, !.last = daily.eod]
      BY <1>4 DEF EodFails
    <2>2. daily' \in DailyType
      BY <1>1, <2>1, DailyTypes
    <2> QED
      BY <1>4, <2>2 DEF EodFails, Typed
  <1>5. CASE PrimeFetched
    <2>1. PICK n \in Newest(daily.prime) :
             daily' = [daily EXCEPT !.prime = 0, !.seen = @ \cup Sessions(n)]
      BY <1>5 DEF PrimeFetched
    <2>2. n \in Nat
      BY <1>1, <2>1, NewestIs, SessionsAre
    <2>3. daily.seen \cup Sessions(n) \in SUBSET Nat
      BY <1>1, <2>2, SessionsAre
    <2>4. daily' \in DailyType
      BY <1>1, <2>1, <2>3 DEF DailyType
    <2> QED
      BY <1>5, <2>4 DEF PrimeFetched, Typed
  <1>6. CASE PrimeFails
    <2>1. daily' = [daily EXCEPT !.prime = 0]
      BY <1>6 DEF PrimeFails
    <2>2. daily' \in DailyType
      BY <1>1, <2>1, DailyTypes
    <2> QED
      BY <1>6, <2>2 DEF PrimeFails, Typed
  <1> QED
    BY <1>2, <1>3, <1>4, <1>5, <1>6

LEMMA FeedTypes ==
    ASSUME FeedTypeOK, Next
    PROVE  FeedTypeOK'
  <1>0. Typed
    BY TypedIs
  <1>1. CASE UNCHANGED feedVars
    BY <1>0, <1>1, TypedIs DEF feedVars, Typed
  <1>2. CASE FeedStep
    BY <1>0, <1>2, TypedIs, ClockSteps, ReadTickTypes, FlushTypes, DailySteps DEF FeedStep
  <1>3. CASE Build
    <2> DEFINE p == IF Stage = "candle" THEN clock.day ELSE daily.prime
               s == IF Stage = "candle" THEN clock.day ELSE sent.since
    <2>1. p \in Nat /\ s \in Nat
      BY <1>0 DEF Typed, ClockType, DailyType, SentType
    <2>2. daily' = [daily EXCEPT !.prime = p] /\ sent' = [sent EXCEPT !.since = s]
      BY <1>3 DEF Build
    <2> HIDE DEF p, s
    <2>3. daily' \in DailyType
      BY <1>0, <2>1, <2>2, DailyTypes DEF Typed
    <2>4. sent' \in SentType
      BY <1>0, <2>1, <2>2 DEF Typed, SentType
    <2> QED
      BY <1>0, <1>3, <2>3, <2>4, TypedIs DEF Build, Typed
  <1>4. CASE ProcessEnds
    <2>1. /\ daily' \in DailyType /\ quote' \in QuoteType /\ sent' \in SentType
          /\ bar' \in BarType
      BY <1>0, <1>4, StopTypes DEF ProcessEnds
    <2> QED
      BY <1>0, <1>4, <2>1, TypedIs DEF ProcessEnds, Typed
  <1>5. CASE Detach
    <2>1. quote' \in QuoteType /\ sent' \in SentType /\ bar' \in BarType
      BY <1>0, <1>5, StopTypes DEF Detach, Cancels, Typed
    <2>2. daily' \in DailyType
      <3> DEFINE p == IF "prime" \in Teardown[Min(Standing)] THEN 0 ELSE daily.prime
                 e == IF "eod" \in Teardown[Min(Standing)] THEN 0 ELSE daily.eod
      <3>1. p \in Nat /\ e \in Nat
        BY <1>0 DEF Typed, DailyType
      <3>2. daily' = [daily EXCEPT !.prime = p, !.eod = e]
        BY <1>5 DEF Detach, Cancels
      <3> HIDE DEF p, e
      <3> QED
        BY <1>0, <3>1, <3>2, DailyTypes DEF Typed
    <2> QED
      BY <1>0, <1>5, <2>1, <2>2, TypedIs DEF Detach, Typed
  <1> QED
    BY <1>1, <1>2, <1>3, <1>4, <1>5, FeedFrame

-----------------------------------------------------------------------------
(* Engine.                                                                  *)

EngineRecord == [phase : {"down", "attaching", "up", "failed", "detaching"},
                 at : 0 .. Len(Stages), step : {"none", "resubscribe", "release", "report"}]

SafeRecord == [on : BOOLEAN, why : {"", "user", "maintenance", "recovery"}]

\* An attach that goes on has a stage before it; the steps of the recovery are
\* those of its stage.
Underway(e) ==
    /\ e.phase = "attaching" => e.at < Len(Stages)
    /\ e.step # "none" => e.phase = "attaching"

EngineInv ==
    /\ engine \in EngineRecord /\ Underway(engine)
    /\ engine.step # "none" => Stage = "recovery"
    /\ safe \in SafeRecord
    /\ window \in BOOLEAN
    /\ loop \in {"idle", "catchUp", "snapshot", "tell"}
    /\ paused \in {"no", "web", "telegram"}

TypeInv == TasksTypeOK /\ AlertsTypeOK /\ StreamInv /\ FeedTypeOK /\ EngineInv

LEMMA StagesAre == Len(Stages) = 18 /\ Stages[17] = "recovery" /\ Stages[18] = "maintenance"
  BY DEF Stages

\* The next stage is one of those ahead; the maintenance loop is the last.
LEMMA NextStageIs ==
    ASSUME engine.at \in 0 .. Len(Stages), engine.at < Len(Stages)
    PROVE  /\ NextStage \in 1 .. Len(Stages) /\ engine.at < NextStage
           /\ Stage # "maintenance" => NextStage < Len(Stages)
  <1> DEFINE S == {i \in engine.at + 1 .. Len(Stages) : Enabled(Stages[i])}
  <1>1. Enabled(Stages[Len(Stages)])
    BY StagesAre DEF Enabled
  <1>2. S \subseteq Nat /\ Len(Stages) \in S
    BY <1>1, StagesAre
  <1>3. NextStage \in S
    BY <1>2, MinIs DEF NextStage
  <1> QED
    BY <1>3, StagesAre DEF Stage

LEMMA UpsetTypes ==
    ASSUME TasksTypeOK, Smooth \/ Upset
    PROVE  upsets' \in 0 .. MaxUpsets[flags]
  <1>1. MaxUpsets[flags] \in Nat
    BY TasksAssumption DEF TasksTypeOK
  <1> QED
    BY <1>1 DEF TasksTypeOK, Smooth, Upset

LEMMA EveryStepCounts ==
    ASSUME Next
    PROVE  Smooth \/ Upset
  <1>1. CASE BridgeStep
    <2>1. CASE \/ Boot \/ Build \/ AttachRaises \/ RecoveryEnters \/ RecoveryResubscribes
               \/ ResubscribeBreaks \/ RecoveryReleases \/ RecoveryReports
      BY <2>1 DEF Boot, Build, AttachRaises, RecoveryEnters, RecoveryResubscribes,
                  ResubscribeBreaks, RecoveryReleases, RecoveryReports
    <2>2. CASE \/ Crash \/ Shutdown \/ Detach \/ Exit
               \/ WebPause \/ WebResume \/ TelegramStop \/ TelegramResume
               \/ WindowOpens \/ WindowEnds \/ CallAsksToken
      BY <2>2 DEF Crash, Shutdown, Detach, Exit, WebPause, WebResume, TelegramStop,
                  TelegramResume, WindowOpens, WindowEnds, CallAsksToken
    <2>3. CASE MaintenanceLoop
      BY <2>3 DEF MaintenanceLoop, MaintenanceEnters, MaintenanceReleases, MaintenanceCatchesUp,
                  MaintenanceSnapshots, MaintenanceTells, Notified, NotifyRaises
    <2> QED
      BY <1>1, <2>1, <2>2, <2>3 DEF BridgeStep, BridgeAlone, Commanded
  <1>2. CASE AlertsStep
    BY <1>2 DEF AlertsStep, WorkerStep, Expire, Fetch, SendAccepted, SendFails, MarkRow, StepRaises,
                BreakerTimesOut, AlertsAge, OthersNotify
  <1>3. CASE StreamStep
    BY <1>3 DEF StreamStep, Dial, Connect, BrokerRefuses, TransportFails, ServerCloses,
                RestoreSubscriptions, ReadOther, TokenRejected, TokenAges, Halt, Resume, Receive,
                ReadVI, TellTriggered, TellResumed, Resettle, Heard, CatchUp, TakeSnapshot,
                TellSnapshot, Notified, NotifyRaises
  <1>4. CASE FeedStep
    BY <1>4 DEF FeedStep, NextBucket, ClockSetBack, SessionCloses, NextDay, ReadTick,
                FlushLists, FlushWrites, FlushFails, RowCloses, EodStarts, EodFetched, EodFails, PrimeFetched, PrimeFails
  <1> QED
    BY <1>1, <1>2, <1>3, <1>4 DEF Next, Step, TasksStep

\* What a step does to the parts.
UpMove ==
    \/ up' \in {up, up \ {"prime"}}
    \/ Build \/ Detach \/ ProcessEnds

LEMMA UpFrame ==
    ASSUME Next
    PROVE  UpMove
  <1>1. CASE BridgeStep
    <2>1. CASE \/ Boot \/ AttachRaises \/ RecoveryEnters \/ RecoveryResubscribes
               \/ ResubscribeBreaks \/ RecoveryReleases \/ RecoveryReports \/ Shutdown
      BY <2>1 DEF Boot, AttachRaises, RecoveryEnters, RecoveryResubscribes,
                  ResubscribeBreaks, RecoveryReleases, RecoveryReports, Shutdown, UpMove
    <2>2. CASE \/ Crash \/ Detach \/ Exit
      BY <2>2 DEF Crash, Exit, UpMove
    <2>3. CASE \/ WebPause \/ WebResume \/ TelegramStop \/ TelegramResume
               \/ WindowOpens \/ WindowEnds \/ CallAsksToken
      BY <2>3 DEF WebPause, WebResume, TelegramStop,
                  TelegramResume, WindowOpens, WindowEnds, CallAsksToken, KeepsParts, UpMove
    <2>4. CASE MaintenanceLoop
      BY <2>4 DEF MaintenanceLoop, MaintenanceEnters, MaintenanceReleases, MaintenanceCatchesUp,
                  MaintenanceSnapshots, MaintenanceTells, KeepsParts, UpMove
    <2> QED
      BY <1>1, <2>1, <2>2, <2>3, <2>4 DEF BridgeStep, BridgeAlone, Commanded, UpMove
  <1>2. CASE FeedStep
    BY <1>2 DEF FeedStep, NextBucket, ClockSetBack, SessionCloses, NextDay, ReadTick,
                FlushLists, FlushWrites, FlushFails, RowCloses, EodStarts, EodFetched, EodFails, PrimeFetched, PrimeFails,
                OtherVars, UpMove
  <1> QED
    BY <1>1, <1>2 DEF Next, Step, TasksStep, UpMove

StageNames ==
    {"exchange", "box", "position", "notification", "vi", "buy", "exitExecutor", "websocket",
     "candle", "detectors", "exitOrchestrator", "publisher", "summary", "commands", "review",
     "reconciliation", "recovery", "maintenance"}

LEMMA WiredIs == \A stage \in StageNames : Wired[stage].builds \subseteq Part
  <1> USE DEF Part
  <1>1. \A stage \in {"exchange", "box", "position", "notification", "vi", "buy"} :
            Wired[stage].builds \subseteq Part
    BY DEF Wired, KiwoomExchange, BoxSystem, PositionSystem, NotificationStack, ViMonitor,
           BuyExecutor
  <1>2. \A stage \in {"exitExecutor", "websocket", "candle", "detectors", "exitOrchestrator",
                      "publisher"} : Wired[stage].builds \subseteq Part
    BY DEF Wired, ExitExecutor, KiwoomWebsocket, CandleManager, BoxEntryDetectors,
           ExitOrchestrator, PricePublisher
  <1>3. \A stage \in {"summary", "commands", "review", "reconciliation", "recovery",
                      "maintenance"} : Wired[stage].builds \subseteq Part
    BY DEF Wired, DailySummary, TelegramCommands, MonthlyReview, PeriodicReconciler,
           RestartRecovery, MaintenanceSchedule
  <1> QED
    BY <1>1, <1>2, <1>3 DEF StageNames

LEMMA TelegramWorkerIs == TelegramWorker \subseteq Part
  BY DEF TelegramWorker, Part

LEMMA BuildsParts ==
    ASSUME EngineInv, Build
    PROVE  up' \subseteq up \cup Part
  <1>1. engine.at \in 0 .. Len(Stages) /\ engine.at < Len(Stages)
    BY DEF EngineInv, EngineRecord, Underway, Build, Attaching
  <1>2. NextStage \in 1 .. 18
    BY <1>1, NextStageIs, StagesAre
  <1>3. Stage # "recovery" /\ up' = up \cup Builds(Stage)
    BY DEF Build
  <1>4. Stage \in StageNames
    BY <1>2 DEF Stage, Stages, StageNames
  <1>5. Builds(Stage) \subseteq Part
    BY <1>4, WiredIs, TelegramWorkerIs DEF Builds
  <1> QED
    BY <1>3, <1>5

LEMMA TasksTypes ==
    ASSUME TasksTypeOK, EngineInv, Next
    PROVE  TasksTypeOK'
  <1>1. flags' = flags
    BY DEF Next
  <1>2. upsets' \in 0 .. MaxUpsets[flags]
    BY EveryStepCounts, UpsetTypes
  <1>3. up' \subseteq Part
    BY UpFrame, BuildsParts DEF UpMove, Detach, Cancels, ProcessEnds, TasksTypeOK
  <1> QED
    BY <1>1, <1>2, <1>3 DEF TasksTypeOK

LEMMA StageStays ==
    ASSUME flags' = flags, engine'.at = engine.at
    PROVE  Stage' = Stage
  BY DEF Stage, NextStage, Enabled

LEMMA AttachTypes ==
    ASSUME EngineInv, flags' = flags, Boot \/ Build \/ AttachRaises
    PROVE  EngineInv'
  <1>0. /\ engine \in EngineRecord /\ Underway(engine) /\ safe \in SafeRecord
        /\ window \in BOOLEAN /\ loop \in {"idle", "catchUp", "snapshot", "tell"}
        /\ paused \in {"no", "web", "telegram"}
    BY DEF EngineInv
  <1>1. CASE Boot
    <2>1. engine' = [phase |-> "attaching", at |-> 0, step |-> "none"]
      BY <1>1 DEF Boot, Down
    <2>2. engine' \in EngineRecord /\ Underway(engine')
      BY <2>1, StagesAre DEF EngineRecord, Underway
    <2> QED
      BY <1>0, <1>1, <2>1, <2>2 DEF Boot, EngineInv
  <1>2. CASE Build
    <2> DEFINE phase == IF Stage = "maintenance" THEN "up" ELSE "attaching"
    <2>1. engine' = [engine EXCEPT !.at = NextStage, !.phase = phase]
      BY <1>2 DEF Build
    <2>2. engine.at \in 0 .. Len(Stages) /\ engine.at < Len(Stages) /\ engine.step = "none"
      BY <1>0, <1>2 DEF EngineRecord, Underway, Build, Attaching
    <2>3. /\ NextStage \in 1 .. Len(Stages)
          /\ phase \in {"up", "attaching"} /\ (phase = "attaching" => NextStage < Len(Stages))
      BY <2>2, NextStageIs
    <2> HIDE DEF phase
    <2>4. engine' \in {f \in EngineRecord : f.at = NextStage /\ f.phase = phase /\ f.step = engine.step}
      <3> DEFINE n == NextStage
      <3>1. n \in 0 .. Len(Stages) /\ phase \in {"attaching", "up"}
        BY <2>3, StagesAre
      <3> HIDE DEF n
      <3>2. [engine EXCEPT !.at = n, !.phase = phase]
            \in {f \in EngineRecord : f.at = n /\ f.phase = phase /\ f.step = engine.step}
        BY <1>0, <3>1 DEF EngineRecord
      <3> QED
        BY <2>1, <3>2 DEF n
    <2>5. Underway(engine')
      BY <2>2, <2>3, <2>4 DEF Underway
    <2> QED
      BY <1>0, <1>2, <2>2, <2>4, <2>5 DEF Build, EngineInv
  <1>3. CASE AttachRaises
    <2>1. engine' = [engine EXCEPT !.phase = "failed", !.step = "none"]
      BY <1>3 DEF AttachRaises
    <2>2. engine' \in EngineRecord /\ engine'.phase = "failed" /\ engine'.step = "none"
      BY <1>0, <2>1 DEF EngineRecord
    <2>3. Underway(engine')
      BY <2>2 DEF Underway
    <2> QED
      BY <1>0, <1>3, <2>2, <2>3 DEF AttachRaises, EngineInv
  <1> QED
    BY <1>1, <1>2, <1>3

\* The steps of the recovery.
LEMMA RecoveryTypes ==
    ASSUME EngineInv, flags' = flags,
           RecoveryEnters \/ RecoveryResubscribes \/ ResubscribeBreaks \/ RecoveryReleases \/ RecoveryReports
    PROVE  EngineInv'
  <1>0. /\ engine \in EngineRecord /\ Underway(engine) /\ safe \in SafeRecord
        /\ window \in BOOLEAN /\ loop \in {"idle", "catchUp", "snapshot", "tell"}
        /\ paused \in {"no", "web", "telegram"}
    BY DEF EngineInv
  <1>1. engine.phase = "attaching" /\ UNCHANGED <<window, loop, paused>>
    BY DEF RecoveryEnters, RecoveryResubscribes, ResubscribeBreaks, RecoveryReleases,
           RecoveryReports, Recovering, Attaching
  <1>2. Stage = "recovery"
    BY DEF EngineInv, RecoveryEnters, RecoveryResubscribes, ResubscribeBreaks, RecoveryReleases,
           RecoveryReports, Recovering
  <1>3. safe' \in SafeRecord
    <2>1. safe' = safe \/ safe' = [on |-> TRUE, why |-> "recovery"] \/ safe' = NoSafeMode
      BY DEF RecoveryEnters, RecoveryResubscribes, ResubscribeBreaks, RecoveryReleases,
             RecoveryReports
    <2>2. [on |-> TRUE, why |-> "recovery"] \in SafeRecord /\ NoSafeMode \in SafeRecord
      BY DEF NoSafeMode, SafeRecord
    <2> QED
      BY <1>0, <2>1, <2>2
  <1>4. CASE RecoveryReports
    <2>1. engine.at \in 0 .. Len(Stages) /\ engine.at < Len(Stages)
      BY <1>0, <1>1 DEF EngineRecord, Underway
    <2>2. NextStage \in 1 .. Len(Stages) /\ NextStage < Len(Stages)
      BY <1>2, <2>1, NextStageIs
    <2>3. engine' = [engine EXCEPT !.step = "none", !.at = NextStage]
      BY <1>4 DEF RecoveryReports
    <2>4. engine' \in {f \in EngineRecord : f.at = NextStage /\ f.phase = engine.phase /\ f.step = "none"}
      <3> DEFINE n == NextStage
      <3>1. n \in 0 .. Len(Stages)
        BY <2>2, StagesAre
      <3> HIDE DEF n
      <3>2. [engine EXCEPT !.step = "none", !.at = n]
            \in {f \in EngineRecord : f.at = n /\ f.phase = engine.phase /\ f.step = "none"}
        BY <1>0, <3>1 DEF EngineRecord
      <3> QED
        BY <2>3, <3>2 DEF n
    <2>5. Underway(engine')
      BY <2>2, <2>4 DEF Underway
    <2> QED
      BY <1>0, <1>1, <1>3, <2>4, <2>5 DEF EngineInv
  <1>5. CASE \/ RecoveryEnters \/ RecoveryResubscribes \/ ResubscribeBreaks \/ RecoveryReleases
    <2>1. \E step \in {"resubscribe", "release", "report"} : engine' = [engine EXCEPT !.step = step]
      BY <1>5 DEF RecoveryEnters, RecoveryResubscribes, ResubscribeBreaks, RecoveryReleases
    <2>2. /\ engine' \in EngineRecord /\ engine'.at = engine.at /\ engine'.phase = engine.phase
      BY <1>0, <2>1 DEF EngineRecord
    <2>3. Underway(engine')
      BY <1>0, <1>1, <2>2 DEF Underway
    <2> QED
      BY <1>0, <1>1, <1>2, <1>3, <2>2, <2>3, StageStays DEF EngineInv
  <1> QED
    BY <1>4, <1>5

LEMMA EndTypes ==
    ASSUME EngineInv, Crash \/ Exit \/ Shutdown \/ Detach
    PROVE  EngineInv'
  <1>0. /\ engine \in EngineRecord /\ Underway(engine) /\ safe \in SafeRecord
        /\ window \in BOOLEAN /\ loop \in {"idle", "catchUp", "snapshot", "tell"}
        /\ paused \in {"no", "web", "telegram"}
    BY DEF EngineInv
  <1>1. CASE Crash \/ Exit
    <2>1. ProcessEnds
      BY <1>1 DEF Crash, Exit
    <2>2. engine' \in EngineRecord /\ Underway(engine') /\ engine'.step = "none"
      BY <2>1 DEF ProcessEnds, Down, EngineRecord, Underway, Stages
    <2>3. safe' \in SafeRecord
      BY <2>1 DEF ProcessEnds, NoSafeMode, SafeRecord
    <2> QED
      BY <1>0, <2>1, <2>2, <2>3 DEF ProcessEnds, EngineInv
  <1>2. CASE Shutdown
    <2>1. engine' \in EngineRecord /\ Underway(engine') /\ engine'.step = "none"
      BY <1>2 DEF Shutdown, EngineRecord, Underway, Stages
    <2> QED
      BY <1>0, <1>2, <2>1 DEF Shutdown, EngineInv
  <1>3. CASE Detach
    <2>1. Standing \subseteq 1 .. 15
      BY <1>0, StagesAre DEF Standing, EngineRecord, Teardown
    <2>2. Min(Standing) \in 0 .. Len(Stages)
      BY <1>3, <2>1, MinIs, StagesAre DEF Detach
    <2>3. engine' = [engine EXCEPT !.at = Min(Standing)] /\ engine.phase = "detaching"
      BY <1>3 DEF Detach
    <2>4. /\ engine' \in EngineRecord /\ engine'.phase = "detaching"
          /\ engine'.step = engine.step
      BY <1>0, <2>2, <2>3 DEF EngineRecord
    <2>5. Underway(engine') /\ engine'.step = "none"
      BY <1>0, <2>3, <2>4 DEF Underway
    <2> QED
      BY <1>0, <1>3, <2>4, <2>5 DEF Detach, Cancels, EngineInv
  <1> QED
    BY <1>1, <1>2, <1>3

LEMMA PauseTypes ==
    ASSUME EngineInv, flags' = flags,
           \/ WebPause \/ WebResume \/ TelegramStop \/ TelegramResume \/ WindowOpens \/ WindowEnds
           \/ MaintenanceLoop \/ CallAsksToken
    PROVE  EngineInv'
  <1>0. /\ engine \in EngineRecord /\ Underway(engine) /\ safe \in SafeRecord
        /\ window \in BOOLEAN /\ loop \in {"idle", "catchUp", "snapshot", "tell"}
        /\ paused \in {"no", "web", "telegram"}
    BY DEF EngineInv
  <1>1. engine' = engine
    BY DEF WebPause, WebResume, TelegramStop, TelegramResume, WindowOpens, WindowEnds,
           MaintenanceLoop, MaintenanceEnters, MaintenanceReleases, MaintenanceCatchesUp,
           MaintenanceSnapshots, MaintenanceTells, CallAsksToken, KeepsParts, engineVars
  <1>2. safe' \in SafeRecord
    <2>1. /\ [safe EXCEPT !.on = FALSE] \in SafeRecord /\ [safe EXCEPT !.on = TRUE] \in SafeRecord
          /\ NoSafeMode \in SafeRecord
          /\ [on |-> TRUE, why |-> "user"] \in SafeRecord
          /\ [on |-> TRUE, why |-> "maintenance"] \in SafeRecord
      BY <1>0 DEF SafeRecord, NoSafeMode
    <2> QED
      BY <1>0, <2>1 DEF WebPause, WebResume, TelegramStop, TelegramResume, WindowOpens, WindowEnds,
           MaintenanceLoop, MaintenanceEnters, MaintenanceReleases, MaintenanceCatchesUp,
           MaintenanceSnapshots, MaintenanceTells, CallAsksToken, Released, engineVars
  <1>3. /\ window' \in BOOLEAN /\ loop' \in {"idle", "catchUp", "snapshot", "tell"}
        /\ paused' \in {"no", "web", "telegram"}
    BY <1>0 DEF WebPause, WebResume, TelegramStop, TelegramResume, WindowOpens, WindowEnds,
           MaintenanceLoop, MaintenanceEnters, MaintenanceReleases, MaintenanceCatchesUp,
           MaintenanceSnapshots, MaintenanceTells, CallAsksToken, engineVars
  <1> QED
    BY <1>0, <1>1, <1>2, <1>3, StageStays DEF EngineInv

LEMMA EngineTypesStep ==
    ASSUME EngineInv, Next
    PROVE  EngineInv'
  <1>1. flags' = flags
    BY DEF Next
  <1>2. CASE BridgeStep
    BY <1>1, <1>2, AttachTypes, RecoveryTypes, EndTypes, PauseTypes DEF BridgeStep, BridgeAlone, Commanded
  <1>3. CASE UNCHANGED engineVars
    BY <1>1, <1>3, StageStays DEF EngineInv, engineVars
  <1> QED
    BY <1>2, <1>3 DEF Next, Step, TasksStep

-----------------------------------------------------------------------------
(* The whole.                                                               *)

LEMMA TypeInit == Init => TypeInv
  <1> SUFFICES ASSUME Init
               PROVE  TypeInv
    OBVIOUS
  <1>1. TasksTypeOK
    BY TasksAssumption DEF Init, TasksTypeOK
  <1>2. AlertsTypeOK
    <2>1. NoRecord \in Record
      BY AlertsAssumption DEF NoRecord, Record, Severity
    <2>2. Closed \in [state : {"CLOSED", "OPEN", "HALF_OPEN"}, failures : 0 .. TripAfter, due : BOOLEAN]
      BY AlertsAssumption DEF Closed
    <2> QED
      BY <2>1, <2>2, AlertsAssumption DEF Init, AlertsInit, AlertsTypeOK, Asleep
  <1>3. StreamInv
    <2>1. NewConnection \in Connection /\ AuthOK(NewConnection)
      BY StreamAssumption DEF NewConnection, Connection, Counted, AuthOK
    <2>2. << >> \in Seq({"on", "off"})
      OBVIOUS
    <2> QED
      BY <2>1, <2>2 DEF Init, StreamInit, StreamInv, StreamTypeOK, NoSubs, NewMonitor
  <1>4. FeedTypeOK
    <2>1. clock \in ClockType /\ row \in RowType /\ ticks = 0
      BY FeedAssumption DEF Init, FeedInit, ClockType, RowType, Bucket
    <2>2. daily \in DailyType
      BY FeedAssumption DEF Init, FeedInit, NewDaily, DailyType
    <2>3. quote \in QuoteType
      BY FeedAssumption DEF Init, FeedInit, NewPublisher, NoQuote, Quoted, QuoteType
    <2>4. sent \in SentType
      BY FeedAssumption DEF Init, FeedInit, NothingSent, SentType
    <2>5. bar \in BarType
      BY FeedAssumption DEF Init, FeedInit, NoBar, BarType
    <2> QED
      BY <2>1, <2>2, <2>3, <2>4, <2>5, FeedAssumption, TypedIs DEF Typed
  <1>5. EngineInv
    <2>1. engine \in EngineRecord /\ Underway(engine) /\ engine.step = "none"
      BY DEF Init, Down, EngineRecord, Underway, Stages
    <2> QED
      BY <2>1 DEF Init, EngineInv, NoSafeMode, SafeRecord
  <1> QED
    BY <1>1, <1>2, <1>3, <1>4, <1>5 DEF TypeInv

LEMMA TypeStep == TypeInv /\ [Next]_vars => TypeInv'
  <1> SUFFICES ASSUME TypeInv, [Next]_vars
               PROVE  TypeInv'
    OBVIOUS
  <1>1. CASE Next
    BY <1>1, TasksTypes, AlertsFrame, AlertsTypes, StreamTypes, FeedTypes, EngineTypesStep DEF TypeInv
  <1>2. CASE UNCHANGED vars
    <2>1. TasksTypeOK' /\ AlertsTypeOK'
      BY <1>2 DEF vars, TypeInv, TasksTypeOK, AlertsTypeOK, alertVars
    <2>2. StreamInv'
      BY <1>2 DEF vars, TypeInv, StreamInv, StreamTypeOK, streamVars
    <2>3. FeedTypeOK'
      BY <1>2 DEF vars, TypeInv, FeedTypeOK, feedVars
    <2>4. EngineInv'
      BY <1>2, StageStays DEF vars, TypeInv, EngineInv, engineVars
    <2> QED
      BY <2>1, <2>2, <2>3, <2>4 DEF TypeInv
  <1> QED
    BY <1>1, <1>2

\* Types are kept, for any flags, budgets and bounds, and with them what the
\* attach relies on: there is a stage ahead until the maintenance loop runs.
THEOREM TypesKept == Spec => []TypeInv
  <1>1. Init => TypeInv
    BY TypeInit
  <1>2. TypeInv /\ [Next]_vars => TypeInv'
    BY TypeStep
  <1> QED
    BY <1>1, <1>2, PTL DEF Spec

\* TypeOK of every variable of the engine.
THEOREM EngineTypeCorrect == Spec => []TypeOK
  <1>1. TypeInv => TypeOK
    BY DEF TypeInv, TypeOK, StreamInv, EngineInv, EngineRecord, SafeRecord
  <1> QED
    BY <1>1, TypesKept, PTL

================================================================================
