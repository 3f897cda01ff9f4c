------------------------------ MODULE EngineProofs ------------------------------
(***************************************************************************)
(* The safety properties of the engine, of its notifications and of what    *)
(* the ticks feed, for any flags, bounds and budgets.                       *)
(* Each property has an invariant of its own, proved on top of TypeInv.     *)
(***************************************************************************)
EXTENDS EngineTypes

\* Only the steps of the bridge write the variables of the engine.
LEMMA EngineFrame ==
    ASSUME Next
    PROVE  BridgeStep \/ UNCHANGED engineVars
  BY DEF Next, Step, TasksStep

\* Nothing leaves the phase in which the parts are taken down but its end.
LEMMA DetachingLasts ==
    ASSUME TypeInv, Next
    PROVE  /\ engine.phase = "detaching" => engine' = engine \/ Detach \/ ProcessEnds
           /\ engine'.phase = "detaching" => Shutdown \/ Detach \/ engine' = engine
  <1>0. engine \in EngineRecord /\ Underway(engine)
    BY DEF TypeInv, EngineInv
  <1>1. CASE UNCHANGED engineVars
    BY <1>1 DEF engineVars
  <1>2. CASE Boot
    BY <1>2 DEF Boot, Down
  <1>3. CASE Build
    BY <1>0, <1>3 DEF Build, Attaching, EngineRecord
  <1>4. CASE AttachRaises
    BY <1>0, <1>4 DEF AttachRaises, Attaching, EngineRecord
  <1>5. CASE \/ RecoveryEnters \/ RecoveryResubscribes \/ ResubscribeBreaks
             \/ RecoveryReleases \/ RecoveryReports
    <2>1. engine.phase = "attaching"
      BY <1>5 DEF RecoveryEnters, RecoveryResubscribes, ResubscribeBreaks, RecoveryReleases,
                  RecoveryReports, Recovering, Attaching
    <2>2. engine'.phase = engine.phase
      BY <1>0, <1>5 DEF RecoveryEnters, RecoveryResubscribes, ResubscribeBreaks, RecoveryReleases,
                        RecoveryReports, EngineRecord
    <2> QED
      BY <2>1, <2>2
  <1>6. CASE Crash \/ Exit
    BY <1>6 DEF Crash, Exit, ProcessEnds, Down
  <1>7. CASE Shutdown
    BY <1>7 DEF Shutdown
  <1>8. CASE Detach
    BY <1>8
  <1>9. CASE \/ WebPause \/ WebResume \/ TelegramStop \/ TelegramResume
             \/ WindowOpens \/ WindowEnds \/ MaintenanceLoop \/ CallAsksToken
    BY <1>9 DEF WebPause, WebResume, TelegramStop, TelegramResume, WindowOpens, WindowEnds,
                MaintenanceLoop, MaintenanceEnters, MaintenanceReleases, MaintenanceCatchesUp,
                MaintenanceSnapshots, MaintenanceTells, CallAsksToken, KeepsParts, engineVars
  <1> QED
    BY <1>1, <1>2, <1>3, <1>4, <1>5, <1>6, <1>7, <1>8, <1>9, EngineFrame DEF BridgeStep, BridgeAlone, Commanded

-----------------------------------------------------------------------------
(* The user's pause.                                                        *)

\* The pause carries the user's name, which is what the loop looks at, and it
\* is given when the recovery can no longer write over it.
PauseInv ==
    paused = "web" =>
        safe.on /\ safe.why = "user" /\ engine.phase \in {"up", "failed", "detaching"}

\* Every step keeps the user's pause.
LEMMA PauseStep ==
    ASSUME TypeInv, PauseInv, Next
    PROVE  PauseInv'
  <1>0. safe \in SafeRecord /\ engine \in EngineRecord
    BY DEF TypeInv, EngineInv
  <1>1. CASE UNCHANGED engineVars
    BY <1>1 DEF engineVars, PauseInv
  <1>2. CASE \/ Boot \/ Build \/ AttachRaises \/ RecoveryEnters \/ RecoveryResubscribes
             \/ ResubscribeBreaks \/ RecoveryReleases \/ RecoveryReports
    <2>1. engine.phase \in {"down", "attaching"} /\ paused' = paused
      BY <1>2 DEF Boot, Build, AttachRaises, RecoveryEnters, RecoveryResubscribes,
                  ResubscribeBreaks, RecoveryReleases, RecoveryReports, Recovering, Attaching
    <2> QED
      BY <2>1 DEF PauseInv
  <1>3. CASE Crash \/ Exit
    BY <1>3 DEF Crash, Exit, ProcessEnds, PauseInv
  <1>4. CASE Shutdown
    BY <1>4 DEF Shutdown, PauseInv
  <1>5. CASE Detach
    <2>1. engine'.phase = "detaching" /\ UNCHANGED <<safe, paused>>
      BY <1>0, <1>5 DEF Detach, EngineRecord
    <2> QED
      BY <1>5, <2>1 DEF PauseInv
  <1>6. CASE WebPause \/ WebResume
    BY <1>0, <1>6 DEF WebPause, WebResume, Served, KeepsParts, PauseInv
  <1>7. CASE TelegramStop \/ TelegramResume
    BY <1>0, <1>7 DEF TelegramStop, TelegramResume, KeepsParts, PauseInv, SafeRecord
  <1>8. CASE WindowOpens \/ WindowEnds \/ CallAsksToken
    BY <1>8 DEF WindowOpens, WindowEnds, CallAsksToken, KeepsParts, engineVars, PauseInv
  <1>9. CASE MaintenanceLoop
    <2>1. CASE MaintenanceEnters \/ MaintenanceReleases
      BY <2>1 DEF MaintenanceEnters, MaintenanceReleases, WasAuto, KeepsParts, PauseInv
    <2>2. CASE MaintenanceCatchesUp \/ MaintenanceSnapshots \/ MaintenanceTells
      BY <2>2 DEF MaintenanceCatchesUp, MaintenanceSnapshots, MaintenanceTells, PauseInv
    <2> QED
      BY <1>9, <2>1, <2>2 DEF MaintenanceLoop
  <1> QED
    BY <1>1, <1>2, <1>3, <1>4, <1>5, <1>6, <1>7, <1>8, <1>9, EngineFrame DEF BridgeStep, BridgeAlone, Commanded

\* A pause of the web holds until the user resumes, whatever the recovery, the
\* maintenance loop and Telegram write in between.
THEOREM WebPauseIsKept == Spec => []WebPauseKept
  <1>1. Init => PauseInv
    BY DEF Init, PauseInv
  <1>2. TypeInv /\ PauseInv /\ [Next]_vars => PauseInv'
    <2>1. PauseInv /\ UNCHANGED vars => PauseInv'
      BY DEF PauseInv, vars, engineVars
    <2> QED
      BY <2>1, PauseStep
  <1>3. PauseInv => WebPauseKept
    BY DEF PauseInv, WebPauseKept
  <1> QED
    BY <1>1, <1>2, <1>3, TypesKept, PTL DEF Spec

-----------------------------------------------------------------------------
(* Subscriptions.                                                           *)

\* A connection that fails is not connected.
LEMMA FailedIsOff ==
    ASSUME NEW w \in Connection, AuthOK(w), w.st # "closed"
    PROVE  TransportFailed(w).st # "connected" /\ AuthFailed(w).st # "connected"
  <1> USE StreamAssumption DEF Connection, Counted
  <1>1. CountFailure(w) \in Connection /\ CountFailure(w).auth = w.auth
    BY DEF CountFailure
  <1>2. ASSUME NEW c \in Connection
        PROVE  Sleeping(c).st # "connected" /\ [c EXCEPT !.st = "closed"].st # "connected"
    BY DEF Sleeping
  <1>3. [CountFailure(w) EXCEPT !.auth = @ + 1] \in Connection
    BY <1>1 DEF AuthOK
  <1> HIDE DEF Connection
  <1> QED
    BY <1>1, <1>2, <1>3 DEF TransportFailed, AuthFailed

\* Every step keeps the registrations.
LEMMA UnregisteredStep ==
    ASSUME TypeInv, NothingUnregistered, Next
    PROVE  NothingUnregistered'
  <1>0. /\ ws \in Connection /\ AuthOK(ws)
        /\ subs \in [want : SUBSET Channel, reg : SUBSET Channel]
    BY DEF TypeInv, StreamInv, StreamTypeOK
  <1> USE DEF NothingUnregistered
  <1>1. CASE UNCHANGED streamVars
    BY <1>1 DEF streamVars
  <1>2. CASE StreamStep
    <2>1. CASE Dial
      BY <1>0, <2>1 DEF Dial, Connection
    <2>2. CASE Connect
      BY <2>2 DEF Connect
    <2>3. CASE BrokerRefuses \/ TransportFails
      <3>1. ws' = AuthFailed(ws) \/ ws' = TransportFailed(ws)
        BY <2>3 DEF BrokerRefuses, TransportFails
      <3>2. ws.st # "closed"
        BY <2>3 DEF BrokerRefuses, TransportFails
      <3> QED
        BY <1>0, <3>1, <3>2, FailedIsOff
    <2>4. CASE ServerCloses
      BY <1>0, <2>4 DEF ServerCloses, Connection
    <2>5. CASE RestoreSubscriptions
      BY <1>0, <2>5 DEF RestoreSubscriptions
    <2>6. CASE ReadOther \/ ReadVI \/ TokenRejected \/ TokenAges \/ Halt \/ Resume
      BY <2>6 DEF ReadOther, ReadVI, TokenRejected, TokenAges, Halt, Resume
    <2>7. CASE TellTriggered \/ TellResumed \/ Resettle \/ TakeSnapshot \/ TellSnapshot
      BY <2>7 DEF TellTriggered, TellResumed, Resettle, TakeSnapshot, TellSnapshot, KeepsStream
    <2>8. CASE Heard
      BY <1>0, <2>8 DEF Heard, Connection
    <2>9. CASE CatchUp
      BY <2>9 DEF CatchUp
    <2> QED
      BY <1>2, <2>1, <2>2, <2>3, <2>4, <2>5, <2>6, <2>7, <2>8, <2>9 DEF StreamStep, Receive
  <1>3. CASE BridgeStreams
    <2>1. CASE Build
      BY <2>1 DEF Build, NewConnection
    <2>2. CASE RecoveryEnters \/ MaintenanceCatchesUp \/ MaintenanceSnapshots \/ CallAsksToken
      BY <2>2 DEF RecoveryEnters, MaintenanceCatchesUp, MaintenanceSnapshots, CallAsksToken
    <2>3. CASE RecoveryResubscribes
      BY <1>0, <2>3 DEF RecoveryResubscribes, Subscribed
    <2>4. CASE ResubscribeBreaks
      <3>1. ws' = TransportFailed(ws)
        BY <2>4 DEF ResubscribeBreaks
      <3>2. ws.st # "closed"
        BY <2>4 DEF ResubscribeBreaks
      <3> QED
        BY <1>0, <3>1, <3>2, FailedIsOff
    <2>5. CASE Crash \/ Exit
      BY <2>5 DEF Crash, Exit, ProcessEnds, NewConnection
    <2>6. CASE Detach
      BY <1>0, <2>6 DEF Detach, Cancels, Connection
    <2> QED
      BY <1>3, <2>1, <2>2, <2>3, <2>4, <2>5, <2>6 DEF BridgeStreams
  <1>4. CASE ReadTick \/ EodStarts
    BY <1>4 DEF ReadTick, EodStarts
  <1> QED
    BY <1>1, <1>2, <1>3, <1>4, StreamFrame

\* Between two messages every wanted channel is registered on the connection,
\* whenever it was asked for and however often the connection broke.
THEOREM SubscriptionsRestored == Spec => []NothingUnregistered
  <1>1. Init => NothingUnregistered
    BY DEF Init, StreamInit, NewConnection, NothingUnregistered
  <1>2. TypeInv /\ NothingUnregistered /\ [Next]_vars => NothingUnregistered'
    <2>1. NothingUnregistered /\ UNCHANGED vars => NothingUnregistered'
      BY DEF NothingUnregistered, vars, streamVars
    <2> QED
      BY <2>1, UnregisteredStep
  <1> QED
    BY <1>1, <1>2, TypesKept, PTL DEF Spec

-----------------------------------------------------------------------------
(* Parts.                                                                   *)

UsesClosed == \A part \in up \cap DOMAIN Uses : Uses[part] \subseteq up

\* What the steps of the detach so far have taken down stays down.
TakenDown ==
    engine.phase = "detaching" => \A i \in 1 .. engine.at : Teardown[i] \cap up = {}

PartsInv == UsesClosed /\ TakenDown

\* What detach takes down: every part, the commands early.
LEMMA TeardownIs ==
    /\ Len(Teardown) = 15
    /\ \A part \in Part : \E i \in 1 .. 15 : part \in Teardown[i]
    /\ Teardown[1] = {"box", "position"} /\ Teardown[2] = {"commands"}
    /\ Teardown[3] = {"review"} /\ Teardown[4] = {"summary"} /\ Teardown[5] = {"publisher"}
    /\ Teardown[6] = {"exitOrchestrator"} /\ Teardown[7] = {"detectors"}
    /\ Teardown[8] = {"prime"} /\ Teardown[9] = {"candle", "eod"}
    /\ Teardown[10] = {"buy", "exitExecutor", "vi"} /\ Teardown[11] = {"worker", "queue"}
    /\ Teardown[12] = {"maintenance"} /\ Teardown[13] = {"reconciler"}
    /\ Teardown[14] = {"websocket"} /\ Teardown[15] = {"exchange"}
  BY DEF Teardown, Part

Users == {"worker", "vi", "buy", "exitExecutor", "websocket", "candle", "eod", "prime", "detectors",
          "exitOrchestrator", "publisher", "summary", "review", "commands", "reconciler"}

\* detach takes a part down after, or together with, the parts that use it.
LEMMA UsersFirst ==
    ASSUME NEW part \in DOMAIN Uses, NEW m \in 1 .. 15, Uses[part] \cap Teardown[m] # {}
    PROVE  \E i \in 1 .. m : part \in Teardown[i]
  <1>1. m \in {1, 2, 3, 4, 5, 6, 7, 8, 9, 10, 11, 12, 13, 14, 15}
    OBVIOUS
  <1>2. part \in Users
    BY DEF Uses, Users
  <1>3. CASE part \in {"worker", "vi"}
    BY <1>1, <1>3, TeardownIs DEF Uses
  <1>4. CASE part \in {"buy", "exitExecutor"}
    BY <1>1, <1>4, TeardownIs DEF Uses
  <1>5. CASE part \in {"candle", "eod"}
    BY <1>1, <1>5, TeardownIs DEF Uses
  <1>6. CASE part \in {"prime", "detectors"}
    BY <1>1, <1>6, TeardownIs DEF Uses
  <1>7. CASE part \in {"exitOrchestrator", "publisher"}
    BY <1>1, <1>7, TeardownIs DEF Uses
  <1>8. CASE part \in {"summary", "review", "commands"}
    BY <1>1, <1>8, TeardownIs DEF Uses
  <1>9. CASE part \in {"websocket", "reconciler"}
    BY <1>1, <1>9, TeardownIs DEF Uses
  <1> QED
    BY <1>2, <1>3, <1>4, <1>5, <1>6, <1>7, <1>8, <1>9 DEF Users

\* What each stage builds calls what the stage insists on or builds itself.
LEMMA WiredCalls ==
    ASSUME NEW stage \in StageNames
    PROVE  \A part \in Wired[stage].builds \cap DOMAIN Uses :
               Uses[part] \subseteq Wired[stage].needs \cup Wired[stage].builds
  <1>1. CASE stage \in {"exchange", "box", "position", "notification"}
    BY <1>1 DEF Wired, KiwoomExchange, BoxSystem, PositionSystem, NotificationStack, Uses
  <1>2. CASE stage \in {"vi", "buy", "exitExecutor"}
    BY <1>2 DEF Wired, ViMonitor, BuyExecutor, ExitExecutor, Uses
  <1>3. CASE stage \in {"websocket", "candle", "detectors"}
    BY <1>3 DEF Wired, KiwoomWebsocket, CandleManager, BoxEntryDetectors, Uses
  <1>4. CASE stage \in {"exitOrchestrator", "publisher", "summary"}
    BY <1>4 DEF Wired, ExitOrchestrator, PricePublisher, DailySummary, Uses
  <1>5. CASE stage \in {"commands", "review", "reconciliation"}
    BY <1>5 DEF Wired, TelegramCommands, MonthlyReview, PeriodicReconciler, Uses
  <1>6. CASE stage \in {"recovery", "maintenance"}
    BY <1>6 DEF Wired, RestartRecovery, MaintenanceSchedule, Uses
  <1> QED
    BY <1>1, <1>2, <1>3, <1>4, <1>5, <1>6 DEF StageNames

\* A stage is built on what it uses.
LEMMA BuildUses ==
    ASSUME TypeInv, UsesClosed, Build
    PROVE  UsesClosed'
  <1>1. engine.at \in 0 .. Len(Stages) /\ engine.at < Len(Stages)
    BY DEF TypeInv, EngineInv, EngineRecord, Underway, Build, Attaching
  <1>2. NextStage \in 1 .. 18
    BY <1>1, NextStageIs, StagesAre
  <1>3. up' = up \cup Builds(Stage) /\ Requires[Stage] \subseteq up
    BY DEF Build
  <1>4. Stage \in StageNames
    BY <1>2 DEF Stage, Stages, StageNames
  <1>5. Requires[Stage] = Wired[Stage].needs
    BY <1>4 DEF Requires, Wired, StageNames
  <1>6. \A part \in Wired[Stage].builds \cap DOMAIN Uses : Uses[part] \subseteq up'
    BY <1>3, <1>4, <1>5, WiredCalls DEF Builds
  <1>7. Stage = "notification" => "queue" \in Wired[Stage].builds
    BY DEF Wired, NotificationStack
  <1>8. \A part \in Builds(Stage) \cap DOMAIN Uses : Uses[part] \subseteq up'
    <2>1. Uses["worker"] = {"queue"}
      BY DEF Uses
    <2> QED
      BY <1>3, <1>6, <1>7, <2>1 DEF Builds, TelegramWorker
  <1> QED
    BY <1>3, <1>8 DEF UsesClosed

\* Detach takes the users down before what they use.
LEMMA DetachKeepsParts ==
    ASSUME TypeInv, PartsInv, Detach
    PROVE  PartsInv'
  <1> DEFINE m == Min(Standing)
  <1>1. engine.at \in Nat /\ engine \in EngineRecord /\ engine.phase = "detaching"
    BY StagesAre DEF TypeInv, EngineInv, EngineRecord, Detach
  <1>2. Standing \subseteq Nat /\ Standing # {}
    BY <1>1, TeardownIs DEF Standing, Detach
  <1>3. m \in Standing /\ \A n \in Standing : m <= n
    BY <1>2, MinIs
  <1>4. up' = up \ Teardown[m] /\ engine' = [engine EXCEPT !.at = m]
    BY DEF Detach, Cancels
  <1>5. m \in 1 .. 15 /\ engine'.at = m
    BY <1>1, <1>3, <1>4, TeardownIs DEF Standing, EngineRecord
  <1> HIDE DEF m
  <1>6. ASSUME NEW i \in 1 .. m
        PROVE  Teardown[i] \cap up' = {}
    <2>1. CASE i = m
      BY <1>4, <2>1
    <2>2. CASE i <= engine.at
      BY <1>1, <1>4, <2>2 DEF PartsInv, TakenDown
    <2>3. CASE engine.at < i /\ i < m
      <3>1. i \notin Standing
        BY <1>2, <1>3, <1>5, <2>3
      <3> QED
        BY <1>1, <1>4, <1>5, <2>3, <3>1, TeardownIs DEF Standing
    <2> QED
      BY <1>1, <1>5, <2>1, <2>2, <2>3
  <1>7. UsesClosed'
    <2> SUFFICES ASSUME NEW part \in up' \cap DOMAIN Uses
                 PROVE  Uses[part] \subseteq up'
      BY DEF UsesClosed
    <2>1. Uses[part] \subseteq up
      BY <1>4 DEF PartsInv, UsesClosed
    <2>2. Uses[part] \cap Teardown[m] = {}
      BY <1>5, <1>6, UsersFirst
    <2> QED
      BY <1>4, <2>1, <2>2
  <1> QED
    BY <1>5, <1>6, <1>7 DEF PartsInv, TakenDown

\* Every step keeps the parts a part uses.
LEMMA PartsStep ==
    ASSUME TypeInv, PartsInv, Next
    PROVE  PartsInv'
  <1>1. CASE Detach
    BY <1>1, DetachKeepsParts
  <1>2. CASE ProcessEnds
    BY <1>2 DEF ProcessEnds, Down, PartsInv, UsesClosed, TakenDown
  <1>3. CASE Build
    <2>1. engine'.phase # "detaching"
      BY <1>3, DetachingLasts DEF Build, Attaching, Shutdown, Detach
    <2> QED
      BY <1>3, <2>1, BuildUses DEF PartsInv, TakenDown
  <1>4. CASE up' \in {up, up \ {"prime"}} /\ ~Detach
    <2>1. UsesClosed'
      <3>1. \A part \in DOMAIN Uses : "prime" \notin Uses[part]
        BY DEF Uses
      <3> QED
        BY <1>4, <3>1 DEF PartsInv, UsesClosed
    <2>2. CASE Shutdown
      BY <2>1, <2>2 DEF Shutdown, PartsInv, TakenDown
    <2>3. CASE engine'.phase # "detaching"
      BY <2>1, <2>3 DEF PartsInv, TakenDown
    <2>4. CASE engine' = engine
      BY <1>4, <2>1, <2>4 DEF PartsInv, TakenDown
    <2> QED
      BY <1>4, <2>2, <2>3, <2>4, DetachingLasts
  <1> QED
    BY <1>1, <1>2, <1>3, <1>4, UpFrame DEF UpMove

\* What a running part calls runs, through attach, complete or not, and detach,
\* at whose end nothing runs.
THEOREM NothingIsPulledAway == Spec => []NothingPulledAway
  <1>1. Init => PartsInv
    BY DEF Init, Down, PartsInv, UsesClosed, TakenDown
  <1>2. TypeInv /\ PartsInv /\ [Next]_vars => PartsInv'
    <2>1. PartsInv /\ UNCHANGED vars => PartsInv'
      BY DEF PartsInv, UsesClosed, TakenDown, vars, engineVars
    <2> QED
      BY <2>1, PartsStep
  <1>3. TypeInv /\ PartsInv => NothingPulledAway
    <2> SUFFICES ASSUME TypeInv, PartsInv, engine.phase = "detaching", Standing = {}, NEW part \in up
                 PROVE  FALSE
      BY DEF NothingPulledAway, PartsInv, UsesClosed
    <2>1. PICK i \in 1 .. 15 : part \in Teardown[i]
      BY TeardownIs DEF TypeInv, TasksTypeOK
    <2>2. engine.at \in Nat
      BY StagesAre DEF TypeInv, EngineInv, EngineRecord
    <2>3. CASE i <= engine.at
      BY <2>1, <2>2, <2>3 DEF PartsInv, TakenDown
    <2>4. CASE engine.at < i
      BY <2>1, <2>2, <2>4, TeardownIs DEF Standing
    <2> QED
      BY <2>2, <2>3, <2>4
  <1> QED
    BY <1>1, <1>2, <1>3, TypesKept, PTL DEF Spec

-----------------------------------------------------------------------------
(* The notifications.                                                       *)

\* The worker keeps the row it is at: it is PENDING until the worker is done
\* with it, and shown when the worker says so.  A stopped worker has none.
WorkerInv ==
    /\ worker.pc \in {"send", "sent", "unsent"} =>
           worker.row \in Alert /\ rows[worker.row].status = "PENDING"
    /\ worker.pc = "sent" => told[worker.row] > 0
    /\ ~Runs("worker") => worker = Asleep

\* enqueue writes an unused row, and nothing else.
LEMMA EnqueueIs ==
    ASSUME AlertsTypeOK, NEW sev \in Severity, NEW key \in Key, Enqueue(sev, key)
    PROVE  \/ rows' = rows
           \/ \E a \in Absent :
                  rows' = [rows EXCEPT ![a] = [sev |-> sev, key |-> key,
                                               status |-> "PENDING", aged |-> FALSE]]
  <1>1. Absent \subseteq Nat
    BY AlertsAssumption DEF Absent, Alert
  <1>2. Absent # {} => Min(Absent) \in Absent
    BY <1>1, MinIs
  <1> QED
    BY <1>2 DEF Enqueue

\* Rows the worker holds and rows that are SENT are not written by others.
LEMMA EnqueueKeeps ==
    ASSUME AlertsTypeOK, NEW sev \in Severity, NEW key \in Key, Enqueue(sev, key), NEW a \in Alert
    PROVE  \/ rows'[a] = rows[a]
           \/ rows[a].status = "absent" /\ rows'[a].status = "PENDING"
  <1>1. rows \in [Alert -> Record]
    BY DEF AlertsTypeOK
  <1>2. CASE rows' = rows
    BY <1>2
  <1>3. ASSUME NEW b \in Absent,
               rows' = [rows EXCEPT ![b] = [sev |-> sev, key |-> key,
                                            status |-> "PENDING", aged |-> FALSE]]
        PROVE  \/ rows'[a] = rows[a]
               \/ rows[a].status = "absent" /\ rows'[a].status = "PENDING"
    BY <1>1, <1>3 DEF Absent
  <1> QED
    BY <1>2, <1>3, EnqueueIs

\* A worker that ran and does not any more was taken down.
LEMMA WorkerStops ==
    ASSUME Next, Runs("worker"), ~Runs("worker")'
    PROVE  worker' = Asleep
  <1>1. up' \in {up, up \ {"prime"}} \/ Build => "worker" \in up'
    BY DEF Runs, Build
  <1>2. Detach \/ ProcessEnds
    BY <1>1, UpFrame DEF UpMove, Runs
  <1>3. CASE ProcessEnds
    BY <1>3 DEF ProcessEnds
  <1>4. CASE Detach
    BY <1>4 DEF Detach, Cancels, Runs
  <1> QED
    BY <1>2, <1>3, <1>4

\* The row the worker holds, without what its stop leaves.
Holding ==
    /\ worker.pc \in {"send", "sent", "unsent"} =>
           worker.row \in Alert /\ rows[worker.row].status = "PENDING"
    /\ worker.pc = "sent" => told[worker.row] > 0

\* enqueue touches no row that is held.
LEMMA EnqueueHolding ==
    ASSUME AlertsTypeOK, Holding, NEW sev \in Severity, NEW key \in Key, Enqueue(sev, key),
           UNCHANGED <<worker, told>>
    PROVE  Holding'
  <1>1. \A a \in Alert : rows[a].status = "PENDING" => rows'[a].status = "PENDING"
    BY EnqueueKeeps
  <1> QED
    BY <1>1 DEF Holding

\* A step of the notifications keeps the row in hand.
LEMMA StepHolding ==
    ASSUME AlertsTypeOK, Holding, AlertsStep
    PROVE  Holding'
  <1>0. /\ rows \in [Alert -> Record] /\ told \in [Alert -> Nat]
        /\ worker \in [pc : {"idle", "fetch", "send", "sent", "unsent"}, row : 0 .. MaxAlerts,
                       tries : 0 .. CriticalTries]
    BY DEF AlertsTypeOK
  <1>1. CASE Expire
    <2>1. worker'.pc = "fetch"
      BY <1>0, <1>1 DEF Expire
    <2> QED
      BY <2>1 DEF Holding
  <1>2. CASE Fetch
    <2>1. worker' = Asleep \/ (worker'.pc = "send" /\ worker'.row = NextPending /\ Fetchable # {})
      BY <1>2 DEF Fetch
    <2>2. Fetchable # {} => NextPending \in Alert /\ rows[NextPending].status = "PENDING"
      BY NextPendingIs DEF Fetchable
    <2> QED
      BY <1>2, <2>1, <2>2 DEF Fetch, Asleep, Holding
  <1>3. CASE SendAccepted
    <2>1. worker' = [worker EXCEPT !.pc = "sent"]
      BY <1>3 DEF SendAccepted, Accepted
    <2>2. worker.row \in Alert /\ rows[worker.row].status = "PENDING"
      BY <1>3 DEF SendAccepted, Holding
    <2>3. told'[worker.row] = told[worker.row] + 1 /\ told[worker.row] \in Nat
      BY <1>0, <1>3, <2>2 DEF SendAccepted
    <2>4. worker'.row = worker.row /\ worker'.pc = "sent"
      BY <1>0, <2>1
    <2> QED
      BY <1>3, <2>2, <2>3, <2>4 DEF SendAccepted, Holding
  <1>4. CASE SendFails
    <2>1. worker'.row = worker.row /\ worker'.pc \in {"send", "unsent"}
      BY <1>0, <1>4 DEF SendFails
    <2> QED
      BY <1>4, <2>1 DEF SendFails, Holding
  <1>5. CASE MarkRow \/ StepRaises
    BY <1>5 DEF MarkRow, StepRaises, Asleep, Holding
  <1>6. CASE BreakerTimesOut
    BY <1>6 DEF BreakerTimesOut, Holding
  <1>7. CASE AlertsAge
    <2>1. \A a \in Alert : rows'[a].status = rows[a].status
      BY <1>0, <1>7 DEF AlertsAge, Record
    <2> QED
      BY <1>7, <2>1 DEF AlertsAge, Holding
  <1>8. CASE OthersNotify
    BY <1>8, EnqueueHolding DEF OthersNotify
  <1> QED
    BY <1>1, <1>2, <1>3, <1>4, <1>5, <1>6, <1>7, <1>8 DEF AlertsStep, WorkerStep

\* Every step keeps the worker at its row.
LEMMA WorkerInvStep ==
    ASSUME TypeInv, WorkerInv, Next
    PROVE  WorkerInv'
  <1>0. AlertsTypeOK /\ Holding
    BY DEF TypeInv, WorkerInv, Holding
  <1>1. Holding'
    <2>1. CASE UNCHANGED alertVars
      BY <1>0, <2>1 DEF alertVars, Holding
    <2>2. CASE AlertsStep
      BY <1>0, <2>2, StepHolding
    <2>3. CASE /\ \E sev \in Severity, key \in Key : Enqueue(sev, key)
               /\ UNCHANGED <<breaker, worker, told>>
      BY <1>0, <2>3, EnqueueHolding
    <2>4. CASE UNCHANGED <<rows, told>> /\ worker' \in {worker, Asleep}
      BY <1>0, <2>4 DEF Asleep, Holding
    <2> QED
      BY <2>1, <2>2, <2>3, <2>4, AlertsFrame DEF AlertsMove
  <1>2. ~Runs("worker")' => worker' = Asleep
    <2>1. CASE Runs("worker")
      BY <2>1, WorkerStops
    <2>2. CASE ~Runs("worker")
      <3>1. worker = Asleep
        BY <2>2 DEF WorkerInv
      <3>2. AlertsStep => worker' = worker
        BY <2>2 DEF AlertsStep, WorkerStep, BreakerTimesOut, AlertsAge, OthersNotify
      <3> QED
        BY <3>1, <3>2, AlertsFrame DEF AlertsMove, alertVars
    <2> QED
      BY <2>1, <2>2
  <1> QED
    BY <1>1, <1>2 DEF WorkerInv, Holding

\* The worker's invariant.
LEMMA WorkerInvKept == Spec => []WorkerInv
  <1>1. Init => WorkerInv
    BY DEF Init, AlertsInit, Asleep, WorkerInv
  <1>2. TypeInv /\ WorkerInv /\ [Next]_vars => WorkerInv'
    <2>1. WorkerInv /\ UNCHANGED vars => WorkerInv'
      BY DEF WorkerInv, Runs, vars, alertVars
    <2> QED
      BY <2>1, WorkerInvStep
  <1> QED
    BY <1>1, <1>2, TypesKept, PTL DEF Spec

\* What happens to one row in a step.
LEMMA RowMoves ==
    ASSUME TypeInv, WorkerInv, Next, NEW a \in Alert
    PROVE  \/ rows'[a].status = rows[a].status /\ rows'[a].sev = rows[a].sev
           \/ rows[a].status = "absent" /\ rows'[a].status = "PENDING"
           \/ Expire /\ Stale(rows[a]) /\ rows'[a].status = "EXPIRED" /\ rows'[a].sev = rows[a].sev
           \/ /\ MarkRow /\ a = worker.row /\ rows[a].status = "PENDING"
              /\ rows'[a].status = Outcome(worker) /\ rows'[a].sev = rows[a].sev
  <1>0. rows \in [Alert -> Record] /\ AlertsTypeOK
    BY DEF TypeInv, AlertsTypeOK
  <1>1. CASE UNCHANGED rows
    BY <1>1
  <1>2. CASE \E sev \in Severity, key \in Key : Enqueue(sev, key)
    BY <1>0, <1>2, EnqueueKeeps
  <1>3. CASE Expire
    <2>1. rows'[a] = IF Stale(rows[a]) THEN [rows[a] EXCEPT !.status = "EXPIRED"] ELSE rows[a]
      BY <1>3 DEF Expire
    <2>2. rows[a] \in Record
      BY <1>0
    <2>3. CASE Stale(rows[a])
      BY <1>3, <2>1, <2>2, <2>3 DEF Record
    <2> QED
      BY <2>1, <2>3
  <1>4. CASE MarkRow
    <2>1. worker.row \in Alert /\ rows[worker.row].status = "PENDING"
      BY <1>4 DEF MarkRow, WorkerInv
    <2>2. CASE a = worker.row
      <3>1. rows'[a] = [rows[a] EXCEPT !.status = Outcome(worker)]
        BY <1>0, <1>4, <2>2 DEF MarkRow
      <3>2. rows[a] \in Record
        BY <1>0
      <3> QED
        BY <1>4, <2>1, <2>2, <3>1, <3>2 DEF Record
    <2>3. CASE a # worker.row
      BY <1>0, <1>4, <2>3 DEF MarkRow
    <2> QED
      BY <2>2, <2>3
  <1>5. CASE AlertsAge
    BY <1>0, <1>5 DEF AlertsAge, Record
  <1>6. AlertsStep => \/ UNCHANGED rows \/ Expire \/ MarkRow \/ AlertsAge
                      \/ \E sev \in Severity, key \in Key : Enqueue(sev, key)
    BY DEF AlertsStep, WorkerStep, Fetch, SendAccepted, SendFails, StepRaises, BreakerTimesOut,
           OthersNotify
  <1> QED
    BY <1>1, <1>2, <1>3, <1>4, <1>5, <1>6, AlertsFrame DEF AlertsMove, alertVars

\* Telegram shows the row the worker is at, or none.
LEMMA ToldMoves ==
    ASSUME Next
    PROVE  \/ told' = told
           \/ SendAccepted /\ Runs("worker")
           \/ SendFails /\ Runs("worker") /\ told' = [told EXCEPT ![worker.row] = @ + 1]
  <1>1. AlertsStep => \/ told' = told
                      \/ SendAccepted /\ Runs("worker")
                      \/ SendFails /\ Runs("worker") /\ told' = [told EXCEPT ![worker.row] = @ + 1]
    BY DEF AlertsStep, WorkerStep, Expire, Fetch, SendFails, MarkRow, StepRaises, BreakerTimesOut,
           AlertsAge, OthersNotify
  <1> QED
    BY <1>1, AlertsFrame DEF AlertsMove, alertVars

\* A row is shown once more, or not.
LEMMA ToldRises ==
    ASSUME TypeInv, Next, NEW a \in Alert
    PROVE  told'[a] \in {told[a], told[a] + 1}
  <1>1. told \in [Alert -> Nat]
    BY DEF TypeInv, AlertsTypeOK
  <1>2. told' = told \/ told' = [told EXCEPT ![worker.row] = @ + 1]
    BY ToldMoves DEF SendAccepted
  <1> QED
    BY <1>1, <1>2

\* Every step keeps the important rows.
LEMMA ImportantStep ==
    ASSUME TypeInv, WorkerInv, ImportantKept, Next
    PROVE  ImportantKept'
  <1> SUFFICES ASSUME NEW a \in Alert, rows'[a].sev \in {"CRITICAL", "HIGH"}
               PROVE  /\ rows'[a].status \in {"absent", "PENDING", "SENT"}
                      /\ rows'[a].status = "SENT" => told'[a] > 0
    BY DEF ImportantKept
  <1>0. told \in [Alert -> Nat]
    BY DEF TypeInv, AlertsTypeOK
  <1>1. told[a] > 0 => told'[a] > 0
    BY <1>0, ToldRises
  <1>2. CASE rows'[a].status = rows[a].status /\ rows'[a].sev = rows[a].sev
    BY <1>1, <1>2 DEF ImportantKept
  <1>3. CASE rows[a].status = "absent" /\ rows'[a].status = "PENDING"
    BY <1>3
  <1>4. CASE Expire /\ Stale(rows[a]) /\ rows'[a].sev = rows[a].sev
    BY <1>4 DEF Stale, NeverExpires
  <1>5. CASE /\ MarkRow /\ a = worker.row /\ rows'[a].status = Outcome(worker)
             /\ rows'[a].sev = rows[a].sev
    <2>1. CASE worker.pc = "sent"
      <3>1. told[a] > 0 /\ rows'[a].status = "SENT"
        BY <1>5, <2>1 DEF Outcome, WorkerInv
      <3> QED
        BY <1>1, <3>1
    <2>2. CASE worker.pc # "sent"
      BY <1>5, <2>2 DEF Outcome, Reverts
    <2> QED
      BY <2>1, <2>2
  <1> QED
    BY <1>2, <1>3, <1>4, <1>5, RowMoves

\* A CRITICAL or HIGH row is never given up, and SENT only when it was shown.
THEOREM ImportantIsKept == Spec => []ImportantKept
  <1>1. Init => ImportantKept
    BY DEF Init, AlertsInit, NoRecord, ImportantKept
  <1>2. TypeInv /\ WorkerInv /\ ImportantKept /\ [Next]_vars => ImportantKept'
    <2>1. ImportantKept /\ UNCHANGED vars => ImportantKept'
      BY DEF ImportantKept, vars, alertVars
    <2> QED
      BY <2>1, ImportantStep
  <1> QED
    BY <1>1, <1>2, TypesKept, WorkerInvKept, PTL DEF Spec

\* A row that is shown again has an upset to show for it, a shutdown that may
\* still take the worker down included.
Owed == IF engine.phase = "detaching" /\ Runs("worker") THEN 1 ELSE 0

Done(a) == IF rows[a].status = "SENT" \/ (worker.pc = "sent" /\ worker.row = a) THEN 1 ELSE 0

BudgetInv == \A a \in Alert : told[a] + Owed <= upsets + Done(a)

\* A stop of the worker is paid for.
LEMMA OwedFalls ==
    ASSUME TypeInv, Next
    PROVE  \/ Owed' <= Owed
           \/ Shutdown /\ Owed = 0 /\ Owed' <= 1
  <1>1. CASE Shutdown
    <2>1. engine.phase = "up"
      BY <1>1 DEF Shutdown
    <2> QED
      BY <1>1, <2>1 DEF Owed
  <1>2. CASE ~Shutdown
    <2>1. engine'.phase = "detaching" => engine.phase = "detaching"
      BY <1>2, DetachingLasts DEF Detach
    <2>2. engine.phase = "detaching" /\ Runs("worker")' => Runs("worker")
      BY UpFrame DEF UpMove, Build, Attaching, Detach, Cancels, ProcessEnds, Runs
    <2> QED
      BY <2>1, <2>2 DEF Owed
  <1> QED
    BY <1>1, <1>2

\* The worker forgets what it has shown only when a statement raises or when
\* it is stopped.
LEMMA DoneFalls ==
    ASSUME TypeInv, WorkerInv, Next, NEW a \in Alert, Done(a) = 1, Done(a)' # 1
    PROVE  \/ (StepRaises \/ Crash) /\ Upset
           \/ Owed = 1 /\ Owed' = 0
  <1>0. rows \in [Alert -> Record]
    BY DEF TypeInv, AlertsTypeOK
  <1>1. rows[a].status # "SENT"
    <2> SUFFICES ASSUME rows[a].status = "SENT" PROVE FALSE
      OBVIOUS
    <2>1. rows'[a].status = "SENT"
      BY RowMoves DEF Stale
    <2> QED
      BY <2>1 DEF Done
  <1>2. worker.pc = "sent" /\ worker.row = a /\ worker # Asleep /\ Runs("worker")
    BY <1>1 DEF Done, WorkerInv, Asleep
  <1>3. worker' # worker
    BY <1>2 DEF Done
  <1>4. CASE AlertsStep
    <2>1. ~MarkRow
      <3> SUFFICES ASSUME MarkRow PROVE FALSE
        OBVIOUS
      <3>1. rows'[a] = [rows[a] EXCEPT !.status = "SENT"]
        BY <1>0, <1>2 DEF MarkRow, Outcome
      <3>2. rows[a] \in Record
        BY <1>0
      <3>3. rows'[a].status = "SENT"
        BY <3>1, <3>2 DEF Record
      <3> QED
        BY <3>3 DEF Done
    <2>2. StepRaises
      BY <1>2, <1>3, <1>4, <2>1 DEF AlertsStep, WorkerStep, Expire, Fetch, SendAccepted, SendFails,
         BreakerTimesOut, AlertsAge, OthersNotify
    <2> QED
      BY <2>2 DEF StepRaises
  <1>5. CASE Crash
    BY <1>5 DEF Crash
  <1>6. CASE Exit
    BY <1>2, <1>6 DEF Exit, ProcessEnds, Down, Owed
  <1>7. CASE Detach
    <2>1. "worker" \in Teardown[Min(Standing)]
      BY <1>3, <1>7 DEF Detach, Cancels
    <2>2. ~Runs("worker")' /\ engine.phase = "detaching"
      BY <1>7, <2>1 DEF Detach, Cancels, Runs
    <2> QED
      BY <1>2, <2>2 DEF Owed
  <1> QED
    BY <1>3, <1>4, <1>5, <1>6, <1>7, AlertsFrame DEF AlertsMove, alertVars

\* Every step keeps the repeats within the upsets.
LEMMA BudgetStep ==
    ASSUME TypeInv, WorkerInv, BudgetInv, Next
    PROVE  BudgetInv'
  <1> SUFFICES ASSUME NEW a \in Alert
               PROVE  told'[a] + Owed' <= upsets' + Done(a)'
    BY DEF BudgetInv
  <1>0. /\ told \in [Alert -> Nat] /\ upsets \in Nat
        /\ told[a] + Owed <= upsets + Done(a)
    BY TasksAssumption DEF TypeInv, AlertsTypeOK, TasksTypeOK, BudgetInv
  <1>1. /\ Owed \in {0, 1} /\ Owed' \in {0, 1}
        /\ Done(a) \in {0, 1} /\ Done(a)' \in {0, 1}
    BY DEF Owed, Done
  <1>2. upsets' \in {upsets, upsets + 1} /\ (Upset => upsets' = upsets + 1)
    BY EveryStepCounts DEF Smooth, Upset
  <1>3. CASE SendAccepted /\ Runs("worker")
    <2>1. worker.row \in Alert /\ rows[worker.row].status = "PENDING" /\ worker.pc = "send"
      BY <1>3 DEF SendAccepted, WorkerInv
    <2>2. worker'.pc = "sent" /\ worker'.row = worker.row /\ UNCHANGED rows
      BY <1>3 DEF SendAccepted, Accepted, TypeInv, AlertsTypeOK
    <2>3. Owed' <= Owed
      <3>1. ~Shutdown
        BY <1>0, <1>3, <2>1 DEF Shutdown, SendAccepted, alertVars
      <3> QED
        BY <3>1, OwedFalls
    <2>4. CASE a = worker.row
      <3>1. Done(a) = 0 /\ Done(a)' = 1
        BY <2>1, <2>2, <2>4 DEF Done
      <3>2. told'[a] = told[a] + 1 /\ told[a] \in Nat
        BY <1>0, <1>3, <2>4 DEF SendAccepted
      <3> QED
        BY <1>0, <1>1, <1>2, <2>3, <3>1, <3>2
    <2>5. CASE a # worker.row
      <3>1. Done(a)' = Done(a)
        BY <2>1, <2>2, <2>5 DEF Done
      <3>2. told'[a] = told[a] /\ told[a] \in Nat
        BY <1>0, <1>3, <2>5 DEF SendAccepted
      <3> QED
        BY <1>0, <1>1, <1>2, <2>3, <3>1, <3>2
    <2> QED
      BY <2>4, <2>5
  <1>4. CASE SendFails /\ Runs("worker")
    <2>1. worker.row \in Alert /\ worker.pc = "send" /\ upsets' = upsets + 1 /\ UNCHANGED rows
      BY <1>2, <1>4 DEF SendFails, WorkerInv
    <2>2. worker'.pc # "sent"
      BY <1>4 DEF SendFails, TypeInv, AlertsTypeOK
    <2>3. Done(a)' = Done(a)
      BY <2>1, <2>2 DEF Done
    <2>4. Owed' <= Owed
      <3>1. ~Shutdown
        BY <2>1, <1>4, <2>2 DEF Shutdown, SendFails, alertVars, TypeInv, AlertsTypeOK
      <3> QED
        BY <3>1, OwedFalls
    <2>5. told'[a] \in {told[a], told[a] + 1} /\ told[a] \in Nat
      BY <1>0, ToldRises
    <2> QED
      BY <1>0, <1>1, <2>1, <2>3, <2>4, <2>5
  <1>5. CASE told' = told
    <2>1. told'[a] = told[a] /\ told[a] \in Nat
      BY <1>0, <1>5
    <2>2. CASE Shutdown
      <3>1. Done(a)' = Done(a) /\ upsets' = upsets + 1
        BY <1>2, <2>2 DEF Shutdown, alertVars, Done
      <3> QED
        BY <1>0, <1>1, <2>1, <3>1
    <2>3. CASE ~Shutdown
      <3>1. Owed' <= Owed
        BY <2>3, OwedFalls
      <3>2. CASE Done(a) = 1 /\ Done(a)' # 1
        <4>1. upsets' = upsets + 1 \/ (Owed = 1 /\ Owed' = 0)
          BY <1>2, <3>2, DoneFalls
        <4> QED
          BY <1>0, <1>1, <1>2, <2>1, <3>1, <4>1
      <3>3. CASE ~(Done(a) = 1 /\ Done(a)' # 1)
        BY <1>0, <1>1, <1>2, <2>1, <3>1, <3>3
      <3> QED
        BY <3>2, <3>3
    <2> QED
      BY <2>2, <2>3
  <1> QED
    BY <1>3, <1>4, <1>5, ToldMoves

\* Telegram shows a row at most once more than things went wrong.
THEOREM RepeatsArePaid == Spec => []RepeatsNeedUpsets
  <1>1. Init => BudgetInv
    <2> SUFFICES ASSUME Init, NEW a \in Alert
                 PROVE  told[a] + Owed <= upsets + Done(a)
      BY DEF BudgetInv
    <2>1. told[a] = 0 /\ upsets = 0 /\ Owed = 0 /\ Done(a) \in {0, 1}
      BY DEF Init, AlertsInit, Down, Owed, Done
    <2> QED
      BY <2>1
  <1>2. TypeInv /\ WorkerInv /\ BudgetInv /\ [Next]_vars => BudgetInv'
    <2>1. BudgetInv /\ UNCHANGED vars => BudgetInv'
      BY DEF BudgetInv, Owed, Done, Runs, vars, alertVars, engineVars
    <2> QED
      BY <2>1, BudgetStep
  <1>3. TypeInv /\ BudgetInv => RepeatsNeedUpsets
    <2> SUFFICES ASSUME TypeInv, BudgetInv, NEW a \in Alert
                 PROVE  told[a] <= 1 + upsets
      BY DEF RepeatsNeedUpsets
    <2>1. told[a] \in Nat /\ upsets \in Nat /\ told[a] + Owed <= upsets + Done(a)
      BY TasksAssumption DEF TypeInv, AlertsTypeOK, TasksTypeOK, BudgetInv
    <2>2. Owed \in {0, 1} /\ Done(a) \in {0, 1}
      BY DEF Owed, Done
    <2> QED
      BY <2>1, <2>2
  <1> QED
    BY <1>1, <1>2, <1>3, TypesKept, WorkerInvKept, PTL DEF Spec

-----------------------------------------------------------------------------
(* What the ticks feed.                                                     *)

\* A part that ran and does not any more, other than prime.
LEMMA PartStops ==
    ASSUME Next, NEW part, part # "prime", Runs(part), ~Runs(part)'
    PROVE  Detach \/ ProcessEnds
  <1>1. up' \in {up, up \ {"prime"}} \/ Build => part \in up'
    BY DEF Runs, Build
  <1> QED
    BY <1>1, UpFrame DEF UpMove, Runs

-----------------------------------------------------------------------------
(* Three-minute bars.                                                       *)

\* The bar in progress is the latest, and has every tick of its bucket.  With
\* none in progress nothing has been counted, unless detach has stopped it.
Stopped == engine.phase = "detaching" /\ ~Runs("candle")

BarsInv ==
    /\ sent.exact
    /\ bar.start # 0 =>
           /\ bar.start > sent.bar /\ bar.start \in Bucket
           /\ bar.volume = sent.ticks[bar.start]
           /\ \A b \in Bucket : b > bar.start => sent.ticks[b] = 0
    /\ bar.start = 0 /\ ~Stopped =>
           sent.bar = 0 /\ \A b \in Bucket : sent.ticks[b] = 0

\* A tick, late or not.
LEMMA TickKeepsBars ==
    ASSUME Typed, BarsInv, ~Stopped, NEW b \in Bucket,
           bar' = AfterTick(b), sent' = SentAfter(b)
    PROVE  /\ sent'.exact
           /\ bar'.start # 0 /\ bar'.start > sent'.bar /\ bar'.start \in Bucket
           /\ bar'.volume = sent'.ticks[bar'.start]
           /\ \A c \in Bucket : c > bar'.start => sent'.ticks[c] = 0
  <1> DEFINE start == IF bar.start = 0 \/ b > bar.start THEN b ELSE bar.start
             last  == IF Finishes(b) THEN bar.start ELSE sent.bar
             exact == sent.exact /\ (Finishes(b) => bar.start > sent.bar
                                                    /\ bar.volume = sent.ticks[bar.start])
  <1>0. /\ sent \in SentType /\ sent.ticks \in [Bucket -> Nat] /\ sent.bar \in Nat
        /\ bar \in BarType /\ bar.start \in Nat
        /\ bar.volume \in Nat /\ Bucket \subseteq Nat \ {0}
    BY FeedAssumption DEF Typed, SentType, BarType, Bucket
  <1>1. SentAfter(b) = [sent EXCEPT !.ticks = Counts(b), !.bar = last, !.exact = exact]
    BY DEF SentAfter
  <1>2. sent'.ticks = Counts(b) /\ sent'.bar = last /\ sent'.exact = exact
    <2> HIDE DEF last, exact
    <2> QED
      BY <1>0, <1>1 DEF SentType
  <1>3. exact
    BY DEF BarsInv, Finishes
  <1>4. \A c \in Bucket : sent'.ticks[c] = IF c = b THEN sent.ticks[c] + 1 ELSE sent.ticks[c]
    BY <1>0, <1>2 DEF Counts
  <1>5. CASE bar.start = 0
    <2>1. bar'.start = b /\ bar'.volume = 1 /\ last = 0
      BY <1>5 DEF AfterTick, Finishes, BarsInv
    <2>2. \A c \in Bucket : sent.ticks[c] = 0
      BY <1>5 DEF BarsInv
    <2>3. sent'.ticks[b] = 1
      BY <1>4, <2>2
    <2>4. \A c \in Bucket : c > b => sent'.ticks[c] = 0
      BY <1>0, <1>4, <2>2
    <2>5. sent'.exact /\ sent'.bar = 0
      BY <1>2, <1>3, <2>1
    <2>6. b > 0 /\ b # 0
      BY <1>0
    <2> QED
      BY <2>1, <2>3, <2>4, <2>5, <2>6
  <1>6. CASE bar.start # 0 /\ b > bar.start
    <2>1. bar'.start = b /\ bar'.volume = 1 /\ last = bar.start
      BY <1>6 DEF AfterTick, Finishes
    <2>2. \A c \in Bucket : c > bar.start => sent.ticks[c] = 0
      BY <1>6 DEF BarsInv
    <2>3. sent'.ticks[b] = 1
      BY <1>4, <1>6, <2>2
    <2>4. \A c \in Bucket : c > b => sent'.ticks[c] = 0
      BY <1>0, <1>4, <1>6, <2>2
    <2> QED
      BY <1>0, <1>2, <1>3, <1>6, <2>1, <2>3, <2>4
  <1>7. CASE bar.start # 0 /\ ~(b > bar.start)
    <2>1. last = sent.bar /\ bar.start > sent.bar /\ bar.start \in Bucket
      BY <1>7 DEF Finishes, BarsInv
    <2>2. \A c \in Bucket : c > bar.start => sent'.ticks[c] = 0
      BY <1>0, <1>4, <1>7 DEF BarsInv
    <2>3. CASE b = bar.start
      <3>1. bar' = [bar EXCEPT !.volume = @ + 1]
        BY <1>0, <1>7, <2>3 DEF AfterTick
      <3>2. bar'.start = bar.start /\ bar'.volume = bar.volume + 1
        BY <1>0, <3>1 DEF BarType
      <3>3. sent'.ticks[bar.start] = bar.volume + 1
        BY <1>4, <1>7, <2>3 DEF BarsInv
      <3> QED
        BY <1>2, <1>3, <1>7, <2>1, <2>2, <3>2, <3>3
    <2>4. CASE b # bar.start
      <3>1. bar' = bar
        BY <1>7, <2>4 DEF AfterTick
      <3>2. sent'.ticks[bar.start] = bar.volume
        BY <1>4, <1>7, <2>1, <2>4 DEF BarsInv
      <3> QED
        BY <1>2, <1>3, <1>7, <2>1, <2>2, <3>1, <3>2
    <2> QED
      BY <2>3, <2>4
  <1> QED
    BY <1>5, <1>6, <1>7

\* The flush of a stop sends what is in progress.
LEMMA StopKeepsBars ==
    ASSUME Typed, BarsInv, sent' = SentOnStop
    PROVE  sent'.exact
  <1>1. CASE bar.start = 0
    BY <1>1 DEF SentOnStop, BarsInv
  <1>2. CASE bar.start # 0
    BY <1>2 DEF SentOnStop, BarsInv, Typed, SentType
  <1> QED
    BY <1>1, <1>2

\* Every step keeps the bars exact.
LEMMA BarsStep ==
    ASSUME TypeInv, BarsInv, Next
    PROVE  BarsInv'
  <1>0. Typed
    BY TypedIs DEF TypeInv
  <1>5. ~ProcessEnds /\ ~Detach /\ Stopped => Stopped'
    <2>1. ~ProcessEnds /\ ~Detach /\ engine.phase = "detaching" => engine' = engine
      BY DetachingLasts
    <2>2. ~ProcessEnds /\ ~Detach /\ Stopped => ~Runs("candle")'
      BY UpFrame DEF UpMove, Build, Attaching, Runs, Stopped
    <2> QED
      BY <2>1, <2>2 DEF Stopped
  <1>1. CASE ReadTick /\ ~ProcessEnds /\ ~Detach
    <2>1. CASE UNCHANGED <<bar, sent>>
      BY <1>5, <1>1, <2>1 DEF BarsInv
    <2>2. CASE Follows
      <3>1. ~Stopped
        BY <2>2 DEF Stopped, Follows
      <3>2. /\ clock.bucket \in Bucket
            /\ bar' = AfterTick(clock.bucket) /\ sent' = SentAfter(clock.bucket)
        BY <1>0, <1>1, <2>2 DEF ReadTick, Typed, ClockType
      <3> QED
        BY <1>0, <3>1, <3>2, TickKeepsBars DEF BarsInv
    <2> QED
      BY <1>1, <2>1, <2>2 DEF ReadTick
  <1>2. CASE ProcessEnds
    BY <1>2 DEF ProcessEnds, NoBar, NothingSent, BarsInv
  <1>3. CASE Detach
    <2>1. engine'.phase = "detaching"
      BY <1>3 DEF Detach, TypeInv, EngineInv, EngineRecord
    <2>2. CASE "candle" \in Teardown[Min(Standing)]
      <3>1. sent' = SentOnStop /\ bar' = NoBar /\ ~Runs("candle")'
        BY <1>3, <2>2 DEF Detach, Cancels, Runs
      <3>2. sent'.exact
        BY <1>0, <3>1, StopKeepsBars
      <3> QED
        BY <2>1, <3>1, <3>2 DEF BarsInv, Stopped, NoBar
    <2>3. CASE "candle" \notin Teardown[Min(Standing)]
      <3>1. UNCHANGED <<bar, sent>> /\ (Runs("candle") <=> Runs("candle")')
        BY <1>3, <2>3 DEF Detach, Cancels, Runs
      <3> QED
        BY <1>3, <2>1, <3>1 DEF BarsInv, Stopped, Detach
    <2> QED
      BY <2>2, <2>3
  <1>4. CASE ~ReadTick /\ ~ProcessEnds /\ ~Detach
    <2>1. bar' = bar /\ sent'.exact = sent.exact /\ sent'.bar = sent.bar /\ sent'.ticks = sent.ticks
      <3>1. CASE EodFetched \/ Build
        BY <1>0, <3>1 DEF EodFetched, Dispatched, Build, Typed, SentType
      <3>2. CASE ~EodFetched /\ ~Build
        <4>1. UNCHANGED <<bar, sent>>
          BY <1>4, <3>2, FeedFrame
             DEF feedVars, FeedStep, NextBucket, ClockSetBack, SessionCloses, NextDay, FlushLists,
                 FlushWrites, FlushFails, RowCloses, EodStarts, EodFails, PrimeFetched, PrimeFails
        <4> QED
          BY <4>1
      <3> QED
        BY <3>1, <3>2
    <2> QED
      BY <1>5, <1>4, <2>1 DEF BarsInv
  <1> QED
    BY <1>1, <1>2, <1>3, <1>4

\* A bar is finished once, in the order of time, with every tick heard within
\* its bucket until then, also when the host's clock is set back over its start
\* and when detach flushes it.
THEOREM BarsAreExact == Spec => []BarsExact
  <1>1. Init => BarsInv
    BY DEF Init, FeedInit, NoBar, NothingSent, BarsInv
  <1>2. TypeInv /\ BarsInv /\ [Next]_vars => BarsInv'
    <2>1. BarsInv /\ UNCHANGED vars => BarsInv'
      BY DEF BarsInv, Stopped, Runs, vars, feedVars, engineVars
    <2> QED
      BY <2>1, BarsStep
  <1>3. BarsInv => BarsExact
    BY DEF BarsInv, BarsExact
  <1> QED
    BY <1>1, <1>2, <1>3, TypesKept, PTL DEF Spec

-----------------------------------------------------------------------------
(* Daily bars.                                                              *)

\* A date that was sent has been noted.  What is noted beyond the day of the
\* attach was sent, for the history ends with that day.
DailyInv ==
    /\ sent.once
    /\ sent.daily \subseteq daily.seen
    /\ \A d \in daily.seen : d > sent.since => d \in sent.daily
    /\ daily.prime <= sent.since /\ sent.since <= clock.day

\* The dates of the history are up to the day of the attach.
LEMMA HistoryIsOld ==
    ASSUME Typed, DailyInv, NEW n \in Newest(daily.prime), NEW d \in Sessions(n)
    PROVE  ~(d > sent.since)
  <1>1. daily.prime \in Nat /\ sent.since \in Nat /\ daily.prime <= sent.since
    BY DEF Typed, DailyType, SentType, DailyInv
  <1>2. n \in 1 .. daily.prime
    BY <1>1, NewestIs, SessionsAre
  <1>3. d \in 1 .. n
    BY <1>2, SessionsAre
  <1> QED
    BY <1>1, <1>2, <1>3

\* The clock's date only rises.
LEMMA DaysPass ==
    ASSUME Typed, Next
    PROVE  clock'.day \in Nat /\ clock'.day >= clock.day
  <1>1. clock \in ClockType /\ clock.day \in Nat
    BY DEF Typed, ClockType
  <1>2. CASE NextBucket \/ ClockSetBack \/ SessionCloses \/ NextDay
    BY <1>1, <1>2 DEF NextBucket, ClockSetBack, SessionCloses, NextDay, ClockType
  <1>3. CASE UNCHANGED clock
    BY <1>1, <1>3
  <1> QED
    BY <1>2, <1>3, FeedFrame
       DEF feedVars, Build, ProcessEnds, Detach, FeedStep, ReadTick, FlushLists, FlushWrites,
           FlushFails, RowCloses, EodStarts, EodFetched, EodFails, PrimeFetched, PrimeFails

\* Every step keeps the daily bars.
LEMMA DailyStep ==
    ASSUME TypeInv, DailyInv, Next
    PROVE  DailyInv'
  <1>0. /\ Typed /\ daily \in DailyType /\ sent \in SentType
        /\ daily.seen \subseteq Nat /\ daily.prime \in Nat /\ sent.since \in Nat
        /\ clock.day \in Nat /\ clock'.day \in Nat /\ clock.day <= clock'.day
    BY TypedIs, DaysPass DEF TypeInv, Typed, DailyType, SentType, ClockType
  <1>1. CASE EodFetched
    <2>1. PICK n \in Newest(daily.eod) :
             /\ sent' = IF n \in daily.seen THEN sent ELSE Dispatched(n)
             /\ daily' = [daily EXCEPT !.eod = 0, !.last = daily.eod, !.seen = @ \cup {n}]
      BY <1>1 DEF EodFetched
    <2>2. daily'.seen = daily.seen \cup {n} /\ daily'.prime = daily.prime
      BY <1>0, <2>1 DEF DailyType
    <2>3. sent'.since = sent.since
      BY <1>0, <2>1 DEF Dispatched, SentType
    <2>4. CASE n \in daily.seen
      <3>1. sent' = sent /\ daily'.seen = daily.seen
        BY <2>1, <2>2, <2>4
      <3> QED
        BY <1>0, <2>2, <3>1 DEF DailyInv
    <2>5. CASE n \notin daily.seen
      <3>1. sent'.daily = sent.daily \cup {n} /\ sent'.once = (sent.once /\ n \notin sent.daily)
        BY <1>0, <2>1, <2>5 DEF Dispatched, SentType
      <3>2. sent'.once
        BY <2>5, <3>1 DEF DailyInv
      <3>3. sent'.daily \subseteq daily'.seen
        BY <2>2, <3>1 DEF DailyInv
      <3>4. \A d \in daily'.seen : d > sent'.since => d \in sent'.daily
        BY <2>2, <2>3, <3>1 DEF DailyInv
      <3>5. daily'.prime <= sent'.since /\ sent'.since <= clock'.day
        BY <1>0, <2>2, <2>3 DEF DailyInv
      <3> QED
        BY <3>2, <3>3, <3>4, <3>5 DEF DailyInv
    <2> QED
      BY <2>4, <2>5
  <1>2. CASE ProcessEnds
    <2>1. /\ sent'.once /\ sent'.daily = {} /\ daily'.seen = {}
          /\ daily'.prime = 0 /\ sent'.since = 0
      BY <1>2 DEF ProcessEnds, NothingSent, NewDaily
    <2> QED
      BY <1>0, <2>1 DEF DailyInv
  <1>3. CASE Build
    <2>1. daily'.seen = daily.seen /\ sent'.daily = sent.daily /\ sent'.once = sent.once
      BY <1>0, <1>3 DEF Build, DailyType, SentType
    <2>2. /\ daily'.prime = IF Stage = "candle" THEN clock.day ELSE daily.prime
          /\ sent'.since = IF Stage = "candle" THEN clock.day ELSE sent.since
      BY <1>0, <1>3 DEF Build, DailyType, SentType
    <2>3. /\ daily'.prime <= sent'.since /\ sent'.since <= clock'.day
          /\ sent'.since \in Nat /\ sent.since <= sent'.since
      BY <1>0, <2>2 DEF DailyInv
    <2>4. ASSUME NEW d \in daily'.seen, d > sent'.since
          PROVE  d \in sent'.daily
      <3>1. d \in daily.seen /\ d \in Nat /\ d > sent.since
        BY <1>0, <2>1, <2>3, <2>4
      <3> QED
        BY <2>1, <3>1 DEF DailyInv
    <2> QED
      BY <2>1, <2>3, <2>4 DEF DailyInv
  <1>4. CASE PrimeFetched
    <2>1. PICK n \in Newest(daily.prime) :
             daily' = [daily EXCEPT !.prime = 0, !.seen = @ \cup Sessions(n)]
      BY <1>4 DEF PrimeFetched
    <2>2. daily'.seen = daily.seen \cup Sessions(n) /\ daily'.prime = 0 /\ sent' = sent
      BY <1>0, <1>4, <2>1 DEF PrimeFetched, DailyType
    <2>3. \A d \in daily'.seen : d > sent'.since => d \in sent'.daily
      BY <1>0, <2>2, HistoryIsOld DEF DailyInv
    <2> QED
      BY <1>0, <2>2, <2>3 DEF DailyInv
  <1>5. CASE ~EodFetched /\ ~ProcessEnds /\ ~Build /\ ~PrimeFetched
    <2>1. sent'.daily = sent.daily /\ sent'.once = sent.once /\ sent'.since = sent.since
      <3>1. CASE ReadTick
        BY <1>0, <3>1 DEF ReadTick, SentAfter, SentType
      <3>2. CASE Detach
        BY <1>0, <3>2 DEF Detach, Cancels, SentOnStop, SentType
      <3>3. CASE ~ReadTick /\ ~Detach
        BY <1>5, <3>3, FeedFrame
           DEF feedVars, FeedStep, NextBucket, ClockSetBack, SessionCloses, NextDay, FlushLists,
               FlushWrites, FlushFails, RowCloses, EodStarts, EodFails, PrimeFails
      <3> QED
        BY <3>1, <3>2, <3>3
    <2>2. daily'.seen = daily.seen /\ daily'.prime \in {0, daily.prime}
      <3>1. CASE EodStarts \/ EodFails \/ PrimeFails
        BY <1>0, <3>1 DEF EodStarts, EodFails, PrimeFails, DailyType
      <3>2. CASE Detach
        BY <1>0, <3>2 DEF Detach, Cancels, DailyType
      <3>3. CASE UNCHANGED daily
        BY <3>3
      <3> QED
        BY <1>5, <3>1, <3>2, <3>3, FeedFrame
           DEF feedVars, FeedStep, NextBucket, ClockSetBack, SessionCloses, NextDay, ReadTick,
               FlushLists, FlushWrites, FlushFails, RowCloses
    <2>3. daily'.prime <= sent'.since /\ sent'.since <= clock'.day
      BY <1>0, <2>1, <2>2 DEF DailyInv
    <2> QED
      BY <2>1, <2>2, <2>3 DEF DailyInv
  <1> QED
    BY <1>1, <1>2, <1>3, <1>4, <1>5

\* A process dispatches a date's bar at most once, whatever row the end-of-day
\* fetch is answered, and the history hides no date after the attach.
THEOREM DailyBarsAreOnce == Spec => []DailyBarsOnce
  <1>1. Init => DailyInv
    BY DEF Init, FeedInit, NothingSent, NewDaily, DailyInv
  <1>2. TypeInv /\ DailyInv /\ [Next]_vars => DailyInv'
    <2>1. DailyInv /\ UNCHANGED vars => DailyInv'
      BY DEF DailyInv, vars, feedVars
    <2> QED
      BY <2>1, DailyStep
  <1>3. DailyInv => DailyBarsOnce
    BY DEF DailyInv, DailyBarsOnce
  <1> QED
    BY <1>1, <1>2, <1>3, TypesKept, PTL DEF Spec

-----------------------------------------------------------------------------
(* Published prices.                                                        *)

\* The time of a row's price never goes back, and a closed row is not written,
\* however the flush and the exit are interleaved.
THEOREM RowStampsOnlyRise == Spec => RowStampsRise
  <1>1. TypeInv /\ [Next]_vars => [row'.at >= row.at /\ (row.status = "CLOSED" => row' = row)]_row
    <2> SUFFICES ASSUME TypeInv, [Next]_vars, row' # row
                 PROVE  row'.at >= row.at /\ row.status # "CLOSED"
      BY DEF TypeInv
    <2>0. row \in RowType /\ quote \in QuoteType
      BY TypedIs DEF TypeInv, Typed
    <2>1. Next
      BY DEF vars, feedVars
    <2>2. FlushWrites \/ RowCloses
      BY <2>1, FeedFrame
         DEF feedVars, Build, ProcessEnds, Detach, FeedStep, NextBucket, ClockSetBack, SessionCloses,
             NextDay, ReadTick, FlushLists, FlushFails, EodStarts, EodFetched, EodFails, PrimeFetched, PrimeFails
    <2>3. CASE RowCloses
      BY <2>0, <2>3 DEF RowCloses, RowType
    <2>4. CASE FlushWrites
      <3>1. /\ row.status # "CLOSED" /\ row.at < quote.flushing.at
            /\ row' = [row EXCEPT !.price = quote.flushing.price, !.at = quote.flushing.at]
        BY <2>4 DEF FlushWrites, Written
      <3>2. row'.at = quote.flushing.at /\ row.at \in Nat /\ quote.flushing.at \in Nat
        BY <2>0, <3>1, FeedAssumption DEF RowType, QuoteType, Quoted
      <3> QED
        BY <3>1, <3>2
    <2> QED
      BY <2>2, <2>3, <2>4
  <1> QED
    BY <1>1, TypesKept, PTL DEF Spec, RowStampsRise

=============================================================================
