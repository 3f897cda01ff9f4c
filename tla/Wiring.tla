------------------------------- MODULE Wiring -------------------------------
(***************************************************************************)
(* How trading_bridge.py puts the engine together: the order of             *)
(* attach_trading_engine, what each _build function insists on and what it  *)
(* builds, the order of detach_trading_engine, and who calls whom while the *)
(* engine runs.                                                             *)
(***************************************************************************)
EXTENDS Naturals

(* exchange: client, order manager, token manager; queue: notification queue*)
(* and table, worker: the service's task; reconciler: its loop; eod, prime: *)
(* the candle manager's tasks; maintenance: the schedule loop.              *)
Part == {"exchange", "box", "position", "queue", "worker", "vi", "buy", "exitExecutor",
         "websocket", "candle", "eod", "prime", "detectors", "exitOrchestrator",
         "publisher", "summary", "commands", "review", "reconciler", "maintenance"}

\* The order of attach_trading_engine.
Stages == <<"exchange", "box", "position", "notification", "vi", "buy", "exitExecutor",
            "websocket", "candle", "detectors", "exitOrchestrator", "publisher", "summary",
            "commands", "review", "reconciliation", "recovery", "maintenance">>

-----------------------------------------------------------------------------
(* The _build functions: what each checks for first, and what it leaves.    *)

KiwoomExchange == [needs |-> {}, builds |-> {"exchange"}]

BoxSystem == [needs |-> {}, builds |-> {"box"}]

\* The position manager takes the session factory of the box system.
PositionSystem == [needs |-> {"box"}, builds |-> {"position"}]

\* Queue and table; with the credentials of a bot, the service that sends.
NotificationStack == [needs |-> {}, builds |-> {"queue"}]

TelegramWorker == {"worker"}

ViMonitor == [needs |-> {"worker"}, builds |-> {"vi"}]

BuyExecutor == [needs |-> {"exchange", "box", "position", "worker"}, builds |-> {"buy"}]

ExitExecutor == [needs |-> {"exchange", "box", "position", "worker"}, builds |-> {"exitExecutor"}]

KiwoomWebsocket == [needs |-> {"exchange"}, builds |-> {"websocket"}]

CandleManager == [needs |-> {"exchange", "websocket"}, builds |-> {"candle", "eod", "prime"}]

\* Both detectors or neither: when the second fails the first is stopped.
BoxEntryDetectors == [needs |-> {"candle", "box", "buy", "vi"}, builds |-> {"detectors"}]

ExitOrchestrator ==
    [needs |-> {"exitExecutor", "position", "websocket"}, builds |-> {"exitOrchestrator"}]

PricePublisher == [needs |-> {"position", "websocket"}, builds |-> {"publisher"}]

DailySummary == [needs |-> {"worker", "position", "box"}, builds |-> {"summary"}]

\* The bot comes with the credentials, as the service does; /cancel copes with
\* a missing order manager.
TelegramCommands ==
    [needs |-> {"queue", "worker", "box", "position"}, builds |-> {"commands"}]

MonthlyReview == [needs |-> {"worker"}, builds |-> {"review"}]

PeriodicReconciler == [needs |-> {"exchange"}, builds |-> {"reconciler"}]

\* It runs once, in its own actions, and leaves nothing running.
RestartRecovery ==
    [needs |-> {"worker", "exchange", "reconciler", "box", "position"}, builds |-> {}]

MaintenanceSchedule == [needs |-> {}, builds |-> {"maintenance"}]

Wired ==
    [exchange |-> KiwoomExchange, box |-> BoxSystem, position |-> PositionSystem,
     notification |-> NotificationStack, vi |-> ViMonitor, buy |-> BuyExecutor,
     exitExecutor |-> ExitExecutor, websocket |-> KiwoomWebsocket, candle |-> CandleManager,
     detectors |-> BoxEntryDetectors, exitOrchestrator |-> ExitOrchestrator,
     publisher |-> PricePublisher, summary |-> DailySummary, commands |-> TelegramCommands,
     review |-> MonthlyReview, reconciliation |-> PeriodicReconciler,
     recovery |-> RestartRecovery, maintenance |-> MaintenanceSchedule]

-----------------------------------------------------------------------------
(* detach_trading_engine: what each of its steps takes down.                *)

\* Slip: the client is closed before the stream and the reconciler stop.
TeardownClientFirst ==
    <<{"box", "position"}, {"commands"}, {"review"}, {"summary"}, {"publisher"},
      {"exitOrchestrator"}, {"detectors"}, {"prime"}, {"candle", "eod"},
      {"buy", "exitExecutor", "vi"}, {"worker", "queue"}, {"maintenance"}, {"exchange"},
      {"reconciler"}, {"websocket"}>>

Teardown ==
    <<{"box", "position"}, {"commands"}, {"review"}, {"summary"}, {"publisher"},
      {"exitOrchestrator"}, {"detectors"}, {"prime"}, {"candle", "eod"},
      {"buy", "exitExecutor", "vi"}, {"worker", "queue"}, {"maintenance"}, {"reconciler"},
      {"websocket"}, {"exchange"}>>

\* Whom the tasks and handlers of a part call.
Uses ==
    [worker |-> {"queue"}, vi |-> {"worker"}, buy |-> {"exchange", "worker"},
     exitExecutor |-> {"exchange", "worker"}, websocket |-> {"exchange"},
     candle |-> {"exchange", "websocket"}, eod |-> {"exchange", "candle"},
     prime |-> {"exchange", "candle"}, detectors |-> {"candle", "buy", "vi"},
     exitOrchestrator |-> {"exitExecutor", "websocket"}, publisher |-> {"websocket"},
     summary |-> {"worker"}, review |-> {"worker"}, commands |-> {"queue"},
     reconciler |-> {"exchange"}]

=============================================================================
