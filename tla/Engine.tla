------------------------------- MODULE Engine -------------------------------
(***************************************************************************)
(* The trading bridge: attach_trading_engine builds the parts its feature   *)
(* flags ask for, one stage after the other, detach_trading_engine takes    *)
(* them down; between them run the tasks of Alerts, Stream and Feed, the    *)
(* restart recovery, the maintenance loop and the safe mode that recovery,  *)
(* maintenance, the web and Telegram all write.  A crash ends the process;  *)
(* the notification rows, the position row and the outside world go on.     *)
(***************************************************************************)
EXTENDS Feed

VARIABLES
    engine,     \* phase of the process, position in its order, recovery step
    safe,       \* system_state: safe_mode and safe_mode_reason
    window,     \* is it the time of the broker's maintenance?
    loop,       \* step of the maintenance loop
    paused      \* history: the user's pause that no resume has followed

engineVars == <<engine, safe, window, loop, paused>>

vars == <<flags, up, upsets, alertVars, streamVars, feedVars, engineVars>>

Flag == {"telegram"} \cup {Stages[i] : i \in 1 .. Len(Stages) - 1}

ASSUME EngineAssumption == FlagSets \subseteq SUBSET Flag

Down == [phase |-> "down", at |-> 0, step |-> "none"]

NoSafeMode == [on |-> FALSE, why |-> ""]

TypeOK ==
    /\ TasksTypeOK /\ AlertsTypeOK /\ StreamTypeOK /\ FeedTypeOK
    /\ engine \in [phase : {"down", "attaching", "up", "failed", "detaching"},
                   at : 0 .. Len(Stages), step : {"none", "resubscribe", "release", "report"}]
    /\ safe \in [on : BOOLEAN, why : {"", "user", "maintenance", "recovery"}]
    /\ window \in BOOLEAN
    /\ loop \in {"idle", "catchUp", "snapshot", "tell"}
    /\ paused \in {"no", "web", "telegram"}

Init ==
    /\ up = {} /\ upsets = 0
    /\ AlertsInit /\ StreamInit /\ FeedInit
    /\ engine = Down
    /\ flags \in FlagSets
    /\ safe = NoSafeMode
    /\ window = FALSE
    /\ loop = "idle"
    /\ paused = "no"

-----------------------------------------------------------------------------
(* attach_trading_engine.                                                   *)

Enabled(stage) == stage \in flags \cup {"maintenance"}

Attaching == engine.phase = "attaching"

NextStage == Min({i \in engine.at + 1 .. Len(Stages) : Enabled(Stages[i])})

Stage == Stages[NextStage]

Requires == [stage \in DOMAIN Wired |-> Wired[stage].needs]

Builds(stage) ==
    Wired[stage].builds
      \cup (IF stage = "notification" /\ "telegram" \in flags THEN TelegramWorker ELSE {})

Boot ==
    /\ engine.phase = "down"
    /\ engine' = [Down EXCEPT !.phase = "attaching"]
    /\ Smooth /\ UNCHANGED <<up, alertVars, streamVars, feedVars, safe, window, loop, paused>>

\* A stage other than the recovery.  The stream is told of channel 1h before
\* it runs, the history is fetched up to today, the maintenance loop is last.
Build ==
    /\ Attaching /\ engine.step = "none"
    /\ Stage # "recovery" /\ Requires[Stage] \subseteq up
    /\ up' = up \cup Builds(Stage)
    /\ engine' = [engine EXCEPT !.at = NextStage,
                                !.phase = IF Stage = "maintenance" THEN "up" ELSE "attaching"]
    /\ IF Stage = "websocket"
       THEN ws' = NewConnection /\ subs' = [NoSubs EXCEPT !.want = IF Runs("vi") THEN {"VI"} ELSE {}]
       ELSE UNCHANGED <<ws, subs>>
    /\ daily' = [daily EXCEPT !.prime = IF Stage = "candle" THEN clock.day ELSE @]
    /\ sent' = [sent EXCEPT !.since = IF Stage = "candle" THEN clock.day ELSE @]
    /\ Smooth
    /\ UNCHANGED <<alertVars, token, recv, market, inbox, vi, unheard, clock, bar, quote, row,
                   ticks, safe, window, loop, paused>>

\* A missing part or a failing call: attach raises, lifespan.py logs it, the
\* web goes on and what runs is left to itself.
AttachRaises ==
    /\ Attaching /\ engine.step \in {"none", "report"}
    /\ IF engine.step = "none" /\ ~(Requires[Stage] \subseteq up) THEN Smooth ELSE Upset
    /\ engine' = [engine EXCEPT !.phase = "failed", !.step = "none"]
    /\ UNCHANGED <<up, alertVars, streamVars, feedVars, safe, window, loop, paused>>

-----------------------------------------------------------------------------
(* V71RestartRecovery.run.  Step 2 cancels nothing and step 3 is Holdings'. *)

Recovering(step) == Attaching /\ engine.step = step

\* _step_0_safe_mode, and the token of _step_1_reconnect_externals.
RecoveryEnters ==
    /\ Recovering("none")
    /\ Stage = "recovery" /\ Requires[Stage] \subseteq up
    /\ engine' = [engine EXCEPT !.step = "resubscribe"]
    /\ safe' = [on |-> TRUE, why |-> "recovery"]
    /\ GetToken
    /\ Smooth
    /\ UNCHANGED <<up, alertVars, ws, subs, recv, market, inbox, vi, unheard, feedVars,
                   window, loop, paused>>

\* _step_4_resubscribe: the stocks of open positions; a query that fails is
\* noted.
RecoveryResubscribes ==
    /\ Recovering("resubscribe")
    /\ engine' = [engine EXCEPT !.step = "release"]
    /\ \/ /\ subs' = IF Runs("websocket") /\ row.status = "OPEN" THEN Subscribed("PRICE_TICK") ELSE subs
          /\ Smooth
       \/ UNCHANGED subs /\ Upset
    /\ UNCHANGED <<up, alertVars, token, ws, recv, market, inbox, vi, unheard, feedVars,
                   safe, window, loop, paused>>

\* The query is answered and the send fails, which is noted too: the channel is
\* kept, and the connection is broken.
ResubscribeBreaks ==
    /\ Recovering("resubscribe")
    /\ Runs("websocket") /\ row.status = "OPEN"
    /\ ws.st = "connected" /\ recv \in {"restore", "wait"}
    /\ engine' = [engine EXCEPT !.step = "release"]
    /\ ws' = TransportFailed(ws)
    /\ Disconnected(subs.want \cup {"PRICE_TICK"}, TRUE)
    /\ Upset
    /\ UNCHANGED <<up, feedVars, safe, window, loop, paused>>

\* _step_6_release_safe_mode.
RecoveryReleases ==
    /\ Recovering("release")
    /\ engine' = [engine EXCEPT !.step = "report"]
    /\ safe' = NoSafeMode
    /\ Smooth /\ UNCHANGED <<up, alertVars, streamVars, feedVars, window, loop, paused>>

\* _step_7_recovery_report; when its notify raises, AttachRaises.
RecoveryReports ==
    /\ Recovering("report")
    /\ engine' = [engine EXCEPT !.step = "none", !.at = NextStage]
    /\ \E key \in Key : Enqueue("CRITICAL", key)
    /\ Smooth
    /\ UNCHANGED <<up, breaker, worker, told, streamVars, feedVars, safe, window, loop, paused>>

-----------------------------------------------------------------------------
(* The end of a process.                                                    *)

\* V71ThreeMinuteCandleBuilder.flush: the bar in progress is finished.
SentOnStop ==
    IF bar.start = 0 THEN sent
    ELSE [sent EXCEPT !.bar = bar.start,
                      !.exact = @ /\ bar.start > sent.bar /\ bar.volume = sent.ticks[bar.start]]

\* What the tasks of some parts were doing is cancelled.
Cancels(parts) ==
    /\ up' = up \ parts
    /\ worker' = IF "worker" \in parts THEN Asleep ELSE worker
    /\ loop' = IF "maintenance" \in parts THEN "idle" ELSE loop
    /\ quote' = IF "publisher" \in parts THEN NewPublisher ELSE quote
    /\ daily' = [daily EXCEPT !.prime = IF "prime" \in parts THEN 0 ELSE @,
                              !.eod = IF "eod" \in parts THEN 0 ELSE @]
    /\ bar' = IF "candle" \in parts THEN NoBar ELSE bar
    /\ sent' = IF "candle" \in parts THEN SentOnStop ELSE sent
    /\ IF "websocket" \in parts
       THEN ws' = [ws EXCEPT !.st = "closed"] /\ subs' = NoSubs /\ recv' = "wait"
            /\ inbox' = << >> /\ unheard' = FALSE
       ELSE UNCHANGED <<ws, subs, recv, inbox, unheard>>

\* The memory of the process is gone; rows, prices and the broker are not.
ProcessEnds ==
    /\ engine' = Down
    /\ up' = {} /\ breaker' = Closed /\ worker' = Asleep
    /\ token' = "none" /\ ws' = NewConnection /\ subs' = NoSubs /\ recv' = "wait"
    /\ inbox' = << >> /\ vi' = NewMonitor /\ unheard' = FALSE
    /\ bar' = NoBar /\ daily' = NewDaily /\ quote' = NewPublisher /\ sent' = NothingSent
    /\ safe' = NoSafeMode /\ loop' = "idle" /\ paused' = "no"
    /\ UNCHANGED <<rows, told, market, clock, row, ticks, window>>

Crash ==
    /\ engine.phase # "down"
    /\ Upset
    /\ ProcessEnds

Shutdown ==
    /\ engine.phase = "up"
    /\ engine' = [phase |-> "detaching", at |-> 0, step |-> "none"]
    /\ Upset
    /\ UNCHANGED <<up, alertVars, streamVars, feedVars, safe, window, loop, paused>>

Standing == {i \in engine.at + 1 .. Len(Teardown) : Teardown[i] \cap up # {}}

\* detach_trading_engine, one step; an exception of a step is logged.
Detach ==
    /\ engine.phase = "detaching"
    /\ Standing # {}
    /\ engine' = [engine EXCEPT !.at = Min(Standing)]
    /\ Cancels(Teardown[Min(Standing)])
    /\ Smooth
    /\ UNCHANGED <<rows, breaker, told, token, market, vi, clock, row, ticks, safe, window, paused>>

Exit ==
    /\ engine.phase = "detaching" /\ Standing = {}
    /\ Smooth
    /\ ProcessEnds

-----------------------------------------------------------------------------
(* Safe mode.                                                               *)

KeepsParts == UNCHANGED <<up, alertVars, streamVars, feedVars, engine>>

\* The web is served once attach has returned or raised.
Served == engine.phase \in {"up", "failed"}

\* POST /system/safe_mode.
WebPause ==
    /\ Served
    /\ safe' = [on |-> TRUE, why |-> "user"]
    /\ paused' = "web"
    /\ Upset /\ KeepsParts /\ UNCHANGED <<window, loop>>

\* POST /system/resume: the reason stays.
WebResume ==
    /\ Served
    /\ safe' = [safe EXCEPT !.on = FALSE]
    /\ paused' = "no"
    /\ Upset /\ KeepsParts /\ UNCHANGED <<window, loop>>

\* /stop and /resume of V71TelegramCommands: the reason stays.
TelegramStop ==
    /\ Runs("commands")
    /\ safe' = [safe EXCEPT !.on = TRUE]
    /\ paused' = IF paused = "web" THEN paused ELSE "telegram"
    /\ Smooth /\ KeepsParts /\ UNCHANGED <<window, loop>>

TelegramResume ==
    /\ Runs("commands")
    /\ safe' = [safe EXCEPT !.on = FALSE]
    /\ paused' = "no"
    /\ Smooth /\ KeepsParts /\ UNCHANGED <<window, loop>>

WindowOpens ==
    /\ ~window
    /\ window' = TRUE
    /\ Upset /\ KeepsParts /\ UNCHANGED <<safe, loop, paused>>

WindowEnds ==
    /\ window
    /\ window' = FALSE
    /\ Smooth /\ KeepsParts /\ UNCHANGED <<safe, loop, paused>>

-----------------------------------------------------------------------------
(* _maintenance_schedule_loop.                                              *)

MaintenanceEnters ==
    /\ Runs("maintenance") /\ loop = "idle"
    /\ window /\ ~safe.on
    /\ safe' = [on |-> TRUE, why |-> "maintenance"]
    /\ Smooth /\ KeepsParts /\ UNCHANGED <<window, loop, paused>>

\* Slip: the end of the window releases whatever the reason is.
WasAutoOfAny == safe.on

WasAuto == safe.why = "maintenance"

\* Slip: only the reason is cleared.
ReasonCleared == [safe EXCEPT !.why = ""]

Released == NoSafeMode

MaintenanceReleases ==
    /\ Runs("maintenance") /\ loop = "idle"
    /\ ~window /\ WasAuto
    /\ safe' = Released
    /\ loop' = "catchUp"
    /\ Smooth /\ KeepsParts /\ UNCHANGED <<window, paused>>

\* reconcile_all (Holdings) and the trailing-stop bases; each may fail.
MaintenanceCatchesUp ==
    /\ loop = "catchUp"
    /\ loop' = "snapshot"
    /\ IF Runs("exchange") THEN GetToken ELSE UNCHANGED token
    /\ Smooth
    /\ UNCHANGED <<up, alertVars, ws, subs, recv, market, inbox, vi, unheard, feedVars,
                   engine, safe, window, paused>>

\* _refresh_vi_state, here in a task of its own, beside the receive loop.
MaintenanceSnapshots ==
    /\ loop = "snapshot"
    /\ \/ vi' = (IF Runs("exchange") THEN Snapshot ELSE vi) /\ Smooth
       \/ UNCHANGED vi /\ Runs("exchange") /\ Upset
    /\ loop' = IF vi' # vi THEN "tell" ELSE "idle"
    /\ unheard' = (unheard /\ vi'.state = "NORMAL")
    /\ UNCHANGED <<up, alertVars, token, ws, subs, recv, market, inbox, feedVars,
                   engine, safe, window, paused>>

MaintenanceTells ==
    /\ loop = "tell"
    /\ loop' = "idle"
    /\ \E key \in Key : Notified("HIGH", key) \/ NotifyRaises
    /\ UNCHANGED <<up, breaker, worker, told, streamVars, feedVars, engine, safe, window, paused>>

MaintenanceLoop ==
    \/ MaintenanceEnters \/ MaintenanceReleases
    \/ MaintenanceCatchesUp \/ MaintenanceSnapshots \/ MaintenanceTells

-----------------------------------------------------------------------------
\* A REST call, of _reconciler_loop (Holdings) or another task, asks for the
\* token.
CallAsksToken ==
    /\ Runs("exchange")
    /\ token \in {"none", "due"}
    /\ GetToken
    /\ Smooth
    /\ UNCHANGED <<up, alertVars, ws, subs, recv, market, inbox, vi, unheard, feedVars, engineVars>>

Commanded == TelegramStop \/ TelegramResume

BridgeAlone ==
    \/ Boot \/ Build \/ AttachRaises
    \/ RecoveryEnters \/ RecoveryResubscribes \/ ResubscribeBreaks
    \/ RecoveryReleases \/ RecoveryReports
    \/ Crash \/ Shutdown \/ Detach \/ Exit
    \/ WebPause \/ WebResume \/ WindowOpens \/ WindowEnds
    \/ MaintenanceLoop \/ CallAsksToken

BridgeStep == BridgeAlone \/ Commanded

AlertsStep == WorkerStep \/ BreakerTimesOut \/ AlertsAge \/ OthersNotify

TasksStep ==
    \/ AlertsStep /\ UNCHANGED <<up, streamVars, feedVars, engineVars>>
    \/ StreamStep /\ UNCHANGED <<up, feedVars, engineVars>>
    \/ FeedStep /\ UNCHANGED engineVars

Step == BridgeStep \/ TasksStep

Next == Step /\ UNCHANGED flags

Spec == Init /\ [][Next]_vars

\* The tasks run when they can, Telegram answers once it has refused often
\* enough, and the broker goes on talking on an open connection.
Fairness ==
    /\ WF_vars(WorkerStep /\ Smooth /\ UNCHANGED <<flags, up, streamVars, feedVars, engineVars>>)
    /\ WF_vars(BreakerTimesOut /\ UNCHANGED <<flags, up, streamVars, feedVars, engineVars>>)
    /\ WF_vars((Dial \/ Connect \/ RestoreSubscriptions \/ Receive \/ ReadOther)
               /\ UNCHANGED <<flags, up, feedVars, engineVars>>)
    /\ WF_vars(MaintenanceLoop /\ UNCHANGED flags)

FairSpec == Spec /\ Fairness

-----------------------------------------------------------------------------
(* Properties.                                                              *)

(* What a running part calls is never taken down before it, neither by      *)
(* attach, complete or not, nor by detach, at whose end nothing runs.       *)
NothingPulledAway ==
    /\ \A part \in up \cap DOMAIN Uses : Uses[part] \subseteq up
    /\ engine.phase = "detaching" /\ Standing = {} => up = {}

(* trading_bridge.py, _maintenance_schedule_loop: a pause the user asked    *)
(* for from the web holds until the user resumes, through maintenance       *)
(* windows, Telegram commands and whatever else writes safe_mode.           *)
WebPauseKept == paused = "web" => safe.on

(* Outside the broker's maintenance the safe mode ends, whichever of the    *)
(* recovery, the loop and the user turned it on or off in between, unless   *)
(* it is a pause the user has not taken back.                               *)
PauseEnds == []<>(window \/ engine.phase # "up" \/ ~safe.on \/ paused # "no")

=============================================================================
