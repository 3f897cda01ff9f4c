------------------------------ MODULE MCSystem ------------------------------
(* Small instances of System: feature-flag configurations and prices.       *)
EXTENDS System, TLC

Messenger == {"notification", "telegram"}

Account == Messenger \cup {"exchange", "box", "position"}

Following == Account \cup {"websocket", "reconciliation", "recovery"}

Desk == Messenger \cup {"box", "position", "commands"}

Diary == Messenger \cup {"box", "position", "summary", "review"}

\* Upsets, and then calls, updates, periods, ticks and the last date, of each
\* configuration: the account's services; the stream with the VI monitor, and
\* alone; the daily candles with failures; the 3-minute candles; the daily
\* candles and the detectors over a holiday; the price publisher; the messenger
\* alone; two configurations that attach refuses; the gateway; the capital; the
\* commands; the digests.
Bounds ==
    (Account \cup {"commands", "exitExecutor", "summary", "review"}) :> <<3, 0, 0, 0, 0, 2>>
    @@ (Messenger \cup {"exchange", "vi", "websocket", "reconciliation"}) :> <<2, 0, 0, 0, 0, 2>>
    @@ {"exchange", "websocket"} :> <<3, 0, 0, 0, 0, 2>>
    @@ (Account \cup {"buy", "websocket", "candle"}) :> <<1, 0, 0, 0, 0, 2>>
    @@ (Following \cup {"buy", "candle"}) :> <<0, 0, 0, 0, 3, 2>>
    @@ (Account \cup {"buy", "vi", "websocket", "candle", "detectors"}) :> <<0, 0, 0, 0, 0, 4>>
    @@ (Following \cup {"publisher", "exitExecutor", "exitOrchestrator"}) :> <<1, 0, 0, 0, 2, 2>>
    @@ Messenger :> <<2, 0, 0, 0, 0, 2>>
    @@ {"notification", "vi"} :> <<2, 0, 0, 0, 0, 2>>
    @@ {"box", "websocket"} :> <<2, 0, 0, 0, 0, 2>>
    @@ {"exchange"} :> <<2, 3, 0, 0, 0, 2>>
    @@ (Account \cup {"buy"}) :> <<1, 2, 0, 1, 0, 2>>
    @@ Desk :> <<1, 0, 2, 0, 0, 2>>
    @@ Diary :> <<1, 0, 0, 4, 0, 2>>

Configurations == DOMAIN Bounds

Bound(i) == [f \in Configurations |-> Bounds[f][i]]

Upsets == Bound(1)

Moves == [f \in Configurations |-> [call |-> Bounds[f][2], update |-> Bounds[f][3], period |-> Bounds[f][4]]]

Ticks == Bound(5)

Dates == Bound(6)

TwoQuotes == {100, 160}

Callers == {"capital", "reconciler"}

=============================================================================
