------------------------------- MODULE Stream -------------------------------
(***************************************************************************)
(* V71KiwoomWebSocket, the token manager behind it, and V71ViMonitor, which *)
(* follows one stock's volatility interruption (VI) from the messages of    *)
(* channel 1h and, after an outage, from the broker's list of the day       *)
(* (ka10054).  Every await of the receive loop ends an action; the broker   *)
(* and the exchange are external.                                           *)
(***************************************************************************)
EXTENDS Alerts, Sequences

CONSTANTS
    MaxAuth,        \* MAX_AUTH_FAILURES_BEFORE_ABORT
    PhaseOne        \* len(PHASE_1_BACKOFF_SECONDS)

ASSUME StreamAssumption == MaxAuth \in Nat \ {0} /\ PhaseOne \in Nat

VARIABLES
    token,      \* the token manager's cached token
    ws,         \* the run loop: its state and the two failure counters
    subs,       \* subscriptions: wanted, and registered on this connection
    recv,       \* what the receive loop is awaiting
    market,     \* the exchange: is the stock halted, is it on the day's list?
    inbox,      \* VI messages the connection has not delivered yet
    vi,         \* the VI monitor's state of the stock
    unheard     \* history: the halt's message was lost in a counted outage

streamVars == <<token, ws, subs, recv, market, inbox, vi, unheard>>

Channel == {"VI", "PRICE_TICK"}

\* fails stops at the first attempt of phase 2: later ones are alike.
Counted == 0 .. PhaseOne + 1

Connection == [st : {"idle", "dialing", "connected", "phase1", "phase2", "closed"},
               fails : Counted, auth : 0 .. MaxAuth]

NewConnection == [st |-> "idle", fails |-> 0, auth |-> 0]

NoSubs == [want |-> {}, reg |-> {}]

NewMonitor == [state |-> "NORMAL", recovered |-> FALSE]

StreamTypeOK ==
    /\ token \in {"none", "good", "rejected", "due"}
    /\ ws \in Connection
    /\ subs \in [want : SUBSET Channel, reg : SUBSET Channel]
    /\ recv \in {"restore", "wait", "tell", "tellEnd", "resettle", "heard",
                 "catchUp", "snapshot", "tellSnapshot"}
    /\ market \in [halted : BOOLEAN, listed : BOOLEAN]
    /\ inbox \in Seq({"on", "off"})
    /\ vi \in [state : {"NORMAL", "TRIGGERED", "RESUMED"}, recovered : BOOLEAN]
    /\ unheard \in BOOLEAN

StreamInit ==
    /\ token = "none"
    /\ ws = NewConnection
    /\ subs = NoSubs
    /\ recv = "wait"
    /\ market = [halted |-> FALSE, listed |-> FALSE]
    /\ inbox = << >>
    /\ vi = NewMonitor
    /\ unheard = FALSE

-----------------------------------------------------------------------------
(* V71TokenManager.                                                         *)

\* get_token: the cached token unless it is due; whether the broker still
\* takes it is not asked, and nothing calls refresh() or revoke().
GetToken == token' = IF token \in {"none", "due"} THEN "good" ELSE token

\* The broker drops the token before its time.
TokenRejected ==
    /\ token = "good"
    /\ token' = "rejected"
    /\ Upset
    /\ UNCHANGED <<alertVars, ws, subs, recv, market, inbox, vi, unheard>>

\* A day goes by: should_refresh.
TokenAges ==
    /\ token \in {"good", "rejected"}
    /\ token' = "due"
    /\ Upset
    /\ UNCHANGED <<alertVars, ws, subs, recv, market, inbox, vi, unheard>>

-----------------------------------------------------------------------------
(* The run loop.                                                            *)

Sleeping(w) == [w EXCEPT !.st = IF w.fails <= PhaseOne THEN "phase1" ELSE "phase2"]

CountFailure(w) == [w EXCEPT !.fails = IF @ > PhaseOne THEN @ ELSE @ + 1]

TransportFailed(w) == Sleeping(CountFailure(w))

\* Slip: the counter of all failures decides.
AuthFailedOfAny(w) ==
    LET c == [CountFailure(w) EXCEPT !.auth = @ + 1]
    IN  IF c.fails > PhaseOne THEN [c EXCEPT !.st = "closed"] ELSE Sleeping(c)

\* Slip: one refusal more than MAX_AUTH_FAILURES_BEFORE_ABORT is let pass.
AuthFailedLate(w) ==
    LET c == [CountFailure(w) EXCEPT !.auth = @ + 1]
    IN  IF c.auth > MaxAuth THEN [c EXCEPT !.st = "closed"] ELSE Sleeping(c)

\* Too many in a row and the loop ends for good.
AuthFailed(w) ==
    LET c == [CountFailure(w) EXCEPT !.auth = @ + 1]
    IN  IF c.auth >= MaxAuth THEN [c EXCEPT !.st = "closed"] ELSE Sleeping(c)

\* The connection is gone, and with it what it had not delivered.
Disconnected(want, counted) ==
    /\ subs' = [want |-> want, reg |-> {}]
    /\ recv' = "wait"
    /\ inbox' = << >>
    /\ unheard' = (unheard \/ (counted /\ "VI" \in subs.want
                                /\ market.halted /\ vi.state = "NORMAL"))
    /\ UNCHANGED <<alertVars, token, market, vi>>

Dial ==
    /\ Runs("websocket")
    /\ ws.st \in {"idle", "phase1", "phase2"}
    /\ ws' = [ws EXCEPT !.st = "dialing"]
    /\ GetToken
    /\ Smooth /\ UNCHANGED <<alertVars, subs, recv, market, inbox, vi, unheard>>

\* The handshake succeeds; LOGIN goes first.
Connect ==
    /\ Runs("websocket")
    /\ ws.st = "dialing"
    /\ ws' = [ws EXCEPT !.st = "connected"]
    /\ recv' = "restore"
    /\ Smooth /\ UNCHANGED <<alertVars, token, subs, market, inbox, vi, unheard>>

\* 401 or 403 at the handshake, a refused LOGIN, or SYSTEM R10002, R10005.
BrokerRefuses ==
    /\ Runs("websocket")
    /\ token = "rejected"
    /\ ws.st = "dialing" \/ (ws.st = "connected" /\ recv = "wait")
    /\ ws' = AuthFailed(ws)
    /\ Disconnected(subs.want, TRUE)
    /\ Smooth

\* No token, no connection, or a connection that breaks.
TransportFails ==
    /\ Runs("websocket")
    /\ ws.st \in {"idle", "phase1", "phase2", "dialing"}
       \/ (ws.st = "connected" /\ recv \in {"restore", "wait"})
    /\ ws' = TransportFailed(ws)
    /\ Disconnected(subs.want, TRUE)
    /\ Upset

\* The broker closes in good order: no failure is counted.
ServerCloses ==
    /\ Runs("websocket")
    /\ ws.st = "connected" /\ recv = "wait"
    /\ ws' = [ws EXCEPT !.st = "idle"]
    /\ Disconnected(subs.want, FALSE)
    /\ Upset

-----------------------------------------------------------------------------
(* Subscriptions.                                                           *)

\* subscribe: kept in the set, and registered at once when connected.  Before
\* the restoration the whole set is still to be sent.
Subscribed(channel) ==
    [want |-> subs.want \cup {channel},
     reg  |-> IF ws.st = "connected" /\ recv # "restore" THEN subs.reg \cup {channel} ELSE subs.reg]

\* Slip: only the account-level channel is registered again.
RestoreVI ==
    /\ Runs("websocket")
    /\ ws.st = "connected" /\ recv = "restore"
    /\ subs' = [subs EXCEPT !.reg = subs.want \cap {"VI"}]
    /\ recv' = "wait"
    /\ Smooth /\ UNCHANGED <<alertVars, token, ws, market, inbox, vi, unheard>>

RestoreSubscriptions ==
    /\ Runs("websocket")
    /\ ws.st = "connected" /\ recv = "restore"
    /\ subs' = [subs EXCEPT !.reg = subs.want]
    /\ recv' = "wait"
    /\ Smooth /\ UNCHANGED <<alertVars, token, ws, market, inbox, vi, unheard>>

-----------------------------------------------------------------------------
(* The exchange.                                                            *)

\* A halt that no monitor follows is left out.
Halt ==
    /\ "VI" \in subs.want
    /\ ~market.halted
    /\ market' = [halted |-> TRUE, listed |-> TRUE]
    /\ inbox' = IF "VI" \in subs.reg THEN Append(inbox, "on") ELSE inbox
    /\ unheard' = ("VI" \in subs.want \ subs.reg /\ ws.fails > 0)
    /\ Upset
    /\ UNCHANGED <<alertVars, token, ws, subs, recv, vi>>

Resume ==
    /\ market.halted
    /\ market' = [market EXCEPT !.halted = FALSE]
    /\ inbox' = IF "VI" \in subs.reg THEN Append(inbox, "off") ELSE inbox
    /\ unheard' = FALSE
    /\ Smooth /\ UNCHANGED <<alertVars, token, ws, subs, recv, vi>>

-----------------------------------------------------------------------------
(* V71ViMonitor.                                                            *)

\* handle_vi_state raises on any other state but NORMAL and TRIGGERED.
Triggers == vi.state = "NORMAL"

Triggered == [vi EXCEPT !.state = "TRIGGERED"]

\* notify: the INSERT of the row, or it raises.
Notified(sev, key) == Enqueue(sev, key) /\ Smooth

NotifyRaises == Upset /\ UNCHANGED rows

KeepsStream == UNCHANGED <<breaker, worker, told, token, ws, subs, market, inbox>>

-----------------------------------------------------------------------------
(* The receive loop: one message after the other, handled in place.         *)

\* A message of channel 1h for the stock.
ReadVI ==
    /\ Runs("websocket")
    /\ ws.st = "connected" /\ recv = "wait"
    /\ inbox # << >>
    /\ inbox' = Tail(inbox)
    /\ IF Head(inbox) = "on" /\ Triggers
       THEN vi' = Triggered /\ recv' = "tell" /\ unheard' = FALSE
       ELSE IF Head(inbox) = "off" /\ vi.state = "TRIGGERED"
       THEN vi' = [vi EXCEPT !.state = "RESUMED"] /\ recv' = "tellEnd" /\ UNCHANGED unheard
       ELSE recv' = "heard" /\ UNCHANGED <<vi, unheard>>
    /\ Smooth /\ UNCHANGED <<alertVars, token, ws, subs, market>>

\* A REAL message about something else.
ReadOther ==
    /\ Runs("websocket")
    /\ ws.st = "connected" /\ recv = "wait"
    /\ inbox = << >>
    /\ subs.reg # {}
    /\ recv' = "heard"
    /\ Smooth /\ UNCHANGED <<alertVars, token, ws, subs, market, inbox, vi, unheard>>

\* on_vi_triggered ends; what notify raises is swallowed by the handler.
TellTriggered ==
    /\ recv = "tell"
    /\ \E key \in Key : Notified("HIGH", key) \/ NotifyRaises
    /\ recv' = "heard"
    /\ KeepsStream /\ UNCHANGED <<vi, unheard>>

\* on_vi_resolved: a notify that raises leaves the stock RESUMED.
TellResumed ==
    /\ recv = "tellEnd"
    /\ \/ (\E key \in Key : Notified("HIGH", key)) /\ recv' = "resettle"
       \/ NotifyRaises /\ recv' = "heard"
    /\ KeepsStream /\ UNCHANGED <<vi, unheard>>

\* The exits have been re-evaluated: _auto_resettle.
Resettle ==
    /\ recv = "resettle"
    /\ vi' = [state |-> "NORMAL", recovered |-> TRUE]
    /\ recv' = "heard"
    /\ Smooth /\ KeepsStream /\ UNCHANGED <<rows, unheard>>

\* Slip: was_recovering is asked after the reset.
HeardResetFirst ==
    /\ recv = "heard"
    /\ ws' = [ws EXCEPT !.fails = 0, !.auth = 0]
    /\ recv' = IF ws'.fails > 0 /\ Runs("reconciler") THEN "catchUp" ELSE "wait"
    /\ unheard' = (unheard /\ Runs("reconciler"))
    /\ Smooth /\ UNCHANGED <<alertVars, token, subs, market, inbox, vi>>

\* The counters are reset after the handlers; an outage that was counted is
\* followed by on_reconnect_recovered, which wants the reconciler.
Heard ==
    /\ recv = "heard"
    /\ ws' = [ws EXCEPT !.fails = 0, !.auth = 0]
    /\ recv' = IF ws.fails > 0 /\ Runs("reconciler") THEN "catchUp" ELSE "wait"
    /\ unheard' = (unheard /\ Runs("reconciler"))
    /\ Smooth /\ UNCHANGED <<alertVars, token, subs, market, inbox, vi>>

\* reconcile_all (Holdings), the orphan orders (whose cancelling always
\* raises), the trailing-stop bases: each may fail, the next one follows.
CatchUp ==
    /\ recv = "catchUp"
    /\ recv' = "snapshot"
    /\ GetToken
    /\ Smooth /\ UNCHANGED <<alertVars, ws, subs, market, inbox, vi, unheard>>

\* apply_kiwoom_snapshot: the list of the day keeps stocks whose VI is over.
Snapshot == IF Runs("vi") /\ market.listed /\ Triggers THEN Triggered ELSE vi

\* _refresh_vi_state of the receive loop.
TakeSnapshot ==
    /\ recv = "snapshot"
    /\ \/ /\ vi' = Snapshot
          /\ recv' = IF vi' # vi THEN "tellSnapshot" ELSE "wait"
          /\ unheard' = (unheard /\ vi'.state = "NORMAL")
          /\ Smooth
       \/ UNCHANGED vi /\ recv' = "wait" /\ unheard' = FALSE /\ Upset
    /\ KeepsStream /\ UNCHANGED rows

TellSnapshot ==
    /\ recv = "tellSnapshot"
    /\ \E key \in Key : Notified("HIGH", key) \/ NotifyRaises
    /\ recv' = "wait"
    /\ KeepsStream /\ UNCHANGED <<vi, unheard>>

Receive ==
    \/ ReadVI \/ TellTriggered \/ TellResumed \/ Resettle \/ Heard
    \/ CatchUp \/ TakeSnapshot \/ TellSnapshot

StreamStep ==
    \/ Dial \/ Connect \/ BrokerRefuses \/ TransportFails \/ ServerCloses
    \/ RestoreSubscriptions \/ ReadOther \/ Receive
    \/ TokenRejected \/ TokenAges \/ Halt \/ Resume

-----------------------------------------------------------------------------
(* Properties.                                                              *)

(* Between two messages a connection has every subscription registered that *)
(* is wanted, whenever the subscriptions were asked for and however often   *)
(* the connection was lost since.                                           *)
NothingUnregistered ==
    ws.st = "connected" /\ recv # "restore" => subs.reg = subs.want

(* kiwoom_websocket.py, run(): only a broker that keeps refusing the token  *)
(* ends the loop; after any other failure the stream comes back.            *)
StreamComesBack ==
    []<>(ws.st = "connected" \/ ws.auth = MaxAuth \/ ~Runs("websocket"))

(* trading_bridge.py, _on_ws_reconnect_recovered: a halt whose message was  *)
(* lost in an outage the run loop has counted is found by the catch-up that *)
(* follows the outage, unless a call of the catch-up fails, the stream ends *)
(* for good, the engine is taken down, or no reconciler is built.           *)
MissedHaltsFound ==
    []<>(~unheard \/ ws.st = "closed" \/ ~({"vi", "websocket"} \subseteq up))

=============================================================================
