------------------------------ MODULE ExitPath ------------------------------
(***************************************************************************)
(* V71ExitOrchestrator, V71ExitCalculator and V71ExitExecutor on one stock: *)
(* a price tick is judged against every open position, read once at the     *)
(* start of the tick, and a position whose stop or profit level is reached  *)
(* is sold through the broker and then written down in the ledger.  A per-  *)
(* stock lock lets one evaluation run at a time.  The broker is external.   *)
(*                                                                          *)
(* Fill events reach the order rows at any time here.  As wired, the        *)
(* evaluation runs inside the receive loop and they reach it only between   *)
(* evaluations: fewer behaviours.                                           *)
(***************************************************************************)
EXTENDS PositionLedger, FiniteSetsExt

CONSTANTS
    Order,          \* order numbers the broker can hand out for sales
    NoOrder,        \* "no order"
    Price,          \* prices the stock can trade at
    SellRetries,    \* V71Constants.ORDER_RETRY_COUNT, limit attempts
    QueryAwaited    \* is list_for_stock's result awaited (or not a coroutine)?

\* An order number is a VARCHAR(20): there are finitely many.
ASSUME ExitAssumption ==
    /\ IsFiniteSet(Order) /\ NoOrder \notin Order
    /\ Price \subseteq Nat \ {0}
    /\ SellRetries \in Nat
    /\ QueryAwaited \in BOOLEAN

VARIABLES
    price,      \* what the stock trades at
    held,       \* shares of the stock in the account, as the broker knows it
    sell,       \* sell orders: the broker's book and the v71_orders rows
    ex,         \* the evaluation in progress
    booked      \* history: shares the executor wrote off the ledger

exitVars == <<price, held, sell, ex, booked>>

SellOrder == [qty : Nat, filled : Nat, seen : Nat, row : BOOLEAN, live : BOOLEAN]

Unsent == [qty |-> 0, filled |-> 0, seen |-> 0, row |-> FALSE, live |-> FALSE]

Level == SellEvent \cup {"none"}

Verdict == [level : Level, qty : Nat]

NoVerdict == [level |-> "none", qty |-> 0]

(* plan: the verdicts of the tick not acted on yet; cur, level, want: the   *)
(* sale in progress; got: shares counted for it; tries: limit attempts left;*)
(* ord: the order in flight.                                                *)
Evaluation == [pc : {"idle", "pick", "limit", "market", "judge", "cancel", "apply"},
               plan : [Pos -> Verdict], cur : 0 .. MaxPos, level : Level,
               want : Nat, got : Nat, tries : Nat, market : BOOLEAN,
               ord : Order \cup {NoOrder}]

IdleEval == [pc |-> "idle", plan |-> [p \in Pos |-> NoVerdict], cur |-> 0,
             level |-> "none", want |-> 0, got |-> 0, tries |-> 0,
             market |-> FALSE, ord |-> NoOrder]

ExitTypeOK ==
    /\ price \in Price
    /\ held \in Nat
    /\ sell \in [Order -> SellOrder]
    /\ ex \in Evaluation
    /\ booked \in Nat

ExitInit ==
    /\ price \in Price
    /\ held = 0
    /\ sell = [o \in Order |-> Unsent]
    /\ ex = IdleEval
    /\ booked = 0

-----------------------------------------------------------------------------
(* The broker.                                                              *)

\* Shares that no live sell order has claimed.
Sellable == held - SumFunctionOnSet([o \in Order |-> sell[o].qty - sell[o].filled],
                                    {o \in Order : sell[o].live})

\* The broker takes an order for shares the account has; row: its v71_orders
\* row is written.
Accept(o, k, row) ==
    /\ sell[o].qty = 0
    /\ k \in 1 .. Sellable
    /\ sell' = [sell EXCEPT ![o] = [qty |-> k, filled |-> 0, seen |-> 0,
                                    row |-> row, live |-> TRUE]]

BrokerSells(o) ==
    /\ sell[o].live
    /\ \E k \in 1 .. (sell[o].qty - sell[o].filled) :
         /\ held' = held - k
         /\ sell' = [sell EXCEPT ![o].filled = @ + k,
                                 ![o].live = sell[o].filled + k < sell[o].qty]
    /\ UNCHANGED <<price, ex, booked>>

\* The order event reaches on_websocket_order_event.
FillDispatched(o) ==
    /\ sell[o].row
    /\ sell[o].seen < sell[o].filled
    /\ sell' = [sell EXCEPT ![o].seen = sell[o].filled]
    /\ UNCHANGED <<price, held, ex, booked>>

-----------------------------------------------------------------------------
(* V71ExitCalculator.                                                       *)

\* 30 % of the position, at least one share.
Slice(q) == Max({(q * 3) \div 10, 1})

Gained(r, pr, pct) == (pr - r.avg) * 100 >= pct * r.avg

Sale(level, q) == [level |-> level, qty |-> q]

\* on_tick: the stop first, then +10 % (only after +5 %), then +5 %.
Judge(r, pr) ==
    IF ~Active(r) \/ r.qty = 0 THEN NoVerdict
    ELSE IF pr <= r.stop THEN Sale("STOP_LOSS", r.qty)
    ELSE IF pr >= r.avg /\ Gained(r, pr, 10) /\ r.p5 /\ ~r.p10 THEN Sale("PROFIT_TAKE_10", Slice(r.qty))
    ELSE IF pr >= r.avg /\ Gained(r, pr, 5) /\ ~r.p5 THEN Sale("PROFIT_TAKE_5", Slice(r.qty))
    ELSE NoVerdict

-----------------------------------------------------------------------------
(* V71ExitOrchestrator.                                                     *)

\* A PRICE_TICK, or the re-evaluation when a VI ends.  The positions are
\* read once; without the await the read raises and the tick is swallowed.
Tick ==
    /\ ex.pc = "idle"
    /\ QueryAwaited
    /\ ex' = [IdleEval EXCEPT !.pc = "pick", !.plan = [p \in Pos |-> Judge(pos[p], price)]]
    /\ UNCHANGED <<pos, price, held, sell, booked>>

Planned == {p \in Pos : ex.plan[p].level # "none"}

\* The newest position first (ORDER BY created_at DESC).
Pick ==
    /\ ex.pc = "pick"
    /\ IF Planned = {} THEN ex' = IdleEval
       ELSE LET p == Max(Planned)
                v == ex.plan[p]
            IN  ex' = [ex EXCEPT !.plan[p] = NoVerdict, !.cur = p, !.level = v.level,
                                 !.want = v.qty, !.got = 0, !.tries = SellRetries,
                                 !.market = (v.level = "STOP_LOSS" \/ SellRetries = 0),
                                 !.pc = IF v.level = "STOP_LOSS" \/ SellRetries = 0
                                        THEN "market" ELSE "limit"]
    /\ UNCHANGED <<pos, price, held, sell, booked>>

-----------------------------------------------------------------------------
(* V71ExitExecutor.                                                         *)

\* The sale is over; the next position of the tick.
Done(e) == [IdleEval EXCEPT !.pc = "pick", !.plan = e.plan]

ToMarket(e) == [e EXCEPT !.pc = "market", !.market = TRUE, !.ord = NoOrder]

\* _sell_sequence returned: without fills the sale fails.
Settled(e) == IF e.got = 0 THEN Done(e) ELSE [e EXCEPT !.pc = "apply", !.ord = NoOrder]

\* The head of the attempt loop.
NextAttempt(e) ==
    IF e.got >= e.want THEN Settled(e)
    ELSE IF e.tries > 0 THEN [e EXCEPT !.pc = "limit", !.ord = NoOrder]
    ELSE ToMarket(e)

Keeps == UNCHANGED <<pos, price, held, booked>>

\* No bid: straight to the market order.
NoBid ==
    /\ ex.pc = "limit"
    /\ ex' = ToMarket(ex)
    /\ Keeps /\ UNCHANGED sell

SendSell ==
    /\ ex.pc \in {"limit", "market"}
    /\ \E o \in Order :
         /\ Accept(o, ex.want - ex.got, TRUE)
         /\ ex' = [ex EXCEPT !.pc = "judge", !.ord = o,
                             !.tries = IF ex.market THEN @ ELSE @ - 1]
    /\ Keeps

\* The order book or the order is refused, or answers with an error; or the
\* broker took the order and the answer or the INSERT of its row was lost.
\* The exception drops whatever earlier attempts of this sale had sold.
SendRaises ==
    /\ ex.pc \in {"limit", "market"}
    /\ UNCHANGED sell \/ \E o \in Order : Accept(o, ex.want - ex.got, FALSE)
    /\ ex' = Done(ex)
    /\ Keeps

\* Slip: what the order was for is taken for what was sold.
CountWanted(e) == [e EXCEPT !.got = @ + sell[e.ord].qty]

\* get_order_status answers from the order's row.
Count(e) == [e EXCEPT !.got = @ + sell[e.ord].seen]

JudgeFill ==
    /\ ex.pc = "judge"
    /\ LET e == Count(ex)
       IN  \/ ex' = IF e.market THEN Settled(e)
                    ELSE IF sell[e.ord].seen < sell[e.ord].qty /\ e.got < e.want
                    THEN [e EXCEPT !.pc = "cancel"]
                    ELSE NextAttempt(e)
           \/ ex' = Done(ex)
    /\ Keeps /\ UNCHANGED sell

\* cancel_order: a broker failure is suppressed, another one is not.
CancelSell ==
    /\ ex.pc = "cancel"
    /\ sell' = [sell EXCEPT ![ex.ord].live = FALSE] \/ UNCHANGED sell
    /\ ex' = NextAttempt(ex) \/ ex' = Done(ex)
    /\ Keeps

\* apply_sell with what was counted.  It raises when the row has fewer shares
\* by now, or when the database fails; then only the broker has sold.
Apply ==
    /\ ex.pc = "apply"
    /\ \/ ApplySell(ex.cur, ex.got, ex.level) /\ booked' = booked + ex.got
       \/ UNCHANGED <<pos, booked>>
    /\ ex' = Done(ex)
    /\ UNCHANGED <<price, held, sell>>

Evaluate ==
    \/ Pick \/ NoBid \/ SendSell \/ SendRaises \/ JudgeFill \/ CancelSell \/ Apply

=============================================================================
