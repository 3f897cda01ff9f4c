--------------------------- MODULE PositionLedger ---------------------------
(***************************************************************************)
(* The positions table of one stock, and what V71PositionManager and the    *)
(* periodic reconciler do to its rows.  An operation of the manager is one  *)
(* transaction on a locked row (SELECT ... FOR UPDATE), so it is one step;  *)
(* one that raises leaves the table alone.  Prices are whole won.  The      *)
(* trailing-stop columns are left out: no code ever sets ts_activated, so   *)
(* the effective stop is the fixed stop of the ladder.                      *)
(***************************************************************************)
EXTENDS Naturals, Functions

CONSTANT MaxPos         \* bound: rows the table ever gets

ASSUME LedgerAssumption == MaxPos \in Nat

VARIABLE pos            \* the rows, in the order of their creation

Pos == 1 .. MaxPos

Source == {"SYSTEM_A", "SYSTEM_B", "MANUAL"}

Status == {"absent", "OPEN", "PARTIAL_CLOSED", "CLOSED"}

Row == [src : Source, status : Status, qty : Nat, avg : Nat, stop : Nat,
        p5 : BOOLEAN, p10 : BOOLEAN]

NoRow == [src |-> "MANUAL", status |-> "absent", qty |-> 0, avg |-> 0,
          stop |-> 0, p5 |-> FALSE, p10 |-> FALSE]

LedgerTypeOK == pos \in [Pos -> Row]

LedgerInit == pos = [p \in Pos |-> NoRow]

\* A row with status != CLOSED.
Active(r) == r.status \in {"OPEN", "PARTIAL_CLOSED"}

ActiveOf(S) == {p \in Pos : pos[p].src \in S /\ Active(pos[p])}

\* The shares of a class of rows, or of all.
QtyIn(S) == SumFunctionOnSet([p \in Pos |-> pos[p].qty], ActiveOf(S))

SystemQty == QtyIn(Source)

-----------------------------------------------------------------------------
(* Prices.                                                                  *)

\* int(round(n / d)): to the nearest, a half to the even neighbour.
RoundDiv(n, d) ==
    LET q == n \div d
        r == n % d
    IN  IF 2 * r > d \/ (2 * r = d /\ q % 2 = 1) THEN q + 1 ELSE q

\* stage_after_partial_exit: -5 %, -2 % after the first profit-take, +4 %
\* after the second.
Stage(p5, p10, avg) ==
    RoundDiv(avg * (IF p10 THEN 104 ELSE IF p5 THEN 98 ELSE 95), 100)

\* compute_weighted_average.
WeightedAverage(q, a, k, price) == RoundDiv(q * a + k * price, q + k)

-----------------------------------------------------------------------------
(* Rows.                                                                    *)

\* insert_position: the row of a first buy.
NewRow(src, k, price) ==
    [src |-> src, status |-> "OPEN", qty |-> k, avg |-> price,
     stop |-> Stage(FALSE, FALSE, price), p5 |-> FALSE, p10 |-> FALSE]

\* Slip: the events of the old lot survive an add-buy.
AfterBuyKeepingEvents(r, k, price) ==
    LET avg == WeightedAverage(r.qty, r.avg, k, price)
    IN  [r EXCEPT !.qty = @ + k, !.avg = avg, !.stop = Stage(FALSE, FALSE, avg),
                  !.status = IF @ = "PARTIAL_CLOSED" THEN "OPEN" ELSE @]

\* apply_buy: average, profit events and stop ladder start again.
AfterBuy(r, k, price) ==
    LET avg == WeightedAverage(r.qty, r.avg, k, price)
    IN  [r EXCEPT !.qty = @ + k, !.avg = avg, !.stop = Stage(FALSE, FALSE, avg),
                  !.p5 = FALSE, !.p10 = FALSE,
                  !.status = IF @ = "PARTIAL_CLOSED" THEN "OPEN" ELSE @]

\* Both reducers: the last share closes the row, any other sale marks it.
Lifecycle(status, left) ==
    IF left = 0 THEN "CLOSED" ELSE IF status = "OPEN" THEN "PARTIAL_CLOSED" ELSE status

ProfitEvent == {"PROFIT_TAKE_5", "PROFIT_TAKE_10"}

SellEvent == ProfitEvent \cup {"STOP_LOSS", "MANUAL_SELL"}

\* apply_sell: a profit-take climbs the ladder, any other sale stays on it.
AfterSell(r, k, event) ==
    LET p5  == r.p5 \/ event \in ProfitEvent
        p10 == r.p10 \/ event = "PROFIT_TAKE_10"
    IN  [r EXCEPT !.qty = @ - k, !.p5 = p5, !.p10 = p10,
                  !.stop = IF event \in ProfitEvent THEN Stage(p5, p10, r.avg) ELSE @,
                  !.status = Lifecycle(@, r.qty - k)]

\* _reduce_quantity of the periodic reconciler.
Reduced(r, k) ==
    IF k = 0 THEN r
    ELSE [r EXCEPT !.qty = @ - k, !.status = Lifecycle(@, r.qty - k)]

\* update_position_after_sell raises on anything else.
CanSell(p, k) == k \in 1 .. pos[p].qty

\* CHECK position_closed_consistency, violated by a buy on a closed row.
Consistent(r) == Active(r) <=> r.qty > 0

-----------------------------------------------------------------------------
(* Transactions of V71PositionManager.                                      *)

FreshPos == {p \in Pos : pos[p].status = "absent" /\ \A q \in 1 .. (p - 1) : pos[q].status # "absent"}

AddPosition(src, k, price) ==
    /\ k > 0
    /\ \E p \in FreshPos : pos' = [pos EXCEPT ![p] = NewRow(src, k, price)]

\* Slip: the table takes any row.
ApplyBuyUnchecked(p, k, price) == pos' = [pos EXCEPT ![p] = AfterBuy(@, k, price)]

ApplyBuy(p, k, price) ==
    LET r == AfterBuy(pos[p], k, price)
    IN  pos' = IF Consistent(r) THEN [pos EXCEPT ![p] = r] ELSE pos

ApplySell(p, k, event) ==
    /\ CanSell(p, k)
    /\ pos' = [pos EXCEPT ![p] = AfterSell(@, k, event)]

=============================================================================
