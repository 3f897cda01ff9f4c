------------------------------ MODULE OrderBook ------------------------------
(***************************************************************************)
(* The orders of one stock as three parties see them: the broker (external),*)
(* the v71_orders table that V71OrderManager writes, and the one websocket  *)
(* stream that carries both completed-bar ticks and the broker's order      *)
(* events (Kiwoom channel 00) to the receive loop.                          *)
(*                                                                          *)
(* An order is named by its kiwoom_order_no.  Prices are left out.          *)
(***************************************************************************)
EXTENDS Naturals, Sequences

CONSTANTS
    Order,              \* the order numbers the broker can hand out
    NoOrder,            \* "no order"
    Box,                \* the support boxes of the stock
    NoBox,              \* "no box"
    OrderEventsWired,   \* is on_websocket_order_event registered for channel 00?
    MaxBars             \* bound: completed bars waiting in the stream

ASSUME OrderBookAssumption ==
    /\ NoOrder \notin Order
    /\ NoBox \notin Box
    /\ OrderEventsWired \in BOOLEAN
    /\ MaxBars \in Nat

VARIABLES
    broker,     \* the broker's book: broker[o] is order o as the broker has it
    rows,       \* v71_orders: rows[o] is the row whose kiwoom_order_no is o
    stream,     \* messages the websocket has received and not yet dispatched
    bought      \* history: shares the broker has bought on behalf of each box

bookVars == <<broker, rows, stream, bought>>

RowState == {"none", "SUBMITTED", "PARTIAL", "FILLED", "CANCELLED", "REJECTED"}

BrokerOrder == [box : Box \cup {NoBox}, qty : Nat, filled : Nat, live : BOOLEAN]

Unused == [box |-> NoBox, qty |-> 0, filled |-> 0, live |-> FALSE]

OrderRow == [state : RowState, filled : Nat]

NoRow == [state |-> "none", filled |-> 0]

(* A tick that completes a 3-minute bar, or an order event: qty is the size *)
(* of the execution (FILL_QUANTITY), left the unfilled rest (REMAINING).    *)
Message == [kind : {"bar", "fill", "cancelled", "confirmed", "rejected"},
            ord : Order \cup {NoOrder}, qty : Nat, left : Nat]

Bar == [kind |-> "bar", ord |-> NoOrder, qty |-> 0, left |-> 0]

Event(kind, o, k, rest) == [kind |-> kind, ord |-> o, qty |-> k, left |-> rest]

BookTypeOK ==
    /\ broker \in [Order -> BrokerOrder]
    /\ rows \in [Order -> OrderRow]
    /\ stream \in Seq(Message)
    /\ bought \in [Box -> Nat]

BookInit ==
    /\ broker = [o \in Order |-> Unused]
    /\ rows = [o \in Order |-> NoRow]
    /\ stream = <<>>
    /\ bought = [b \in Box |-> 0]

IsOpen(o) == rows[o].state \in {"SUBMITTED", "PARTIAL"}

-----------------------------------------------------------------------------
(* The broker.                                                              *)

Fresh(o) == broker[o].box = NoBox

\* Numbers are all alike: the next one is any that is not in use.
NextNumber == CHOOSE o \in Order : Fresh(o)

\* kt10000 reaches the broker, which takes the order and numbers it o.
Accept(o, b, q) ==
    /\ Fresh(o)
    /\ o = NextNumber
    /\ broker' = [broker EXCEPT ![o] =
                    [box |-> b, qty |-> q, filled |-> 0, live |-> TRUE]]

\* An execution of k shares, announced on channel 00.
BrokerFill(o, k) ==
    LET done == broker[o].filled + k
        rest == broker[o].qty - done
    IN  /\ broker[o].live
        /\ k \in 1 .. (broker[o].qty - broker[o].filled)
        /\ broker' = [broker EXCEPT ![o].filled = done, ![o].live = rest > 0]
        /\ bought' = [bought EXCEPT ![broker[o].box] = @ + k]
        /\ stream' = Append(stream, Event("fill", o, k, rest))
        /\ UNCHANGED rows

\* The exchange refuses an order it had taken; nothing of it was filled.
BrokerReject(o) ==
    /\ broker[o].live
    /\ broker[o].filled = 0
    /\ broker' = [broker EXCEPT ![o].live = FALSE]
    /\ stream' = Append(stream, Event("rejected", o, 0, broker[o].qty))
    /\ UNCHANGED <<rows, bought>>

\* kt10003 withdraws what is left of a live order; the broker reports it as a
\* cancellation, or as its confirmation of the request.
BrokerCancel(o) ==
    /\ broker[o].live
    /\ broker' = [broker EXCEPT ![o].live = FALSE]
    /\ \E kind \in {"cancelled", "confirmed"} :
          stream' = Append(stream, Event(kind, o, 0, broker[o].qty - broker[o].filled))

\* A tick of the stock that closes a 3-minute bucket.
BarArrives ==
    /\ Len(SelectSeq(stream, LAMBDA m : m.kind = "bar")) < MaxBars
    /\ stream' = Append(stream, Bar)
    /\ UNCHANGED <<broker, rows, bought>>

\* The socket closes: what was not dispatched is gone and never replayed.
StreamLost ==
    /\ stream # <<>>
    /\ stream' = <<>>
    /\ UNCHANGED <<broker, rows, bought>>

-----------------------------------------------------------------------------
(* V71OrderManager.                                                         *)

\* submit_order's INSERT, after the broker's answer.
InsertRow(o) == rows' = [rows EXCEPT ![o] = [state |-> "SUBMITTED", filled |-> 0]]

\* Slip: the order's quantity is read for the execution's.
FilledRowWhole(r, m) ==
    [state |-> "PARTIAL", filled |-> broker[m.ord].qty]

\* The row a fill event leaves: cumulative quantity, FILLED when nothing is
\* left.  The table's CHECK (filled_quantity <= quantity) rolls back the rest.
FilledRow(r, m) ==
    IF r.filled + m.qty <= broker[m.ord].qty
    THEN [state  |-> IF m.left = 0 THEN "FILLED" ELSE "PARTIAL",
          filled |-> r.filled + m.qty]
    ELSE r

\* A confirmation replaces an order without fills; a partly filled row stays.
ConfirmedRow(r) == IF r.state = "SUBMITTED" THEN [r EXCEPT !.state = "CANCELLED"] ELSE r

\* An event for an order without a row is reported as a manual order.
RowAfter(r, m) ==
    IF r.state = "none" THEN r
    ELSE CASE m.kind = "fill"      -> FilledRow(r, m)
           [] m.kind = "cancelled" -> [r EXCEPT !.state = "CANCELLED"]
           [] m.kind = "confirmed" -> ConfirmedRow(r)
           [] m.kind = "rejected"  -> [r EXCEPT !.state = "REJECTED"]

\* The receive loop hands the oldest message, an order event, to its handler.
\* Without a registered handler the message is dropped.
OnOrderEvent ==
    LET m == Head(stream)
    IN  /\ stream # <<>>
        /\ m.kind # "bar"
        /\ stream' = Tail(stream)
        /\ rows' = IF OrderEventsWired
                   THEN [rows EXCEPT ![m.ord] = RowAfter(@, m)]
                   ELSE rows
        /\ UNCHANGED <<broker, bought>>

=============================================================================
