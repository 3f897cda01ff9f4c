--------------------------- MODULE HoldingsProofs ---------------------------
(***************************************************************************)
(* The exits and the ledger they are booked in: types, sell orders, the     *)
(* evaluation of a stop, both reconcilers; nothing is booked that was not   *)
(* sold, and the ledger keeps the contract of a position.                   *)
(***************************************************************************)
EXTENDS LedgerProofs

-----------------------------------------------------------------------------
(* The sell orders.                                                         *)

\* What the orders have sold, and what is still to be sold.
Filled == [o \in Order |-> sell[o].filled]

Unfilled == [o \in Order |-> sell[o].qty - sell[o].filled]

LiveOrders == {o \in Order : sell[o].live}

\* An order sells no more than it is for, its row never runs ahead of it, and
\* the account has the shares the live orders are still to sell.
SellInv ==
    /\ sell \in [Order -> SellOrder]
    /\ \A o \in Order : /\ sell[o].seen <= sell[o].filled
                        /\ sell[o].filled <= sell[o].qty
                        /\ sell[o].live => sell[o].filled < sell[o].qty
    /\ held \in Nat
    /\ SumFunctionOnSet(Unfilled, LiveOrders) <= held

\* What the invariant of the sell orders says of each of them.
LEMMA SellTypes ==
    ASSUME SellInv
    PROVE  /\ IsFiniteSet(Order) /\ IsFiniteSet(LiveOrders) /\ LiveOrders \subseteq Order
           /\ \A o \in Order : /\ sell[o] \in SellOrder
                               /\ sell[o].qty \in Nat /\ sell[o].filled \in Nat /\ sell[o].seen \in Nat
                               /\ Unfilled[o] = sell[o].qty - sell[o].filled /\ Unfilled[o] \in Nat
                               /\ Filled[o] = sell[o].filled /\ Filled[o] \in Nat
                               /\ (sell[o].live <=> o \in LiveOrders)
           /\ SumFunctionOnSet(Unfilled, LiveOrders) \in Nat
           /\ Sellable = held - SumFunctionOnSet(Unfilled, LiveOrders)
  <1>1. \A o \in Order : /\ sell[o] \in SellOrder /\ sell[o].qty \in Nat
                         /\ sell[o].filled \in Nat /\ sell[o].seen \in Nat
    BY DEF SellInv, SellOrder
  <1>2. \A o \in Order : /\ Unfilled[o] = sell[o].qty - sell[o].filled
                         /\ Filled[o] = sell[o].filled
    BY DEF Unfilled, Filled
  <1>3. \A o \in Order : Unfilled[o] \in Nat /\ Filled[o] \in Nat
    BY <1>1, <1>2 DEF SellInv
  <1>4. LiveOrders \subseteq Order /\ \A o \in Order : sell[o].live <=> o \in LiveOrders
    BY DEF LiveOrders
  <1>5. IsFiniteSet(Order) /\ IsFiniteSet(LiveOrders)
    BY <1>4, ExitAssumption, FS_Subset
  <1>6. \A o \in LiveOrders : Unfilled[o] \in Nat
    BY <1>3, <1>4
  <1>7. SumFunctionOnSet(Unfilled, LiveOrders) \in Nat
    BY <1>5, <1>6, SumNat
  <1>8. Sellable = held - SumFunctionOnSet(Unfilled, LiveOrders)
    BY Zenon DEF Sellable, Unfilled, LiveOrders
  <1> QED
    BY <1>1, <1>2, <1>3, <1>4, <1>5, <1>7, <1>8, Zenon

\* The broker only takes an order for shares no other order has claimed.
LEMMA AcceptKeeps ==
    ASSUME SellInv, NEW o \in Order, NEW k, NEW row \in BOOLEAN, Accept(o, k, row), held' = held
    PROVE  /\ SellInv'
           /\ k \in Nat
           /\ Filled' = Filled /\ Filled[o] = 0
  <1> DEFINE new == [qty |-> k, filled |-> 0, seen |-> 0, row |-> row, live |-> TRUE]
  <1>1. /\ sell[o].qty = 0 /\ sell[o].filled = 0 /\ o \notin LiveOrders
    BY SellTypes DEF Accept, SellInv
  <1>2. k \in Nat /\ k > 0 /\ k + SumFunctionOnSet(Unfilled, LiveOrders) <= held
    <2>1. Sellable \in Int
      BY SellTypes DEF SellInv
    <2>2. k \in Nat /\ k > 0 /\ k <= Sellable
      BY <2>1 DEF Accept
    <2> HIDE DEF Sellable
    <2> QED
      BY <2>2, SellTypes DEF SellInv
  <1>3. sell' = [sell EXCEPT ![o] = new]
    BY DEF Accept
  <1>4. new \in SellOrder
    BY <1>2 DEF SellOrder
  <1>5. /\ sell' \in [Order -> SellOrder] /\ sell'[o] = new
        /\ \A x \in Order \ {o} : sell'[x] = sell[x]
    BY <1>3, <1>4 DEF SellInv
  <1>6. \A x \in Order : /\ sell'[x].seen <= sell'[x].filled
                         /\ sell'[x].filled <= sell'[x].qty
                         /\ sell'[x].live => sell'[x].filled < sell'[x].qty
    BY <1>2, <1>5 DEF SellInv
  <1>7. LiveOrders' = LiveOrders \cup {o}
    BY <1>5 DEF LiveOrders
  <1>8. SumFunctionOnSet(Unfilled', LiveOrders') = k + SumFunctionOnSet(Unfilled, LiveOrders)
    <2>1. \A x \in LiveOrders : Unfilled'[x] = Unfilled[x] /\ Unfilled'[x] \in Nat
      BY <1>1, <1>5, SellTypes DEF Unfilled
    <2>2. Unfilled'[o] = k
      BY <1>2, <1>5 DEF Unfilled
    <2>3. SumFunctionOnSet(Unfilled', LiveOrders \cup {o})
            = Unfilled'[o] + SumFunctionOnSet(Unfilled', LiveOrders)
      BY <1>1, <1>2, <2>1, <2>2, SellTypes, SumAdd
    <2>4. SumFunctionOnSet(Unfilled', LiveOrders) = SumFunctionOnSet(Unfilled, LiveOrders)
      BY <2>1, SellTypes, SumSame
    <2> QED
      BY <1>7, <2>2, <2>3, <2>4
  <1>9. Filled' = Filled
    <2>1. \A x \in Order : sell'[x].filled = sell[x].filled
      BY <1>1, <1>5
    <2> QED
      BY <2>1 DEF Filled
  <1>10. SellInv'
    BY <1>2, <1>5, <1>6, <1>8 DEF SellInv
  <1>11. Filled[o] = 0
    BY <1>1, SellTypes
  <1> QED
    BY <1>2, <1>9, <1>10, <1>11

\* A fill takes the shares out of the order and out of the account.
LEMMA BrokerSellsKeeps ==
    ASSUME SellInv, NEW o \in Order, BrokerSells(o)
    PROVE  /\ SellInv'
           /\ \A x \in Order : Filled[x] <= Filled'[x]
  <1>1. PICK k \in 1 .. (sell[o].qty - sell[o].filled) :
          /\ held' = held - k
          /\ sell' = [sell EXCEPT ![o].filled = @ + k,
                                  ![o].live = sell[o].filled + k < sell[o].qty]
    BY DEF BrokerSells
  <1> DEFINE sum == sell[o].filled + k
             more == sum < sell[o].qty
             new == [sell[o] EXCEPT !.filled = sum, !.live = more]
  <1>2. /\ sell[o] \in SellOrder /\ sell[o].live /\ o \in LiveOrders
        /\ k \in Nat /\ k > 0 /\ k <= Unfilled[o] /\ sell[o].filled + k <= sell[o].qty
        /\ sell[o].filled \in Nat /\ sell[o].qty \in Nat /\ sell[o].seen \in Nat
        /\ sell[o].seen <= sell[o].filled
    <2>1. /\ sell[o] \in SellOrder /\ sell[o].filled \in Nat /\ sell[o].qty \in Nat
          /\ sell[o].seen \in Nat /\ Unfilled[o] = sell[o].qty - sell[o].filled
          /\ (sell[o].live <=> o \in LiveOrders)
      BY SellTypes
    <2> QED
      BY <2>1 DEF BrokerSells, SellInv
  <1>3. /\ new \in SellOrder /\ new.filled = sell[o].filled + k /\ new.qty = sell[o].qty
        /\ new.seen = sell[o].seen /\ (new.live <=> sell[o].filled + k < sell[o].qty)
    <2>1. sum \in Nat /\ more \in BOOLEAN
      BY <1>2
    <2> HIDE DEF sum, more
    <2>2. new \in SellOrder /\ new.filled = sum /\ new.qty = sell[o].qty
          /\ new.seen = sell[o].seen /\ new.live = more
      BY <1>2, <2>1 DEF SellOrder
    <2> HIDE DEF new
    <2> QED
      BY <2>2 DEF sum, more
  <1>4. sell' = [sell EXCEPT ![o] = new]
    BY <1>1
  <1> HIDE DEF new
  <1>5. /\ sell' \in [Order -> SellOrder] /\ sell'[o] = new
        /\ \A x \in Order \ {o} : sell'[x] = sell[x]
    BY <1>3, <1>4 DEF SellInv
  <1>6. \A x \in Order : /\ sell'[x].seen <= sell'[x].filled
                         /\ sell'[x].filled <= sell'[x].qty
                         /\ sell'[x].live => sell'[x].filled < sell'[x].qty
    <2>1. ASSUME NEW x \in Order, x = o
          PROVE  /\ sell'[x].seen <= sell'[x].filled
                 /\ sell'[x].filled <= sell'[x].qty
                 /\ sell'[x].live => sell'[x].filled < sell'[x].qty
      BY <1>2, <1>3, <1>5, <2>1
    <2>2. ASSUME NEW x \in Order, x # o
          PROVE  /\ sell'[x].seen <= sell'[x].filled
                 /\ sell'[x].filled <= sell'[x].qty
                 /\ sell'[x].live => sell'[x].filled < sell'[x].qty
      BY <1>5, <2>2 DEF SellInv
    <2> QED
      BY <2>1, <2>2
  <1> DEFINE rest == LiveOrders \ {o}
  <1>7. /\ o \in LiveOrders' => LiveOrders' = rest \cup {o}
        /\ o \notin LiveOrders' => LiveOrders' = rest
    BY <1>5 DEF LiveOrders
  <1>8. IsFiniteSet(rest) /\ o \notin rest /\ rest \subseteq Order
    BY SellTypes, FS_Subset
  <1>9. /\ \A x \in rest : Unfilled'[x] = Unfilled[x] /\ Unfilled'[x] \in Nat
        /\ Unfilled'[o] = Unfilled[o] - k /\ Unfilled'[o] \in Nat /\ Unfilled[o] \in Nat
    <2>1. \A x \in rest : Unfilled'[x] = Unfilled[x] /\ Unfilled'[x] \in Nat
      BY <1>5, <1>8, SellTypes DEF Unfilled
    <2>2. Unfilled[o] = sell[o].qty - sell[o].filled /\ Unfilled'[o] = sell'[o].qty - sell'[o].filled
      BY DEF Unfilled
    <2> QED
      BY <1>2, <1>3, <1>5, <2>1, <2>2
  <1>10. SumFunctionOnSet(Unfilled, LiveOrders) = Unfilled[o] + SumFunctionOnSet(Unfilled, rest)
    <2>1. \A x \in LiveOrders : Unfilled[x] \in Nat
      BY SellTypes
    <2> QED
      BY <1>2, <2>1, SellTypes, SumRemove
  <1>11. /\ SumFunctionOnSet(Unfilled', rest) = SumFunctionOnSet(Unfilled, rest)
         /\ SumFunctionOnSet(Unfilled', rest) \in Nat
         /\ SumFunctionOnSet(Unfilled', rest \cup {o}) = Unfilled'[o] + SumFunctionOnSet(Unfilled', rest)
    <2> HIDE DEF rest
    <2>1. SumFunctionOnSet(Unfilled', rest) = SumFunctionOnSet(Unfilled, rest)
      BY <1>8, <1>9, SumSame
    <2>2. SumFunctionOnSet(Unfilled', rest) \in Nat
      BY <1>8, <1>9, SumNat
    <2>3. SumFunctionOnSet(Unfilled', rest \cup {o}) = Unfilled'[o] + SumFunctionOnSet(Unfilled', rest)
      BY <1>8, <1>9, SumAdd
    <2> QED
      BY <2>1, <2>2, <2>3
  <1> HIDE DEF rest
  <1>12. held \in Nat /\ SumFunctionOnSet(Unfilled, LiveOrders) <= held
    BY DEF SellInv
  <1>13. held' \in Nat /\ SumFunctionOnSet(Unfilled', LiveOrders') <= held'
    <2>1. /\ held' = held - k /\ held' \in Nat
          /\ Unfilled'[o] + SumFunctionOnSet(Unfilled', rest) <= held'
          /\ SumFunctionOnSet(Unfilled', rest) <= held'
      BY <1>1, <1>2, <1>9, <1>10, <1>11, <1>12
    <2>2. CASE o \in LiveOrders'
      BY <1>7, <1>11, <2>1, <2>2
    <2>3. CASE o \notin LiveOrders'
      BY <1>7, <2>1, <2>3
    <2> QED
      BY <2>1, <2>2, <2>3
  <1>14. \A x \in Order : Filled[x] <= Filled'[x]
    <2>1. \A x \in Order : Filled[x] = sell[x].filled /\ Filled'[x] = sell'[x].filled /\ sell[x].filled \in Nat
      BY SellTypes DEF Filled
    <2>2. ASSUME NEW x \in Order PROVE sell[x].filled <= sell'[x].filled
      <3>1. CASE x = o
        BY <1>2, <1>3, <1>5, <3>1
      <3>2. CASE x # o
        BY <1>5, <2>1, <3>2
      <3> QED
        BY <3>1, <3>2
    <2> QED
      BY <2>1, <2>2
  <1> QED
    BY <1>5, <1>6, <1>13, <1>14 DEF SellInv

\* The handler of a fill event writes what the executor has seen, no more.
LEMMA DispatchKeeps ==
    ASSUME SellInv, NEW o \in Order, FillDispatched(o)
    PROVE  SellInv' /\ Filled' = Filled
  <1> DEFINE new == [sell[o] EXCEPT !.seen = sell[o].filled]
  <1>1. sell' = [sell EXCEPT ![o] = new] /\ held' = held
    BY DEF FillDispatched
  <1>2. new \in SellOrder /\ new.filled = sell[o].filled /\ new.qty = sell[o].qty
        /\ new.live = sell[o].live /\ new.seen = sell[o].filled /\ new.seen \in Nat
    BY SellTypes DEF SellOrder
  <1> HIDE DEF new
  <1>3. /\ sell' \in [Order -> SellOrder] /\ sell'[o] = new
        /\ \A x \in Order \ {o} : sell'[x] = sell[x]
    BY <1>1, <1>2 DEF SellInv
  <1>4. \A x \in Order : sell'[x].filled = sell[x].filled /\ sell'[x].qty = sell[x].qty
                         /\ sell'[x].live = sell[x].live
    BY <1>2, <1>3
  <1>5. Filled' = Filled /\ Unfilled' = Unfilled /\ LiveOrders' = LiveOrders
    <2>1. Filled' = Filled
      BY <1>4 DEF Filled
    <2>2. Unfilled' = Unfilled
      BY <1>4 DEF Unfilled
    <2>3. LiveOrders' = LiveOrders
      BY <1>4 DEF LiveOrders
    <2> QED
      BY <2>1, <2>2, <2>3
  <1>6. \A x \in Order : sell'[x].seen <= sell'[x].filled
    BY <1>2, <1>3 DEF SellInv
  <1> QED
    BY <1>1, <1>3, <1>4, <1>5, <1>6 DEF SellInv

\* cancel_order.
LEMMA CancelKeeps ==
    ASSUME SellInv, NEW o \in Order, sell' = [sell EXCEPT ![o].live = FALSE], held' = held
    PROVE  SellInv' /\ Filled' = Filled
  <1> DEFINE new == [sell[o] EXCEPT !.live = FALSE]
  <1>1. sell' = [sell EXCEPT ![o] = new]
    OBVIOUS
  <1>2. new \in SellOrder /\ new.filled = sell[o].filled /\ new.qty = sell[o].qty
        /\ ~new.live /\ new.seen = sell[o].seen
    BY SellTypes DEF SellOrder
  <1> HIDE DEF new
  <1>3. /\ sell' \in [Order -> SellOrder] /\ sell'[o] = new
        /\ \A x \in Order \ {o} : sell'[x] = sell[x]
    BY <1>1, <1>2 DEF SellInv
  <1>4. \A x \in Order : sell'[x].filled = sell[x].filled /\ sell'[x].qty = sell[x].qty
                         /\ sell'[x].seen = sell[x].seen
    BY <1>2, <1>3
  <1>5. Filled' = Filled /\ Unfilled' = Unfilled
    <2>1. Filled' = Filled
      BY <1>4 DEF Filled
    <2>2. Unfilled' = Unfilled
      BY <1>4 DEF Unfilled
    <2> QED
      BY <2>1, <2>2
  <1>6. \A x \in Order : sell'[x].live => sell[x].live
    BY <1>2, <1>3
  <1>7. LiveOrders' \in SUBSET LiveOrders
    BY <1>6 DEF LiveOrders
  <1>8. SumFunctionOnSet(Unfilled, LiveOrders') <= SumFunctionOnSet(Unfilled, LiveOrders)
    <2>1. \A x \in LiveOrders : Unfilled[x] \in Nat
      BY SellTypes
    <2> QED
      BY <1>7, <2>1, SellTypes, SumSubset
  <1>9. SumFunctionOnSet(Unfilled, LiveOrders') \in Nat
    <2>1. IsFiniteSet(LiveOrders') /\ \A x \in LiveOrders' : Unfilled[x] \in Nat
      BY <1>7, SellTypes, FS_Subset
    <2> QED
      BY <2>1, SumNat
  <1>10. SumFunctionOnSet(Unfilled', LiveOrders') <= held'
    BY <1>5, <1>8, <1>9, SellTypes DEF SellInv
  <1>11. \A x \in Order : /\ sell'[x].seen <= sell'[x].filled
                          /\ sell'[x].filled <= sell'[x].qty
                          /\ sell'[x].live => sell'[x].filled < sell'[x].qty
    BY <1>4, <1>6 DEF SellInv
  <1> QED
    BY <1>3, <1>5, <1>10, <1>11 DEF SellInv

\* A step that leaves the orders alone and takes no share that a live order
\* is to sell.
LEMMA HeldKeeps ==
    ASSUME SellInv, UNCHANGED sell, held' \in Nat,
           SumFunctionOnSet(Unfilled, LiveOrders) <= held'
    PROVE  SellInv' /\ Filled' = Filled
  BY DEF SellInv, Filled, Unfilled, LiveOrders

-----------------------------------------------------------------------------
(* The evaluation in progress.                                              *)

\* A limit attempt is one of those left; an order in flight has a number; only
\* a limit order is cancelled.
EvalOK(e) ==
    /\ e \in Evaluation
    /\ e.pc = "limit" => e.tries > 0 /\ ~e.market
    /\ e.pc = "market" => e.market
    /\ e.pc \in {"judge", "cancel"} => e.ord \in Order
    /\ e.pc = "cancel" => ~e.market

\* No evaluation is under way.
LEMMA IdleOK ==
    EvalOK(IdleEval) /\ IdleEval.got = 0 /\ IdleEval.pc = "idle"
  <1> DEFINE plan == [p \in Pos |-> NoVerdict]
  <1>1. plan \in [Pos -> Verdict]
    BY DEF Verdict, NoVerdict, Level
  <1> HIDE DEF plan
  <1>2. 0 \in 0 .. MaxPos
    BY LedgerAssumption
  <1>3. [pc |-> "idle", plan |-> plan, cur |-> 0, level |-> "none", want |-> 0, got |-> 0,
         tries |-> 0, market |-> FALSE, ord |-> NoOrder] \in Evaluation
    BY <1>1, <1>2 DEF Evaluation, Level
  <1> QED
    BY <1>3 DEF EvalOK, IdleEval, plan

\* What a step of the executor makes of an evaluation.
LEMMA DoneOK ==
    ASSUME NEW e, EvalOK(e)
    PROVE  EvalOK(Done(e)) /\ Done(e).got = 0 /\ Done(e).pc = "pick"
  <1>1. e.plan \in [Pos -> Verdict]
    BY DEF EvalOK, Evaluation
  <1>2. IdleEval \in Evaluation
    BY IdleOK DEF EvalOK
  <1>3. Done(e) \in Evaluation /\ Done(e).pc = "pick" /\ Done(e).got = IdleEval.got
    BY <1>1, <1>2 DEF Done, Evaluation
  <1> QED
    BY <1>3, IdleOK DEF EvalOK

\* The executor turns from limit to market orders.
LEMMA ToMarketOK ==
    ASSUME NEW e, EvalOK(e)
    PROVE  EvalOK(ToMarket(e)) /\ ToMarket(e).got = e.got /\ ToMarket(e).pc = "market"
  <1>1. /\ ToMarket(e) \in Evaluation /\ ToMarket(e).pc = "market" /\ ToMarket(e).market
        /\ ToMarket(e).got = e.got
    BY DEF EvalOK, Evaluation, ToMarket
  <1> QED
    BY <1>1 DEF EvalOK

\* What the sale got is to be booked; without fills the next row is picked.
LEMMA SettledOK ==
    ASSUME NEW e, EvalOK(e)
    PROVE  /\ EvalOK(Settled(e)) /\ Settled(e).got = e.got
           /\ Settled(e).pc \in {"pick", "apply"}
  <1>1. CASE e.got = 0
    BY <1>1, DoneOK DEF Settled
  <1>2. CASE e.got # 0
    <2>1. /\ Settled(e) \in Evaluation /\ Settled(e).pc = "apply" /\ Settled(e).got = e.got
      BY <1>2 DEF EvalOK, Evaluation, Settled
    <2> QED
      BY <2>1 DEF EvalOK
  <1> QED
    BY <1>1, <1>2

\* After a limit order: another one, or the market.
LEMMA NextAttemptOK ==
    ASSUME NEW e, EvalOK(e), ~e.market
    PROVE  /\ EvalOK(NextAttempt(e)) /\ NextAttempt(e).got = e.got
           /\ NextAttempt(e).pc # "judge"
  <1>1. CASE e.got >= e.want
    BY <1>1, SettledOK DEF NextAttempt
  <1>2. CASE ~(e.got >= e.want) /\ e.tries > 0
    <2>1. NextAttempt(e) = [e EXCEPT !.pc = "limit", !.ord = NoOrder]
      BY <1>2 DEF NextAttempt
    <2>2. /\ NextAttempt(e) \in Evaluation /\ NextAttempt(e).pc = "limit"
          /\ NextAttempt(e).got = e.got /\ NextAttempt(e).tries = e.tries
          /\ NextAttempt(e).market = e.market
      BY <2>1 DEF EvalOK, Evaluation
    <2> QED
      BY <1>2, <2>2 DEF EvalOK
  <1>3. CASE ~(e.got >= e.want) /\ ~(e.tries > 0)
    BY <1>3, ToMarketOK DEF NextAttempt
  <1> QED
    BY <1>1, <1>2, <1>3

\* The calculator asks for a sell of a row that has the shares.
LEMMA JudgeTyped ==
    ASSUME NEW r, RowTyped(r), NEW pr
    PROVE  Judge(r, pr) \in Verdict
  <1>1. r.qty \in Nat
    BY DEF RowTyped, Row
  <1>2. Slice(r.qty) \in Nat
    <2> DEFINE t == (r.qty * 3) \div 10
    <2>1. t \in Nat
      <3>1. r.qty * 3 \in Nat
        BY <1>1
      <3> QED
        BY <3>1, DivIsNat
    <2> HIDE DEF t
    <2>2. \E x \in {t, 1} : \A y \in {t, 1} : x >= y
      <3>1. t >= 1 \/ 1 >= t
        BY <2>1
      <3> QED
        BY <2>1, <3>1
    <2>3. Max({t, 1}) \in {t, 1}
      BY <2>2 DEF Max
    <2> QED
      BY <2>1, <2>3 DEF Slice, t
  <1>3. \A l \in Level, q \in Nat : Sale(l, q) \in Verdict
    BY DEF Sale, Verdict
  <1>4. NoVerdict \in Verdict
    BY DEF NoVerdict, Verdict, Level
  <1>5. {"STOP_LOSS", "PROFIT_TAKE_10", "PROFIT_TAKE_5"} \subseteq Level
    BY DEF Level, SellEvent, ProfitEvent
  <1> HIDE DEF Slice
  <1>6. /\ Sale("STOP_LOSS", r.qty) \in Verdict
        /\ Sale("PROFIT_TAKE_10", Slice(r.qty)) \in Verdict
        /\ Sale("PROFIT_TAKE_5", Slice(r.qty)) \in Verdict
    BY <1>1, <1>2, <1>3, <1>5
  <1> QED
    BY <1>4, <1>6 DEF Judge

-----------------------------------------------------------------------------
(* The invariant.                                                           *)

RestTyped ==
    /\ price \in Price
    /\ booked \in Nat
    /\ tracked \in BOOLEAN
    /\ buying \in [src : Source, qty : Nat]
    /\ rec \in [pc : {"idle", "load", "track", "apply"}, bal : Nat, sys : Nat, trk : BOOLEAN]
    /\ RstTyped
    /\ count \in [buys : Nat, upsets : Nat]

\* The orders whose shares the executor has looked at: all but the one in
\* flight.
Judged == IF ex.pc = "judge" THEN Order \ {ex.ord} ELSE Order

BookedInv == booked + ex.got <= SumFunctionOnSet(Filled, Judged)

HoldingsInv ==
    /\ PosInv
    /\ SellInv
    /\ EvalOK(ex)
    /\ RestTyped
    /\ BookedInv

\* The orders whose fills are counted.
LEMMA JudgedIsFinite ==
    ASSUME SellInv
    PROVE  /\ IsFiniteSet(Judged) /\ Judged \subseteq Order
           /\ \A x \in Judged : Filled[x] \in Nat
           /\ SumFunctionOnSet(Filled, Judged) \in Nat
  <1>1. Judged \subseteq Order
    BY DEF Judged
  <1>2. IsFiniteSet(Judged) /\ \A x \in Judged : Filled[x] \in Nat
    BY <1>1, SellTypes, FS_Subset
  <1> QED
    BY <1>1, <1>2, SumNat

\* Counting less, looking at more orders, and orders that sold more.
LEMMA BookedKeeps ==
    ASSUME HoldingsInv, SellInv',
           \A x \in Order : Filled[x] <= Filled'[x],
           booked' \in Nat, ex'.got \in Nat,
           booked' + ex'.got <= booked + ex.got,
           Judged \subseteq Judged'
    PROVE  BookedInv'
  <1>1. /\ IsFiniteSet(Judged') /\ Judged' \subseteq Order
        /\ \A x \in Judged' : Filled'[x] \in Nat
        /\ SumFunctionOnSet(Filled', Judged') \in Nat
    <2>1. \A x \in Order : Filled'[x] \in Nat
      BY DEF SellInv, SellOrder, Filled
    <2>2. Judged' \subseteq Order
      BY DEF Judged
    <2>3. IsFiniteSet(Judged') /\ \A x \in Judged' : Filled'[x] \in Nat
      BY <2>1, <2>2, ExitAssumption, FS_Subset
    <2> QED
      BY <2>2, <2>3, SumNat
  <1>2. /\ IsFiniteSet(Judged) /\ Judged \subseteq Order /\ \A x \in Judged : Filled[x] \in Nat
        /\ SumFunctionOnSet(Filled, Judged) \in Nat
    BY JudgedIsFinite DEF HoldingsInv
  <1>3. SumFunctionOnSet(Filled, Judged) <= SumFunctionOnSet(Filled', Judged)
    BY <1>1, <1>2, SumMonotone
  <1>4. SumFunctionOnSet(Filled', Judged) <= SumFunctionOnSet(Filled', Judged')
    BY <1>1, SumSubset
  <1>5. SumFunctionOnSet(Filled', Judged) \in Nat
    BY <1>1, <1>2, SumNat
  <1>6. booked \in Nat /\ ex.got \in Nat /\ booked + ex.got <= SumFunctionOnSet(Filled, Judged)
    BY DEF HoldingsInv, RestTyped, EvalOK, Evaluation, BookedInv
  <1> QED
    BY <1>1, <1>2, <1>3, <1>4, <1>5, <1>6 DEF BookedInv

-----------------------------------------------------------------------------
(* Every step keeps it.                                                     *)

\* The invariant holds at the start.
LEMMA InitHolds ==
    ASSUME Init
    PROVE  HoldingsInv
  <1>1. PosInv
    <2>1. NoRow \in Row /\ Consistent(NoRow)
      BY DEF NoRow, Row, Source, Status, Consistent, Active
    <2>2. pos = [p \in Pos |-> NoRow]
      BY DEF Init, LedgerInit
    <2> QED
      BY <2>1, <2>2 DEF PosInv, RowTyped
  <1>2. sell = [o \in Order |-> Unsent] /\ ex = IdleEval /\ booked = 0 /\ held = 0 /\ price \in Price
    BY DEF Init, ExitInit
  <1>3. SellInv
    <2>1. Unsent \in SellOrder /\ Unsent.seen = 0 /\ Unsent.filled = 0 /\ Unsent.qty = 0 /\ ~Unsent.live
      BY DEF Unsent, SellOrder
    <2>2. LiveOrders = {}
      BY <1>2, <2>1 DEF LiveOrders
    <2>3. SumFunctionOnSet(Unfilled, LiveOrders) = 0
      BY <2>2, SumEmpty
    <2> QED
      BY <1>2, <2>1, <2>3 DEF SellInv
  <1>4. EvalOK(ex) /\ ex.got = 0
    BY <1>2, IdleOK
  <1>5. RestTyped
    <2>1. NoBuy \in [src : Source, qty : Nat]
      BY DEF NoBuy, Source
    <2>2. Idle \in [pc : {"idle", "load", "track", "apply"}, bal : Nat, sys : Nat, trk : BOOLEAN]
      BY DEF Idle
    <2>3. IdleRst \in [pc : {"idle", "fetch", "load", "apply"}, bal : Nat, snap : [Pos -> Nat]]
      BY DEF IdleRst
    <2> QED
      BY <1>2, <2>1, <2>2, <2>3 DEF Init, RestTyped, RstTyped
  <1>6. BookedInv
    <2>1. SumFunctionOnSet(Filled, Judged) \in Nat
      BY <1>3, JudgedIsFinite
    <2> QED
      BY <1>2, <1>4, <2>1 DEF BookedInv
  <1> QED
    BY <1>1, <1>3, <1>4, <1>5, <1>6 DEF HoldingsInv

\* What the steps need to know of the state before them.
LEMMA Before ==
    ASSUME HoldingsInv
    PROVE  /\ ex \in Evaluation /\ ex.got \in Nat /\ ex.want \in Nat /\ booked \in Nat
           /\ held \in Nat /\ price \in Price
           /\ \A x \in Order : Filled[x] <= Filled[x]
  <1>1. \A x \in Order : Filled[x] \in Nat
    BY SellTypes DEF HoldingsInv
  <1> QED
    BY <1>1 DEF HoldingsInv, EvalOK, Evaluation, RestTyped, SellInv

\* A step that leaves the sales alone.
LEMMA SalesKeep ==
    ASSUME HoldingsInv, UNCHANGED <<held, sell, ex, booked>>
    PROVE  SellInv' /\ EvalOK(ex)' /\ BookedInv'
  BY DEF HoldingsInv, SellInv, Unfilled, LiveOrders, EvalOK, BookedInv, Filled, Judged

\* A step of the executor that sends nothing.
LEMMA EvalKeeps ==
    ASSUME HoldingsInv, SellInv', Filled' = Filled, booked' \in Nat, EvalOK(ex'),
           booked' + ex'.got <= booked + ex.got,
           ex.pc = "judge" \/ ex'.pc # "judge"
    PROVE  ex.pc # "judge" => BookedInv'
  <1> SUFFICES ASSUME ex.pc # "judge" PROVE BookedInv'
    OBVIOUS
  <1>1. Judged \subseteq Judged'
    BY DEF Judged
  <1>2. ex'.got \in Nat
    BY DEF EvalOK, Evaluation
  <1>3. \A x \in Order : Filled[x] <= Filled'[x]
    BY Before
  <1> QED
    BY <1>1, <1>2, <1>3, BookedKeeps

\* A tick reads the rows once.
LEMMA TickKeeps ==
    ASSUME HoldingsInv, Tick
    PROVE  PosInv' /\ SellInv' /\ EvalOK(ex') /\ BookedInv'
  <1> DEFINE plan == [p \in Pos |-> Judge(pos[p], price)]
  <1>1. plan \in [Pos -> Verdict]
    BY JudgeTyped DEF HoldingsInv, PosInv
  <1>2. ex' = [IdleEval EXCEPT !.pc = "pick", !.plan = plan]
    BY DEF Tick
  <1> HIDE DEF plan
  <1>3. EvalOK(ex') /\ ex'.got = 0 /\ ex'.pc = "pick"
    <2>1. IdleEval \in Evaluation /\ IdleEval.got = 0
      BY IdleOK DEF EvalOK
    <2>2. ex' \in Evaluation /\ ex'.got = 0 /\ ex'.pc = "pick"
      BY <1>1, <1>2, <2>1 DEF Evaluation
    <2> QED
      BY <2>2 DEF EvalOK
  <1>4. PosInv' /\ SellInv' /\ Filled' = Filled
    BY DEF Tick, HoldingsInv, PosInv, SellInv, Unfilled, LiveOrders, Filled
  <1>5. ex.pc # "judge" /\ booked' = booked
    BY DEF Tick
  <1>6. booked' + ex'.got <= booked + ex.got /\ booked' \in Nat
    BY <1>3, <1>5, Before
  <1> QED
    BY <1>3, <1>4, <1>5, <1>6, EvalKeeps

\* A row is judged, or the evaluation is over.
LEMMA PickKeeps ==
    ASSUME HoldingsInv, Pick
    PROVE  PosInv' /\ SellInv' /\ EvalOK(ex') /\ BookedInv'
  <1>1. EvalOK(ex') /\ ex'.got = 0 /\ ex'.pc # "judge"
    <2>1. CASE Planned = {}
      BY <2>1, IdleOK DEF Pick
    <2>2. CASE Planned # {}
      <3> DEFINE p == Max(Planned)
                 v == ex.plan[p]
                 stop == v.level = "STOP_LOSS" \/ SellRetries = 0
                 pc == IF stop THEN "market" ELSE "limit"
                 plan == [ex.plan EXCEPT ![p] = NoVerdict]
                 e == [ex EXCEPT !.plan = plan, !.cur = p, !.level = v.level, !.want = v.qty,
                                 !.got = 0, !.tries = SellRetries, !.market = stop, !.pc = pc]
      <3>1. p \in Pos
        <4>1. Planned \in SUBSET Pos
          BY DEF Planned
        <4> QED
          BY <2>2, <4>1, MaxIsIn
      <3>2. ex' = e
        BY <2>2 DEF Pick
      <3>3. ex \in Evaluation /\ ex.plan \in [Pos -> Verdict]
        BY Before DEF Evaluation
      <3>4. v \in Verdict /\ v.level \in Level /\ v.qty \in Nat
        BY <3>1, <3>3 DEF Verdict
      <3>5. plan \in [Pos -> Verdict]
        BY <3>3 DEF Verdict, NoVerdict, Level
      <3>6. p \in 0 .. MaxPos
        BY <3>1, LedgerAssumption DEF Pos
      <3>7. stop \in BOOLEAN /\ (~stop => SellRetries > 0) /\ SellRetries \in Nat
        BY ExitAssumption
      <3>8. pc \in {"market", "limit"} /\ (pc = "market" <=> stop)
        OBVIOUS
      <3> HIDE DEF p, v, stop, plan, pc
      <3>9. /\ e \in Evaluation /\ e.pc = pc /\ e.market = stop /\ e.tries = SellRetries
            /\ e.got = 0
        BY <3>3, <3>4, <3>5, <3>6, <3>7, <3>8 DEF Evaluation
      <3> HIDE DEF e
      <3> QED
        BY <3>2, <3>7, <3>8, <3>9 DEF EvalOK
    <2> QED
      BY <2>1, <2>2
  <1>2. PosInv' /\ SellInv' /\ Filled' = Filled
    BY DEF Pick, HoldingsInv, PosInv, SellInv, Unfilled, LiveOrders, Filled
  <1>3. ex.pc # "judge" /\ booked' = booked
    BY DEF Pick
  <1>4. booked' + ex'.got <= booked + ex.got /\ booked' \in Nat
    BY <1>1, <1>3, Before
  <1> QED
    BY <1>1, <1>2, <1>3, <1>4, EvalKeeps

\* The book has no bid.
LEMMA NoBidKeeps ==
    ASSUME HoldingsInv, NoBid
    PROVE  PosInv' /\ SellInv' /\ EvalOK(ex') /\ BookedInv'
  <1>1. EvalOK(ex') /\ ex'.got = ex.got /\ ex'.pc = "market"
    BY ToMarketOK DEF NoBid, HoldingsInv
  <1>2. PosInv' /\ SellInv' /\ Filled' = Filled
    BY DEF NoBid, Keeps, HoldingsInv, PosInv, SellInv, Unfilled, LiveOrders, Filled
  <1>3. ex.pc # "judge" /\ booked' = booked
    BY DEF NoBid, Keeps
  <1>4. booked' + ex'.got <= booked + ex.got /\ booked' \in Nat
    BY <1>1, <1>3, Before
  <1> QED
    BY <1>1, <1>2, <1>3, <1>4, EvalKeeps

\* The order that is sent has sold nothing yet.
LEMMA SendSellKeeps ==
    ASSUME HoldingsInv, SendSell
    PROVE  PosInv' /\ SellInv' /\ EvalOK(ex') /\ BookedInv'
  <1>1. PICK o \in Order :
          /\ Accept(o, ex.want - ex.got, TRUE)
          /\ ex' = [ex EXCEPT !.pc = "judge", !.ord = o, !.tries = IF ex.market THEN @ ELSE @ - 1]
    BY DEF SendSell
  <1>2. held' = held /\ booked' = booked /\ PosInv' /\ ex.pc \in {"limit", "market"}
    BY DEF SendSell, Keeps, HoldingsInv, PosInv
  <1>3. SellInv' /\ Filled' = Filled /\ Filled[o] = 0
    BY <1>1, <1>2, AcceptKeeps DEF HoldingsInv
  <1>4. EvalOK(ex') /\ ex'.got = ex.got /\ ex'.pc = "judge" /\ ex'.ord = o
    <2> DEFINE tries == IF ex.market THEN ex.tries ELSE ex.tries - 1
    <2>1. tries \in Nat
      BY <1>2 DEF HoldingsInv, EvalOK, Evaluation
    <2>2. ex' = [ex EXCEPT !.pc = "judge", !.ord = o, !.tries = tries]
      BY <1>1
    <2> HIDE DEF tries
    <2>3. ex' \in Evaluation /\ ex'.got = ex.got /\ ex'.pc = "judge" /\ ex'.ord = o
      BY <2>1, <2>2, Before DEF Evaluation
    <2> QED
      BY <2>3 DEF EvalOK
  <1>5. Judged = Order /\ Judged' = Order \ {o}
    BY <1>2, <1>4 DEF Judged
  <1>6. SumFunctionOnSet(Filled, Order) = SumFunctionOnSet(Filled, Order \ {o})
    <2>1. /\ IsFiniteSet(Order) /\ \A x \in Order : Filled[x] \in Nat
      BY SellTypes DEF HoldingsInv
    <2>2. SumFunctionOnSet(Filled, Order) = Filled[o] + SumFunctionOnSet(Filled, Order \ {o})
      BY <2>1, SumRemove
    <2>3. SumFunctionOnSet(Filled, Order \ {o}) \in Nat
      BY <2>1, FS_Subset, SumNat
    <2> QED
      BY <1>3, <2>2, <2>3
  <1>7. BookedInv'
    BY <1>2, <1>3, <1>4, <1>5, <1>6 DEF HoldingsInv, BookedInv
  <1> QED
    BY <1>2, <1>3, <1>4, <1>7

\* The send raises, whether the broker has taken the order or not.
LEMMA SendRaisesKeeps ==
    ASSUME HoldingsInv, SendRaises
    PROVE  PosInv' /\ SellInv' /\ EvalOK(ex') /\ BookedInv'
  <1>1. EvalOK(ex') /\ ex'.got = 0 /\ ex'.pc = "pick"
    BY DoneOK DEF SendRaises, HoldingsInv
  <1>2. held' = held /\ booked' = booked /\ PosInv' /\ ex.pc # "judge"
    BY DEF SendRaises, Keeps, HoldingsInv, PosInv
  <1>3. SellInv' /\ Filled' = Filled
    <2>1. CASE UNCHANGED sell
      BY <1>2, <2>1 DEF HoldingsInv, SellInv, Unfilled, LiveOrders, Filled
    <2>2. CASE \E o \in Order : Accept(o, ex.want - ex.got, FALSE)
      BY <1>2, <2>2, AcceptKeeps DEF HoldingsInv
    <2> QED
      BY <2>1, <2>2 DEF SendRaises
  <1>4. booked' + ex'.got <= booked + ex.got /\ booked' \in Nat
    BY <1>1, <1>2, Before
  <1> QED
    BY <1>1, <1>2, <1>3, <1>4, EvalKeeps

\* What the row says of the order in flight is no more than it has sold.
LEMMA JudgeFillKeeps ==
    ASSUME HoldingsInv, JudgeFill
    PROVE  PosInv' /\ SellInv' /\ EvalOK(ex') /\ BookedInv'
  <1> DEFINE e == Count(ex)
             o == ex.ord
             all == ex.got + sell[o].seen
  <1>1. ex.pc = "judge" /\ o \in Order /\ ex \in Evaluation /\ ex.got \in Nat /\ booked \in Nat
    BY Before DEF JudgeFill, HoldingsInv, EvalOK
  <1>2. /\ sell[o].seen \in Nat /\ sell[o].filled \in Nat /\ Filled[o] = sell[o].filled
        /\ sell[o].seen <= sell[o].filled
    BY <1>1, SellTypes DEF HoldingsInv, SellInv
  <1>3. all \in Nat
    BY <1>1, <1>2
  <1>4. EvalOK(e) /\ e.got = all /\ e.pc = "judge" /\ e.market = ex.market
    <2>1. e = [ex EXCEPT !.got = all]
      BY DEF Count
    <2> HIDE DEF all, e
    <2>2. /\ e \in Evaluation /\ e.got = all /\ e.pc = "judge" /\ e.ord = o
          /\ e.market = ex.market
      BY <1>1, <1>3, <2>1 DEF Evaluation
    <2> QED
      BY <1>1, <2>2 DEF EvalOK
  <1>5. /\ EvalOK(ex') /\ ex'.got \in {0, all} /\ ex'.pc # "judge"
    <2>1. CASE ex' = Done(e)
      BY <1>4, <2>1, DoneOK
    <2>2. CASE ex' = Settled(e)
      BY <1>4, <2>2, SettledOK
    <2>3. CASE ~e.market /\ ex' = NextAttempt(e)
      BY <1>4, <2>3, NextAttemptOK
    <2>4. CASE ~e.market /\ ex' = [e EXCEPT !.pc = "cancel"]
      <3> HIDE DEF e, all
      <3>1. /\ ex' \in Evaluation /\ ex'.pc = "cancel" /\ ex'.got = all
            /\ ex'.ord = e.ord /\ ex'.market = e.market
        BY <1>4, <2>4 DEF EvalOK, Evaluation
      <3> QED
        BY <1>4, <2>4, <3>1 DEF EvalOK
    <2>5. \/ ex' = Done(e)
          \/ e.market /\ ex' = Settled(e)
          \/ ~e.market /\ ex' = [e EXCEPT !.pc = "cancel"]
          \/ ~e.market /\ ex' = NextAttempt(e)
      <3>1. \/ ex' = IF e.market THEN Settled(e)
                     ELSE IF sell[e.ord].seen < sell[e.ord].qty /\ e.got < e.want
                     THEN [e EXCEPT !.pc = "cancel"]
                     ELSE NextAttempt(e)
            \/ ex' = Done(e)
        <4>1. Done(ex) = Done(e)
          BY DEF Done, Count
        <4> QED
          BY <4>1 DEF JudgeFill
      <3> HIDE DEF e
      <3> QED
        BY <3>1
    <2> HIDE DEF e, all
    <2> QED
      BY <2>1, <2>2, <2>3, <2>4, <2>5
  <1>6. PosInv' /\ SellInv' /\ Filled' = Filled /\ booked' = booked
    BY DEF JudgeFill, Keeps, HoldingsInv, PosInv, SellInv, Unfilled, LiveOrders, Filled
  <1>7. Judged = Order \ {o} /\ Judged' = Order
    BY <1>1, <1>5 DEF Judged
  <1>8. /\ SumFunctionOnSet(Filled, Order) = Filled[o] + SumFunctionOnSet(Filled, Order \ {o})
        /\ SumFunctionOnSet(Filled, Order \ {o}) \in Nat
    <2>1. /\ IsFiniteSet(Order) /\ \A x \in Order : Filled[x] \in Nat
      BY SellTypes DEF HoldingsInv
    <2> QED
      BY <1>1, <2>1, SumRemove, FS_Subset, SumNat
  <1>9. booked + ex.got <= SumFunctionOnSet(Filled, Order \ {o})
    BY <1>7 DEF HoldingsInv, BookedInv
  <1> HIDE DEF o, e
  <1>10. booked' + ex'.got <= SumFunctionOnSet(Filled', Judged')
    BY <1>1, <1>2, <1>5, <1>6, <1>7, <1>8, <1>9
  <1> QED
    BY <1>5, <1>6, <1>10 DEF BookedInv

\* A limit order is cancelled.
LEMMA CancelSellKeeps ==
    ASSUME HoldingsInv, CancelSell
    PROVE  PosInv' /\ SellInv' /\ EvalOK(ex') /\ BookedInv'
  <1>1. ex.pc = "cancel" /\ EvalOK(ex) /\ ~ex.market /\ ex.ord \in Order
    BY DEF CancelSell, HoldingsInv, EvalOK
  <1>2. EvalOK(ex') /\ ex'.got \in {0, ex.got} /\ ex'.pc # "judge"
    BY <1>1, NextAttemptOK, DoneOK DEF CancelSell
  <1>3. held' = held /\ booked' = booked /\ PosInv'
    BY DEF CancelSell, Keeps, HoldingsInv, PosInv
  <1>4. SellInv' /\ Filled' = Filled
    <2>1. CASE UNCHANGED sell
      BY <1>3, <2>1 DEF HoldingsInv, SellInv, Unfilled, LiveOrders, Filled
    <2>2. CASE sell' = [sell EXCEPT ![ex.ord].live = FALSE]
      BY <1>1, <1>3, <2>2, CancelKeeps DEF HoldingsInv
    <2> QED
      BY <2>1, <2>2 DEF CancelSell
  <1>5. booked' + ex'.got <= booked + ex.got /\ booked' \in Nat
    BY <1>2, <1>3, Before
  <1> QED
    BY <1>1, <1>2, <1>3, <1>4, <1>5, EvalKeeps

\* The ledger is told what the evaluation got.
LEMMA ApplyKeeps ==
    ASSUME HoldingsInv, Apply
    PROVE  PosInv' /\ SellInv' /\ EvalOK(ex') /\ BookedInv' /\ booked' \in Nat
  <1>1. ex.pc = "apply" /\ EvalOK(ex') /\ ex'.got = 0 /\ ex'.pc = "pick"
    BY DoneOK DEF Apply, HoldingsInv
  <1>2. PosInv'
    <2>1. CASE UNCHANGED pos
      BY <2>1 DEF HoldingsInv, PosInv
    <2>2. CASE ApplySell(ex.cur, ex.got, ex.level)
      BY <2>2, SellTyped DEF HoldingsInv
    <2> QED
      BY <2>1, <2>2 DEF Apply
  <1>3. SellInv' /\ Filled' = Filled
    BY DEF Apply, HoldingsInv, SellInv, Unfilled, LiveOrders, Filled
  <1>4. booked' \in Nat /\ booked' + ex'.got <= booked + ex.got
    BY <1>1, Before DEF Apply
  <1> QED
    BY <1>1, <1>2, <1>3, <1>4, EvalKeeps

\* The parts of the invariant that other steps read.
LEMMA TypesOfRest ==
    ASSUME HoldingsInv
    PROVE  /\ buying.src \in Source /\ buying.qty \in Nat /\ rec.bal \in Nat /\ rec.sys \in Nat
           /\ rst.bal \in Nat /\ rst \in [pc : {"idle", "fetch", "load", "apply"}, bal : Nat, snap : [Pos -> Nat]]
           /\ rec \in [pc : {"idle", "load", "track", "apply"}, bal : Nat, sys : Nat, trk : BOOLEAN]
           /\ count \in [buys : Nat, upsets : Nat] /\ held \in Nat /\ pos = [p \in Pos |-> pos[p]]
           /\ PosInv /\ SellInv /\ RstTyped /\ price \in Price /\ booked \in Nat
           /\ tracked \in BOOLEAN /\ buying \in [src : Source, qty : Nat]
  BY DEF HoldingsInv, RestTyped, RstTyped, SellInv, PosInv

\* Every step of the evaluation keeps the invariant.
LEMMA ExitStepKeeps ==
    ASSUME HoldingsInv, ExitStep
    PROVE  HoldingsInv'
  <1>1. /\ PosInv' /\ SellInv' /\ EvalOK(ex') /\ BookedInv'
        /\ booked' \in Nat /\ price' \in Price
    <2>1. CASE Tick
      BY <2>1, TickKeeps, Before DEF Tick
    <2>2. CASE Pick
      BY <2>2, PickKeeps, Before DEF Pick
    <2>3. CASE NoBid
      BY <2>3, NoBidKeeps, Before DEF NoBid, Keeps
    <2>4. CASE SendSell
      BY <2>4, SendSellKeeps, Before DEF SendSell, Keeps
    <2>5. CASE SendRaises
      BY <2>5, SendRaisesKeeps, Before DEF SendRaises, Keeps
    <2>6. CASE JudgeFill
      BY <2>6, JudgeFillKeeps, Before DEF JudgeFill, Keeps
    <2>7. CASE CancelSell
      BY <2>7, CancelSellKeeps, Before DEF CancelSell, Keeps
    <2>8. CASE Apply
      BY <2>8, ApplyKeeps, Before DEF Apply
    <2> QED
      BY <2>1, <2>2, <2>3, <2>4, <2>5, <2>6, <2>7, <2>8 DEF ExitStep, Evaluate
  <1>2. UNCHANGED restVars
    BY DEF ExitStep
  <1>3. RestTyped'
    BY <1>1, <1>2, TypesOfRest DEF RestTyped, RstTyped, restVars
  <1> QED
    BY <1>1, <1>3 DEF HoldingsInv

\* So do the steps of the broker and the fill events.
LEMMA BrokerStepKeeps ==
    ASSUME HoldingsInv, BrokerStep
    PROVE  HoldingsInv'
  <1>1. PICK o \in Order : BrokerSells(o) \/ FillDispatched(o)
    BY DEF BrokerStep
  <1>2. UNCHANGED <<pos, restVars, price, ex, booked>>
    BY <1>1 DEF BrokerStep, BrokerSells, FillDispatched
  <1>3. SellInv' /\ \A x \in Order : Filled[x] <= Filled'[x]
    BY <1>1, TypesOfRest, BrokerSellsKeeps, DispatchKeeps, Before
  <1>4. BookedInv'
    <2>1. Judged \subseteq Judged' /\ booked' \in Nat /\ ex'.got \in Nat /\ booked' + ex'.got <= booked + ex.got
      BY <1>2, Before DEF Judged
    <2> QED
      BY <1>3, <2>1, BookedKeeps
  <1> QED
    BY <1>2, <1>3, <1>4 DEF HoldingsInv, PosInv, RestTyped, RstTyped, restVars

\* A step that leaves the sales alone.
LEMMA OtherStep ==
    ASSUME HoldingsInv, UNCHANGED <<held, sell, ex, booked>>, PosInv', RestTyped'
    PROVE  HoldingsInv'
  BY SalesKeep DEF HoldingsInv

\* Cases B, A and D say which of account and ledger holds more.
LEMMA CaseIs ==
    ASSUME NEW bal \in Nat, NEW sys \in Nat, NEW trk
    PROVE  /\ Case(bal, sys, trk) = "B" => bal < sys
           /\ Case(bal, sys, trk) = "A" => bal > sys
           /\ Case(bal, sys, trk) = "D" => bal > sys
  BY DEF Case

\* The periodic reconciler keeps the invariant.
LEMMA ReconcileKeeps ==
    ASSUME HoldingsInv, Reconcile
    PROVE  HoldingsInv'
  <1>1. /\ UNCHANGED <<exitVars, tracked, buying, rst>>
        /\ count' \in [buys : Nat, upsets : Nat]
    BY TypesOfRest DEF Reconcile, RecFetch, RecLoad, RecTrack, RecApply, RecFails, Upset
  <1>2. Idle \in [pc : {"idle", "load", "track", "apply"}, bal : Nat, sys : Nat, trk : BOOLEAN]
    BY DEF Idle
  <1>3. rec' \in [pc : {"idle", "load", "track", "apply"}, bal : Nat, sys : Nat, trk : BOOLEAN]
    <2>1. CASE RecFetch
      BY <1>2, <2>1, TypesOfRest DEF RecFetch
    <2>2. CASE RecLoad
      <3>1. SystemQty \in Nat
        BY TypesOfRest, QtyIsNat DEF SystemQty
      <3> HIDE DEF SystemQty
      <3> QED
        BY <2>2, <3>1, TypesOfRest DEF RecLoad
    <2>3. CASE RecTrack
      BY <2>3, TypesOfRest DEF RecTrack
    <2>4. CASE RecApply \/ RecFails
      BY <1>2, <2>4 DEF RecApply, RecFails
    <2> QED
      BY <2>1, <2>2, <2>3, <2>4 DEF Reconcile
  <1>4. PosInv'
    <2>1. CASE UNCHANGED pos
      BY <2>1, TypesOfRest DEF PosInv
    <2>2. CASE RecApply
      <3> DEFINE case == Case(rec.bal, rec.sys, rec.trk)
      <3>1. CASE case = "B" /\ ApplyPartialSell(rec.sys - rec.bal)
        <4>1. rec.sys - rec.bal \in Nat
          BY <3>1, TypesOfRest, CaseIs
        <4> QED
          BY <3>1, <4>1, TypesOfRest, PartialSellTyped
      <3>2. CASE case = "D" /\ ApplyManualInsert(rec.bal)
        <4>1. PICK pr \in Price : AddPosition("MANUAL", rec.bal, pr)
          BY <3>2 DEF ApplyManualInsert
        <4> QED
          BY <4>1, TypesOfRest, AddTyped DEF Source
      <3> QED
        BY <2>1, <2>2, <3>1, <3>2 DEF RecApply
    <2> QED
      BY <2>1, <2>2 DEF Reconcile, RecFetch, RecLoad, RecTrack, RecFails
  <1>5. RestTyped'
    BY <1>1, <1>3, TypesOfRest DEF RestTyped, RstTyped, exitVars
  <1> QED
    BY <1>1, <1>4, <1>5, OtherStep DEF exitVars

\* The recovery at a restart keeps the invariant.
LEMMA RestartKeeps ==
    ASSUME HoldingsInv, Restart
    PROVE  HoldingsInv'
  <1>1. UNCHANGED <<exitVars, tracked, buying, rec, count>>
    BY DEF Restart, RstFetch, RstLoad, RstApply, RstFails
  <1>2. IdleRst \in [pc : {"idle", "fetch", "load", "apply"}, bal : Nat, snap : [Pos -> Nat]]
    BY DEF IdleRst
  <1>3. RstTyped'
    <2>1. CASE RstFetch
      <3>1. PICK b \in Nat : rst' = [rst EXCEPT !.pc = "load", !.bal = b]
        BY <2>1, TypesOfRest DEF RstFetch
      <3> QED
        BY <3>1, TypesOfRest DEF RstTyped
    <2>2. CASE RstLoad
      <3> DEFINE snap == [p \in Pos |-> IF Active(pos[p]) THEN pos[p].qty ELSE 0]
      <3>1. snap \in [Pos -> Nat]
        BY TypesOfRest, PosTyped
      <3>2. rst' = [rst EXCEPT !.pc = "apply", !.snap = snap]
        BY <2>2 DEF RstLoad
      <3> HIDE DEF snap
      <3> QED
        BY <3>1, <3>2, TypesOfRest DEF RstTyped
    <2>3. CASE RstApply \/ RstFails
      BY <1>2, <2>3 DEF RstApply, RstFails, RstTyped
    <2> QED
      BY <2>1, <2>2, <2>3 DEF Restart
  <1>4. PosInv'
    <2>1. CASE UNCHANGED pos
      BY <2>1, TypesOfRest DEF PosInv
    <2>2. CASE RstApply
      <3> DEFINE sys  == SumFunctionOnSet(rst.snap, Pos)
                 case == Case(rst.bal, sys, FALSE)
      <3>1. sys \in Nat
        <4>1. \A p \in Pos : rst.snap[p] \in Nat
          BY TypesOfRest
        <4> QED
          BY <4>1, PosIsFinite, SumNat
      <3>2. \/ UNCHANGED pos
            \/ case = "A" /\ HandleA(rst.bal - sys)
            \/ case = "B" /\ HandleB(sys - rst.bal)
            \/ case = "D" /\ HandleD(rst.bal)
        BY <2>2 DEF RstApply
      <3> HIDE DEF sys
      <3>6. /\ rst.bal \in Nat
            /\ case = "A" => rst.bal > sys
            /\ case = "B" => rst.bal < sys
        <4>1. rst.bal \in Nat
          BY TypesOfRest
        <4> QED
          BY <3>1, <4>1 DEF Case
      <3>3. CASE case = "A" /\ HandleA(rst.bal - sys)
        <4>1. rst.bal - sys \in Nat \ {0}
          BY <3>1, <3>3, <3>6
        <4>2. PICK pr \in Price : ApplyBuy(TargetOfAdd, rst.bal - sys, pr)
          BY <3>3 DEF HandleA
        <4> HIDE DEF TargetOfAdd
        <4> QED
          BY <4>1, <4>2, TypesOfRest, BuyTyped
      <3>4. CASE case = "B" /\ HandleB(sys - rst.bal)
        <4>1. sys - rst.bal \in Nat
          BY <3>1, <3>4, <3>6
        <4> QED
          BY <3>4, <4>1, TypesOfRest, HandleBTyped
      <3>5. CASE case = "D" /\ HandleD(rst.bal)
        <4>1. PICK pr \in Price : AddPosition("MANUAL", rst.bal, pr)
          BY <3>5 DEF HandleD
        <4> QED
          BY <4>1, TypesOfRest, AddTyped DEF Source
      <3> HIDE DEF case
      <3> QED
        BY <2>1, <3>2, <3>3, <3>4, <3>5
    <2> QED
      BY <2>1, <2>2 DEF Restart, RstFetch, RstLoad, RstFails
  <1>5. RestTyped'
    BY <1>1, <1>3, TypesOfRest DEF RestTyped, exitVars
  <1> QED
    BY <1>1, <1>4, <1>5, OtherStep DEF exitVars

\* The account gains shares, or loses one that no order is to sell.
LEMMA HeldStep ==
    ASSUME HoldingsInv, UNCHANGED <<pos, sell, ex, booked>>, RestTyped', held' \in Nat,
           SumFunctionOnSet(Unfilled, LiveOrders) <= held'
    PROVE  HoldingsInv'
  <1>1. SellInv' /\ Filled' = Filled
    BY TypesOfRest, HeldKeeps
  <1> QED
    BY <1>1 DEF HoldingsInv, PosInv, BookedInv, Judged

\* A buy of either path keeps the invariant.
LEMMA SystemBuysKeeps ==
    ASSUME HoldingsInv, NEW src \in BuyPath, NEW k \in BuyQty, SystemBuys(src, k)
    PROVE  HoldingsInv'
  <1>1. k \in Nat /\ src \in Source
    BY HoldingsAssumption DEF Source
  <1>2. RestTyped'
    BY <1>1, TypesOfRest DEF SystemBuys, RestTyped, RstTyped
  <1>3. held' \in Nat /\ held <= held'
    BY <1>1, TypesOfRest DEF SystemBuys
  <1>4. SumFunctionOnSet(Unfilled, LiveOrders) <= held'
    BY <1>3, TypesOfRest, SellTypes DEF SellInv
  <1> QED
    BY <1>2, <1>3, <1>4, HeldStep DEF SystemBuys

\* The user buys and sells in the account only.
LEMMA UserTradesKeeps ==
    ASSUME HoldingsInv, UserTrades
    PROVE  HoldingsInv'
  <1>1. RestTyped'
    BY TypesOfRest DEF UserTrades, Upset, RestTyped, RstTyped
  <1>2. /\ SumFunctionOnSet(Unfilled, LiveOrders) \in Nat
        /\ SumFunctionOnSet(Unfilled, LiveOrders) <= held /\ held \in Nat
        /\ Sellable = held - SumFunctionOnSet(Unfilled, LiveOrders)
    BY TypesOfRest, SellTypes DEF SellInv
  <1> HIDE DEF Sellable
  <1>3. held' \in Nat /\ SumFunctionOnSet(Unfilled, LiveOrders) <= held'
    BY <1>2 DEF UserTrades
  <1> QED
    BY <1>1, <1>3, HeldStep DEF UserTrades

\* A crash forgets the evaluation and both reconcilers.
LEMMA CrashKeeps ==
    ASSUME HoldingsInv, Crash
    PROVE  HoldingsInv'
  <1>1. EvalOK(ex') /\ ex'.got = 0 /\ ex'.pc = "idle"
    BY IdleOK DEF Crash
  <1>2. SellInv' /\ Filled' = Filled /\ PosInv'
    BY DEF Crash, HoldingsInv, SellInv, Unfilled, LiveOrders, Filled, PosInv
  <1>3. BookedInv'
    <2>1. Judged \subseteq Judged'
      BY <1>1 DEF Judged
    <2>2. booked' \in Nat /\ booked' + ex'.got <= booked + ex.got
      BY <1>1, Before DEF Crash
    <2>3. ex'.got \in Nat /\ \A x \in Order : Filled[x] <= Filled'[x]
      BY <1>1, <1>2, Before
    <2> QED
      BY <1>2, <2>1, <2>2, <2>3, BookedKeeps
  <1>4. RestTyped'
    <2>1. NoBuy \in [src : Source, qty : Nat]
      BY DEF NoBuy, Source
    <2>2. Idle \in [pc : {"idle", "load", "track", "apply"}, bal : Nat, sys : Nat, trk : BOOLEAN]
      BY DEF Idle
    <2>3. rst' \in [pc : {"idle", "fetch", "load", "apply"}, bal : Nat, snap : [Pos -> Nat]]
      BY DEF Crash, IdleRst
    <2> QED
      BY <2>1, <2>2, <2>3, TypesOfRest DEF Crash, Upset, RestTyped, RstTyped
  <1> QED
    BY <1>1, <1>2, <1>3, <1>4 DEF HoldingsInv

\* Every step keeps the invariant.
LEMMA NextKeeps ==
    ASSUME HoldingsInv, Next
    PROVE  HoldingsInv'
  <1>1. CASE ExitStep
    BY <1>1, ExitStepKeeps
  <1>2. CASE BrokerStep
    BY <1>2, BrokerStepKeeps
  <1>3. CASE Reconcile
    BY <1>3, ReconcileKeeps
  <1>4. CASE Restart
    BY <1>4, RestartKeeps
  <1>5. CASE \E src \in BuyPath, k \in BuyQty : SystemBuys(src, k)
    BY <1>5, SystemBuysKeeps
  <1>6. CASE BuyRecorded
    <2>1. PosInv'
      <3>1. CASE AddPosition(buying.src, buying.qty, price)
        BY <3>1, TypesOfRest, AddTyped
      <3>2. CASE UNCHANGED pos
        BY <3>2, TypesOfRest DEF PosInv
      <3> QED
        BY <1>6, <3>1, <3>2 DEF BuyRecorded
    <2>2. RestTyped'
      <3>1. NoBuy \in [src : Source, qty : Nat]
        BY DEF NoBuy, Source
      <3> QED
        BY <1>6, <3>1, TypesOfRest DEF BuyRecorded, RestTyped, RstTyped, exitVars
    <2> QED
      BY <1>6, <2>1, <2>2, OtherStep DEF BuyRecorded, exitVars
  <1>7. CASE UserTrades
    BY <1>7, UserTradesKeeps
  <1>8. CASE StopTracking
    <2>1. UNCHANGED <<pos, exitVars, buying, rec, rst>> /\ tracked' = FALSE
          /\ count' = [count EXCEPT !.upsets = @ + 1]
      BY <1>8 DEF StopTracking, Upset
    <2>2. count' \in [buys : Nat, upsets : Nat]
      BY <2>1, TypesOfRest
    <2>3. RestTyped'
      BY <2>1, <2>2, TypesOfRest DEF RestTyped, RstTyped, exitVars
    <2>4. PosInv'
      BY <2>1, TypesOfRest DEF PosInv
    <2> QED
      BY <2>1, <2>3, <2>4, OtherStep DEF exitVars
  <1>9. CASE PriceMoves
    <2>1. RestTyped' /\ PosInv'
      BY <1>9, TypesOfRest DEF PriceMoves, RestTyped, RstTyped, restVars, PosInv
    <2> QED
      BY <1>9, <2>1, OtherStep DEF PriceMoves
  <1>10. CASE Crash
    BY <1>10, CrashKeeps
  <1> QED
    BY <1>1, <1>2, <1>3, <1>4, <1>5, <1>6, <1>7, <1>8, <1>9, <1>10 DEF Next

\* The invariant holds in every reachable state.
THEOREM HoldingsInvariant == Spec => []HoldingsInv
  <1>1. Init => HoldingsInv
    BY InitHolds
  <1>2. HoldingsInv /\ [Next]_vars => HoldingsInv'
    <2>1. ASSUME HoldingsInv, UNCHANGED vars PROVE HoldingsInv'
      <3>1. RestTyped' /\ PosInv' /\ UNCHANGED <<held, sell, ex, booked>>
        BY <2>1, TypesOfRest DEF vars, exitVars, restVars, RestTyped, RstTyped, PosInv
      <3> QED
        BY <2>1, <3>1, OtherStep
    <2> QED
      BY <2>1, NextKeeps
  <1> QED
    BY <1>1, <1>2, PTL DEF Spec

\* TypeOK: every variable of the account and the ledger has its type.
THEOREM HoldingsTypes == Spec => []TypeOK
  <1>1. HoldingsInv => TypeOK
    <2> SUFFICES ASSUME HoldingsInv PROVE TypeOK
      OBVIOUS
    <2>1. LedgerTypeOK
      BY TypesOfRest, PosTyped
    <2>2. ExitTypeOK
      BY TypesOfRest DEF ExitTypeOK, HoldingsInv, EvalOK, SellInv
    <2> QED
      BY <2>1, <2>2, TypesOfRest DEF TypeOK
  <1> QED
    BY <1>1, HoldingsInvariant, PTL

\* BookedWithinSold: the executor never writes off more than its orders sold.
THEOREM NothingOverbooked == Spec => []BookedWithinSold
  <1>1. HoldingsInv => BookedWithinSold
    <2> SUFFICES ASSUME HoldingsInv PROVE BookedWithinSold
      OBVIOUS
    <2>1. /\ IsFiniteSet(Order) /\ \A x \in Order : Filled[x] \in Nat
      BY SellTypes DEF HoldingsInv
    <2>2. Judged \in SUBSET Order
      BY DEF Judged
    <2>3. SumFunctionOnSet(Filled, Judged) <= SumFunctionOnSet(Filled, Order)
      BY <2>1, <2>2, SumSubset
    <2>4. SumFunctionOnSet(Filled, Judged) \in Nat /\ SumFunctionOnSet(Filled, Order) \in Nat
      BY <2>1, <2>2, SumNat, FS_Subset
    <2>5. booked <= SumFunctionOnSet(Filled, Order)
      BY <2>3, <2>4, Before DEF HoldingsInv, BookedInv
    <2>6. SumFunction(Filled) = SumFunctionOnSet(Filled, Order)
      <3>1. DOMAIN Filled = Order
        BY DEF Filled
      <3> HIDE DEF Filled
      <3> QED
        BY <3>1 DEF SumFunction
    <2> QED
      BY <2>5, <2>6 DEF BookedWithinSold, Filled
  <1> QED
    BY <1>1, HoldingsInvariant, PTL

-----------------------------------------------------------------------------
(* The end of a run of the periodic reconciler.                             *)

\* It leaves the ledger alone, drains it, or adds a MANUAL row.
LEMMA RunEnds ==
    ASSUME HoldingsInv, [Next]_vars, rec.pc = "apply", rec'.pc = "idle"
    PROVE  \/ pos' = pos
           \/ rec.sys - rec.bal \in Nat /\ ApplyPartialSell(rec.sys - rec.bal)
           \/ \E pr \in Price : AddPosition("MANUAL", rec.bal, pr)
  <1>1. ~UNCHANGED rec
    OBVIOUS
  <1>2. RecApply \/ RecFails \/ Crash
    BY <1>1 DEF vars, exitVars, restVars, Next, ExitStep, BrokerStep, Reconcile, Restart,
       RecFetch, RecLoad, RecTrack, RstFetch, RstLoad, RstApply, RstFails, SystemBuys, BuyRecorded,
       UserTrades, StopTracking, PriceMoves
  <1>3. CASE RecApply
    <2> DEFINE case == Case(rec.bal, rec.sys, rec.trk)
    <2>1. \/ pos' = pos
          \/ case = "B" /\ ApplyPartialSell(rec.sys - rec.bal)
          \/ ApplyManualInsert(rec.bal)
      BY <1>3 DEF RecApply
    <2>2. case = "B" => rec.sys - rec.bal \in Nat
      <3>1. rec.bal \in Nat /\ rec.sys \in Nat
        BY TypesOfRest
      <3> QED
        BY <3>1 DEF Case
    <2> HIDE DEF case
    <2> QED
      BY <2>1, <2>2 DEF ApplyManualInsert
  <1> QED
    BY <1>2, <1>3 DEF RecFails, Crash

\* add_position takes from no row.
LEMMA AddGrows ==
    ASSUME PosInv, NEW src, NEW k \in Nat, NEW pr, AddPosition(src, k, pr)
    PROVE  \A p \in Pos : pos'[p].qty \in Nat /\ pos'[p].qty >= pos[p].qty
  <1>1. PICK p \in FreshPos : pos' = [pos EXCEPT ![p] = NewRow(src, k, pr)]
    BY DEF AddPosition
  <1>2. p \in Pos /\ pos[p].status = "absent"
    BY DEF FreshPos
  <1>3. pos' = [q \in Pos |-> IF q = p THEN NewRow(src, k, pr) ELSE pos[q]]
    BY <1>1 DEF PosInv
  <1>4. NewRow(src, k, pr).qty = k
    BY DEF NewRow
  <1>5. pos[p].qty = 0
    <2>1. pos[p].qty \in Nat /\ (Active(pos[p]) <=> pos[p].qty > 0)
      BY <1>2, PosTyped
    <2> QED
      BY <1>2, <2>1 DEF Active
  <1>6. \A q \in Pos : pos[q].qty \in Nat
    BY PosTyped
  <1> QED
    BY <1>3, <1>4, <1>5, <1>6

\* What a reduction leaves of a row.
LEMMA ReducedQty ==
    ASSUME NEW r, RowTyped(r), NEW k \in Nat, k <= r.qty
    PROVE  /\ Reduced(r, k).qty = r.qty - k
           /\ Reduced(r, k).src = r.src
           /\ k = r.qty => ~Active(Reduced(r, k))
  <1>1. r.qty \in Nat /\ r \in Row /\ (Active(r) <=> r.qty > 0)
    BY DEF RowTyped, Row, Consistent
  <1>2. CASE k = 0
    BY <1>1, <1>2 DEF Reduced
  <1>3. CASE k # 0
    <2> DEFINE left == r.qty - k
               status == Lifecycle(r.status, left)
               s == [r EXCEPT !.qty = left, !.status = status]
    <2>1. Reduced(r, k) = s
      BY <1>3 DEF Reduced
    <2>2. k = r.qty => status = "CLOSED"
      BY <1>1 DEF Lifecycle
    <2> HIDE DEF status
    <2>3. s.qty = left /\ s.src = r.src /\ s.status = status
      BY <1>1 DEF Row
    <2> QED
      BY <2>1, <2>2, <2>3 DEF Active
  <1> QED
    BY <1>2, <1>3

\* The user's rows give all they have before a path gives anything.
LEMMA UserRowsFirst ==
    ASSUME PosInv, NEW k \in Nat, ApplyPartialSell(k)
    PROVE  \/ \A p \in Pos : pos[p].src = "MANUAL" \/ pos'[p].qty >= pos[p].qty
           \/ \A p \in Pos : pos'[p].src = "MANUAL" => ~Active(pos'[p])
  <1>1. PICK m, s : SellParts(k, m, s)
    BY PartialSellParts
  <1>2. /\ m = Smaller(k, QtyIn({"MANUAL"})) /\ m \in Nat /\ s.a \in Nat /\ s.b \in Nat
        /\ s.a + s.b = Smaller(k - m, QtyIn({"SYSTEM_A"}) + QtyIn({"SYSTEM_B"}))
        /\ pos' = [p \in Pos |-> Reduced(pos[p], Take(m, s)[p])]
    BY <1>1 DEF SellParts
  <1>3. /\ QtyIn({"MANUAL"}) \in Nat /\ QtyIn({"SYSTEM_A"}) \in Nat /\ QtyIn({"SYSTEM_B"}) \in Nat
    BY QtyIsNat
  <1>4. ASSUME NEW p \in Pos
        PROVE  /\ RowTyped(pos[p]) /\ pos[p].qty \in Nat /\ pos[p].src \in Source
               /\ Take(m, s)[p] \in Nat /\ Take(m, s)[p] <= pos[p].qty
               /\ pos'[p].qty = pos[p].qty - Take(m, s)[p]
               /\ pos'[p].src = pos[p].src
               /\ Take(m, s)[p] = pos[p].qty => ~Active(pos'[p])
    <2>1. RowTyped(pos[p]) /\ pos[p].qty \in Nat /\ pos[p].src \in Source
      BY PosTyped DEF PosInv
    <2>2. Take(m, s)[p] \in Nat /\ Take(m, s)[p] <= pos[p].qty
      BY <1>2, TakeBound
    <2>3. pos'[p] = Reduced(pos[p], Take(m, s)[p])
      BY <1>2
    <2> QED
      BY <2>1, <2>2, <2>3, ReducedQty
  <1>5. CASE k <= QtyIn({"MANUAL"})
    <2>1. s.a = 0 /\ s.b = 0
      <3>1. m = k
        BY <1>2, <1>3, <1>5 DEF Smaller
      <3> QED
        BY <1>2, <1>3, <3>1 DEF Smaller
    <2>2. ASSUME NEW p \in Pos, pos[p].src # "MANUAL"
          PROVE  pos'[p].qty >= pos[p].qty
      <3>1. pos[p].src \in {"SYSTEM_A", "SYSTEM_B"}
        BY <1>4, <2>2 DEF Source
      <3>2. Take(m, s)[p] \in {TakeOf({"SYSTEM_A"}, s.a)[p], TakeOf({"SYSTEM_B"}, s.b)[p]}
        BY <1>2, <3>1, TakeBound
      <3>3. TakeOf({"SYSTEM_A"}, s.a)[p] = 0 /\ TakeOf({"SYSTEM_B"}, s.b)[p] = 0
        BY <1>2, <2>1, TakeOfBound
      <3>4. Take(m, s)[p] = 0
        BY <3>2, <3>3
      <3> QED
        BY <1>4, <3>4
    <2> QED
      BY <2>2
  <1>6. CASE ~(k <= QtyIn({"MANUAL"}))
    <2> DEFINE f == [q \in Pos |-> pos[q].qty]
               A == ActiveOf({"MANUAL"})
    <2>1. m = QtyIn({"MANUAL"})
      BY <1>2, <1>3, <1>6 DEF Smaller
    <2>2. m = SumFunctionOnSet(f, A)
      BY <2>1 DEF QtyIn
    <2>3. ASSUME NEW p \in Pos, pos'[p].src = "MANUAL"
          PROVE  ~Active(pos'[p])
      <3>1. pos[p].src = "MANUAL"
        BY <1>4, <2>3
      <3>2. Take(m, s)[p] = TakeOf({"MANUAL"}, m)[p]
        BY <1>2, <3>1, TakeBound
      <3>3. CASE p \in A
        <4>1. A \in SUBSET Pos /\ (\A q \in A : f[q] \in Nat) /\ f[p] = pos[p].qty
          BY PosTyped DEF ActiveOf
        <4>2. TakeOf({"MANUAL"}, m) = Drained(A, f, m)
          BY DEF TakeOf
        <4> HIDE DEF f, A, TakeOf
        <4>3. TakeOf({"MANUAL"}, m)[p] = f[p]
          BY <2>2, <3>3, <4>1, <4>2, DrainedAll
        <4> QED
          BY <1>4, <3>2, <4>1, <4>3
      <3>4. CASE p \notin A
        <4>1. ~Active(pos[p])
          BY <3>1, <3>4 DEF ActiveOf
        <4>2. pos[p].qty = 0
          BY <1>4, <4>1 DEF RowTyped, Consistent
        <4> QED
          BY <1>4, <4>2
      <3> QED
        BY <3>3, <3>4
    <2> QED
      BY <2>3
  <1> QED
    BY <1>5, <1>6

\* ManualFirst: the system's own positions lose nothing in a run of the
\* periodic reconciler that the user's MANUAL positions can pay for.
THEOREM UserPaysFirst == Spec => ManualFirst
  <1> DEFINE A == rec.pc = "apply" /\ rec'.pc = "idle" =>
                    \/ \A p \in Pos : pos[p].src = "MANUAL" \/ pos'[p].qty >= pos[p].qty
                    \/ \A p \in Pos : pos'[p].src = "MANUAL" => ~Active(pos'[p])
  <1>1. HoldingsInv /\ [Next]_vars => A
    <2> SUFFICES ASSUME HoldingsInv, [Next]_vars, rec.pc = "apply", rec'.pc = "idle"
                 PROVE  \/ \A p \in Pos : pos[p].src = "MANUAL" \/ pos'[p].qty >= pos[p].qty
                        \/ \A p \in Pos : pos'[p].src = "MANUAL" => ~Active(pos'[p])
      OBVIOUS
    <2>1. CASE pos' = pos
      <3>1. \A p \in Pos : pos[p].qty \in Nat
        BY TypesOfRest, PosTyped
      <3> QED
        BY <2>1, <3>1
    <2>2. CASE rec.sys - rec.bal \in Nat /\ ApplyPartialSell(rec.sys - rec.bal)
      <3> HIDE DEF ApplyPartialSell
      <3> QED
        BY <2>2, TypesOfRest, UserRowsFirst
    <2>3. CASE \E pr \in Price : AddPosition("MANUAL", rec.bal, pr)
      BY <2>3, TypesOfRest, AddGrows
    <2> QED
      BY <2>1, <2>2, <2>3, RunEnds
  <1>2. ManualFirst <=> [][A]_vars
    BY DEF ManualFirst
  <1> HIDE DEF A
  <1> QED
    BY <1>1, <1>2, HoldingsInvariant, PTL DEF Spec

\* Inactive rows have no shares, so the ledger's shares are those of all rows.
LEMMA AllRows ==
    ASSUME NEW t, \A p \in Pos : t[p].qty \in Nat /\ t[p].src \in Source /\ (Active(t[p]) <=> t[p].qty > 0)
    PROVE  SumFunctionOnSet([p \in Pos |-> t[p].qty], {p \in Pos : t[p].src \in Source /\ Active(t[p])})
             = SumFunctionOnSet([p \in Pos |-> t[p].qty], Pos)
  <1> DEFINE f == [p \in Pos |-> t[p].qty]
             A == {p \in Pos : t[p].src \in Source /\ Active(t[p])}
  <1>1. A \subseteq Pos /\ \A p \in Pos \ A : f[p] = 0
    <2>1. ASSUME NEW p \in Pos \ A PROVE f[p] = 0
      <3>1. ~Active(t[p])
        OBVIOUS
      <3> QED
        BY <3>1
    <2> QED
      BY <2>1
  <1>2. \A p \in Pos : f[p] \in Nat
    OBVIOUS
  <1> HIDE DEF f, A
  <1>3. IsFiniteSet(A) /\ IsFiniteSet(Pos \ A) /\ A \cup (Pos \ A) = Pos /\ A \cap (Pos \ A) = {}
    BY <1>1, PosIsFinite
  <1>4. SumFunctionOnSet(f, A \cup (Pos \ A)) = SumFunctionOnSet(f, A) + SumFunctionOnSet(f, Pos \ A)
    BY <1>1, <1>2, <1>3, SumUnion
  <1>5. SumFunctionOnSet(f, Pos \ A) = 0
    BY <1>1, <1>3, SumZero
  <1>6. SumFunctionOnSet(f, A) \in Nat
    BY <1>1, <1>2, <1>3, SumNat
  <1>7. SumFunctionOnSet(f, A) = SumFunctionOnSet(f, Pos)
    <2>1. SumFunctionOnSet(f, Pos) = SumFunctionOnSet(f, A) + SumFunctionOnSet(f, Pos \ A)
      BY <1>3, <1>4, Zenon
    <2> QED
      BY <1>5, <1>6, <2>1
  <1> QED
    BY <1>7 DEF f, A

\* The ledger holds what its three paths hold.
LEMMA LedgerSplits ==
    ASSUME PosInv
    PROVE  SystemQty = QtyIn({"MANUAL"}) + QtyIn({"SYSTEM_A"}) + QtyIn({"SYSTEM_B"})
  <1> DEFINE f == [p \in Pos |-> pos[p].qty]
             M == ActiveOf({"MANUAL"})
             A == ActiveOf({"SYSTEM_A"})
             B == ActiveOf({"SYSTEM_B"})
  <1>1. /\ IsFiniteSet(M) /\ IsFiniteSet(A) /\ IsFiniteSet(B) /\ IsFiniteSet(M \cup A)
        /\ M \subseteq Pos /\ A \subseteq Pos /\ B \subseteq Pos
    BY PosIsFinite DEF ActiveOf
  <1>2. M \cap A = {} /\ (M \cup A) \cap B = {}
    BY DEF ActiveOf
  <1>3. ActiveOf(Source) = (M \cup A) \cup B
    BY DEF ActiveOf, Source
  <1>4. \A p \in Pos : f[p] \in Nat
    BY PosTyped
  <1> HIDE DEF f, M, A, B
  <1>5. SumFunctionOnSet(f, M \cup A) = SumFunctionOnSet(f, M) + SumFunctionOnSet(f, A)
    BY <1>1, <1>2, <1>4, SumUnion
  <1>6. SumFunctionOnSet(f, (M \cup A) \cup B) = SumFunctionOnSet(f, M \cup A) + SumFunctionOnSet(f, B)
    BY <1>1, <1>2, <1>4, SumUnion
  <1> QED
    BY <1>3, <1>5, <1>6 DEF SystemQty, QtyIn, f, M, A, B

\* A drain takes what is asked for, or all there is.
LEMMA TakeOfTotal ==
    ASSUME PosInv, NEW S, NEW n \in Nat
    PROVE  SumFunctionOnSet(TakeOf(S, n), Pos) = Smaller(n, QtyIn(S))
  <1> DEFINE f == [p \in Pos |-> pos[p].qty]
             A == ActiveOf(S)
             t == TakeOf(S, n)
  <1>1. A \in SUBSET Pos /\ (\A q \in A : f[q] \in Nat)
    BY PosTyped DEF ActiveOf
  <1>2. t = Drained(A, f, n) /\ QtyIn(S) = SumFunctionOnSet(f, A)
    BY DEF TakeOf, QtyIn
  <1>3. \A p \in Pos : t[p] \in Nat /\ (p \notin A => t[p] = 0)
    <2> HIDE DEF A, t
    <2> QED
      BY TakeOfBound DEF A, t
  <1> HIDE DEF f, A, t
  <1>4. SumFunctionOnSet(t, A) = Smaller(n, QtyIn(S)) /\ SumFunctionOnSet(t, A) \in Nat
    BY <1>1, <1>2, DrainedTotal
  <1>5. IsFiniteSet(A) /\ IsFiniteSet(Pos \ A) /\ A \cup (Pos \ A) = Pos /\ A \cap (Pos \ A) = {}
    BY <1>1, PosIsFinite
  <1>6. SumFunctionOnSet(t, A \cup (Pos \ A)) = SumFunctionOnSet(t, A) + SumFunctionOnSet(t, Pos \ A)
    BY <1>1, <1>3, <1>5, SumUnion
  <1>7. SumFunctionOnSet(t, Pos \ A) = 0
    BY <1>3, <1>5, SumZero
  <1>8. SumFunctionOnSet(t, Pos) = Smaller(n, QtyIn(S))
    BY <1>4, <1>5, <1>6, <1>7
  <1> QED
    BY <1>8 DEF t

\* All rows together lose what the three classes give.
LEMMA TakeTotal ==
    ASSUME PosInv, NEW m \in Nat, NEW s, s.a \in Nat, s.b \in Nat
    PROVE  SumFunctionOnSet(Take(m, s), Pos)
             = Smaller(m, QtyIn({"MANUAL"})) + Smaller(s.a, QtyIn({"SYSTEM_A"}))
               + Smaller(s.b, QtyIn({"SYSTEM_B"}))
  <1> DEFINE x == TakeOf({"MANUAL"}, m)
             y == TakeOf({"SYSTEM_A"}, s.a)
             z == TakeOf({"SYSTEM_B"}, s.b)
             xy == [p \in Pos |-> x[p] + y[p]]
  <1>1. \A p \in Pos : x[p] \in Nat /\ y[p] \in Nat /\ z[p] \in Nat
    <2> HIDE DEF x, y, z
    <2> QED
      BY TakeOfBound DEF x, y, z
  <1>2. \A p \in Pos : Take(m, s)[p] = x[p] + y[p] + z[p]
    BY DEF Take
  <1>3. /\ SumFunctionOnSet(x, Pos) = Smaller(m, QtyIn({"MANUAL"}))
        /\ SumFunctionOnSet(y, Pos) = Smaller(s.a, QtyIn({"SYSTEM_A"}))
        /\ SumFunctionOnSet(z, Pos) = Smaller(s.b, QtyIn({"SYSTEM_B"}))
    BY TakeOfTotal
  <1> HIDE DEF x, y, z
  <1>4. SumFunctionOnSet(xy, Pos) = SumFunctionOnSet(x, Pos) + SumFunctionOnSet(y, Pos)
    <2>1. \A p \in Pos : x[p] \in Nat /\ y[p] \in Nat /\ xy[p] = x[p] + y[p]
      BY <1>1
    <2>2. IsFiniteSet(Pos)
      BY PosIsFinite
    <2> HIDE DEF xy
    <2> QED
      BY <2>1, <2>2, SumOfBoth
  <1>5. \A p \in Pos : xy[p] \in Nat /\ Take(m, s)[p] = xy[p] + z[p]
    BY <1>1, <1>2
  <1> HIDE DEF xy
  <1>6. SumFunctionOnSet(Take(m, s), Pos) = SumFunctionOnSet(xy, Pos) + SumFunctionOnSet(z, Pos)
    <2>1. \A p \in Pos : xy[p] \in Nat /\ z[p] \in Nat /\ Take(m, s)[p] = xy[p] + z[p]
      BY <1>1, <1>5
    <2>2. IsFiniteSet(Pos)
      BY PosIsFinite
    <2> QED
      BY <2>1, <2>2, SumOfBoth
  <1> QED
    BY <1>3, <1>4, <1>6

\* The ledger comes down by what is drained, or to nothing.
LEMMA DrainedExactly ==
    ASSUME PosInv, NEW k \in Nat, ApplyPartialSell(k)
    PROVE  SystemQty' = IF SystemQty > k THEN SystemQty - k ELSE 0
  <1>1. PICK m, s : SellParts(k, m, s)
    BY PartialSellParts
  <1> DEFINE M == QtyIn({"MANUAL"})
             A == QtyIn({"SYSTEM_A"})
             B == QtyIn({"SYSTEM_B"})
             f == [p \in Pos |-> pos[p].qty]
             g == [p \in Pos |-> pos'[p].qty]
             t == Take(m, s)
  <1>2. M \in Nat /\ A \in Nat /\ B \in Nat /\ SystemQty = M + A + B
    BY QtyIsNat, LedgerSplits
  <1>3. /\ m = Smaller(k, M) /\ m \in Nat /\ s.a \in Nat /\ s.a <= A /\ s.b \in Nat /\ s.b <= B
        /\ s.a + s.b = Smaller(k - m, A + B)
        /\ pos' = [p \in Pos |-> Reduced(pos[p], t[p])]
    BY <1>1 DEF SellParts
  <1>4. SumFunctionOnSet(t, Pos) = Smaller(m, M) + Smaller(s.a, A) + Smaller(s.b, B)
    BY <1>3, TakeTotal
  <1>5. \A p \in Pos : t[p] \in Nat /\ t[p] <= pos[p].qty /\ pos[p].qty \in Nat /\ RowTyped(pos[p])
    BY <1>3, TakeBound, PosTyped DEF PosInv
  <1>6. \A p \in Pos : f[p] \in Nat /\ g[p] \in Nat /\ f[p] = g[p] + t[p]
    <2> HIDE DEF t
    <2> QED
      BY <1>3, <1>5, ReducedQty
  <1>7. PosInv'
    BY PartialSellTyped
  <1>8. \A p \in Pos : pos'[p].qty \in Nat /\ pos'[p].src \in Source
                       /\ (Active(pos'[p]) <=> pos'[p].qty > 0)
    BY <1>7 DEF PosInv, RowTyped, Row, Consistent
  <1>9. SystemQty' = SumFunctionOnSet(g, Pos)
    BY <1>8, AllRows DEF SystemQty, QtyIn, ActiveOf
  <1>10. SystemQty = SumFunctionOnSet(f, Pos)
    BY PosTyped, AllRows DEF SystemQty, QtyIn, ActiveOf
  <1> HIDE DEF f, g, t, M, A, B
  <1>11. /\ SumFunctionOnSet(f, Pos) = SumFunctionOnSet(g, Pos) + SumFunctionOnSet(t, Pos)
         /\ SumFunctionOnSet(g, Pos) \in Nat
    <2>1. \A p \in Pos : g[p] \in Nat /\ t[p] \in Nat /\ f[p] = g[p] + t[p]
      BY <1>5, <1>6
    <2>2. IsFiniteSet(Pos)
      BY PosIsFinite
    <2>3. SumFunctionOnSet(f, Pos) = SumFunctionOnSet(g, Pos) + SumFunctionOnSet(t, Pos)
      BY <2>1, <2>2, SumOfBoth
    <2>4. SumFunctionOnSet(g, Pos) \in Nat
      BY <2>1, <2>2, SumNat
    <2> QED
      BY <2>3, <2>4
  <1>12. Smaller(m, M) = m /\ Smaller(s.a, A) = s.a /\ Smaller(s.b, B) = s.b
    BY <1>2, <1>3 DEF Smaller
  <1>13. SumFunctionOnSet(t, Pos) = m + Smaller(k - m, A + B)
    BY <1>2, <1>3, <1>4, <1>12
  <1> HIDE DEF SystemQty
  <1> QED
    BY <1>2, <1>3, <1>9, <1>10, <1>11, <1>13 DEF Smaller

\* DrainExact: a run that lowers the ledger lowers it by what it saw missing,
\* or to nothing.
THEOREM DrainsExactly == Spec => DrainExact
  <1> DEFINE A == rec.pc = "apply" /\ rec'.pc = "idle" /\ SystemQty' < SystemQty =>
                    SystemQty' = (IF SystemQty > rec.sys - rec.bal
                                  THEN SystemQty - (rec.sys - rec.bal) ELSE 0)
  <1>1. HoldingsInv /\ [Next]_vars => A
    <2> SUFFICES ASSUME HoldingsInv, [Next]_vars, rec.pc = "apply", rec'.pc = "idle",
                        SystemQty' < SystemQty
                 PROVE  SystemQty' = (IF SystemQty > rec.sys - rec.bal
                                      THEN SystemQty - (rec.sys - rec.bal) ELSE 0)
      BY Zenon
    <2>0. PosInv /\ SystemQty \in Nat
      BY TypesOfRest, QtyIsNat DEF SystemQty
    <2>1. CASE pos' = pos
      <3>1. SystemQty' = SystemQty
        BY <2>1 DEF SystemQty, QtyIn, ActiveOf
      <3> HIDE DEF SystemQty
      <3> QED
        BY <2>0, <3>1
    <2>2. CASE rec.sys - rec.bal \in Nat /\ ApplyPartialSell(rec.sys - rec.bal)
      BY <2>0, <2>2, DrainedExactly, Zenon
    <2>3. CASE \E pr \in Price : AddPosition("MANUAL", rec.bal, pr)
      <3> DEFINE f == [p \in Pos |-> pos[p].qty]
                 g == [p \in Pos |-> pos'[p].qty]
      <3>1. \A p \in Pos : f[p] \in Nat /\ g[p] \in Nat /\ f[p] <= g[p]
        <4>1. \A p \in Pos : pos[p].qty \in Nat
          BY <2>0, PosTyped
        <4>2. \A p \in Pos : pos'[p].qty \in Nat /\ pos'[p].qty >= pos[p].qty
          BY <2>3, TypesOfRest, AddGrows
        <4> QED
          BY <4>1, <4>2
      <3>2. PosInv'
        BY <2>3, TypesOfRest, AddTyped DEF Source
      <3>3. SystemQty' = SumFunctionOnSet(g, Pos)
        <4>1. \A p \in Pos : pos'[p].qty \in Nat /\ pos'[p].src \in Source
                             /\ (Active(pos'[p]) <=> pos'[p].qty > 0)
          BY <3>2 DEF PosInv, RowTyped, Row, Consistent
        <4> QED
          BY <4>1, AllRows DEF SystemQty, QtyIn, ActiveOf
      <3>4. SystemQty = SumFunctionOnSet(f, Pos)
        BY <2>0, PosTyped, AllRows DEF SystemQty, QtyIn, ActiveOf
      <3> HIDE DEF f, g
      <3>5. SumFunctionOnSet(f, Pos) <= SumFunctionOnSet(g, Pos)
        BY <3>1, PosIsFinite, SumMonotone
      <3>6. SumFunctionOnSet(g, Pos) \in Nat
        BY <3>1, PosIsFinite, SumNat
      <3> HIDE DEF SystemQty
      <3> QED
        BY <2>0, <3>3, <3>4, <3>5, <3>6
    <2> QED
      BY <2>1, <2>2, <2>3, RunEnds
  <1>2. DrainExact <=> [][A]_vars
    BY DEF DrainExact
  <1> HIDE DEF A
  <1> QED
    BY <1>1, <1>2, HoldingsInvariant, PTL DEF Spec

-----------------------------------------------------------------------------
(* The life of a position.                                                  *)

Lives(r, s) == s = r \/ Contract!Step(Life(r), Life(s))

\* The rungs of the ladder, by the profits taken.
LEMMA RungIs ==
    ASSUME NEW r, r.p5 \in BOOLEAN, r.p10 \in BOOLEAN
    PROVE  /\ Rung(r) \in 1 .. 3
           /\ Rung(r) = 1 <=> ~r.p5 /\ ~r.p10
           /\ Rung(r) = 3 <=> r.p10
  BY DEF Rung

\* A first buy opens a position on the first rung.
LEMMA NewRowLives ==
    ASSUME NEW r, r.status = "absent", NEW src, NEW k \in Nat \ {0}, NEW pr
    PROVE  Lives(r, NewRow(src, k, pr))
  <1> DEFINE s == NewRow(src, k, pr)
  <1>1. s.status = "OPEN" /\ s.qty = k /\ s.p5 = FALSE /\ s.p10 = FALSE
    BY DEF NewRow
  <1> HIDE DEF s
  <1>2. Life(s) = [phase |-> "live", shares |-> k, rung |-> 1]
    BY <1>1 DEF Life, Active, Rung
  <1>3. Life(r) = Contract!Unborn
    BY DEF Life, Contract!Unborn
  <1>4. Contract!Open(Life(r), Life(s))
    BY <1>2, <1>3 DEF Contract!Open, Contract!Live
  <1> QED
    BY <1>4 DEF Lives, Contract!Step, s

\* An add-buy that the table accepts grows an open position and starts its
\* ladder again.
LEMMA AfterBuyLives ==
    ASSUME NEW r, RowTyped(r), NEW k \in Nat \ {0}, NEW pr, Consistent(AfterBuy(r, k, pr))
    PROVE  Lives(r, AfterBuy(r, k, pr))
  <1> DEFINE s == AfterBuy(r, k, pr)
             avg == WeightedAverage(r.qty, r.avg, k, pr)
             stop == Stage(FALSE, FALSE, avg)
             status == IF r.status = "PARTIAL_CLOSED" THEN "OPEN" ELSE r.status
             all == r.qty + k
  <1>1. r \in Row /\ r.qty \in Nat /\ (Active(r) <=> r.qty > 0) /\ r.p5 \in BOOLEAN /\ r.p10 \in BOOLEAN
    BY DEF RowTyped, Row, Consistent
  <1>2. all \in Nat /\ all > r.qty /\ all > 0
    BY <1>1
  <1>3. s = [r EXCEPT !.qty = all, !.avg = avg, !.stop = stop, !.p5 = FALSE, !.p10 = FALSE,
                      !.status = status]
    BY DEF AfterBuy
  <1>4. Consistent(s)
    OBVIOUS
  <1> HIDE DEF s, avg, stop, all, status
  <1>5. s.qty = all /\ s.p5 = FALSE /\ s.p10 = FALSE /\ s.status = status
    BY <1>1, <1>3 DEF Row
  <1>6. Active(s) /\ s.status \in {"OPEN", "PARTIAL_CLOSED"}
    BY <1>2, <1>4, <1>5 DEF Consistent, Active
  <1>7. Active(r)
    BY <1>5, <1>6 DEF status, Active
  <1>8. Life(r) = [phase |-> "live", shares |-> r.qty, rung |-> Rung(r)] /\ r.qty > 0
    BY <1>1, <1>7 DEF Life, Active
  <1>9. Life(s) = [phase |-> "live", shares |-> all, rung |-> 1]
    <2>1. Rung(s) = 1
      BY <1>5 DEF Rung
    <2> QED
      BY <1>5, <1>6, <2>1 DEF Life, Active
  <1>10. Contract!Grow(Life(r), Life(s))
    BY <1>2, <1>8, <1>9 DEF Contract!Grow, Contract!Live
  <1> QED
    BY <1>10 DEF Lives, Contract!Step, s

\* Taking shares off a row sheds them or, with the last one, closes it.
LEMMA LessLives ==
    ASSUME NEW r, RowTyped(r), NEW k \in Nat, k <= r.qty, k # 0,
           NEW s, s.qty = r.qty - k, s.status = Lifecycle(r.status, r.qty - k),
           s.p5 \in BOOLEAN, s.p10 \in BOOLEAN, r.p5 => s.p5, r.p10 => s.p10
    PROVE  Lives(r, s)
  <1>1. r.qty \in Nat /\ r.qty > 0 /\ Active(r) /\ r.p5 \in BOOLEAN /\ r.p10 \in BOOLEAN
    BY DEF RowTyped, Row, Consistent
  <1>2. Rung(r) \in Nat /\ Rung(s) \in Nat /\ Rung(s) >= Rung(r)
    BY <1>1 DEF Rung
  <1>3. Life(r) = [phase |-> "live", shares |-> r.qty, rung |-> Rung(r)]
    BY <1>1 DEF Life, Active
  <1>4. CASE k = r.qty
    <2>1. s.status = "CLOSED" /\ s.qty = 0
      BY <1>1, <1>4 DEF Lifecycle
    <2>2. Life(s) = [phase |-> "closed", shares |-> 0, rung |-> Rung(s)]
      BY <2>1 DEF Life, Active
    <2>3. Contract!Close(Life(r), Life(s))
      BY <1>1, <1>2, <1>3, <2>2 DEF Contract!Close, Contract!Live
    <2> QED
      BY <2>3 DEF Lives, Contract!Step
  <1>5. CASE k # r.qty
    <2>1. s.qty \in Nat /\ s.qty > 0 /\ s.qty < r.qty
      BY <1>1, <1>5
    <2>2. Active(s)
      BY <1>1, <2>1 DEF Lifecycle, Active
    <2>3. Life(s) = [phase |-> "live", shares |-> s.qty, rung |-> Rung(s)]
      BY <2>2 DEF Life, Active
    <2>4. Contract!Shed(Life(r), Life(s))
      BY <1>1, <1>2, <1>3, <2>1, <2>3 DEF Contract!Shed, Contract!Live
    <2> QED
      BY <2>4 DEF Lives, Contract!Step
  <1> QED
    BY <1>4, <1>5

\* A sell of an exit is a step of a position's life.
LEMMA AfterSellLives ==
    ASSUME NEW r, RowTyped(r), NEW k \in Nat, k <= r.qty, k # 0, NEW event
    PROVE  Lives(r, AfterSell(r, k, event))
  <1> DEFINE s == AfterSell(r, k, event)
             p5  == r.p5 \/ event \in ProfitEvent
             p10 == r.p10 \/ event = "PROFIT_TAKE_10"
             stop == IF event \in ProfitEvent THEN Stage(p5, p10, r.avg) ELSE r.stop
             status == Lifecycle(r.status, r.qty - k)
             left == r.qty - k
  <1>1. r \in Row /\ r.p5 \in BOOLEAN /\ r.p10 \in BOOLEAN
    BY DEF RowTyped, Row
  <1>2. p5 \in BOOLEAN /\ p10 \in BOOLEAN /\ (r.p5 => p5) /\ (r.p10 => p10)
    BY <1>1
  <1>3. s = [r EXCEPT !.qty = left, !.p5 = p5, !.p10 = p10, !.stop = stop, !.status = status]
    BY DEF AfterSell
  <1> HIDE DEF s, p5, p10, stop, status, left
  <1>4. s.qty = left /\ s.status = status /\ s.p5 = p5 /\ s.p10 = p10
    BY <1>1, <1>3 DEF Row
  <1>5. s.qty = r.qty - k /\ s.status = Lifecycle(r.status, r.qty - k)
    BY <1>4 DEF left, status
  <1>6. s.p5 \in BOOLEAN /\ s.p10 \in BOOLEAN /\ (r.p5 => s.p5) /\ (r.p10 => s.p10)
    BY <1>2, <1>4
  <1>7. Lives(r, s)
    BY <1>5, <1>6, LessLives
  <1> QED
    BY <1>7 DEF s

\* So is a sell by hand.
LEMMA ReducedLives ==
    ASSUME NEW r, RowTyped(r), NEW k \in Nat, k <= r.qty
    PROVE  Lives(r, Reduced(r, k))
  <1>1. CASE k = 0
    BY <1>1 DEF Reduced, Lives
  <1>2. CASE k # 0
    <2> DEFINE s == Reduced(r, k)
               status == Lifecycle(r.status, r.qty - k)
               left == r.qty - k
    <2>1. r \in Row /\ r.p5 \in BOOLEAN /\ r.p10 \in BOOLEAN
      BY DEF RowTyped, Row
    <2>2. s = [r EXCEPT !.qty = left, !.status = status]
      BY <1>2 DEF Reduced
    <2> HIDE DEF s, status, left
    <2>3. s.qty = left /\ s.status = status /\ s.p5 = r.p5 /\ s.p10 = r.p10
      BY <2>1, <2>2 DEF Row
    <2>4. s.qty = r.qty - k /\ s.status = Lifecycle(r.status, r.qty - k)
      BY <2>3 DEF left, status
    <2>5. s.p5 \in BOOLEAN /\ s.p10 \in BOOLEAN /\ (r.p5 => s.p5) /\ (r.p10 => s.p10)
      BY <2>1, <2>3
    <2>6. Lives(r, s)
      BY <1>2, <2>4, <2>5, LessLives
    <2> QED
      BY <2>6 DEF s
  <1> QED
    BY <1>1, <1>2

\* What a transaction makes of the rows.
AllLive == \A p \in Pos : Lives(pos[p], pos'[p])

\* The ledger is left alone.
LEMMA SameLives ==
    ASSUME pos' = pos
    PROVE  AllLive
  BY DEF AllLive, Lives

\* add_position opens one position.
LEMMA AddLives ==
    ASSUME PosInv, NEW src, NEW k \in Nat, NEW pr, AddPosition(src, k, pr)
    PROVE  AllLive
  <1>1. PICK p \in FreshPos : pos' = [pos EXCEPT ![p] = NewRow(src, k, pr)]
    BY DEF AddPosition
  <1>2. pos' = [q \in Pos |-> IF q = p THEN NewRow(src, k, pr) ELSE pos[q]]
    BY <1>1 DEF PosInv
  <1>3. pos[p].status = "absent" /\ k \in Nat \ {0}
    BY DEF FreshPos, AddPosition
  <1>4. Lives(pos[p], NewRow(src, k, pr))
    BY <1>3, NewRowLives
  <1>5. \A q \in Pos : Lives(pos[q], pos[q])
    BY DEF Lives
  <1> QED
    BY <1>2, <1>4, <1>5 DEF AllLive

\* apply_buy adds to one.
LEMMA BuyLives ==
    ASSUME PosInv, NEW p, NEW k \in Nat \ {0}, NEW pr, ApplyBuy(p, k, pr)
    PROVE  AllLive
  <1> DEFINE r == AfterBuy(pos[p], k, pr)
  <1>1. CASE Consistent(r) /\ pos' = [pos EXCEPT ![p] = r]
    <2>1. pos' = [q \in Pos |-> IF q = p THEN r ELSE pos[q]]
      BY <1>1 DEF PosInv
    <2>2. p \in Pos => Lives(pos[p], r)
      BY <1>1, AfterBuyLives DEF PosInv
    <2>3. \A q \in Pos : Lives(pos[q], pos[q])
      BY DEF Lives
    <2> HIDE DEF r
    <2> QED
      BY <2>1, <2>2, <2>3 DEF AllLive
  <1> QED
    BY <1>1, SameLives DEF ApplyBuy

\* apply_sell sells from one.
LEMMA SellLives ==
    ASSUME PosInv, NEW p, NEW k, NEW event, ApplySell(p, k, event)
    PROVE  AllLive
  <1>1. pos' = [q \in Pos |-> IF q = p THEN AfterSell(pos[p], k, event) ELSE pos[q]]
    BY DEF ApplySell, PosInv
  <1>2. ASSUME p \in Pos PROVE Lives(pos[p], AfterSell(pos[p], k, event))
    <2>1. RowTyped(pos[p]) /\ pos[p].qty \in Nat
      BY <1>2, PosTyped DEF PosInv
    <2>2. k \in Nat /\ k <= pos[p].qty /\ k # 0
      BY <2>1 DEF ApplySell, CanSell
    <2> QED
      BY <2>1, <2>2, AfterSellLives
  <1>3. \A q \in Pos : Lives(pos[q], pos[q])
    BY DEF Lives
  <1> QED
    BY <1>1, <1>2, <1>3 DEF AllLive

\* apply_partial_sell sells from several, each a step of its life.
LEMMA PartialSellLives ==
    ASSUME PosInv, NEW k \in Nat, ApplyPartialSell(k)
    PROVE  AllLive
  <1>1. PICK m, s : SellParts(k, m, s)
    BY PartialSellParts
  <1>2. \A p \in Pos : Take(m, s)[p] \in Nat /\ Take(m, s)[p] <= pos[p].qty
    BY <1>1, TakeBound DEF SellParts
  <1>3. \A p \in Pos : Lives(pos[p], Reduced(pos[p], Take(m, s)[p]))
    BY <1>2, ReducedLives DEF PosInv
  <1>4. pos' = [p \in Pos |-> Reduced(pos[p], Take(m, s)[p])]
    BY <1>1 DEF SellParts
  <1> QED
    BY <1>3, <1>4 DEF AllLive

\* So does the recovery.
LEMMA HandleBLives ==
    ASSUME PosInv, RstTyped, NEW k \in Nat, HandleB(k)
    PROVE  AllLive
  <1>1. CASE /\ \A p \in Pos : RstTake(k)[p] <= pos[p].qty
             /\ pos' = [p \in Pos |-> IF RstTake(k)[p] = 0 THEN pos[p]
                                     ELSE AfterSell(pos[p], RstTake(k)[p], "MANUAL_SELL")]
    <2>1. ASSUME NEW p \in Pos, RstTake(k)[p] # 0
          PROVE  Lives(pos[p], AfterSell(pos[p], RstTake(k)[p], "MANUAL_SELL"))
      <3>1. RstTake(k)[p] \in Nat /\ RstTake(k)[p] <= pos[p].qty
        BY <1>1, RstTakeIsNat
      <3> QED
        BY <2>1, <3>1, AfterSellLives DEF PosInv
    <2>2. \A q \in Pos : Lives(pos[q], pos[q])
      BY DEF Lives
    <2> QED
      BY <1>1, <2>1, <2>2 DEF AllLive
  <1> QED
    BY <1>1, SameLives DEF HandleB

\* The recovery's last step.
LEMMA RstApplyLives ==
    ASSUME HoldingsInv, RstApply
    PROVE  AllLive
  <1> DEFINE sys  == SumFunctionOnSet(rst.snap, Pos)
             case == Case(rst.bal, sys, FALSE)
  <1>1. sys \in Nat
    <2>1. \A p \in Pos : rst.snap[p] \in Nat
      BY TypesOfRest
    <2> QED
      BY <2>1, PosIsFinite, SumNat
  <1>2. \/ UNCHANGED pos
        \/ case = "A" /\ HandleA(rst.bal - sys)
        \/ case = "B" /\ HandleB(sys - rst.bal)
        \/ case = "D" /\ HandleD(rst.bal)
    BY DEF RstApply
  <1> HIDE DEF sys
  <1>3. /\ rst.bal \in Nat
        /\ case = "A" => rst.bal > sys
        /\ case = "B" => rst.bal < sys
    <2>1. rst.bal \in Nat
      BY TypesOfRest
    <2> QED
      BY <1>1, <2>1 DEF Case
  <1>4. CASE case = "A" /\ HandleA(rst.bal - sys)
    <2>1. rst.bal - sys \in Nat \ {0}
      BY <1>1, <1>3, <1>4
    <2>2. PICK pr \in Price : ApplyBuy(TargetOfAdd, rst.bal - sys, pr)
      BY <1>4 DEF HandleA
    <2> HIDE DEF TargetOfAdd
    <2> QED
      BY <2>1, <2>2, TypesOfRest, BuyLives
  <1>5. CASE case = "B" /\ HandleB(sys - rst.bal)
    <2>1. sys - rst.bal \in Nat
      BY <1>1, <1>3, <1>5
    <2> QED
      BY <1>5, <2>1, TypesOfRest, HandleBLives
  <1>6. CASE case = "D" /\ HandleD(rst.bal)
    <2>1. PICK pr \in Price : AddPosition("MANUAL", rst.bal, pr)
      BY <1>6 DEF HandleD
    <2> QED
      BY <1>3, <2>1, TypesOfRest, AddLives
  <1> HIDE DEF case
  <1> QED
    BY <1>2, <1>4, <1>5, <1>6, SameLives

\* The periodic reconciler's last step.
LEMMA RecApplyLives ==
    ASSUME HoldingsInv, RecApply
    PROVE  AllLive
  <1> DEFINE case == Case(rec.bal, rec.sys, rec.trk)
  <1>1. rec.bal \in Nat /\ rec.sys \in Nat
    BY TypesOfRest
  <1>2. \/ UNCHANGED pos
        \/ case = "B" /\ ApplyPartialSell(rec.sys - rec.bal)
        \/ case = "D" /\ ApplyManualInsert(rec.bal)
    BY DEF RecApply
  <1>3. case = "B" => rec.sys - rec.bal \in Nat
    BY <1>1 DEF Case
  <1> HIDE DEF case
  <1>4. CASE case = "B" /\ ApplyPartialSell(rec.sys - rec.bal)
    BY <1>3, <1>4, TypesOfRest, PartialSellLives
  <1>5. CASE ApplyManualInsert(rec.bal)
    <2>1. PICK pr \in Price : AddPosition("MANUAL", rec.bal, pr)
      BY <1>5 DEF ApplyManualInsert
    <2> QED
      BY <1>1, <2>1, TypesOfRest, AddLives
  <1> QED
    BY <1>2, <1>4, <1>5, SameLives

\* Every step of the code is one of the contract for each position.
LEMMA NextLives ==
    ASSUME HoldingsInv, [Next]_vars
    PROVE  AllLive
  <1>1. CASE Apply
    <2>1. CASE ApplySell(ex.cur, ex.got, ex.level)
      BY <2>1, TypesOfRest, SellLives
    <2> QED
      BY <1>1, <2>1, SameLives DEF Apply
  <1>2. CASE BuyRecorded
    <2>1. CASE AddPosition(buying.src, buying.qty, price)
      BY <2>1, TypesOfRest, AddLives
    <2> QED
      BY <1>2, <2>1, SameLives DEF BuyRecorded
  <1>3. CASE RecApply
    BY <1>3, RecApplyLives
  <1>4. CASE RstApply
    BY <1>4, RstApplyLives
  <1>5. CASE ~Apply /\ ~BuyRecorded /\ ~RecApply /\ ~RstApply
    <2>1. UNCHANGED pos
      BY <1>5 DEF Next, vars, ExitStep, Evaluate, Tick, Pick, NoBid, SendSell, SendRaises, JudgeFill,
         CancelSell, Keeps, BrokerStep, Reconcile, RecFetch, RecLoad, RecTrack, RecFails, Restart,
         RstFetch, RstLoad, RstFails, SystemBuys, UserTrades, StopTracking, PriceMoves, Crash
    <2> QED
      BY <2>1, SameLives
  <1> QED
    BY <1>1, <1>2, <1>3, <1>4, <1>5

\* ImplementsContract: whatever exits, reconcilers and restarts do to the
\* ledger, each row lives the life of PositionContract.
THEOREM LedgerImplementsContract == Spec => ImplementsContract
  <1>1. Init => Contract!Init
    <2>1. Life(NoRow) = Contract!Unborn
      BY DEF Life, NoRow, Contract!Unborn
    <2> QED
      BY <2>1 DEF Init, LedgerInit, Contract!Init
  <1>2. HoldingsInv /\ [Next]_vars => [Contract!Next]_([p \in Pos |-> Life(pos[p])])
    <2> SUFFICES ASSUME HoldingsInv, [Next]_vars PROVE Contract!Next
      OBVIOUS
    <2>1. AllLive
      BY NextLives
    <2>2. \A p \in Pos : Life(pos'[p]) = Life(pos[p]) \/ Contract!Step(Life(pos[p]), Life(pos'[p]))
      BY <2>1 DEF AllLive, Lives
    <2> QED
      BY <2>2 DEF Contract!Next
  <1> QED
    BY <1>1, <1>2, HoldingsInvariant, PTL DEF Spec, ImplementsContract, Contract!Spec

=============================================================================
