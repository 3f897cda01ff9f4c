------------------------------ MODULE Holdings ------------------------------
(***************************************************************************)
(* One stock's shares, in the account and in the ledger.  The account moves *)
(* with the system's buys, its exits and the user's own trades; the ledger  *)
(* is written by the buy executor, the exit executor, the periodic          *)
(* reconciler (exchange/reconciler.py) and the reconciliation of a restart  *)
(* (position/v71_reconciler.py).  Nothing but row locks orders them.        *)
(***************************************************************************)
EXTENDS ExitPath

CONSTANTS
    BalanceParsed,  \* does the restart's balance query find its holdings?
    BuyPath,        \* the paths the user has boxes on
    BuyQty,         \* share counts a buy sequence can end with
    MaxBuys,        \* bound: system buys
    MaxUpsets       \* bound: the user's acts, restarts, failed periodic runs

ASSUME HoldingsAssumption ==
    /\ BalanceParsed \in BOOLEAN
    /\ BuyPath \subseteq {"SYSTEM_A", "SYSTEM_B"}
    /\ BuyQty \subseteq Nat \ {0}
    /\ MaxBuys \in Nat /\ MaxUpsets \in Nat

VARIABLES
    tracked,    \* has the stock a tracked_stocks row in an active state?
    buying,     \* a buy the broker has filled and no row records yet
    rec,        \* the periodic reconciliation in progress
    rst,        \* the restart's reconciliation in progress
    count       \* history: buys and upsets so far

restVars == <<tracked, buying, rec, rst, count>>

vars == <<pos, exitVars, restVars>>

NoBuy == [src |-> "MANUAL", qty |-> 0]

Idle == [pc |-> "idle", bal |-> 0, sys |-> 0, trk |-> FALSE]

IdleRst == [pc |-> "idle", bal |-> 0, snap |-> [p \in Pos |-> 0]]

Init ==
    /\ LedgerInit
    /\ ExitInit
    /\ tracked = TRUE
    /\ buying = NoBuy
    /\ rec = Idle
    /\ rst = IdleRst
    /\ count = [buys |-> 0, upsets |-> 0]

-----------------------------------------------------------------------------
(* reconciliation_skill.                                                    *)

Smaller(a, b) == IF a <= b THEN a ELSE b

\* Slip: only the stocks of the balance are gone through.
CaseOfHeld(bal, sys, trk) ==
    IF bal = 0 \/ bal = sys THEN "E"
    ELSE IF bal < sys THEN "B"
    ELSE IF sys > 0 THEN "A"
    ELSE IF trk THEN "C" ELSE "D"

\* classify_case; a system that holds nothing is never above the broker.
Case(bal, sys, trk) ==
    IF bal = sys THEN "E"
    ELSE IF bal < sys THEN "B"
    ELSE IF sys > 0 THEN "A"
    ELSE IF trk THEN "C" ELSE "D"

\* Slip: both shares are rounded down.
SplitFloored(k, a, b) ==
    IF a = 0 THEN [a |-> 0, b |-> k]
    ELSE IF b = 0 THEN [a |-> k, b |-> 0]
    ELSE [a |-> (k * a) \div (a + b), b |-> (k * b) \div (a + b)]

\* compute_proportional_split: rounded down, the rest to the larger path.
Split(k, a, b) ==
    IF a = 0 THEN [a |-> 0, b |-> k]
    ELSE IF b = 0 THEN [a |-> k, b |-> 0]
    ELSE IF a >= b THEN [a |-> k - (k * b) \div (a + b), b |-> (k * b) \div (a + b)]
    ELSE [a |-> (k * a) \div (a + b), b |-> k - (k * a) \div (a + b)]

\* What each row of S gives when k shares are drained in row order, newest
\* first, each row up to cap[p].
Drained(S, cap, k) ==
    [p \in Pos |->
        IF p \notin S THEN 0
        ELSE Smaller(k, SumFunctionOnSet(cap, {q \in S : q >= p}))
             - Smaller(k, SumFunctionOnSet(cap, {q \in S : q > p}))]

Upset ==
    /\ count.upsets < MaxUpsets
    /\ count' = [count EXCEPT !.upsets = @ + 1]

-----------------------------------------------------------------------------
(* The periodic reconciler: SIMPLE_APPLY, no callbacks.                     *)

\* kt00018 answers.
RecFetch ==
    /\ rec.pc = "idle"
    /\ rec' = [Idle EXCEPT !.pc = "load", !.bal = held]
    /\ UNCHANGED <<pos, exitVars, tracked, buying, rst, count>>

\* _load_system_positions, without a lock.
RecLoad ==
    /\ rec.pc = "load"
    /\ rec' = [rec EXCEPT !.pc = "track", !.sys = SystemQty]
    /\ UNCHANGED <<pos, exitVars, tracked, buying, rst, count>>

\* _load_active_tracking.
RecTrack ==
    /\ rec.pc = "track"
    /\ rec' = [rec EXCEPT !.pc = "apply", !.trk = tracked]
    /\ UNCHANGED <<pos, exitVars, tracked, buying, rst, count>>

\* Slip: the system's own rows are drained before the user's.
ApplyPartialSellSystemFirst(k) ==
    LET qty  == [p \in Pos |-> pos[p].qty]
        a    == QtyIn({"SYSTEM_A"})
        b    == QtyIn({"SYSTEM_B"})
        sys  == Smaller(k, a + b)
        s    == IF a + b = 0 THEN [a |-> 0, b |-> 0] ELSE Split(sys, a, b)
        m    == Smaller(k - sys, QtyIn({"MANUAL"}))
        take == [p \in Pos |-> Drained(ActiveOf({"MANUAL"}), qty, m)[p]
                               + Drained(ActiveOf({"SYSTEM_A"}), qty, s.a)[p]
                               + Drained(ActiveOf({"SYSTEM_B"}), qty, s.b)[p]]
    IN  pos' = [p \in Pos |-> Reduced(pos[p], take[p])]

\* Case B, on locked rows: the user's shares first, then the two paths in
\* proportion; a rest that no row can give is only logged.
ApplyPartialSell(k) ==
    LET qty  == [p \in Pos |-> pos[p].qty]
        a    == QtyIn({"SYSTEM_A"})
        b    == QtyIn({"SYSTEM_B"})
        m    == Smaller(k, QtyIn({"MANUAL"}))
        s    == IF a + b = 0 THEN [a |-> 0, b |-> 0] ELSE Split(Smaller(k - m, a + b), a, b)
        take == [p \in Pos |-> Drained(ActiveOf({"MANUAL"}), qty, m)[p]
                               + Drained(ActiveOf({"SYSTEM_A"}), qty, s.a)[p]
                               + Drained(ActiveOf({"SYSTEM_B"}), qty, s.b)[p]]
    IN  pos' = [p \in Pos |-> Reduced(pos[p], take[p])]

\* Case D: what the account holds becomes a MANUAL row.
ApplyManualInsert(k) == \E pr \in Price : AddPosition("MANUAL", k, pr)

\* Cases A and C are announced to callbacks nobody registered.
RecApply ==
    LET case == Case(rec.bal, rec.sys, rec.trk)
    IN  /\ rec.pc = "apply"
        /\ \/ case \in {"A", "C", "E"} /\ UNCHANGED pos
           \/ case = "B" /\ ApplyPartialSell(rec.sys - rec.bal)
           \/ case = "D" /\ ApplyManualInsert(rec.bal)
        /\ rec' = Idle
        /\ UNCHANGED <<exitVars, tracked, buying, rst, count>>

\* The balance, a query or the stock's transaction fails: until the next run.
RecFails ==
    /\ rec.pc # "idle"
    /\ Upset
    /\ rec' = Idle
    /\ UNCHANGED <<pos, exitVars, tracked, buying, rst>>

-----------------------------------------------------------------------------
(* The reconciliation of a restart.                                         *)

\* _fetch_broker_balances: no holdings when the call fails, or when the
\* response is not the dictionary it looks for.
RstFetch ==
    /\ rst.pc = "fetch"
    /\ \E b \in {0} \cup (IF BalanceParsed THEN {held} ELSE {}) :
          rst' = [rst EXCEPT !.pc = "load", !.bal = b]
    /\ UNCHANGED <<pos, exitVars, tracked, buying, rec, count>>

\* list_open.
RstLoad ==
    /\ rst.pc = "load"
    /\ rst' = [rst EXCEPT !.pc = "apply",
                          !.snap = [p \in Pos |-> IF Active(pos[p]) THEN pos[p].qty ELSE 0]]
    /\ UNCHANGED <<pos, exitVars, tracked, buying, rec, count>>

Listed(src) == {p \in Pos : rst.snap[p] > 0 /\ pos[p].src = src}

\* The first row of a path in the listing (the newest), and its shares.
First(src) == IF Listed(src) = {} THEN 0 ELSE Max(Listed(src))

FirstQty(src) == IF Listed(src) = {} THEN 0 ELSE rst.snap[First(src)]

\* _choose_target_path: the larger path, PATH_A on a tie, MANUAL if neither.
TargetOfAdd ==
    IF Listed("SYSTEM_A") = {} /\ Listed("SYSTEM_B") = {} THEN First("MANUAL")
    ELSE IF FirstQty("SYSTEM_A") >= FirstQty("SYSTEM_B") THEN First("SYSTEM_A")
    ELSE First("SYSTEM_B")

\* What a listed MANUAL row gives: its locked shares, or those of the listing
\* when it is no longer active.
ManualCap == [p \in Pos |-> IF Active(pos[p]) THEN pos[p].qty ELSE rst.snap[p]]

\* Scenario B: MANUAL rows as listed, then the first row of each path in the
\* proportion of the listing.
RstTake(k) ==
    LET M == Listed("MANUAL")
        m == Drained(M, ManualCap, k)
        left == k - Smaller(k, SumFunctionOnSet(ManualCap, M))
        s == IF left = 0 THEN [a |-> 0, b |-> 0]
             ELSE Split(left, FirstQty("SYSTEM_A"), FirstQty("SYSTEM_B"))
    IN  [p \in Pos |-> m[p] + (IF p = First("SYSTEM_A") THEN s.a ELSE 0)
                            + (IF p = First("SYSTEM_B") THEN s.b ELSE 0)]

\* The split asks no more than the two rows it saw.
Splittable(k) ==
    k - Smaller(k, SumFunctionOnSet(ManualCap, Listed("MANUAL")))
        <= FirstQty("SYSTEM_A") + FirstQty("SYSTEM_B")

\* Slip: apply_sell takes more than the row has.
HandleBUnchecked(k) ==
    pos' = [p \in Pos |-> IF RstTake(k)[p] = 0 THEN pos[p]
                          ELSE AfterSell(pos[p], RstTake(k)[p], "MANUAL_SELL")]

\* One transaction: every apply_sell is possible, or all of it rolls back.
HandleB(k) ==
    pos' = IF Splittable(k) /\ \A p \in Pos : RstTake(k)[p] <= pos[p].qty
           THEN [p \in Pos |-> IF RstTake(k)[p] = 0 THEN pos[p]
                               ELSE AfterSell(pos[p], RstTake(k)[p], "MANUAL_SELL")]
           ELSE pos

\* Scenario A: the added shares go to one listed row; D: a new MANUAL row.
HandleA(k) == \E pr \in Price : ApplyBuy(TargetOfAdd, k, pr)

HandleD(k) == \E pr \in Price : AddPosition("MANUAL", k, pr)

\* list_tracked_for_stock is a stub that returns nothing: C never happens.
RstApply ==
    LET sys  == SumFunctionOnSet(rst.snap, Pos)
        case == Case(rst.bal, sys, FALSE)
    IN  /\ rst.pc = "apply"
        /\ \/ case = "E" /\ UNCHANGED pos
           \/ case = "A" /\ HandleA(rst.bal - sys)
           \/ case = "B" /\ HandleB(sys - rst.bal)
           \/ case = "D" /\ HandleD(rst.bal)
        /\ rst' = IdleRst
        /\ UNCHANGED <<exitVars, tracked, buying, rec, count>>

\* The database fails: noted in the report, nothing written.  The restart was
\* the upset.
RstFails ==
    /\ rst.pc # "idle"
    /\ rst' = IdleRst
    /\ UNCHANGED <<pos, exitVars, tracked, buying, rec, count>>

-----------------------------------------------------------------------------
(* The rest of the system, the user and the market.                         *)

\* A buy sequence of the executor ends with shares in the account.
SystemBuys(src, k) ==
    /\ count.buys < MaxBuys
    /\ buying = NoBuy
    /\ tracked
    /\ held' = held + k
    /\ buying' = [src |-> src, qty |-> k]
    /\ count' = [count EXCEPT !.buys = @ + 1]
    /\ UNCHANGED <<pos, price, sell, ex, booked, tracked, rec, rst>>

\* _finalize_buy writes the row, or its transaction fails for good.
BuyRecorded ==
    /\ buying # NoBuy
    /\ AddPosition(buying.src, buying.qty, price) \/ UNCHANGED pos
    /\ buying' = NoBuy
    /\ UNCHANGED <<exitVars, tracked, rec, rst, count>>

\* The user trades the stock in another program.
UserTrades ==
    /\ held' = held + 1 \/ (Sellable > 0 /\ held' = held - 1)
    /\ Upset
    /\ UNCHANGED <<pos, price, sell, ex, booked, tracked, buying, rec, rst>>

StopTracking ==
    /\ tracked
    /\ tracked' = FALSE
    /\ Upset
    /\ UNCHANGED <<pos, exitVars, buying, rec, rst>>

PriceMoves ==
    /\ price' \in Price \ {price}
    /\ UNCHANGED <<pos, held, sell, ex, booked, restVars>>

\* The process restarts: what was in memory is gone, and the recovery's third
\* step reconciles while the other tasks run again.
Crash ==
    /\ Upset
    /\ ex' = IdleEval
    /\ buying' = NoBuy
    /\ rec' = Idle
    /\ rst' = [IdleRst EXCEPT !.pc = "fetch"]
    /\ UNCHANGED <<pos, price, held, sell, booked, tracked>>

ExitStep == (Tick \/ Evaluate) /\ UNCHANGED restVars

BrokerStep ==
    /\ \E o \in Order : BrokerSells(o) \/ FillDispatched(o)
    /\ UNCHANGED <<pos, restVars>>

Reconcile == RecFetch \/ RecLoad \/ RecTrack \/ RecApply \/ RecFails

Restart == RstFetch \/ RstLoad \/ RstApply \/ RstFails

Next ==
    \/ ExitStep \/ BrokerStep \/ Reconcile \/ Restart
    \/ \E src \in BuyPath, k \in BuyQty : SystemBuys(src, k)
    \/ BuyRecorded \/ UserTrades \/ StopTracking \/ PriceMoves \/ Crash

Spec == Init /\ [][Next]_vars

(* Requests and statements answer or time out, so a started evaluation or   *)
(* reconciliation goes on, and the reconciler loop starts the next run; a   *)
(* run can fail, but no more than MaxUpsets of them do.                     *)
FairSpec ==
    /\ Spec
    /\ WF_vars(ExitStep)
    /\ WF_vars(Reconcile)
    /\ WF_vars(Restart)
    /\ WF_vars(BuyRecorded)

-----------------------------------------------------------------------------
(* Properties.                                                              *)

(* Every variable has its type.                                             *)
TypeOK ==
    /\ LedgerTypeOK
    /\ ExitTypeOK
    /\ tracked \in BOOLEAN
    /\ buying \in [src : Source, qty : Nat]
    /\ rec \in [pc : {"idle", "load", "track", "apply"}, bal : Nat, sys : Nat, trk : BOOLEAN]
    /\ rst \in [pc : {"idle", "fetch", "load", "apply"}, bal : Nat, snap : [Pos -> Nat]]
    /\ count \in [buys : Nat, upsets : Nat]

(* An open position's stop is the one its average price and its executed    *)
(* profit-takes call for, and +10 % was never taken before +5 %, whatever   *)
(* order exits, reconcilers and add-buys wrote the row in.                  *)
StopOnLadder ==
    \A p \in Pos : Active(pos[p]) =>
        /\ pos[p].stop = Stage(pos[p].p5, pos[p].p10, pos[p].avg)
        /\ pos[p].p10 => pos[p].p5

(* The executor never writes off more shares than its orders have sold, in  *)
(* spite of partial fills, orders judged by a lagging row, refused cancels  *)
(* and restarts in the middle of a sale.                                    *)
BookedWithinSold == booked <= SumFunction([o \in Order |-> sell[o].filled])

(* A manual sale seen by the periodic reconciler costs the system's own     *)
(* positions nothing while the user's MANUAL positions can give the shares. *)
ManualFirst ==
    [][rec.pc = "apply" /\ rec'.pc = "idle" =>
          \/ \A p \in Pos : pos[p].src = "MANUAL" \/ pos'[p].qty >= pos[p].qty
          \/ \A p \in Pos : pos'[p].src = "MANUAL" => ~Active(pos'[p])]_vars

(* A run of the periodic reconciler that lowers the ledger lowers it by     *)
(* exactly what it saw missing, as long as the rows have that many shares:  *)
(* the rounding of the two paths loses and invents nothing.                 *)
DrainExact ==
    [][rec.pc = "apply" /\ rec'.pc = "idle" /\ SystemQty' < SystemQty =>
          SystemQty' = (IF SystemQty > rec.sys - rec.bal
                        THEN SystemQty - (rec.sys - rec.bal) ELSE 0)]_vars

(* The ledger implements the life of a position in PositionContract.        *)
Rung(r) == IF r.p10 THEN 3 ELSE IF r.p5 THEN 2 ELSE 1

Life(r) ==
    IF r.status = "absent" THEN [phase |-> "unborn", shares |-> 0, rung |-> 0]
    ELSE [phase  |-> IF Active(r) THEN "live" ELSE "closed",
          shares |-> r.qty, rung |-> Rung(r)]

Contract == INSTANCE PositionContract
                WITH Pos <- Pos, life <- [p \in Pos |-> Life(pos[p])]

ImplementsContract == Contract!Spec

(* A ledger that claims more shares than the account has comes down to them *)
(* again: a lost sale is found by a later reconciliation.                   *)
Overstated == SystemQty > held

OverstatedHeals == Overstated ~> ~Overstated

(* trading_bridge.py, _build_restart_recovery: "Step 3 reconciles broker    *)
(* balance vs DB positions".  A ledger that agrees with the account is then *)
(* left as it is.                                                           *)
RestartKeepsHoldings ==
    [][rst.pc = "apply" /\ rst'.pc = "idle" /\ SystemQty = held => SystemQty' = SystemQty]_vars

=============================================================================
