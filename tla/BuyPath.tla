------------------------------- MODULE BuyPath -------------------------------
(***************************************************************************)
(* V71BoxEntryDetector and V71BuyExecutor on one stock: from a completed    *)
(* bar to a position row.  Two tasks run buys.  The "ws" task is the        *)
(* websocket receive loop: it awaits a bar's subscribers in place, so a     *)
(* PATH_A buy runs inside it and no other message is dispatched meanwhile.  *)
(* The "eod" task is the daily-candle scheduler, which runs PATH_B buys.    *)
(* Every await of the code ends an action; the user, the broker and the     *)
(* other task may step in between.                                          *)
(***************************************************************************)
EXTENDS OrderBook, Functions

CONSTANTS
    PathBBox,       \* the boxes whose path_type is PATH_B; the others are PATH_A
    Target,         \* shares a decision asks for (_compute_target_quantity)
    RetryCount,     \* V71Constants.ORDER_RETRY_COUNT, limit attempts
    TimesComparable,\* have a decision's buy times a time zone if the clock has?
    MaxDecisions,   \* bound: entry decisions on all boxes
    MaxCrashes      \* bound: process restarts

ASSUME BuyPathAssumption ==
    /\ PathBBox \subseteq Box
    /\ Target \in Nat \ {0}
    /\ RetryCount \in Nat
    /\ TimesComparable \in BOOLEAN
    /\ MaxDecisions \in Nat
    /\ MaxCrashes \in Nat

VARIABLES
    frame,      \* the detector and executor frames of each task
    box,        \* support_boxes.status
    posn,       \* v71_positions rows whose triggered_box_id is the box
    cooldown,   \* _cooldown_until of the detectors: is the box blocked?
    decisions,  \* history: entry decisions taken for each box
    crashes     \* history: restarts so far

vars == <<broker, rows, stream, bought,
          frame, box, posn, cooldown, decisions, crashes>>

Task == {"ws", "eod"}

PC == {"idle", "scan", "wait", "check", "limit", "market", "insert", "judge",
       "cancel", "recheck", "commit", "compensate"}

BoxStatus == {"WAITING", "TRIGGERED", "INVALIDATED", "CANCELLED"}

(* todo: boxes of the bar not looked at yet; box: the box being bought;     *)
(* tries: limit attempts left; want, got: quantity asked of and counted by  *)
(* the current _buy_sequence; kept: shares carried over from the 09:01      *)
(* sequence; market, fallback: which order, which sequence; ord: the order  *)
(* in flight.                                                               *)
Frame == [pc : PC, todo : SUBSET Box, box : Box \cup {NoBox}, tries : Nat,
          want : Nat, got : Nat, kept : Nat, ord : Order \cup {NoOrder},
          market : BOOLEAN, fallback : BOOLEAN]

IdleFrame == [pc |-> "idle", todo |-> {}, box |-> NoBox, tries |-> 0,
              want |-> 0, got |-> 0, kept |-> 0, ord |-> NoOrder,
              market |-> FALSE, fallback |-> FALSE]

BoxesOf(t) == IF t = "eod" THEN PathBBox ELSE Box \ PathBBox

Init ==
    /\ BookInit
    /\ frame = [t \in Task |-> IdleFrame]
    /\ box = [b \in Box |-> "WAITING"]
    /\ posn = [b \in Box |-> [rows |-> 0, qty |-> 0]]
    /\ cooldown = [b \in Box |-> FALSE]
    /\ decisions = [b \in Box |-> 0]
    /\ crashes = 0

-----------------------------------------------------------------------------
(* Where a frame goes next.                                                 *)

\* on_entry has returned or raised: back to the detector's loop.
Leave(f) == [IdleFrame EXCEPT !.pc = "scan", !.todo = f.todo]

\* Slip: the count of the 09:01 sequence is not reset.
DeferStillCounting(f, k) ==
    [f EXCEPT !.pc = "recheck", !.fallback = TRUE, !.kept = k, !.want = 0,
              !.tries = 0, !.ord = NoOrder, !.market = FALSE]

\* Wait for 09:05 with k shares in hand.
DeferToFallback(f, k) ==
    [f EXCEPT !.pc = "recheck", !.fallback = TRUE, !.kept = k, !.want = 0,
              !.got = 0, !.tries = 0, !.ord = NoOrder, !.market = FALSE]

IsPrimaryB(f) == f.box \in PathBBox /\ ~f.fallback

\* Slip: a buy without fills is finalized.
SettleEmpty(f) ==
    IF IsPrimaryB(f) /\ f.got # f.want THEN DeferToFallback(f, f.got)
    ELSE [f EXCEPT !.pc = "commit", !.ord = NoOrder, !.market = FALSE, !.tries = 0]

\* _buy_sequence returned.
Settle(f) ==
    IF IsPrimaryB(f) /\ f.got # f.want THEN DeferToFallback(f, f.got)
    ELSE IF f.kept + f.got = 0 THEN Leave(f)
    ELSE [f EXCEPT !.pc = "commit", !.ord = NoOrder, !.market = FALSE, !.tries = 0]

\* Slip: one attempt too many.
NextOrderOneMore(f) ==
    IF f.got >= f.want THEN Settle(f)
    ELSE IF f.tries >= 0
         THEN [f EXCEPT !.pc = "limit", !.tries = @ - 1, !.ord = NoOrder]
    ELSE [f EXCEPT !.pc = "market", !.ord = NoOrder, !.market = TRUE]

\* The head of the attempt loop, and the market order after it.
NextOrder(f) ==
    IF f.got >= f.want THEN Settle(f)
    ELSE IF f.tries > 0
         THEN [f EXCEPT !.pc = "limit", !.tries = @ - 1, !.ord = NoOrder]
    ELSE [f EXCEPT !.pc = "market", !.ord = NoOrder, !.market = TRUE]

\* An exception leaves _buy_sequence with the fills it had counted: the
\* broker-API family defers a PATH_B primary to 09:05, the rest end the buy.
Raise(f, e) ==
    IF e = "api" /\ IsPrimaryB(f) THEN DeferToFallback(f, 0) ELSE Leave(f)

Failure == {"rejected", "api", "other"}

Goto(t, f) == frame' = [frame EXCEPT ![t] = f]

SumOf(f) == FoldFunction(LAMBDA m, n : m + n, 0, f)

\* on_entry_decision: PATH_A is bought at once, PATH_B on the next morning.
Decided(f, b) == [f EXCEPT !.pc = IF b \in PathBBox THEN "wait" ELSE "check",
                           !.todo = @ \ {b}, !.box = b]

-----------------------------------------------------------------------------
(* V71BoxEntryDetector.                                                     *)

ListWaiting(t) == {b \in BoxesOf(t) : box[b] = "WAITING"}

StartScan(t) ==
    /\ frame[t].pc = "idle"
    /\ ListWaiting(t) # {}
    /\ Goto(t, [IdleFrame EXCEPT !.pc = "scan", !.todo = ListWaiting(t)])

\* The receive loop dispatches a tick that completes a bar; subscribers are
\* awaited in place.  With no waiting box check_entry returns at once.
BarComplete ==
    /\ stream # <<>>
    /\ Head(stream).kind = "bar"
    /\ frame["ws"].pc = "idle"
    /\ StartScan("ws") \/ (ListWaiting("ws") = {} /\ UNCHANGED frame)
    /\ stream' = Tail(stream)
    /\ UNCHANGED <<broker, rows, bought, box, posn, cooldown, decisions, crashes>>

\* fetch_eod_for_all has a new daily candle.
EodBar ==
    /\ StartScan("eod")
    /\ UNCHANGED <<bookVars, box, posn, cooldown, decisions, crashes>>

\* An order event reaches its handler once the loop is not inside a buy.
OrderEvent ==
    /\ frame["ws"].pc = "idle"
    /\ OnOrderEvent
    /\ UNCHANGED <<frame, box, posn, cooldown, decisions, crashes>>

\* The next box of the bar is passed over: in cooldown, or no entry signal.
SkipBox(t) ==
    /\ frame[t].pc = "scan"
    /\ \E b \in frame[t].todo : Goto(t, [frame[t] EXCEPT !.todo = @ \ {b}])
    /\ UNCHANGED <<bookVars, box, posn, cooldown, decisions, crashes>>

\* Slip: the cooldown is not looked at.
EnterCoolingBox(t) ==
    /\ frame[t].pc = "scan"
    /\ \E b \in frame[t].todo :
         /\ SumOf(decisions) < MaxDecisions
         /\ decisions' = [decisions EXCEPT ![b] = @ + 1]
         /\ Goto(t, Decided(frame[t], b))
    /\ UNCHANGED <<bookVars, box, posn, cooldown, crashes>>

\* The next box of the bar gets a positive decision, taken from the record
\* the bar's query returned, whatever has become of the box since.
EnterBox(t) ==
    /\ frame[t].pc = "scan"
    /\ \E b \in frame[t].todo :
         /\ ~cooldown[b]
         /\ SumOf(decisions) < MaxDecisions
         /\ decisions' = [decisions EXCEPT ![b] = @ + 1]
         /\ Goto(t, Decided(frame[t], b))
    /\ UNCHANGED <<bookVars, box, posn, cooldown, crashes>>

ScanDone(t) ==
    /\ frame[t].pc = "scan"
    /\ frame[t].todo = {}
    /\ Goto(t, IdleFrame)
    /\ UNCHANGED <<bookVars, box, posn, cooldown, decisions, crashes>>

-----------------------------------------------------------------------------
(* V71BuyExecutor.                                                          *)

ExecutorKeeps == UNCHANGED <<bookVars, box, posn, cooldown, decisions, crashes>>

BeginSequence(t) ==
    Goto(t, NextOrder([frame[t] EXCEPT !.want = Target, !.tries = RetryCount]))

\* The difference of a time with a zone and one without raises TypeError; the
\* detector logs it.
AfterWait(f) == IF TimesComparable THEN [f EXCEPT !.pc = "check"] ELSE Leave(f)

\* clock.sleep_until(expected_buy_at), over night.
NextMorning(t) ==
    /\ frame[t].pc = "wait"
    /\ Goto(t, AfterWait(frame[t]))
    /\ ExecutorKeeps

\* Gap-up (PATH_B), cap, VI (PATH_A) and quantity.
Check(t) ==
    /\ frame[t].pc = "check"
    /\ BeginSequence(t) \/ Goto(t, Leave(frame[t]))
    /\ ExecutorKeeps

\* No ask depth: straight to the market order.
NoAsk(t) ==
    /\ frame[t].pc = "limit"
    /\ Goto(t, [frame[t] EXCEPT !.pc = "market", !.market = TRUE, !.tries = 0])
    /\ ExecutorKeeps

\* send_order: the broker takes the order and its answer arrives.
SendOrder(t) ==
    /\ frame[t].pc \in {"limit", "market"}
    /\ \E o \in Order :
         /\ Accept(o, frame[t].box, frame[t].want - frame[t].got)
         /\ Goto(t, [frame[t] EXCEPT !.pc = "insert", !.ord = o])
    /\ UNCHANGED <<rows, stream, bought, box, posn, cooldown, decisions, crashes>>

\* send_order: the broker takes the order and its answer is lost.
SendUnanswered(t) ==
    /\ frame[t].pc \in {"limit", "market"}
    /\ \E o \in Order : Accept(o, frame[t].box, frame[t].want - frame[t].got)
    /\ Goto(t, Raise(frame[t], "api"))
    /\ UNCHANGED <<rows, stream, bought, box, posn, cooldown, decisions, crashes>>

\* get_orderbook or send_order fails and the broker has no order.
SendFails(t) ==
    /\ frame[t].pc \in {"limit", "market"}
    /\ \E e \in Failure : Goto(t, Raise(frame[t], e))
    /\ ExecutorKeeps

\* submit_order's INSERT commits, or the database fails.
Insert(t) ==
    /\ frame[t].pc = "insert"
    /\ \/ /\ InsertRow(frame[t].ord)
          /\ Goto(t, [frame[t] EXCEPT !.pc = "judge"])
       \/ /\ Goto(t, Raise(frame[t], "other"))
          /\ UNCHANGED rows
    /\ UNCHANGED <<broker, stream, bought, box, posn, cooldown, decisions, crashes>>

CountFill(f) == [f EXCEPT !.got = @ + rows[f.ord].filled]

AfterCount(f) ==
    IF f.market THEN Settle(f)
    ELSE IF IsOpen(f.ord) /\ f.got < f.want THEN [f EXCEPT !.pc = "cancel"]
    ELSE NextOrder(f)

\* Slip: the row is asked for until an event has closed it.
JudgeWhenClosed(t) ==
    /\ frame[t].pc = "judge"
    /\ ~IsOpen(frame[t].ord)
    /\ \/ Goto(t, AfterCount(CountFill(frame[t])))
       \/ Goto(t, Raise(frame[t], "other"))
    /\ ExecutorKeeps

\* After the wait, get_order_status answers from the v71_orders row.
Judge(t) ==
    /\ frame[t].pc = "judge"
    /\ \/ Goto(t, AfterCount(CountFill(frame[t])))
       \/ Goto(t, Raise(frame[t], "other"))
    /\ ExecutorKeeps

\* cancel_order on what was judged unfilled.  A refusal or a lost answer is
\* suppressed; a database failure around the request is not.
Cancel(t) ==
    /\ frame[t].pc = "cancel"
    /\ \/ /\ BrokerCancel(frame[t].ord)
          /\ UNCHANGED <<rows, bought>>
       \/ UNCHANGED bookVars
    /\ Goto(t, NextOrder(frame[t])) \/ Goto(t, Raise(frame[t], "other"))
    /\ UNCHANGED <<box, posn, cooldown, decisions, crashes>>

\* Slip: the fallback buys the whole target again.
BeginFallbackAfresh(t) ==
    LET f == frame[t] IN Goto(t, NextOrder([f EXCEPT !.want = Target]))

BeginFallback(t) ==
    LET f == frame[t] IN Goto(t, NextOrder([f EXCEPT !.want = Target - f.kept]))

\* 09:05: gap-up and cap again.  An abandoned fallback, or one whose price
\* query fails, leaves with whatever the 09:01 sequence had bought.
Recheck(t) ==
    /\ frame[t].pc = "recheck"
    /\ BeginFallback(t) \/ Goto(t, Leave(frame[t]))
    /\ ExecutorKeeps

-----------------------------------------------------------------------------
(* _finalize_buy: one transaction inserts the position and marks the box.   *)

Recorded(t) == frame[t].kept + frame[t].got

\* Slip: the position is written whether or not the box can be marked.
AddThenTrigger(t) ==
    LET b == frame[t].box
    IN  /\ posn' = [posn EXCEPT ![b] = [rows |-> @.rows + 1,
                                        qty |-> @.qty + Recorded(t)]]
        /\ box' = [box EXCEPT ![b] = IF @ = "WAITING" THEN "TRIGGERED" ELSE @]

\* add_position and mark_triggered commit; the box must be WAITING.
AddAndTrigger(t) ==
    LET b == frame[t].box
    IN  /\ box[b] = "WAITING"
        /\ posn' = [posn EXCEPT ![b] = [rows |-> @.rows + 1,
                                        qty |-> @.qty + Recorded(t)]]
        /\ box' = [box EXCEPT ![b] = "TRIGGERED"]

Commit(t) ==
    /\ frame[t].pc = "commit"
    /\ AddAndTrigger(t)
    /\ Goto(t, Leave(frame[t]))
    /\ UNCHANGED <<bookVars, cooldown, decisions, crashes>>

\* The transaction raises: the box is no longer WAITING, a write conflicts or
\* the database fails; or it committed and the acknowledgement was lost.
CommitFails(t) ==
    /\ frame[t].pc = "commit"
    /\ AddAndTrigger(t) \/ UNCHANGED <<posn, box>>
    /\ cooldown' = [cooldown EXCEPT ![frame[t].box] = TRUE]
    /\ Goto(t, [frame[t] EXCEPT !.pc = "compensate"])
    /\ UNCHANGED <<bookVars, decisions, crashes>>

\* Slip: the box is invalidated whatever its status.
CompensateAnyway(t) ==
    /\ frame[t].pc = "compensate"
    /\ box' = [box EXCEPT ![frame[t].box] = "INVALIDATED"]
    /\ Goto(t, Leave(frame[t]))
    /\ UNCHANGED <<bookVars, posn, cooldown, decisions, crashes>>

\* mark_invalidated in a transaction of its own, its failure swallowed.
Compensate(t) ==
    LET b == frame[t].box
    IN  /\ frame[t].pc = "compensate"
        /\ \/ box[b] = "WAITING" /\ box' = [box EXCEPT ![b] = "INVALIDATED"]
           \/ UNCHANGED box
        /\ Goto(t, Leave(frame[t]))
        /\ UNCHANGED <<bookVars, posn, cooldown, decisions, crashes>>

-----------------------------------------------------------------------------
(* Other actors.                                                            *)

\* The user's delete, or the sweep after a full exit, cancels a waiting box;
\* a detected manual buy invalidates it.
CloseBox(b) ==
    /\ box[b] = "WAITING"
    /\ \E s \in {"CANCELLED", "INVALIDATED"} : box' = [box EXCEPT ![b] = s]
    /\ UNCHANGED <<bookVars, frame, posn, cooldown, decisions, crashes>>

CooldownExpires(b) ==
    /\ cooldown[b]
    /\ cooldown' = [cooldown EXCEPT ![b] = FALSE]
    /\ UNCHANGED <<bookVars, frame, box, posn, decisions, crashes>>

\* The broker and the network.
Environment ==
    /\ \/ \E o \in Order : \E k \in 1 .. broker[o].qty : BrokerFill(o, k)
       \/ \E o \in Order : BrokerReject(o)
       \/ BarArrives
       \/ StreamLost
    /\ UNCHANGED <<frame, box, posn, cooldown, decisions, crashes>>

\* The process restarts: tables survive, frames, cooldowns and messages do not.
Crash ==
    /\ crashes < MaxCrashes
    /\ crashes' = crashes + 1
    /\ frame' = [t \in Task |-> IdleFrame]
    /\ cooldown' = [b \in Box |-> FALSE]
    /\ stream' = <<>>
    /\ UNCHANGED <<broker, rows, bought, box, posn, decisions>>

-----------------------------------------------------------------------------

Detect(t) == SkipBox(t) \/ EnterBox(t) \/ ScanDone(t)

Buy(t) ==
    \/ NextMorning(t) \/ Check(t) \/ NoAsk(t)
    \/ SendOrder(t) \/ SendUnanswered(t) \/ SendFails(t) \/ Insert(t)
    \/ Judge(t) \/ Cancel(t) \/ Recheck(t)
    \/ Commit(t) \/ CommitFails(t) \/ Compensate(t)

Next ==
    \/ BarComplete \/ EodBar \/ OrderEvent
    \/ \E t \in Task : Detect(t) \/ Buy(t)
    \/ \E b \in Box : CloseBox(b) \/ CooldownExpires(b)
    \/ Environment
    \/ Crash

Spec == Init /\ [][Next]_vars

(* A started frame is resumed by the event loop: sleeps end, and requests   *)
(* and statements answer or time out.                                       *)
Resumed(t) == WF_vars(Detect(t) \/ Buy(t))

LoopSpec == Spec /\ Resumed("ws")

FairSpec == Spec /\ \A t \in Task : Resumed(t)

-----------------------------------------------------------------------------
(* Properties.                                                              *)

(* Every variable has its type.                                             *)
TypeOK ==
    /\ BookTypeOK
    /\ frame \in [Task -> Frame]
    /\ box \in [Box -> BoxStatus]
    /\ posn \in [Box -> [rows : Nat, qty : Nat]]
    /\ cooldown \in [Box -> BOOLEAN]
    /\ decisions \in [Box -> Nat]
    /\ crashes \in Nat

(* Whatever fails, races or restarts around _finalize_buy, a box is         *)
(* TRIGGERED exactly when one position row names it, and never two do: no   *)
(* orphan position and no orphan box.                                       *)
TriggerAtomic ==
    \A b \in Box : posn[b].rows = (IF box[b] = "TRIGGERED" THEN 1 ELSE 0)

(* A position never claims shares the broker did not buy for its box: no    *)
(* execution is counted twice on the way from the stream through the order  *)
(* row, two sequences and the merge of their fills to the position.         *)
NoPhantomShares == \A b \in Box : posn[b].qty <= bought[b]

(* A position never holds more than its decision asked for, also when the   *)
(* 09:05 market order completes a partly filled 09:01 sequence.             *)
PositionWithinTarget == \A b \in Box : posn[b].qty <= Target

(* An order row never reports more than the broker has filled, whatever was *)
(* lost or is still in the stream.                                          *)
RowsBehindBroker == \A o \in Order : rows[o].filled <= broker[o].filled

(* A box that left WAITING never changes again, though user, detector,      *)
(* compensation and reconciler all write its status.                        *)
TerminalBoxFinal ==
    [][\A b \in Box : box[b] # "WAITING" => box'[b] = box[b]]_vars

(* A box in its compensation cooldown gets no further order: the retry loop *)
(* the cooldown exists to prevent cannot start.                             *)
CooldownBlocksOrders ==
    [][\A b \in Box : cooldown[b] =>
          \A o \in Order : Fresh(o) => broker'[o].box # b]_vars

(* The receive loop awaits a PATH_A buy in place while the order's own      *)
(* events queue behind it, and returns to its stream all the same: no step  *)
(* of a buy waits for one of them, or for the other task.                   *)
LoopReturns == []<>(frame["ws"].pc = "idle")

(* The buying side implements the contract of BoxContract.                  *)
Contract == INSTANCE BoxContract

ImplementsContract == Contract!Spec

(* v71_buy_executor.py, at the cancel: "Cancel before next attempt so we    *)
(* don't double-fill."  One decision then never buys more than its target.  *)
NoDoubleFill == \A b \in Box : bought[b] <= Target * decisions[b]

(* v71_buy_executor.py, responsibilities: "On fill: mark box TRIGGERED,     *)
(* persist position".  A fallback that holds shares of the 09:01 sequence   *)
(* then does not end without a position.                                    *)
FillsPersisted ==
    [][\A t \in Task :
          frame[t].pc = "recheck" /\ frame[t].kept > 0 /\ frame'[t].pc = "scan"
          => posn'[frame[t].box].rows = 1]_vars

(* v71_buy_executor.py, _execute_path_b_primary: "Wait until 09:01 of next  *)
(* trading day."  Then every PATH_B decision comes to the checks of that    *)
(* morning, as long as the process lives.                                   *)
MorningComes == \A t \in Task : frame[t].pc = "wait" ~> frame[t].pc = "check"

=============================================================================
