---------------------------- MODULE BuyPathProofs ----------------------------
(***************************************************************************)
(* The safety of BuyPath for every set of orders and boxes, every target,   *)
(* retry count and bound, proved with the TLA+ proof system.                *)
(***************************************************************************)
EXTENDS BuyPath, TLAPS

-----------------------------------------------------------------------------
(* The inductive invariant.                                                 *)

(* The broker fills no more than the order asks, has nothing on numbers it  *)
(* has not handed out, and is never behind the order's row.                 *)
OrderOK(p, r) ==
    /\ p.filled <= p.qty
    /\ r.filled <= p.filled
    /\ p.live => p.box \in Box
    /\ p.box = NoBox => p.filled = 0

(* A fill event in the stream reports shares that the broker (brk) has      *)
(* filled and that the order's row (in rws) has not counted.                *)
EventOK(m, brk, rws) ==
    m.kind # "bar" =>
        /\ m.ord \in Order
        /\ brk[m.ord].box # NoBox
        /\ m.kind = "fill" =>
             /\ rws[m.ord].filled + m.qty + m.left <= brk[m.ord].qty
             /\ brk[m.ord].qty <= brk[m.ord].filled + m.left

(* Of two fill events of an order, the later one starts where the earlier   *)
(* one ended.                                                               *)
InOrder(m, n) ==
    m.kind = "fill" /\ n.kind = "fill" /\ m.ord = n.ord
        => n.qty + n.left <= m.left

BookOK ==
    /\ \A o \in Order : OrderOK(broker[o], rows[o])
    /\ \A i \in 1 .. Len(stream) : EventOK(stream[i], broker, rows)
    /\ \A i, j \in 1 .. Len(stream) : i < j => InOrder(stream[i], stream[j])

(* The shares a frame has counted were bought (bgt) for its box and stay    *)
(* within the target; only a fallback carries shares over.                  *)
Buying(f) == f.pc \notin {"idle", "scan"}

CountsOK(f, bgt) ==
    /\ f.got <= f.want
    /\ f.kept + f.want <= Target
    /\ f.fallback \/ f.kept = 0
    /\ Buying(f) => f.box \in Box /\ f.kept + f.got <= bgt[f.box]

PlaceOK(f) ==
    /\ ~Buying(f) \/ f.pc \in {"wait", "check"} => f.want = 0 /\ f.kept = 0
    /\ f.pc = "recheck" => f.want = 0
    /\ f.pc = "commit" => f.kept + f.got > 0

(* What the order in flight (in the book brk) may still add was bought too. *)
InFlightOK(f, brk, bgt) ==
    /\ f.pc \in {"insert", "judge", "cancel"} =>
         f.ord \in Order /\ brk[f.ord].box = f.box
    /\ f.pc \in {"insert", "judge"} =>
         /\ f.got + brk[f.ord].qty = f.want
         /\ f.kept + f.got + brk[f.ord].filled <= bgt[f.box]

FrameOK(f, brk, bgt) ==
    f \in Frame /\ CountsOK(f, bgt) /\ PlaceOK(f) /\ InFlightOK(f, brk, bgt)

FramesOK == \A t \in Task : FrameOK(frame[t], broker, bought)

PositionsOK ==
    \A b \in Box :
        /\ posn[b].rows = (IF box[b] = "TRIGGERED" THEN 1 ELSE 0)
        /\ posn[b].rows = 0 => posn[b].qty = 0
        /\ posn[b].qty <= bought[b]
        /\ posn[b].qty <= Target

IInv == TypeOK /\ BookOK /\ FramesOK /\ PositionsOK

-----------------------------------------------------------------------------
(* The frame a buy continues with is good whenever the frame it comes from  *)
(* has its counts right.                                                    *)

Counted(f, bgt) ==
    /\ f \in Frame
    /\ f.box \in Box
    /\ f.kept + f.got <= bgt[f.box]
    /\ f.got <= f.want
    /\ f.kept + f.want <= Target
    /\ f.fallback \/ f.kept = 0

(* An ended buy leaves a good frame.                                        *)
LEMMA LeaveOK ==
    ASSUME NEW f \in Frame, NEW brk, NEW bgt PROVE FrameOK(Leave(f), brk, bgt)
<1>1. /\ Leave(f).pc = "scan"
      /\ Leave(f).want = 0 /\ Leave(f).got = 0 /\ Leave(f).kept = 0
      BY DEF Leave, IdleFrame
<1>2. Leave(f) \in Frame
      BY DEF Leave, IdleFrame, Frame, PC
<1>3. CountsOK(Leave(f), bgt) /\ PlaceOK(Leave(f)) /\ InFlightOK(Leave(f), brk, bgt)
      BY <1>1, BuyPathAssumption DEF CountsOK, PlaceOK, InFlightOK, Buying
<1>4. QED BY <1>2, <1>3 DEF FrameOK

(* So does a fallback that waits with no more shares than were counted.     *)
LEMMA DeferOK ==
    ASSUME NEW brk, NEW bgt \in [Box -> Nat], NEW f, Counted(f, bgt),
           NEW k \in {0, f.got}, f.kept = 0
    PROVE  FrameOK(DeferToFallback(f, k), brk, bgt)
<1> DEFINE g == DeferToFallback(f, k)
<1>1. f \in Frame /\ k \in Nat /\ bgt[f.box] \in Nat /\ Target \in Nat
      BY BuyPathAssumption DEF Counted, Frame
<1>2. /\ g.pc = "recheck" /\ g.box = f.box /\ g.fallback
      /\ g.want = 0 /\ g.got = 0 /\ g.kept = k
      BY <1>1 DEF DeferToFallback, Frame
<1>3. g \in Frame
      BY <1>1 DEF DeferToFallback, Frame, PC
<1>4. k <= Target /\ k <= bgt[f.box] /\ f.box \in Box
      BY <1>1 DEF Counted, Frame
<1>5. CountsOK(g, bgt) /\ PlaceOK(g) /\ InFlightOK(g, brk, bgt)
      BY <1>1, <1>2, <1>4 DEF CountsOK, PlaceOK, InFlightOK, Buying
<1>6. QED BY <1>3, <1>5 DEF FrameOK

(* A counted frame that moves on to send an order, or to commit, is good.   *)
LEMMA MoveOK ==
    ASSUME NEW brk, NEW bgt \in [Box -> Nat], NEW f, Counted(f, bgt),
           NEW g \in Frame, g.pc \in {"limit", "market", "commit"},
           g.box = f.box, g.want = f.want, g.got = f.got, g.kept = f.kept,
           g.fallback = f.fallback, g.pc = "commit" => f.kept + f.got > 0
    PROVE  FrameOK(g, brk, bgt)
BY DEF FrameOK, CountsOK, PlaceOK, InFlightOK, Buying, Counted

(* The end of a sequence.                                                   *)
LEMMA SettleOK ==
    ASSUME NEW brk, NEW bgt \in [Box -> Nat], NEW f, Counted(f, bgt)
    PROVE  FrameOK(Settle(f), brk, bgt)
<1> DEFINE g == [f EXCEPT !.pc = "commit", !.ord = NoOrder,
                          !.market = FALSE, !.tries = 0]
<1>1. f \in Frame
      BY DEF Counted
<1>2. CASE IsPrimaryB(f) /\ f.got # f.want
      BY <1>2, DeferOK DEF Settle, IsPrimaryB, Counted
<1>3. CASE ~(IsPrimaryB(f) /\ f.got # f.want) /\ f.kept + f.got = 0
      BY <1>1, <1>3, LeaveOK DEF Settle
<1>4. CASE ~(IsPrimaryB(f) /\ f.got # f.want) /\ f.kept + f.got # 0
  <2>1. Settle(f) = g
        BY <1>4 DEF Settle
  <2>2. /\ g.pc = "commit" /\ g.box = f.box /\ g.fallback = f.fallback
        /\ g.want = f.want /\ g.got = f.got /\ g.kept = f.kept
        BY <1>1 DEF Frame
  <2>3. g \in Frame
        BY <1>1 DEF Frame, PC
  <2>4. f.kept + f.got > 0
        BY <1>1, <1>4 DEF Frame
  <2>5. QED BY <2>1, <2>2, <2>3, <2>4, MoveOK
<1>5. QED BY <1>2, <1>3, <1>4

(* The next order of a sequence, limit or market, or its end.               *)
LEMMA NextOrderOK ==
    ASSUME NEW brk, NEW bgt \in [Box -> Nat], NEW f, Counted(f, bgt)
    PROVE  FrameOK(NextOrder(f), brk, bgt)
<1>1. f \in Frame
      BY DEF Counted
<1>2. CASE f.got >= f.want
      BY <1>2, SettleOK DEF NextOrder
<1>3. CASE ~(f.got >= f.want) /\ f.tries > 0
  <2> DEFINE g == [f EXCEPT !.pc = "limit", !.tries = @ - 1, !.ord = NoOrder]
  <2>1. NextOrder(f) = g
        BY <1>3 DEF NextOrder
  <2>2. /\ g.pc = "limit" /\ g.box = f.box /\ g.fallback = f.fallback
        /\ g.want = f.want /\ g.got = f.got /\ g.kept = f.kept
        BY <1>1 DEF Frame
  <2>3. f.tries - 1 \in Nat
        BY <1>1, <1>3 DEF Frame
  <2>4. g \in Frame
        BY <1>1, <2>3 DEF Frame, PC
  <2>5. QED BY <2>1, <2>2, <2>4, MoveOK
<1>4. CASE ~(f.got >= f.want) /\ ~(f.tries > 0)
  <2> DEFINE g == [f EXCEPT !.pc = "market", !.ord = NoOrder, !.market = TRUE]
  <2>1. NextOrder(f) = g
        BY <1>4 DEF NextOrder
  <2>2. /\ g.pc = "market" /\ g.box = f.box /\ g.fallback = f.fallback
        /\ g.want = f.want /\ g.got = f.got /\ g.kept = f.kept
        BY <1>1 DEF Frame
  <2>3. g \in Frame
        BY <1>1 DEF Frame, PC
  <2>4. QED BY <2>1, <2>2, <2>3, MoveOK
<1>5. QED BY <1>2, <1>3, <1>4

(* An exception out of the sequence.                                        *)
LEMMA RaiseOK ==
    ASSUME NEW brk, NEW bgt \in [Box -> Nat], NEW f, Counted(f, bgt), NEW e
    PROVE  FrameOK(Raise(f, e), brk, bgt)
<1>1. CASE e = "api" /\ IsPrimaryB(f)
      BY <1>1, DeferOK DEF Raise, IsPrimaryB, Counted
<1>2. CASE ~(e = "api" /\ IsPrimaryB(f))
      BY <1>2, LeaveOK DEF Raise, Counted
<1>3. QED BY <1>1, <1>2

-----------------------------------------------------------------------------
(* What a step that leaves a part of the state alone preserves.             *)

(* Between its check and its end a buy has its counts right.                *)
LEMMA BuyingCounted ==
    ASSUME IInv, NEW t \in Task, Buying(frame[t])
    PROVE  Counted(frame[t], bought)
BY DEF IInv, FramesOK, FrameOK, CountsOK, Counted

(* The numbers in the book.                                                 *)
LEMMA BookNumbers ==
    ASSUME IInv
    PROVE  /\ \A o \in Order : /\ broker[o].filled \in Nat /\ broker[o].qty \in Nat
                               /\ rows[o].filled \in Nat
           /\ \A i \in 1 .. Len(stream) : /\ stream[i] \in Message
                                          /\ stream[i].qty \in Nat
                                          /\ stream[i].left \in Nat
<1>1. \A o \in Order : broker[o] \in BrokerOrder /\ rows[o] \in OrderRow
      BY DEF IInv, TypeOK, BookTypeOK
<1>2. \A i \in 1 .. Len(stream) : stream[i] \in Message
      BY DEF IInv, TypeOK, BookTypeOK
<1>3. QED BY <1>1, <1>2 DEF BrokerOrder, OrderRow, Message

(* A step outside the book keeps it good.                                   *)
LEMMA BookKept ==
    ASSUME IInv, UNCHANGED bookVars PROVE BookTypeOK' /\ BookOK'
BY DEF IInv, TypeOK, BookTypeOK, bookVars, BookOK, OrderOK, EventOK, InOrder

(* Positions stay covered while the broker only buys more.                  *)
LEMMA PositionsKept ==
    ASSUME IInv, UNCHANGED <<box, posn>>, bought' \in [Box -> Nat],
           \A b \in Box : bought[b] <= bought'[b]
    PROVE  PositionsOK'
BY DEF IInv, TypeOK, BookTypeOK, PositionsOK

(* One task takes a good frame, the book as it was.                         *)
LEMMA FramesGoto ==
    ASSUME IInv, NEW t \in Task, NEW g, FrameOK(g, broker, bought), Goto(t, g),
           broker' = broker, bought' = bought
    PROVE  frame' \in [Task -> Frame] /\ FramesOK'
BY DEF IInv, TypeOK, Goto, FramesOK, FrameOK

(* The steps that touch only a frame and the bookkeeping of the detectors.  *)
LEMMA FrameStep ==
    ASSUME IInv, NEW t \in Task, NEW g, FrameOK(g, broker, bought), Goto(t, g),
           UNCHANGED <<bookVars, box, posn, crashes>>,
           cooldown' \in [Box -> BOOLEAN], decisions' \in [Box -> Nat]
    PROVE  IInv'
<1>1. BookTypeOK' /\ BookOK'
      BY BookKept
<1>2. frame' \in [Task -> Frame] /\ FramesOK'
      BY FramesGoto DEF bookVars
<1>3. PositionsOK'
      BY PositionsKept DEF bookVars, IInv, TypeOK, BookTypeOK
<1>4. QED BY <1>1, <1>2, <1>3 DEF IInv, TypeOK

-----------------------------------------------------------------------------
(* The detector's steps.                                                    *)

(* A frame outside a buy may change its list of boxes and its place.        *)
LEMMA ScanOK ==
    ASSUME NEW brk, NEW bgt, NEW f \in Frame, NEW p \in {"idle", "scan"},
           NEW S \in SUBSET Box
    PROVE  FrameOK([IdleFrame EXCEPT !.pc = p, !.todo = S], brk, bgt)
<1> DEFINE g == [IdleFrame EXCEPT !.pc = p, !.todo = S]
<1>1. /\ g.pc = p /\ g.want = 0 /\ g.got = 0 /\ g.kept = 0 /\ g.fallback = FALSE
      BY DEF IdleFrame
<1>2. g \in Frame
      BY DEF IdleFrame, Frame, PC
<1>3. CountsOK(g, bgt) /\ PlaceOK(g) /\ InFlightOK(g, brk, bgt)
      BY <1>1, BuyPathAssumption DEF CountsOK, PlaceOK, InFlightOK, Buying
<1>4. QED BY <1>2, <1>3 DEF FrameOK

(* An idle frame is good in any book.                                       *)
LEMMA IdleOK ==
    ASSUME NEW brk, NEW bgt PROVE FrameOK(IdleFrame, brk, bgt)
<1>1. IdleFrame \in Frame
      BY DEF IdleFrame, Frame, PC
<1>2. CountsOK(IdleFrame, bgt) /\ PlaceOK(IdleFrame)
      BY BuyPathAssumption DEF IdleFrame, CountsOK, PlaceOK, Buying
<1>3. InFlightOK(IdleFrame, brk, bgt)
      BY DEF IdleFrame, InFlightOK
<1>4. QED BY <1>1, <1>2, <1>3 DEF FrameOK

(* Dropping a box from a scan.                                              *)
LEMMA SkipBoxStep ==
    ASSUME IInv, NEW t \in Task, SkipBox(t) PROVE IInv'
<1>1. PICK b \in frame[t].todo : Goto(t, [frame[t] EXCEPT !.todo = @ \ {b}])
      BY DEF SkipBox
<1> DEFINE f == frame[t]
           g == [f EXCEPT !.todo = @ \ {b}]
<1>2. FrameOK(f, broker, bought) /\ f.pc = "scan" /\ f \in Frame
      BY DEF IInv, FramesOK, FrameOK, SkipBox
<1>3. /\ g.pc = f.pc /\ g.want = f.want /\ g.got = f.got /\ g.kept = f.kept
      /\ g.fallback = f.fallback /\ g.box = f.box /\ g.ord = f.ord
      BY <1>2 DEF Frame
<1>4. g \in Frame
      BY <1>2 DEF Frame
<1>5. FrameOK(g, broker, bought)
      BY <1>2, <1>3, <1>4 DEF FrameOK, CountsOK, PlaceOK, InFlightOK, Buying
<1>6. QED
      BY <1>1, <1>5, FrameStep DEF SkipBox, IInv, TypeOK

(* Starting a buy.                                                          *)
LEMMA EnterBoxStep ==
    ASSUME IInv, NEW t \in Task, EnterBox(t) PROVE IInv'
<1>1. PICK b \in frame[t].todo :
        /\ decisions' = [decisions EXCEPT ![b] = @ + 1]
        /\ Goto(t, Decided(frame[t], b))
      BY DEF EnterBox
<1> DEFINE f == frame[t]
           g == Decided(f, b)
<1>2. FrameOK(f, broker, bought) /\ f.pc = "scan" /\ f \in Frame
      BY DEF IInv, FramesOK, FrameOK, EnterBox
<1>3. b \in Box /\ bought[b] \in Nat
      BY <1>2 DEF Frame, IInv, TypeOK, BookTypeOK
<1>4. /\ g.pc \in {"wait", "check"}
      /\ g.want = f.want /\ g.got = f.got /\ g.kept = f.kept
      /\ g.fallback = f.fallback /\ g.box = b
      BY <1>2 DEF Frame, Decided
<1>5. g \in Frame
      BY <1>2, <1>3 DEF Frame, PC, Decided
<1>6. f.want = 0 /\ f.kept = 0 /\ f.got = 0
      BY <1>2 DEF FrameOK, CountsOK, PlaceOK, Buying, Frame
<1>7. FrameOK(g, broker, bought)
      BY <1>2, <1>3, <1>4, <1>5, <1>6
         DEF FrameOK, CountsOK, PlaceOK, InFlightOK, Buying
<1>8. decisions' \in [Box -> Nat]
      BY <1>1, <1>3 DEF IInv, TypeOK
<1>9. QED
      BY <1>1, <1>7, <1>8, FrameStep DEF EnterBox, IInv, TypeOK

(* The end of a scan, and the start of the daily one.                       *)
LEMMA ScanDoneStep ==
    ASSUME IInv, NEW t \in Task, ScanDone(t) PROVE IInv'
BY IdleOK, FrameStep DEF ScanDone, IInv, TypeOK

(* The daily scan starts with the boxes that wait.                          *)
LEMMA EodBarStep ==
    ASSUME IInv, EodBar PROVE IInv'
<1> DEFINE S == ListWaiting("eod")
           g == [IdleFrame EXCEPT !.pc = "scan", !.todo = S]
<1>1. S \in SUBSET Box
      BY BuyPathAssumption DEF ListWaiting, BoxesOf
<1>2. IdleFrame \in Frame
      BY DEF IdleFrame, Frame, PC
<1>3. FrameOK(g, broker, bought)
      BY <1>1, <1>2, ScanOK
<1>4. "eod" \in Task /\ Goto("eod", g)
      BY DEF Task, EodBar, StartScan
<1>5. QED BY <1>3, <1>4, FrameStep DEF EodBar, IInv, TypeOK

-----------------------------------------------------------------------------
(* The executor's steps that touch nothing but their frame.                 *)

(* The morning after the decision, or the wait that fails.                 *)
LEMMA NextMorningStep ==
    ASSUME IInv, NEW t \in Task, NextMorning(t) PROVE IInv'
<1> DEFINE f == frame[t]
           g == [f EXCEPT !.pc = "check"]
<1>1. FrameOK(f, broker, bought) /\ f.pc = "wait" /\ f \in Frame
      BY DEF IInv, FramesOK, FrameOK, NextMorning
<1>2. /\ g.pc = "check" /\ g.want = f.want /\ g.got = f.got /\ g.kept = f.kept
      /\ g.fallback = f.fallback /\ g.box = f.box
      BY <1>1 DEF Frame
<1>3. g \in Frame
      BY <1>1 DEF Frame, PC
<1>4. FrameOK(g, broker, bought)
      BY <1>1, <1>2, <1>3 DEF FrameOK, CountsOK, PlaceOK, InFlightOK, Buying
<1>5. FrameOK(Leave(f), broker, bought)
      BY <1>1, LeaveOK
<1>6. FrameOK(AfterWait(f), broker, bought)
      BY <1>4, <1>5 DEF AfterWait
<1>7. QED BY <1>6, FrameStep DEF NextMorning, ExecutorKeeps, IInv, TypeOK

(* The checks before the first order, passed or not.                        *)
LEMMA CheckStep ==
    ASSUME IInv, NEW t \in Task, Check(t) PROVE IInv'
<1> DEFINE f == frame[t]
           h == [f EXCEPT !.want = Target, !.tries = RetryCount]
<1>1. FrameOK(f, broker, bought) /\ f.pc = "check" /\ f \in Frame
      BY DEF IInv, FramesOK, FrameOK, Check
<1>2. f.kept = 0 /\ f.got = 0 /\ f.box \in Box /\ f.kept + f.got <= bought[f.box]
      BY <1>1 DEF FrameOK, CountsOK, PlaceOK, Buying, Frame
<1>3. /\ h.want = Target /\ h.got = f.got /\ h.kept = f.kept
      /\ h.fallback = f.fallback /\ h.box = f.box
      BY <1>1 DEF Frame
<1>4. h \in Frame
      BY <1>1, BuyPathAssumption DEF Frame
<1>5. Counted(h, bought)
      BY <1>2, <1>3, <1>4, BuyPathAssumption DEF Counted
<1>6. bought \in [Box -> Nat]
      BY DEF IInv, TypeOK, BookTypeOK
<1>7. FrameOK(NextOrder(h), broker, bought)
      BY <1>5, <1>6, NextOrderOK
<1>8. FrameOK(Leave(f), broker, bought)
      BY <1>1, LeaveOK
<1>9. Goto(t, NextOrder(h)) \/ Goto(t, Leave(f))
      BY DEF Check, BeginSequence
<1>10. QED
      BY <1>7, <1>8, <1>9, FrameStep DEF Check, ExecutorKeeps, IInv, TypeOK

(* Falling through to the market order.                                     *)
LEMMA NoAskStep ==
    ASSUME IInv, NEW t \in Task, NoAsk(t) PROVE IInv'
<1> DEFINE f == frame[t]
           g == [f EXCEPT !.pc = "market", !.market = TRUE, !.tries = 0]
<1>1. Counted(f, bought) /\ f \in Frame
      BY BuyingCounted DEF NoAsk, Buying, Counted
<1>2. /\ g.pc = "market" /\ g.want = f.want /\ g.got = f.got
      /\ g.kept = f.kept /\ g.fallback = f.fallback /\ g.box = f.box
      BY <1>1 DEF Frame
<1>3. g \in Frame
      BY <1>1 DEF Frame, PC
<1>4. bought \in [Box -> Nat]
      BY DEF IInv, TypeOK, BookTypeOK
<1>5. FrameOK(g, broker, bought)
      BY <1>1, <1>2, <1>3, <1>4, MoveOK
<1>6. QED BY <1>5, FrameStep DEF NoAsk, ExecutorKeeps, IInv, TypeOK

(* A failure without an order.                                              *)
LEMMA SendFailsStep ==
    ASSUME IInv, NEW t \in Task, SendFails(t) PROVE IInv'
<1>1. PICK e \in Failure : Goto(t, Raise(frame[t], e))
      BY DEF SendFails
<1>2. Counted(frame[t], bought)
      BY BuyingCounted DEF SendFails, Buying
<1>3. bought \in [Box -> Nat]
      BY DEF IInv, TypeOK, BookTypeOK
<1>4. FrameOK(Raise(frame[t], e), broker, bought)
      BY <1>2, <1>3, RaiseOK
<1>5. QED BY <1>1, <1>4, FrameStep DEF SendFails, ExecutorKeeps, IInv, TypeOK

(* The checks of 09:05, passed or not.                                      *)
LEMMA RecheckStep ==
    ASSUME IInv, NEW t \in Task, Recheck(t) PROVE IInv'
<1> DEFINE f == frame[t]
           h == [f EXCEPT !.want = Target - f.kept]
<1>1. Counted(f, bought) /\ f \in Frame
      BY BuyingCounted DEF Recheck, Buying, Counted
<1>2. f.want = 0 /\ f.got = 0 /\ Target - f.kept \in Nat
      BY <1>1, BuyPathAssumption
         DEF IInv, FramesOK, FrameOK, PlaceOK, Recheck, Counted, Frame
<1>3. /\ h.want = Target - f.kept /\ h.got = f.got /\ h.kept = f.kept
      /\ h.fallback = f.fallback /\ h.box = f.box
      BY <1>1 DEF Frame
<1>4. h \in Frame
      BY <1>1, <1>2 DEF Frame
<1>5. f.kept \in Nat
      BY <1>1 DEF Frame
<1>6. Counted(h, bought)
      BY <1>1, <1>2, <1>3, <1>4, <1>5, BuyPathAssumption DEF Counted
<1>7. bought \in [Box -> Nat]
      BY DEF IInv, TypeOK, BookTypeOK
<1>8. FrameOK(NextOrder(h), broker, bought)
      BY <1>6, <1>7, NextOrderOK
<1>9. FrameOK(Leave(f), broker, bought)
      BY <1>1, LeaveOK
<1>10. Goto(t, NextOrder(h)) \/ Goto(t, Leave(f))
      BY DEF Recheck, BeginFallback
<1>11. QED
      BY <1>8, <1>9, <1>10, FrameStep DEF Recheck, ExecutorKeeps, IInv, TypeOK

(* Reading an order's row counts no more than the broker has filled of it.  *)
LEMMA JudgeStep ==
    ASSUME IInv, NEW t \in Task, Judge(t) PROVE IInv'
<1> DEFINE f == frame[t]
           h == CountFill(f)
           c == [h EXCEPT !.pc = "cancel"]
<1>1. Counted(f, bought) /\ f \in Frame /\ f.pc = "judge"
      BY BuyingCounted DEF Judge, Buying, Counted
<1>2. bought \in [Box -> Nat] /\ Target \in Nat
      BY BuyPathAssumption DEF IInv, TypeOK, BookTypeOK
<1>3. /\ f.ord \in Order /\ broker[f.ord].box = f.box
      /\ f.got + broker[f.ord].qty = f.want
      /\ f.kept + f.got + broker[f.ord].filled <= bought[f.box]
      BY <1>1 DEF IInv, FramesOK, FrameOK, InFlightOK
<1>4. /\ rows[f.ord].filled \in Nat
      /\ broker[f.ord].filled \in Nat
      /\ broker[f.ord].qty \in Nat
      BY <1>3 DEF IInv, TypeOK, BookTypeOK, OrderRow, BrokerOrder
<1>5. /\ rows[f.ord].filled <= broker[f.ord].filled
      /\ broker[f.ord].filled <= broker[f.ord].qty
      BY <1>3 DEF IInv, BookOK, OrderOK
<1>6. f.got \in Nat /\ f.kept \in Nat /\ f.want \in Nat /\ bought[f.box] \in Nat
      BY <1>1, <1>2 DEF Frame, Counted
<1>7. /\ h.got = f.got + rows[f.ord].filled
      /\ h.want = f.want /\ h.kept = f.kept /\ h.fallback = f.fallback
      /\ h.box = f.box /\ h.ord = f.ord
      BY <1>1 DEF CountFill, Frame
<1>8. h \in Frame
      BY <1>1, <1>4, <1>6 DEF CountFill, Frame
<1>9. h.got <= h.want /\ h.kept + h.got <= bought[f.box]
      BY <1>3, <1>4, <1>5, <1>6, <1>7
<1>10. Counted(h, bought)
      BY <1>1, <1>7, <1>8, <1>9 DEF Counted
<1>11. FrameOK(Settle(h), broker, bought) /\ FrameOK(NextOrder(h), broker, bought)
      BY <1>2, <1>10, SettleOK, NextOrderOK
<1>12. FrameOK(c, broker, bought)
  <2>1. /\ c.pc = "cancel" /\ c.box = h.box /\ c.want = h.want /\ c.got = h.got
        /\ c.kept = h.kept /\ c.fallback = h.fallback /\ c.ord = h.ord
        BY <1>8 DEF Frame
  <2>2. c \in Frame
        BY <1>8 DEF Frame, PC
  <2>3. QED
        BY <1>3, <1>7, <1>10, <2>1, <2>2
           DEF FrameOK, CountsOK, PlaceOK, InFlightOK, Buying, Counted
<1>13. FrameOK(AfterCount(h), broker, bought)
      BY <1>11, <1>12 DEF AfterCount
<1>14. FrameOK(Raise(f, "other"), broker, bought)
      BY <1>1, <1>2, RaiseOK
<1>15. Goto(t, AfterCount(h)) \/ Goto(t, Raise(f, "other"))
      BY DEF Judge
<1>16. QED
      BY <1>13, <1>14, <1>15, FrameStep DEF Judge, ExecutorKeeps, IInv, TypeOK

-----------------------------------------------------------------------------
(* The steps that change the book.                                          *)

(* A frame stays good in a book that agrees on every order handed out.      *)
LEMMA BookAgrees ==
    ASSUME NEW brk, NEW brk2, NEW bgt, NEW f, FrameOK(f, brk, bgt),
           \A o \in Order : brk[o].box \in Box =>
               /\ brk2[o].box = brk[o].box
               /\ brk2[o].qty = brk[o].qty
               /\ brk2[o].filled = brk[o].filled
    PROVE  FrameOK(f, brk2, bgt)
BY DEF FrameOK, CountsOK, PlaceOK, InFlightOK, Buying

(* A new order leaves the rest of the book as it was.                       *)
LEMMA AcceptBook ==
    ASSUME IInv, NEW o \in Order, NEW b \in Box, NEW q \in Nat,
           Accept(o, b, q), UNCHANGED <<rows, stream, bought>>
    PROVE  /\ BookTypeOK' /\ BookOK'
           /\ broker'[o] = [box |-> b, qty |-> q, filled |-> 0, live |-> TRUE]
           /\ \A p \in Order : broker[p].box \in Box => broker'[p] = broker[p]
<1>1. /\ broker \in [Order -> BrokerOrder] /\ broker[o].box = NoBox
      /\ broker' = [broker EXCEPT ![o] =
                      [box |-> b, qty |-> q, filled |-> 0, live |-> TRUE]]
      BY DEF IInv, TypeOK, BookTypeOK, Accept, Fresh
<1>2. broker' \in [Order -> BrokerOrder]
      BY <1>1 DEF BrokerOrder
<1>3. /\ broker'[o] = [box |-> b, qty |-> q, filled |-> 0, live |-> TRUE]
      /\ \A p \in Order : broker[p].box # NoBox => broker'[p] = broker[p]
      /\ \A p \in Order : p # o => broker'[p] = broker[p]
      BY <1>1
<1>4. BookTypeOK'
      BY <1>2 DEF IInv, TypeOK, BookTypeOK
<1>5. \A p \in Order : OrderOK(broker'[p], rows[p])
  <2>1. rows[o].filled \in Nat /\ rows[o].filled <= 0
        BY <1>1 DEF IInv, TypeOK, BookTypeOK, OrderRow, BookOK, OrderOK
  <2>2. OrderOK(broker'[o], rows[o])
        BY <1>3, <2>1, OrderBookAssumption DEF OrderOK
  <2>3. QED BY <1>3, <2>2 DEF IInv, BookOK, OrderOK
<1>6. \A i \in 1 .. Len(stream) : EventOK(stream[i], broker', rows)
      BY <1>3 DEF IInv, BookOK, EventOK
<1>7. BookOK'
      BY <1>5, <1>6 DEF IInv, BookOK
<1>8. QED BY <1>3, <1>4, <1>7, OrderBookAssumption

(* An order whose answer arrives is in flight in its frame.                 *)
LEMMA SendOrderStep ==
    ASSUME IInv, NEW t \in Task, SendOrder(t) PROVE IInv'
<1> DEFINE f == frame[t]
<1>1. PICK o \in Order :
        /\ Accept(o, f.box, f.want - f.got)
        /\ Goto(t, [f EXCEPT !.pc = "insert", !.ord = o])
      BY DEF SendOrder
<1> DEFINE g == [f EXCEPT !.pc = "insert", !.ord = o]
<1>2. Counted(f, bought) /\ f \in Frame
      BY BuyingCounted DEF SendOrder, Buying, Counted
<1>3. f.box \in Box /\ f.want - f.got \in Nat
      BY <1>2 DEF Counted, Frame
<1>4. UNCHANGED <<rows, stream, bought>>
      BY DEF SendOrder
<1>5. /\ BookTypeOK' /\ BookOK'
      /\ broker'[o] = [box |-> f.box, qty |-> f.want - f.got,
                       filled |-> 0, live |-> TRUE]
      /\ \A p \in Order : broker[p].box \in Box => broker'[p] = broker[p]
      BY <1>1, <1>3, <1>4, AcceptBook
<1>6. /\ g.pc = "insert" /\ g.ord = o /\ g.want = f.want /\ g.got = f.got
      /\ g.kept = f.kept /\ g.fallback = f.fallback /\ g.box = f.box
      BY <1>2 DEF Frame
<1>7. g \in Frame
      BY <1>2 DEF Frame, PC
<1>8. f.want \in Nat /\ f.got \in Nat /\ f.kept \in Nat /\ bought[f.box] \in Nat
      BY <1>2, <1>3 DEF Frame, IInv, TypeOK, BookTypeOK
<1>9. FrameOK(g, broker', bought)
  <2>1. CountsOK(g, bought) /\ PlaceOK(g)
        BY <1>2, <1>6 DEF CountsOK, PlaceOK, Buying, Counted
  <2>2. InFlightOK(g, broker', bought)
        BY <1>2, <1>5, <1>6, <1>8 DEF InFlightOK, Counted
  <2>3. QED BY <1>7, <2>1, <2>2 DEF FrameOK
<1>10. \A u \in Task : FrameOK(frame[u], broker', bought)
      BY <1>5, BookAgrees DEF IInv, FramesOK
<1>11. frame' = [frame EXCEPT ![t] = g] /\ frame \in [Task -> Frame]
      BY <1>1 DEF Goto, IInv, TypeOK
<1>12. frame' \in [Task -> Frame] /\ FramesOK'
      BY <1>4, <1>7, <1>9, <1>10, <1>11 DEF FramesOK
<1>13. PositionsOK'
      BY PositionsKept DEF SendOrder, IInv, TypeOK, BookTypeOK
<1>14. QED BY <1>5, <1>12, <1>13 DEF SendOrder, IInv, TypeOK

(* An order whose answer is lost is in the book and in no frame.            *)
LEMMA SendUnansweredStep ==
    ASSUME IInv, NEW t \in Task, SendUnanswered(t) PROVE IInv'
<1> DEFINE f == frame[t]
           g == Raise(f, "api")
<1>1. PICK o \in Order : Accept(o, f.box, f.want - f.got)
      BY DEF SendUnanswered
<1>2. Counted(f, bought) /\ f \in Frame
      BY BuyingCounted DEF SendUnanswered, Buying, Counted
<1>3. f.box \in Box /\ f.want - f.got \in Nat
      BY <1>2 DEF Counted, Frame
<1>4. UNCHANGED <<rows, stream, bought>>
      BY DEF SendUnanswered
<1>5. /\ BookTypeOK' /\ BookOK'
      /\ \A p \in Order : broker[p].box \in Box => broker'[p] = broker[p]
      BY <1>1, <1>3, <1>4, AcceptBook
<1>6. bought \in [Box -> Nat]
      BY DEF IInv, TypeOK, BookTypeOK
<1>7. FrameOK(g, broker', bought)
      BY <1>2, <1>6, RaiseOK
<1>8. \A u \in Task : FrameOK(frame[u], broker', bought)
      BY <1>5, BookAgrees DEF IInv, FramesOK
<1>9. frame' = [frame EXCEPT ![t] = g] /\ frame \in [Task -> Frame]
      BY DEF SendUnanswered, Goto, IInv, TypeOK
<1>10. frame' \in [Task -> Frame] /\ FramesOK'
      BY <1>4, <1>7, <1>8, <1>9 DEF FramesOK, FrameOK
<1>11. PositionsOK'
      BY PositionsKept DEF SendUnanswered, IInv, TypeOK, BookTypeOK
<1>12. QED BY <1>5, <1>10, <1>11 DEF SendUnanswered, IInv, TypeOK

(* The new row has counted nothing yet.                                     *)
LEMMA InsertStep ==
    ASSUME IInv, NEW t \in Task, Insert(t) PROVE IInv'
<1> DEFINE f == frame[t]
           g == [f EXCEPT !.pc = "judge"]
<1>1. FrameOK(f, broker, bought) /\ f \in Frame /\ f.pc = "insert"
      BY DEF IInv, FramesOK, FrameOK, Insert
<1>2. UNCHANGED <<broker, stream, bought, box, posn, cooldown, decisions, crashes>>
      BY DEF Insert
<1>3. Counted(f, bought) /\ bought \in [Box -> Nat]
      BY <1>1, BuyingCounted DEF Buying, IInv, TypeOK, BookTypeOK
<1>4. FrameOK(g, broker, bought)
  <2>1. /\ g.pc = "judge" /\ g.ord = f.ord /\ g.want = f.want /\ g.got = f.got
        /\ g.kept = f.kept /\ g.fallback = f.fallback /\ g.box = f.box
        BY <1>1 DEF Frame
  <2>2. g \in Frame
        BY <1>1 DEF Frame, PC
  <2>3. QED
        BY <1>1, <2>1, <2>2 DEF FrameOK, CountsOK, PlaceOK, InFlightOK, Buying
<1>5. FrameOK(Raise(f, "other"), broker, bought)
      BY <1>3, RaiseOK
<1>6. frame' \in [Task -> Frame] /\ FramesOK'
      BY <1>2, <1>4, <1>5, FramesGoto DEF Insert
<1>7. rows' \in [Order -> OrderRow] /\ \A o \in Order : rows'[o].filled <= rows[o].filled
  <2>1. rows \in [Order -> OrderRow] /\ \A o \in Order : rows[o].filled \in Nat
        BY DEF IInv, TypeOK, BookTypeOK, OrderRow
  <2>2. [state |-> "SUBMITTED", filled |-> 0] \in OrderRow
        BY DEF OrderRow, RowState
  <2>3. rows' = rows \/ rows' = [rows EXCEPT ![f.ord] =
                                   [state |-> "SUBMITTED", filled |-> 0]]
        BY DEF Insert, InsertRow
  <2>4. QED BY <2>1, <2>2, <2>3
<1>8. BookTypeOK'
      BY <1>2, <1>7 DEF IInv, TypeOK, BookTypeOK
<1>9. BookOK'
  <2>1. \A o \in Order : rows'[o].filled \in Nat
        BY <1>7 DEF OrderRow
  <2>2. \A o \in Order : OrderOK(broker[o], rows'[o])
        BY <1>7, <2>1, BookNumbers DEF IInv, BookOK, OrderOK
  <2>3. \A i \in 1 .. Len(stream) : EventOK(stream[i], broker, rows')
    <3>1. SUFFICES ASSUME NEW i \in 1 .. Len(stream)
                   PROVE  EventOK(stream[i], broker, rows')
          OBVIOUS
    <3> DEFINE m == stream[i]
    <3>2. EventOK(m, broker, rows) /\ m.qty \in Nat /\ m.left \in Nat
          BY BookNumbers DEF IInv, BookOK
    <3>3. CASE m.kind # "bar"
      <4>1. /\ m.ord \in Order /\ rows'[m.ord].filled <= rows[m.ord].filled
            /\ rows'[m.ord].filled \in Nat /\ rows[m.ord].filled \in Nat
            /\ broker[m.ord].qty \in Nat
            BY <1>7, <2>1, <3>2, <3>3, BookNumbers DEF EventOK
      <4>2. QED BY <3>2, <3>3, <4>1 DEF EventOK
    <3>4. QED BY <3>3 DEF EventOK
  <2>4. QED BY <1>2, <2>2, <2>3 DEF IInv, BookOK
<1>10. PositionsOK'
      BY <1>2, <1>3, PositionsKept
<1>11. QED BY <1>2, <1>6, <1>8, <1>9, <1>10 DEF IInv, TypeOK

(* A message that reports no execution joins the stream.                    *)
LEMMA QuietMessage ==
    ASSUME IInv, NEW m \in Message, m.kind # "fill",
           m.kind # "bar" => m.ord \in Order /\ broker[m.ord].box # NoBox,
           stream' = Append(stream, m), UNCHANGED <<rows, bought>>,
           broker' \in [Order -> BrokerOrder],
           \A o \in Order : /\ broker'[o].box = broker[o].box
                            /\ broker'[o].qty = broker[o].qty
                            /\ broker'[o].filled = broker[o].filled
                            /\ broker'[o].live => broker[o].live
    PROVE  BookTypeOK' /\ BookOK'
<1>1. stream \in Seq(Message)
      BY DEF IInv, TypeOK, BookTypeOK
<1>2. /\ stream' \in Seq(Message) /\ Len(stream') = Len(stream) + 1
      /\ \A i \in 1 .. Len(stream) : stream'[i] = stream[i]
      /\ stream'[Len(stream) + 1] = m
      BY <1>1
<1>3. BookTypeOK'
      BY <1>2 DEF IInv, TypeOK, BookTypeOK
<1>4. \A o \in Order : OrderOK(broker'[o], rows[o])
  <2>1. SUFFICES ASSUME NEW o \in Order PROVE OrderOK(broker'[o], rows[o])
        OBVIOUS
  <2>2. OrderOK(broker[o], rows[o])
        BY DEF IInv, BookOK
  <2>3. /\ broker'[o].box = broker[o].box
        /\ broker'[o].qty = broker[o].qty
        /\ broker'[o].filled = broker[o].filled
        /\ broker'[o].live => broker[o].live
        OBVIOUS
  <2>4. QED BY <2>2, <2>3 DEF OrderOK
<1>5. \A i \in 1 .. Len(stream') : EventOK(stream'[i], broker', rows)
  <2>1. EventOK(m, broker', rows)
    <3>1. CASE m.kind = "bar"
          BY <3>1 DEF EventOK
    <3>2. CASE m.kind # "bar"
      <4>1. m.ord \in Order /\ broker'[m.ord].box # NoBox
            BY <3>2
      <4>2. QED BY <4>1 DEF EventOK
    <3>3. QED BY <3>1, <3>2
  <2>2. \A i \in 1 .. Len(stream) : EventOK(stream[i], broker', rows)
        BY DEF IInv, BookOK, EventOK
  <2>3. QED BY <1>1, <1>2, <2>1, <2>2
<1>6. \A i, j \in 1 .. Len(stream') : i < j => InOrder(stream'[i], stream'[j])
  <2>1. SUFFICES ASSUME NEW i \in 1 .. Len(stream'), NEW j \in 1 .. Len(stream'), i < j
                 PROVE  InOrder(stream'[i], stream'[j])
        OBVIOUS
  <2>2. CASE j = Len(stream) + 1
        BY <1>2, <2>2 DEF InOrder
  <2>3. CASE j # Len(stream) + 1
    <3>1. /\ i \in 1 .. Len(stream) /\ j \in 1 .. Len(stream)
          /\ stream'[i] = stream[i] /\ stream'[j] = stream[j]
          BY <1>1, <1>2, <2>1, <2>3
    <3>2. QED BY <2>1, <3>1 DEF IInv, BookOK
  <2>4. QED BY <2>2, <2>3
<1>7. QED BY <1>3, <1>4, <1>5, <1>6 DEF BookOK

(* A cancellation keeps every number of the book.                           *)
LEMMA CancelStep ==
    ASSUME IInv, NEW t \in Task, Cancel(t) PROVE IInv'
<1> DEFINE f == frame[t]
           o == f.ord
<1>1. Counted(f, bought) /\ f \in Frame /\ f.pc = "cancel"
      BY BuyingCounted DEF Cancel, Buying, Counted
<1>2. bought \in [Box -> Nat] /\ bought' = bought
      BY DEF Cancel, bookVars, IInv, TypeOK, BookTypeOK
<1>3. o \in Order /\ broker[o].box = f.box /\ f.box \in Box
      BY <1>1 DEF IInv, FramesOK, FrameOK, InFlightOK, Counted
<1>4. /\ BookTypeOK' /\ BookOK'
      /\ \A p \in Order : /\ broker'[p].box = broker[p].box
                          /\ broker'[p].qty = broker[p].qty
                          /\ broker'[p].filled = broker[p].filled
  <2>1. CASE UNCHANGED bookVars
        BY <2>1, BookKept DEF bookVars
  <2>2. CASE BrokerCancel(o) /\ UNCHANGED <<rows, bought>>
    <3> PICK kind \in {"cancelled", "confirmed"} :
               stream' = Append(stream, Event(kind, o, 0, broker[o].qty - broker[o].filled))
        BY <2>2 DEF BrokerCancel
    <3> DEFINE m == Event(kind, o, 0, broker[o].qty - broker[o].filled)
    <3>1. /\ broker \in [Order -> BrokerOrder] /\ broker[o] \in BrokerOrder
          /\ broker[o].live
          /\ broker' = [broker EXCEPT ![o].live = FALSE]
          /\ stream' = Append(stream, m)
          BY <1>3, <2>2 DEF IInv, TypeOK, BookTypeOK, BrokerCancel
    <3>2. broker' \in [Order -> BrokerOrder]
          BY <3>1 DEF BrokerOrder
    <3>3. \A p \in Order : /\ broker'[p].box = broker[p].box
                           /\ broker'[p].qty = broker[p].qty
                           /\ broker'[p].filled = broker[p].filled
                           /\ broker'[p].live => broker[p].live
          BY <3>1 DEF BrokerOrder
    <3>4. broker[o].qty - broker[o].filled \in Nat
          BY <1>3, <3>1 DEF BrokerOrder, IInv, BookOK, OrderOK
    <3>5. m \in Message /\ m.kind = kind /\ m.ord = o
          BY <1>3, <3>4 DEF Event, Message
    <3>6. broker[o].box # NoBox /\ UNCHANGED <<rows, bought>>
          BY <1>3, <2>2, OrderBookAssumption
    <3>7. m \in Message /\ m.kind # "fill" /\ m.ord \in Order
          BY <1>3, <3>5
    <3>8. broker[m.ord].box # NoBox
          BY <3>5, <3>6
    <3> HIDE DEF m, o
    <3>9. BookTypeOK' /\ BookOK'
          BY <3>1, <3>2, <3>3, <3>6, <3>7, <3>8, QuietMessage, Zenon
    <3>10. QED BY <3>3, <3>9
  <2>3. QED BY <2>1, <2>2 DEF Cancel
<1>5. \A u \in Task : FrameOK(frame[u], broker', bought)
      BY <1>4, BookAgrees DEF IInv, FramesOK
<1>6. FrameOK(NextOrder(f), broker', bought) /\ FrameOK(Raise(f, "other"), broker', bought)
      BY <1>1, <1>2, NextOrderOK, RaiseOK
<1>7. frame' \in [Task -> Frame] /\ FramesOK'
      BY <1>2, <1>5, <1>6 DEF Cancel, Goto, IInv, TypeOK, FramesOK, FrameOK
<1>8. PositionsOK'
      BY <1>2, PositionsKept DEF Cancel
<1>9. QED BY <1>4, <1>7, <1>8 DEF Cancel, IInv, TypeOK

-----------------------------------------------------------------------------
(* The stream's steps.                                                      *)

(* The stream without its oldest message.                                   *)
LEMMA StreamTail ==
    ASSUME IInv, stream # <<>>
    PROVE  /\ Head(stream) = stream[1] /\ 1 \in 1 .. Len(stream)
           /\ Tail(stream) \in Seq(Message)
           /\ \A i \in 1 .. Len(Tail(stream)) :
                i + 1 \in 1 .. Len(stream) /\ Tail(stream)[i] = stream[i + 1]
<1>1. stream \in Seq(Message) /\ Len(stream) \in Nat
      BY DEF IInv, TypeOK, BookTypeOK
<1>2. Len(Tail(stream)) = Len(stream) - 1 /\ Len(stream) > 0
      BY <1>1
<1>3. QED BY <1>1, <1>2

(* Dispatching a message that changes no row.                               *)
LEMMA TailBook ==
    ASSUME IInv, stream # <<>>, stream' = Tail(stream),
           UNCHANGED <<broker, rows, bought>>
    PROVE  BookTypeOK' /\ BookOK'
<1>1. BookTypeOK'
      BY StreamTail DEF IInv, TypeOK, BookTypeOK
<1>2. \A i \in 1 .. Len(stream') : EventOK(stream'[i], broker, rows)
      BY StreamTail DEF IInv, BookOK
<1>3. \A i, j \in 1 .. Len(stream') : i < j => InOrder(stream'[i], stream'[j])
  <2>1. SUFFICES ASSUME NEW i \in 1 .. Len(stream'), NEW j \in 1 .. Len(stream'), i < j
                 PROVE  InOrder(stream'[i], stream'[j])
        OBVIOUS
  <2>2. /\ i + 1 \in 1 .. Len(stream) /\ stream'[i] = stream[i + 1]
        /\ j + 1 \in 1 .. Len(stream) /\ stream'[j] = stream[j + 1]
        BY StreamTail
  <2>3. i + 1 < j + 1
        BY <2>1
  <2>4. QED BY <2>2, <2>3 DEF IInv, BookOK
<1>4. QED BY <1>1, <1>2, <1>3 DEF IInv, BookOK

(* A completed bar starts a scan, or finds no waiting box.                  *)
LEMMA BarCompleteStep ==
    ASSUME IInv, BarComplete PROVE IInv'
<1> DEFINE S == ListWaiting("ws")
           g == [IdleFrame EXCEPT !.pc = "scan", !.todo = S]
<1>1. BookTypeOK' /\ BookOK'
      BY TailBook DEF BarComplete
<1>2. S \in SUBSET Box
      BY BuyPathAssumption DEF ListWaiting, BoxesOf
<1>3. IdleFrame \in Frame
      BY DEF IdleFrame, Frame, PC
<1>4. FrameOK(g, broker, bought)
      BY <1>2, <1>3, ScanOK
<1>5. UNCHANGED frame \/ Goto("ws", g)
      BY DEF BarComplete, StartScan
<1>6. frame' \in [Task -> Frame] /\ FramesOK'
      BY <1>4, <1>5, FramesGoto DEF BarComplete, IInv, TypeOK, FramesOK, Task
<1>7. PositionsOK'
      BY PositionsKept DEF BarComplete, IInv, TypeOK, BookTypeOK
<1>8. QED BY <1>1, <1>6, <1>7 DEF BarComplete, IInv, TypeOK

(* The row an order event leaves never overtakes the broker, nor the events *)
(* still behind it in the stream.                                           *)
LEMMA OrderEventStep ==
    ASSUME IInv, OrderEvent PROVE IInv'
<1> DEFINE m == Head(stream)
           o == m.ord
           r == RowAfter(rows[o], m)
<1>1. /\ stream # <<>> /\ m.kind # "bar" /\ stream' = Tail(stream)
      /\ broker' = broker /\ bought' = bought
      /\ rows' = rows \/ rows' = [rows EXCEPT ![o] = r]
      BY DEF OrderEvent, OnOrderEvent
<1>2. m = stream[1] /\ 1 \in 1 .. Len(stream)
      BY <1>1, StreamTail
<1>3. EventOK(m, broker, rows) /\ m \in Message /\ m.qty \in Nat /\ m.left \in Nat
      BY <1>2, BookNumbers DEF IInv, BookOK
<1>4. o \in Order
      BY <1>1, <1>3 DEF EventOK
<1>5. /\ rows \in [Order -> OrderRow] /\ rows[o] \in OrderRow /\ rows[o].filled \in Nat
      /\ broker[o].filled \in Nat /\ broker[o].qty \in Nat
      BY <1>4, BookNumbers DEF IInv, TypeOK, BookTypeOK
<1>6. /\ r \in OrderRow
      /\ r.filled = rows[o].filled \/ (m.kind = "fill" /\ r.filled = rows[o].filled + m.qty)
  <2>1. rows[o].state \in RowState
        BY <1>5 DEF OrderRow
  <2>2. CASE r = rows[o]
        BY <1>5, <2>2
  <2>3. CASE r = [state |-> "CANCELLED", filled |-> rows[o].filled]
        BY <1>5, <2>3 DEF OrderRow, RowState
  <2>4. CASE r = [state |-> "REJECTED", filled |-> rows[o].filled]
        BY <1>5, <2>4 DEF OrderRow, RowState
  <2>5. CASE m.kind = "fill" /\ r = FilledRow(rows[o], m)
        BY <1>3, <1>5, <2>5 DEF FilledRow, OrderRow, RowState
  <2>6. \/ r = rows[o]
        \/ m.kind = "fill" /\ r = FilledRow(rows[o], m)
        \/ r = [rows[o] EXCEPT !.state = "CANCELLED"]
        \/ r = [rows[o] EXCEPT !.state = "REJECTED"]
    <3>1. CASE rows[o].state = "none"
          BY <3>1, Zenon DEF RowAfter
    <3>2. CASE rows[o].state # "none" /\ m.kind = "fill"
          BY <3>2, Zenon DEF RowAfter
    <3>3. CASE rows[o].state # "none" /\ m.kind = "cancelled"
          BY <3>3, Zenon DEF RowAfter
    <3>a. CASE rows[o].state # "none" /\ m.kind = "confirmed"
          BY <3>a, Zenon DEF RowAfter, ConfirmedRow
    <3>4. CASE rows[o].state # "none" /\ m.kind = "rejected"
          BY <3>4, Zenon DEF RowAfter
    <3>5. m.kind \in {"fill", "cancelled", "confirmed", "rejected"}
          BY <1>1, <1>3 DEF Message
    <3>6. QED BY <3>1, <3>2, <3>3, <3>a, <3>4, <3>5
  <2>7. \A s : [rows[o] EXCEPT !.state = s] = [state |-> s, filled |-> rows[o].filled]
        BY <1>5 DEF OrderRow
  <2>8. QED BY <2>2, <2>3, <2>4, <2>5, <2>6, <2>7
<1>7. /\ rows' \in [Order -> OrderRow]
      /\ \A p \in Order : \/ rows'[p].filled = rows[p].filled
                          \/ /\ p = o /\ m.kind = "fill"
                             /\ rows'[p].filled = rows[p].filled + m.qty
      BY <1>1, <1>4, <1>5, <1>6
<1>8. BookTypeOK'
      BY <1>1, <1>7, StreamTail DEF IInv, TypeOK, BookTypeOK
<1>9. m.kind = "fill" => /\ rows[o].filled + m.qty + m.left <= broker[o].qty
                         /\ broker[o].qty <= broker[o].filled + m.left
      BY <1>1, <1>3 DEF EventOK
<1>10. \A p \in Order : OrderOK(broker[p], rows'[p])
  <2>1. SUFFICES ASSUME NEW p \in Order PROVE OrderOK(broker[p], rows'[p])
        OBVIOUS
  <2>2. OrderOK(broker[p], rows[p])
        BY DEF IInv, BookOK
  <2>3. CASE rows'[p].filled = rows[p].filled
        BY <2>2, <2>3 DEF OrderOK
  <2>4. CASE p = o /\ m.kind = "fill" /\ rows'[p].filled = rows[p].filled + m.qty
    <3>1. rows'[p].filled <= broker[p].filled
          BY <1>3, <1>5, <1>9, <2>4
    <3>2. QED BY <2>2, <3>1 DEF OrderOK
  <2>5. QED BY <1>7, <2>3, <2>4
<1>11. \A i \in 1 .. Len(stream') : EventOK(stream'[i], broker, rows')
  <2>1. SUFFICES ASSUME NEW i \in 1 .. Len(stream')
                 PROVE  EventOK(stream'[i], broker, rows')
        OBVIOUS
  <2> DEFINE n == stream[i + 1]
  <2>2. stream'[i] = n /\ i + 1 \in 1 .. Len(stream)
        BY <1>1, StreamTail
  <2>3. EventOK(n, broker, rows) /\ n.qty \in Nat /\ n.left \in Nat
        BY <2>2, BookNumbers DEF IInv, BookOK
  <2>4. InOrder(m, n)
        BY <1>2, <2>1, <2>2 DEF IInv, BookOK
  <2>5. ASSUME n.kind # "bar" PROVE EventOK(n, broker, rows')
    <3>1. /\ n.ord \in Order /\ broker[n.ord].box # NoBox
          /\ n.kind = "fill" =>
               /\ rows[n.ord].filled + n.qty + n.left <= broker[n.ord].qty
               /\ broker[n.ord].qty <= broker[n.ord].filled + n.left
          BY <2>3, <2>5 DEF EventOK
    <3>2. rows[n.ord].filled \in Nat /\ broker[n.ord].qty \in Nat
          BY <3>1, BookNumbers
    <3>3. n.kind = "fill" =>
            rows'[n.ord].filled + n.qty + n.left <= broker[n.ord].qty
      <4>1. CASE rows'[n.ord].filled = rows[n.ord].filled
            BY <3>1, <4>1
      <4>2. CASE /\ n.ord = o /\ m.kind = "fill"
                 /\ rows'[n.ord].filled = rows[n.ord].filled + m.qty
        <5>1. n.kind = "fill" => n.qty + n.left <= m.left
              BY <2>4, <4>2 DEF InOrder
        <5>2. rows[n.ord].filled + m.qty + m.left <= broker[n.ord].qty
              BY <1>9, <4>2
        <5> DEFINE x == rows[n.ord].filled
                   k == n.qty
                   l == n.left
                   z == broker[n.ord].qty
        <5>3. x \in Nat /\ m.qty \in Nat /\ m.left \in Nat /\ k \in Nat /\ l \in Nat /\ z \in Nat
              BY <1>3, <2>3, <3>2, <4>2
        <5>4. rows'[n.ord].filled = x + m.qty
              BY <4>2
        <5>5. ASSUME n.kind = "fill" PROVE (x + m.qty) + k + l <= z
          <6>1. k + l <= m.left /\ x + m.qty + m.left <= z
                BY <5>1, <5>2, <5>5
          <6> HIDE DEF x, k, l, z, m
          <6>2. QED BY <5>3, <6>1
        <5>6. QED BY <5>4, <5>5
      <4>3. QED BY <1>7, <3>1, <4>1, <4>2
    <3>4. QED BY <3>1, <3>3 DEF EventOK
  <2>6. EventOK(n, broker, rows')
        BY <2>5 DEF EventOK
  <2>7. QED BY <2>2, <2>6
<1>12. \A i, j \in 1 .. Len(stream') : i < j => InOrder(stream'[i], stream'[j])
  <2>1. SUFFICES ASSUME NEW i \in 1 .. Len(stream'), NEW j \in 1 .. Len(stream'), i < j
                 PROVE  InOrder(stream'[i], stream'[j])
        OBVIOUS
  <2>2. /\ i + 1 \in 1 .. Len(stream) /\ stream'[i] = stream[i + 1]
        /\ j + 1 \in 1 .. Len(stream) /\ stream'[j] = stream[j + 1]
        BY <1>1, StreamTail
  <2>3. i + 1 < j + 1
        BY <2>1
  <2>4. QED BY <2>2, <2>3 DEF IInv, BookOK
<1>13. BookOK'
      BY <1>1, <1>10, <1>11, <1>12 DEF BookOK
<1>14. FramesOK' /\ frame' \in [Task -> Frame]
      BY <1>1 DEF OrderEvent, IInv, TypeOK, FramesOK
<1>15. PositionsOK'
      BY <1>1, PositionsKept DEF OrderEvent, IInv, TypeOK, BookTypeOK
<1>16. QED BY <1>8, <1>13, <1>14, <1>15 DEF OrderEvent, IInv, TypeOK

-----------------------------------------------------------------------------
(* The broker and the network.                                              *)

(* The arithmetic of the two facts a fill preserves.                        *)
LEMMA AddLeft ==
    ASSUME NEW q \in Nat, NEW d \in Nat, NEW k \in Nat, NEW l \in Nat, q <= d + l
    PROVE  q <= (d + k) + l /\ k + (q - (d + k)) <= l
OBVIOUS

(* A fill the broker announces fits behind the fills already announced.     *)
LEMMA FillBook ==
    ASSUME IInv, NEW o \in Order, NEW k \in 1 .. broker[o].qty, BrokerFill(o, k)
    PROVE  BookTypeOK' /\ BookOK'
<1> DEFINE done == broker[o].filled + k
           rest == broker[o].qty - done
           m    == Event("fill", o, k, rest)
<1>1. /\ broker[o].live /\ k \in 1 .. (broker[o].qty - broker[o].filled)
      /\ broker' = [broker EXCEPT ![o].filled = done, ![o].live = rest > 0]
      /\ bought' = [bought EXCEPT ![broker[o].box] = @ + k]
      /\ stream' = Append(stream, m)
      /\ rows' = rows
      BY DEF BrokerFill
<1>2. /\ broker \in [Order -> BrokerOrder] /\ bought \in [Box -> Nat]
      /\ stream \in Seq(Message) /\ rows \in [Order -> OrderRow]
      BY DEF IInv, TypeOK, BookTypeOK
<1>3. /\ broker[o].filled \in Nat /\ broker[o].qty \in Nat /\ rows[o].filled \in Nat
      /\ broker[o].box \in Box /\ OrderOK(broker[o], rows[o])
      BY <1>1, BookNumbers DEF IInv, BookOK, OrderOK
<1>4. k \in Nat /\ k > 0 /\ done \in Nat /\ rest \in Nat
      BY <1>1, <1>3
<1>5. broker' \in [Order -> BrokerOrder]
  <2> DEFINE c == [broker[o] EXCEPT !.filled = done]
             l == rest > 0
             d == [c EXCEPT !.live = l]
  <2>1. c \in BrokerOrder
        BY <1>2, <1>4 DEF BrokerOrder
  <2>2. d \in BrokerOrder
    <3>1. l \in BOOLEAN
          OBVIOUS
    <3> HIDE DEF c, l
    <3>2. QED BY <2>1, <3>1 DEF BrokerOrder
  <2>3. broker'[o] = d
        BY <1>1, <1>2
  <2>4. /\ broker' = [p \in Order |-> broker'[p]]
        /\ \A p \in Order : p # o => broker'[p] = broker[p]
        BY <1>1, <1>2
  <2> HIDE DEF d
  <2>5. \A p \in Order : broker'[p] \in BrokerOrder
        BY <1>2, <2>2, <2>3, <2>4
  <2>6. QED BY <2>4, <2>5
<1>6. /\ broker'[o].box = broker[o].box /\ broker'[o].qty = broker[o].qty
      /\ broker'[o].filled = done
      /\ \A p \in Order : p # o => broker'[p] = broker[p]
      BY <1>1, <1>2 DEF BrokerOrder
<1>7. /\ m \in Message /\ m.kind = "fill" /\ m.ord = o /\ m.qty = k /\ m.left = rest
      BY <1>4 DEF Message, Event
<1>8. /\ stream' \in Seq(Message) /\ Len(stream') = Len(stream) + 1
      /\ \A i \in 1 .. Len(stream) : stream'[i] = stream[i]
      /\ stream'[Len(stream) + 1] = m
      BY <1>1, <1>2, <1>7
<1>9. bought' \in [Box -> Nat]
      BY <1>1, <1>2, <1>3, <1>4
<1>10. BookTypeOK'
      BY <1>1, <1>2, <1>5, <1>8, <1>9 DEF BookTypeOK
<1>11. \A p \in Order : OrderOK(broker'[p], rows[p])
  <2>1. OrderOK(broker'[o], rows[o])
        BY <1>3, <1>4, <1>6, OrderBookAssumption DEF OrderOK
  <2>2. QED BY <1>6, <2>1 DEF IInv, BookOK
<1>12. \A i \in 1 .. Len(stream') : EventOK(stream'[i], broker', rows)
  <2>1. EventOK(m, broker', rows)
    <3>1. broker'[m.ord].box # NoBox /\ m.ord \in Order
          BY <1>3, <1>6, <1>7, OrderBookAssumption
    <3>2. rows[o].filled <= broker[o].filled
          BY <1>3 DEF OrderOK
    <3>3. rows[o].filled + k + rest <= broker[o].qty /\ broker[o].qty <= done + rest
          BY <1>3, <1>4, <3>2
    <3> HIDE DEF m, done, rest
    <3>4. QED BY <1>6, <1>7, <3>1, <3>3 DEF EventOK
  <2>2. ASSUME NEW i \in 1 .. Len(stream) PROVE EventOK(stream[i], broker', rows)
    <3> DEFINE n == stream[i]
    <3>1. EventOK(n, broker, rows) /\ n.qty \in Nat /\ n.left \in Nat
          BY BookNumbers DEF IInv, BookOK
    <3>2. CASE n.kind = "bar"
          BY <3>2 DEF EventOK
    <3>3. CASE n.kind # "bar" /\ n.ord # o
          BY <1>6, <3>1, <3>3 DEF EventOK
    <3>4. CASE n.kind # "bar" /\ n.ord = o
      <4> HIDE DEF n
      <4>1. /\ broker[o].box # NoBox
            /\ n.kind = "fill" =>
                 /\ rows[o].filled + n.qty + n.left <= broker[o].qty
                 /\ broker[o].qty <= broker[o].filled + n.left
            BY <3>1, <3>4 DEF EventOK
      <4>2. broker[o].qty <= broker[o].filled + n.left
              => broker[o].qty <= (broker[o].filled + k) + n.left
            BY <1>3, <1>4, <3>1, AddLeft
      <4>3. EventOK(n, broker', rows)
            BY <1>6, <3>4, <4>1, <4>2 DEF EventOK
      <4>4. QED BY <4>3 DEF n
    <3>5. QED BY <3>2, <3>3, <3>4
  <2>3. QED BY <1>2, <1>8, <2>1, <2>2
<1>13. \A i, j \in 1 .. Len(stream') : i < j => InOrder(stream'[i], stream'[j])
  <2>1. SUFFICES ASSUME NEW i \in 1 .. Len(stream'), NEW j \in 1 .. Len(stream'), i < j
                 PROVE  InOrder(stream'[i], stream'[j])
        OBVIOUS
  <2>2. i \in 1 .. Len(stream) /\ stream'[i] = stream[i]
        BY <1>2, <1>8, <2>1
  <2>3. CASE j = Len(stream) + 1
    <3> DEFINE n == stream[i]
    <3>1. /\ EventOK(n, broker, rows) /\ n.left \in Nat
          BY <2>2, BookNumbers DEF IInv, BookOK
    <3> HIDE DEF n
    <3>2. n.kind = "fill" /\ n.ord = o => broker[o].qty <= broker[o].filled + n.left
          BY <3>1 DEF EventOK
    <3>3. broker[o].qty <= broker[o].filled + n.left
            => k + (broker[o].qty - (broker[o].filled + k)) <= n.left
          BY <1>3, <1>4, <3>1, AddLeft
    <3> HIDE DEF m
    <3>4. InOrder(n, m)
          BY <1>7, <3>2, <3>3 DEF InOrder
    <3>5. QED BY <1>8, <2>2, <2>3, <3>4 DEF n
  <2>4. CASE j # Len(stream) + 1
    <3>1. j \in 1 .. Len(stream) /\ stream'[j] = stream[j]
          BY <1>2, <1>8, <2>1, <2>4
    <3>2. QED BY <2>1, <2>2, <3>1 DEF IInv, BookOK
  <2>5. QED BY <2>3, <2>4
<1>14. QED BY <1>1, <1>10, <1>11, <1>12, <1>13 DEF BookOK

(* What it adds to its order it adds to what was bought for the box.        *)
LEMMA FillFrame ==
    ASSUME IInv, NEW o \in Order, NEW k \in 1 .. broker[o].qty, BrokerFill(o, k),
           NEW f, FrameOK(f, broker, bought)
    PROVE  FrameOK(f, broker', bought')
<1> DEFINE done == broker[o].filled + k
<1>1. /\ broker \in [Order -> BrokerOrder] /\ bought \in [Box -> Nat]
      /\ broker[o].box \in Box
      /\ broker[o].filled \in Nat /\ k \in Nat
      BY BookNumbers DEF IInv, TypeOK, BookTypeOK, BookOK, OrderOK, BrokerFill
<1>2. /\ broker'[o].box = broker[o].box /\ broker'[o].qty = broker[o].qty
      /\ broker'[o].filled = done
      /\ \A p \in Order : p # o => broker'[p] = broker[p]
      BY <1>1 DEF BrokerFill, BrokerOrder
<1>3. /\ bought'[broker[o].box] = bought[broker[o].box] + k
      /\ \A b \in Box : b # broker[o].box => bought'[b] = bought[b]
      BY <1>1 DEF BrokerFill
<1>4. /\ f \in Frame
      /\ f.got \in Nat /\ f.kept \in Nat /\ f.want \in Nat
      BY DEF FrameOK, Frame
<1>5. \A b \in Box : bought[b] \in Nat /\ bought'[b] \in Nat /\ bought[b] <= bought'[b]
      BY <1>1, <1>3
<1>6. CountsOK(f, bought')
      BY <1>4, <1>5 DEF FrameOK, CountsOK
<1>7. InFlightOK(f, broker', bought')
  <2>1. f.pc \in {"insert", "judge", "cancel"} =>
          f.ord \in Order /\ broker'[f.ord].box = f.box
        BY <1>2 DEF FrameOK, InFlightOK
  <2>2. ASSUME f.pc \in {"insert", "judge"}
        PROVE  /\ f.got + broker'[f.ord].qty = f.want
               /\ f.kept + f.got + broker'[f.ord].filled <= bought'[f.box]
    <3>1. /\ f.ord \in Order /\ broker[f.ord].box = f.box /\ f.box \in Box
          /\ f.got + broker[f.ord].qty = f.want
          /\ f.kept + f.got + broker[f.ord].filled <= bought[f.box]
          BY <2>2 DEF FrameOK, InFlightOK, CountsOK, Buying
    <3>2. broker[f.ord].filled \in Nat
          BY <3>1, BookNumbers
    <3>3. CASE f.ord = o
          BY <1>1, <1>2, <1>3, <1>4, <1>5, <3>1, <3>3
    <3>4. CASE f.ord # o
          BY <1>2, <1>4, <1>5, <3>1, <3>2, <3>4
    <3>5. QED BY <3>3, <3>4
  <2>3. QED BY <2>1, <2>2 DEF InFlightOK
<1>8. QED BY <1>6, <1>7 DEF FrameOK

(* An execution.                                                            *)
LEMMA BrokerFillStep ==
    ASSUME IInv, NEW o \in Order, NEW k \in 1 .. broker[o].qty, BrokerFill(o, k),
           UNCHANGED <<frame, box, posn, cooldown, decisions, crashes>>
    PROVE  IInv'
<1>1. BookTypeOK' /\ BookOK'
      BY FillBook
<1>2. frame' \in [Task -> Frame] /\ FramesOK'
      BY FillFrame DEF IInv, TypeOK, FramesOK
<1>3. /\ bought \in [Box -> Nat] /\ bought' \in [Box -> Nat]
      /\ broker[o].box \in Box /\ k \in Nat
      BY <1>1, BookNumbers DEF IInv, TypeOK, BookTypeOK, BookOK, OrderOK, BrokerFill
<1>4. \A b \in Box : bought[b] <= bought'[b]
      BY <1>3 DEF BrokerFill
<1>5. PositionsOK'
      BY <1>3, <1>4, PositionsKept
<1>6. QED BY <1>1, <1>2, <1>5 DEF IInv, TypeOK

(* A refusal by the exchange, a new bar, and a lost connection touch        *)
(* neither what was filled nor what was counted.                            *)
LEMMA BrokerRejectStep ==
    ASSUME IInv, NEW o \in Order, BrokerReject(o),
           UNCHANGED <<frame, box, posn, cooldown, decisions, crashes>>
    PROVE  IInv'
<1> DEFINE m == Event("rejected", o, 0, broker[o].qty)
<1>1. /\ broker \in [Order -> BrokerOrder] /\ broker[o].live
      /\ broker' = [broker EXCEPT ![o].live = FALSE]
      /\ stream' = Append(stream, m)
      /\ UNCHANGED <<rows, bought>>
      BY DEF IInv, TypeOK, BookTypeOK, BrokerReject
<1>2. broker' \in [Order -> BrokerOrder]
      BY <1>1 DEF BrokerOrder
<1>3. \A p \in Order : /\ broker'[p].box = broker[p].box
                       /\ broker'[p].qty = broker[p].qty
                       /\ broker'[p].filled = broker[p].filled
                       /\ broker'[p].live => broker[p].live
      BY <1>1 DEF BrokerOrder
<1>4. m \in Message /\ m.kind = "rejected" /\ m.ord = o
      BY BookNumbers DEF Event, Message
<1>5. broker[m.ord].box # NoBox /\ m.kind # "fill" /\ m.ord \in Order
      BY <1>1, <1>4, OrderBookAssumption DEF IInv, BookOK, OrderOK
<1> HIDE DEF m
<1>6. BookTypeOK' /\ BookOK'
      BY <1>1, <1>2, <1>3, <1>4, <1>5, QuietMessage, Zenon
<1>7. frame' \in [Task -> Frame] /\ FramesOK'
      BY <1>1, <1>3, BookAgrees DEF IInv, TypeOK, FramesOK
<1>8. PositionsOK'
      BY <1>1, PositionsKept DEF IInv, TypeOK, BookTypeOK
<1>9. QED BY <1>6, <1>7, <1>8 DEF IInv, TypeOK

(* A new bar in the stream.                                                 *)
LEMMA BarArrivesStep ==
    ASSUME IInv, BarArrives,
           UNCHANGED <<frame, box, posn, cooldown, decisions, crashes>>
    PROVE  IInv'
<1>1. /\ stream' = Append(stream, Bar) /\ UNCHANGED <<broker, rows, bought>>
      /\ broker' \in [Order -> BrokerOrder]
      BY DEF BarArrives, IInv, TypeOK, BookTypeOK
<1>2. Bar \in Message /\ Bar.kind = "bar"
      BY DEF Bar, Message
<1>3. BookTypeOK' /\ BookOK'
      BY <1>1, <1>2, QuietMessage
<1>4. frame' \in [Task -> Frame] /\ FramesOK'
      BY <1>1 DEF IInv, TypeOK, FramesOK
<1>5. PositionsOK'
      BY <1>1, PositionsKept DEF IInv, TypeOK, BookTypeOK
<1>6. QED BY <1>3, <1>4, <1>5 DEF IInv, TypeOK

(* An empty stream is a good one.                                           *)
LEMMA EmptyStream ==
    ASSUME IInv, stream' = <<>>, UNCHANGED <<broker, rows, bought>>
    PROVE  BookTypeOK' /\ BookOK'
BY DEF IInv, TypeOK, BookTypeOK, BookOK

(* Every step of the broker and the network.                                *)
LEMMA EnvironmentStep ==
    ASSUME IInv, Environment PROVE IInv'
<1>1. CASE \E o \in Order : \E k \in 1 .. broker[o].qty : BrokerFill(o, k)
      BY <1>1, BrokerFillStep DEF Environment
<1>2. CASE \E o \in Order : BrokerReject(o)
      BY <1>2, BrokerRejectStep DEF Environment
<1>3. CASE BarArrives
      BY <1>3, BarArrivesStep DEF Environment
<1>4. CASE StreamLost
  <2>1. BookTypeOK' /\ BookOK'
        BY <1>4, EmptyStream DEF StreamLost
  <2>2. PositionsOK' /\ FramesOK' /\ frame' \in [Task -> Frame]
        BY <1>4, PositionsKept
           DEF StreamLost, Environment, FramesOK, IInv, TypeOK, BookTypeOK
  <2>3. QED BY <2>1, <2>2 DEF Environment, IInv, TypeOK
<1>5. QED BY <1>1, <1>2, <1>3, <1>4 DEF Environment

-----------------------------------------------------------------------------
(* The transaction of _finalize_buy, and the actors around it.              *)

(* The one position of a box records what its buy has counted.              *)
LEMMA TriggerPositions ==
    ASSUME IInv, NEW t \in Task, Counted(frame[t], bought), AddAndTrigger(t)
    PROVE  /\ box' \in [Box -> BoxStatus]
           /\ posn' \in [Box -> [rows : Nat, qty : Nat]]
           /\ bought' = bought => PositionsOK'
<1> DEFINE f == frame[t]
           b == f.box
           r == posn[b].rows + 1
           q == posn[b].qty + Recorded(t)
<1>1. /\ f \in Frame /\ b \in Box /\ bought[b] \in Nat /\ Target \in Nat
      /\ f.kept + f.got <= bought[b] /\ f.got <= f.want /\ f.kept + f.want <= Target
      BY BuyPathAssumption DEF Counted, IInv, TypeOK, BookTypeOK
<1>2. Recorded(t) \in Nat /\ Recorded(t) <= bought[b] /\ Recorded(t) <= Target
      BY <1>1 DEF Recorded, Frame
<1>3. /\ box[b] = "WAITING" /\ box \in [Box -> BoxStatus]
      /\ posn \in [Box -> [rows : Nat, qty : Nat]]
      /\ box' = [box EXCEPT ![b] = "TRIGGERED"]
      /\ posn' = [posn EXCEPT ![b] = [rows |-> r, qty |-> q]]
      BY DEF AddAndTrigger, IInv, TypeOK
<1>4. posn[b].rows = 0 /\ posn[b].qty = 0
      BY <1>1, <1>3 DEF IInv, PositionsOK
<1>5. r = 1 /\ q = Recorded(t)
      BY <1>2, <1>4
<1>6. /\ box' \in [Box -> BoxStatus] /\ posn' \in [Box -> [rows : Nat, qty : Nat]]
      BY <1>1, <1>2, <1>3, <1>5 DEF BoxStatus
<1>7. /\ posn'[b].rows = 1 /\ posn'[b].qty = Recorded(t) /\ box'[b] = "TRIGGERED"
      /\ \A c \in Box : c # b => posn'[c] = posn[c] /\ box'[c] = box[c]
      BY <1>1, <1>3, <1>5
<1>8. ASSUME bought' = bought PROVE PositionsOK'
      BY <1>1, <1>2, <1>7, <1>8 DEF IInv, PositionsOK
<1>9. QED BY <1>6, <1>8

(* Recording a buy.                                                         *)
LEMMA CommitStep ==
    ASSUME IInv, NEW t \in Task, Commit(t) PROVE IInv'
<1>1. Counted(frame[t], bought) /\ bought' = bought
      BY BuyingCounted DEF Commit, Buying, bookVars
<1>2. BookTypeOK' /\ BookOK'
      BY BookKept DEF Commit
<1>3. FrameOK(Leave(frame[t]), broker, bought)
      BY <1>1, LeaveOK DEF Counted
<1>4. frame' \in [Task -> Frame] /\ FramesOK'
      BY <1>3, FramesGoto DEF Commit, bookVars
<1>5. /\ box' \in [Box -> BoxStatus] /\ posn' \in [Box -> [rows : Nat, qty : Nat]]
      /\ PositionsOK'
      BY <1>1, TriggerPositions DEF Commit
<1>6. QED BY <1>2, <1>4, <1>5 DEF Commit, IInv, TypeOK

(* A commit that raises, whether or not the database took it.               *)
LEMMA CommitFailsStep ==
    ASSUME IInv, NEW t \in Task, CommitFails(t) PROVE IInv'
<1> DEFINE f == frame[t]
           g == [f EXCEPT !.pc = "compensate"]
<1>1. Counted(f, bought) /\ bought' = bought /\ f \in Frame
      BY BuyingCounted DEF CommitFails, Buying, bookVars, Counted
<1>2. BookTypeOK' /\ BookOK'
      BY BookKept DEF CommitFails
<1>3. /\ g.pc = "compensate" /\ g.want = f.want /\ g.got = f.got
      /\ g.kept = f.kept /\ g.fallback = f.fallback /\ g.box = f.box
      BY <1>1 DEF Frame
<1>4. g \in Frame
      BY <1>1 DEF Frame, PC
<1>5. FrameOK(g, broker, bought)
      BY <1>1, <1>3, <1>4 DEF FrameOK, CountsOK, PlaceOK, InFlightOK, Buying, Counted
<1>6. frame' \in [Task -> Frame] /\ FramesOK'
      BY <1>5, FramesGoto DEF CommitFails, bookVars
<1>7. /\ box' \in [Box -> BoxStatus] /\ posn' \in [Box -> [rows : Nat, qty : Nat]]
      /\ PositionsOK'
  <2>1. CASE AddAndTrigger(t)
        BY <1>1, <2>1, TriggerPositions
  <2>2. CASE UNCHANGED <<posn, box>>
        BY <1>1, <2>2, PositionsKept DEF IInv, TypeOK, BookTypeOK
  <2>3. QED BY <2>1, <2>2 DEF CommitFails
<1>8. cooldown' \in [Box -> BOOLEAN]
      BY DEF CommitFails, IInv, TypeOK
<1>9. QED BY <1>2, <1>6, <1>7, <1>8 DEF CommitFails, IInv, TypeOK

(* A waiting box may be closed: it has no position.                         *)
LEMMA ClosedPositions ==
    ASSUME IInv, NEW b \in Box, box[b] = "WAITING",
           NEW s \in {"CANCELLED", "INVALIDATED"},
           box' = [box EXCEPT ![b] = s], UNCHANGED <<posn, bought>>
    PROVE  box' \in [Box -> BoxStatus] /\ PositionsOK'
<1>1. box \in [Box -> BoxStatus]
      BY DEF IInv, TypeOK
<1>2. box'[b] = s /\ \A c \in Box : c # b => box'[c] = box[c]
      BY <1>1
<1>3. box' \in [Box -> BoxStatus]
      BY <1>1 DEF BoxStatus
<1>4. QED BY <1>2, <1>3 DEF IInv, PositionsOK

(* The compensation writes only a box that still waits.                     *)
LEMMA CompensateStep ==
    ASSUME IInv, NEW t \in Task, Compensate(t) PROVE IInv'
<1>1. Counted(frame[t], bought) /\ bought' = bought
      BY BuyingCounted DEF Compensate, Buying, bookVars
<1>2. BookTypeOK' /\ BookOK'
      BY BookKept DEF Compensate
<1>3. FrameOK(Leave(frame[t]), broker, bought)
      BY <1>1, LeaveOK DEF Counted
<1>4. frame' \in [Task -> Frame] /\ FramesOK'
      BY <1>3, FramesGoto DEF Compensate, bookVars
<1>5. box' \in [Box -> BoxStatus] /\ PositionsOK'
  <2>1. CASE box' = [box EXCEPT ![frame[t].box] = "INVALIDATED"]
             /\ box[frame[t].box] = "WAITING"
        BY <1>1, <2>1, ClosedPositions DEF Compensate, Counted
  <2>2. CASE UNCHANGED box
        BY <1>1, <2>2, PositionsKept DEF Compensate, IInv, TypeOK, BookTypeOK
  <2>3. QED BY <2>1, <2>2 DEF Compensate
<1>6. QED BY <1>2, <1>4, <1>5 DEF Compensate, IInv, TypeOK

(* So do the other writers of a box's status.                               *)
LEMMA CloseBoxStep ==
    ASSUME IInv, NEW b \in Box, CloseBox(b) PROVE IInv'
<1>1. BookTypeOK' /\ BookOK'
      BY BookKept DEF CloseBox
<1>2. box' \in [Box -> BoxStatus] /\ PositionsOK'
      BY ClosedPositions DEF CloseBox, bookVars
<1>3. QED BY <1>1, <1>2 DEF CloseBox, bookVars, IInv, TypeOK, FramesOK

(* A cooldown runs out.                                                     *)
LEMMA CooldownExpiresStep ==
    ASSUME IInv, NEW b \in Box, CooldownExpires(b) PROVE IInv'
<1>1. BookTypeOK' /\ BookOK'
      BY BookKept DEF CooldownExpires
<1>2. QED
      BY <1>1 DEF CooldownExpires, bookVars, IInv, TypeOK, FramesOK, PositionsOK

(* After a restart the tables are what they were and the frames are idle.   *)
LEMMA CrashStep ==
    ASSUME IInv, Crash PROVE IInv'
<1>1. BookTypeOK' /\ BookOK'
      BY EmptyStream DEF Crash
<1>2. IdleFrame \in Frame
      BY IdleOK DEF FrameOK
<1>3. frame' \in [Task -> Frame] /\ FramesOK'
      BY <1>2, IdleOK DEF Crash, FramesOK
<1>4. PositionsOK'
      BY PositionsKept DEF Crash, IInv, TypeOK, BookTypeOK
<1>5. QED BY <1>1, <1>3, <1>4 DEF Crash, IInv, TypeOK

-----------------------------------------------------------------------------
(* IInv is an invariant.                                                    *)

(* The initial state.                                                       *)
LEMMA InitIInv == Init => IInv
<1> SUFFICES ASSUME Init PROVE IInv
    OBVIOUS
<1>1. BookTypeOK /\ BookOK
      BY DEF Init, BookInit, BookTypeOK, BookOK, Unused, NoRow, BrokerOrder,
             OrderRow, RowState, OrderOK
<1>2. FramesOK /\ frame \in [Task -> Frame]
      BY IdleOK DEF Init, FramesOK, FrameOK
<1>3. PositionsOK
      BY <1>1, BuyPathAssumption DEF Init, PositionsOK, BookInit
<1>4. QED BY <1>1, <1>2, <1>3 DEF Init, IInv, TypeOK, BoxStatus

(* A step that changes nothing.                                             *)
LEMMA StutterStep == IInv /\ UNCHANGED vars => IInv'
BY DEF vars, IInv, TypeOK, BookTypeOK, BookOK, FramesOK, PositionsOK,
       FrameOK, CountsOK, PlaceOK, InFlightOK, OrderOK, EventOK, InOrder

(* Every step of a task.                                                    *)
LEMMA TaskStep ==
    ASSUME IInv, NEW t \in Task, Detect(t) \/ Buy(t) PROVE IInv'
<1>1. CASE SkipBox(t)        BY <1>1, SkipBoxStep
<1>2. CASE EnterBox(t)       BY <1>2, EnterBoxStep
<1>3. CASE ScanDone(t)       BY <1>3, ScanDoneStep
<1>4. CASE Check(t)          BY <1>4, CheckStep
<1>5. CASE NoAsk(t)          BY <1>5, NoAskStep
<1>6. CASE SendOrder(t)      BY <1>6, SendOrderStep
<1>7. CASE SendUnanswered(t) BY <1>7, SendUnansweredStep
<1>8. CASE SendFails(t)      BY <1>8, SendFailsStep
<1>9. CASE Insert(t)         BY <1>9, InsertStep
<1>10. CASE Judge(t)         BY <1>10, JudgeStep
<1>11. CASE Cancel(t)        BY <1>11, CancelStep
<1>12. CASE Recheck(t)       BY <1>12, RecheckStep
<1>13. CASE Commit(t)        BY <1>13, CommitStep
<1>14. CASE CommitFails(t)   BY <1>14, CommitFailsStep
<1>15. CASE Compensate(t)    BY <1>15, CompensateStep
<1>16. CASE NextMorning(t)   BY <1>16, NextMorningStep
<1>17. QED
      BY <1>1, <1>2, <1>3, <1>4, <1>5, <1>6, <1>7, <1>8, <1>9, <1>10, <1>11,
         <1>12, <1>13, <1>14, <1>15, <1>16 DEF Detect, Buy

(* Every step.                                                              *)
LEMMA InductiveStep == IInv /\ [Next]_vars => IInv'
<1> SUFFICES ASSUME IInv, [Next]_vars PROVE IInv'
    OBVIOUS
<1>1. CASE BarComplete \/ EodBar \/ OrderEvent
      BY <1>1, BarCompleteStep, EodBarStep, OrderEventStep
<1>2. CASE \E t \in Task : Detect(t) \/ Buy(t)
      BY <1>2, TaskStep
<1>3. CASE \E b \in Box : CloseBox(b) \/ CooldownExpires(b)
      BY <1>3, CloseBoxStep, CooldownExpiresStep
<1>4. CASE Environment \/ Crash
      BY <1>4, EnvironmentStep, CrashStep
<1>5. CASE UNCHANGED vars
      BY <1>5, StutterStep
<1>6. QED BY <1>1, <1>2, <1>3, <1>4, <1>5 DEF Next

(* The inductive invariant holds in every reachable state.                  *)
THEOREM Inductive == Spec => []IInv
BY InitIInv, InductiveStep, PTL DEF Spec

-----------------------------------------------------------------------------
(* What follows for the system.                                             *)

(* Every variable of the buying side keeps its type.                        *)
THEOREM TypeCorrect == Spec => []TypeOK
<1>1. IInv => TypeOK
      BY DEF IInv
<1>2. QED BY <1>1, Inductive, PTL

(* For any boxes, orders, retries and restarts: a box is TRIGGERED exactly  *)
(* when one position row names it, through every failure of _finalize_buy.  *)
THEOREM TriggerIsAtomic == Spec => []TriggerAtomic
<1>1. IInv => TriggerAtomic
      BY DEF IInv, PositionsOK, TriggerAtomic
<1>2. QED BY <1>1, Inductive, PTL

(* A position never claims shares the broker did not buy for its box.       *)
THEOREM PositionsAreBought == Spec => []NoPhantomShares
<1>1. IInv => NoPhantomShares
      BY DEF IInv, PositionsOK, NoPhantomShares
<1>2. QED BY <1>1, Inductive, PTL

(* A position never holds more than its decision asked for.                 *)
THEOREM PositionsAreBounded == Spec => []PositionWithinTarget
<1>1. IInv => PositionWithinTarget
      BY DEF IInv, PositionsOK, PositionWithinTarget
<1>2. QED BY <1>1, Inductive, PTL

(* The v71_orders row of an order never runs ahead of the broker, whatever  *)
(* the stream has lost.                                                     *)
THEOREM RowsNeverAhead == Spec => []RowsBehindBroker
<1>1. IInv => RowsBehindBroker
      BY DEF IInv, BookOK, OrderOK, RowsBehindBroker
<1>2. QED BY <1>1, Inductive, PTL

-----------------------------------------------------------------------------
(* The steps as the contract sees them.                                     *)

(* Only three kinds of step touch the contract's variables, and each is the *)
(* contract's: an execution, the commit of a counted buy, the end of a wait.*)
LEMMA FillContract ==
    ASSUME IInv, NEW o \in Order, NEW k \in 1 .. broker[o].qty, BrokerFill(o, k),
           UNCHANGED <<box, posn>>
    PROVE  \E b \in Box : Contract!BrokerBuys(b)
<1>1. /\ broker[o].box \in Box /\ k \in Nat /\ k > 0
      /\ bought \in [Box -> Nat]
      /\ bought' = [bought EXCEPT ![broker[o].box] = @ + k]
      BY BookNumbers DEF IInv, TypeOK, BookTypeOK, BookOK, OrderOK, BrokerFill
<1> DEFINE b == broker[o].box
<1>2. bought'[b] = bought[b] + k /\ bought[b] \in Nat
      BY <1>1
<1>3. bought' = [bought EXCEPT ![b] = bought'[b]]
      BY <1>1, <1>2
<1>4. bought'[b] > bought[b]
  <2> DEFINE x == bought[b]
  <2>1. x \in Nat /\ bought'[b] = x + k /\ k \in Nat /\ k > 0
        BY <1>1, <1>2
  <2> HIDE DEF x, b
  <2>2. bought'[b] > x
        BY <2>1
  <2>3. QED BY <2>2 DEF x
<1>5. QED BY <1>1, <1>3, <1>4 DEF Contract!BrokerBuys

(* The commit of a counted buy is the contract's trigger.                   *)
LEMMA TriggerContract ==
    ASSUME IInv, NEW t \in Task, frame[t].pc = "commit", AddAndTrigger(t),
           bought' = bought
    PROVE  \E b \in Box : Contract!Trigger(b)
<1> DEFINE f == frame[t]
           b == f.box
           r == posn[b].rows + 1
           q == posn[b].qty + Recorded(t)
<1>1. Counted(f, bought) /\ f.kept + f.got > 0
      BY BuyingCounted DEF Buying, IInv, FramesOK, FrameOK, PlaceOK
<1>2. /\ f \in Frame /\ b \in Box /\ bought[b] \in Nat /\ Target \in Nat
      /\ f.kept + f.got <= bought[b] /\ f.got <= f.want /\ f.kept + f.want <= Target
      BY <1>1, BuyPathAssumption DEF Counted, IInv, TypeOK, BookTypeOK
<1>3. Recorded(t) \in 1 .. Target /\ Recorded(t) <= bought[b]
      BY <1>1, <1>2 DEF Recorded, Frame
<1>4. /\ box[b] = "WAITING" /\ posn \in [Box -> [rows : Nat, qty : Nat]]
      /\ box' = [box EXCEPT ![b] = "TRIGGERED"]
      /\ posn' = [posn EXCEPT ![b] = [rows |-> r, qty |-> q]]
      BY DEF AddAndTrigger, IInv, TypeOK
<1>5. posn[b].rows = 0 /\ posn[b].qty = 0
      BY <1>2, <1>4 DEF IInv, PositionsOK
<1>6. r = 1 /\ q = Recorded(t)
      BY <1>3, <1>5
<1>7. posn' = [posn EXCEPT ![b] = [rows |-> 1, qty |-> q]]
      BY <1>4, <1>6
<1>8. posn'[b] = [rows |-> 1, qty |-> q]
      BY <1>2, <1>4, <1>7
<1>9. posn'[b].qty = q
      BY <1>8
<1> HIDE DEF q, r
<1>10. Contract!Trigger(b)
      BY <1>2, <1>3, <1>4, <1>5, <1>6, <1>7, <1>9 DEF Contract!Trigger
<1>11. QED BY <1>2, <1>10

(* Closing a waiting box is the contract's close.                           *)
LEMMA CloseContract ==
    ASSUME IInv, NEW b \in Box, box[b] = "WAITING",
           NEW s \in {"CANCELLED", "INVALIDATED"},
           box' = [box EXCEPT ![b] = s], UNCHANGED <<posn, bought>>
    PROVE  \E c \in Box : Contract!Close(c)
<1>1. box'[b] = s
      BY DEF IInv, TypeOK
<1>2. Contract!Close(b)
      BY <1>1 DEF Contract!Close
<1>3. QED BY <1>2

(* Every step is a step of the contract, or changes nothing it speaks of.   *)
LEMMA ContractStep ==
    IInv /\ [Next]_vars => [Contract!Next]_(Contract!contractVars)
<1> SUFFICES ASSUME IInv, [Next]_vars
             PROVE  Contract!Next \/ UNCHANGED <<box, posn, bought>>
    BY DEF Contract!contractVars
<1>1. CASE \E t \in Task : Commit(t) \/ CommitFails(t)
      BY <1>1, TriggerContract DEF Commit, CommitFails, bookVars, Contract!Next
<1>2. CASE \E t \in Task : Compensate(t)
  <2>1. PICK t \in Task : Compensate(t)
        BY <1>2
  <2>2. frame[t].box \in Box
        BY <2>1, BuyingCounted DEF Compensate, Buying, Counted
  <2>3. UNCHANGED <<posn, bought>>
        BY <2>1 DEF Compensate, bookVars
  <2>4. CASE UNCHANGED box
        BY <2>3, <2>4
  <2>5. CASE /\ box[frame[t].box] = "WAITING"
             /\ box' = [box EXCEPT ![frame[t].box] = "INVALIDATED"]
        BY <2>2, <2>3, <2>5, CloseContract DEF Contract!Next
  <2>6. QED BY <2>1, <2>4, <2>5 DEF Compensate
<1>3. CASE \E b \in Box : CloseBox(b)
  <2>1. PICK b \in Box : CloseBox(b)
        BY <1>3
  <2>2. PICK s \in {"CANCELLED", "INVALIDATED"} : box' = [box EXCEPT ![b] = s]
        BY <2>1 DEF CloseBox
  <2>3. box[b] = "WAITING" /\ UNCHANGED <<posn, bought>>
        BY <2>1 DEF CloseBox, bookVars
  <2>4. QED BY <2>2, <2>3, CloseContract DEF Contract!Next
<1>4. CASE Environment
  <2>1. CASE \E o \in Order : \E k \in 1 .. broker[o].qty : BrokerFill(o, k)
        BY <1>4, <2>1, FillContract DEF Environment, Contract!Next
  <2>2. CASE ~\E o \in Order : \E k \in 1 .. broker[o].qty : BrokerFill(o, k)
        BY <1>4, <2>2 DEF Environment, BrokerReject, BarArrives, StreamLost
  <2>3. QED BY <2>1, <2>2
<1>5. CASE BarComplete \/ EodBar \/ OrderEvent
      BY <1>5 DEF BarComplete, EodBar, OrderEvent, OnOrderEvent, bookVars
<1>6. CASE \E t \in Task : Detect(t)
      BY <1>6 DEF Detect, SkipBox, EnterBox, ScanDone, bookVars
<1>7. CASE \E t \in Task : \/ Check(t) \/ NoAsk(t) \/ SendFails(t)
                           \/ Judge(t) \/ Recheck(t)
                           \/ NextMorning(t)
      BY <1>7 DEF Check, NoAsk, SendFails, Judge, Recheck, NextMorning,
                  ExecutorKeeps, bookVars
<1>8. CASE \E t \in Task : SendOrder(t) \/ SendUnanswered(t) \/ Insert(t) \/ Cancel(t)
      BY <1>8 DEF SendOrder, SendUnanswered, Insert, Cancel, bookVars
<1>9. CASE Crash \/ \E b \in Box : CooldownExpires(b)
      BY <1>9 DEF Crash, CooldownExpires, bookVars
<1>10. CASE UNCHANGED vars
      BY <1>10 DEF vars
<1>11. QED
      BY <1>1, <1>2, <1>3, <1>4, <1>5, <1>6, <1>7, <1>8, <1>9, <1>10 DEF Next, Buy

(* The buying side, with its retries, partial fills, failures and restarts, *)
(* implements BoxContract.                                                  *)
THEOREM Refinement == Spec => ImplementsContract
<1>1. Init => Contract!Init
      BY DEF Init, BookInit, Contract!Init
<1>2. IInv /\ [Next]_vars => [Contract!Next]_(Contract!contractVars)
      BY ContractStep
<1>3. QED
      BY <1>1, <1>2, Inductive, PTL DEF Spec, ImplementsContract, Contract!Spec

-----------------------------------------------------------------------------
(* A box that left WAITING never changes again, whichever of its writers    *)
(* steps.                                                                   *)
THEOREM TerminalIsFinal == Spec => TerminalBoxFinal
<1> DEFINE Final == \A b \in Box : box[b] # "WAITING" => box'[b] = box[b]
<1>1. IInv /\ [Next]_vars => [Final]_vars
  <2> SUFFICES ASSUME IInv, [Next]_vars PROVE Final \/ UNCHANGED vars
      OBVIOUS
  <2>1. Contract!Next \/ UNCHANGED <<box, posn, bought>>
        BY ContractStep DEF Contract!contractVars
  <2>2. Contract!Next => Final
        BY DEF Contract!Next, Contract!BrokerBuys, Contract!Trigger,
               Contract!Close, IInv, TypeOK
  <2>3. QED BY <2>1, <2>2
<1>2. QED BY <1>1, Inductive, PTL DEF Spec, TerminalBoxFinal

-----------------------------------------------------------------------------
(* Why the compensation cooldown of V71BoxEntryDetector does its work: a    *)
(* box belongs to one of the two tasks, a task buys a box only when it is   *)
(* not in cooldown, and only the task's own failed commit starts one.       *)

(* The detector of task t looks at its own boxes, and the box it buys is    *)
(* not in cooldown (cd) until its commit has failed.                        *)
Guarded(t, f, cd) ==
    /\ f.todo \subseteq BoxesOf(t)
    /\ Buying(f) => f.box \in BoxesOf(t)
    /\ Buying(f) /\ f.pc # "compensate" => ~cd[f.box]

CooldownInv == IInv /\ \A t \in Task : Guarded(t, frame[t], cooldown)

(* What the executor makes of a frame: the buy goes on, or it is over.      *)
Continues(f, g) == g.todo = f.todo /\ (g.pc = "scan" \/ g.box = f.box)

-----------------------------------------------------------------------------
(* Every continuation of the executor continues the frame.                  *)

(* The end of a buy.                                                        *)
LEMMA LeaveContinues ==
    ASSUME NEW f \in Frame PROVE Continues(f, Leave(f))
BY DEF Leave, IdleFrame, Continues

(* So does the wait.                                                        *)
LEMMA DeferContinues ==
    ASSUME NEW f \in Frame, NEW k PROVE Continues(f, DeferToFallback(f, k))
BY DEF DeferToFallback, Frame, Continues

(* The end of a sequence.                                                   *)
LEMMA SettleContinues ==
    ASSUME NEW f \in Frame PROVE Continues(f, Settle(f))
<1> DEFINE g == [f EXCEPT !.pc = "commit", !.ord = NoOrder,
                          !.market = FALSE, !.tries = 0]
<1>1. Continues(f, g)
      BY DEF Frame, Continues
<1> HIDE DEF g
<1>2. Settle(f) \in {DeferToFallback(f, f.got), Leave(f), g}
      BY Zenon DEF Settle, g
<1>3. QED BY <1>1, <1>2, LeaveContinues, DeferContinues

(* Its next order.                                                          *)
LEMMA NextOrderContinues ==
    ASSUME NEW f \in Frame PROVE Continues(f, NextOrder(f))
<1> DEFINE l == [f EXCEPT !.pc = "limit", !.tries = @ - 1, !.ord = NoOrder]
           m == [f EXCEPT !.pc = "market", !.ord = NoOrder, !.market = TRUE]
<1>1. Continues(f, l) /\ Continues(f, m)
      BY DEF Frame, Continues
<1> HIDE DEF l, m
<1>2. NextOrder(f) \in {Settle(f), l, m}
      BY Zenon DEF NextOrder, l, m
<1>3. QED BY <1>1, <1>2, SettleContinues

(* An exception.                                                            *)
LEMMA RaiseContinues ==
    ASSUME NEW f \in Frame, NEW e PROVE Continues(f, Raise(f, e))
BY LeaveContinues, DeferContinues, Zenon DEF Raise

(* The count of an order's fills.                                           *)
LEMMA CountContinues ==
    ASSUME IInv, NEW f \in Frame, f.ord \in Order
    PROVE  Continues(f, AfterCount(CountFill(f)))
<1> DEFINE h == CountFill(f)
           c == [h EXCEPT !.pc = "cancel"]
<1>1. f.got + rows[f.ord].filled \in Nat
      BY BookNumbers DEF Frame
<1>2. h \in Frame /\ h.todo = f.todo /\ h.box = f.box
      BY <1>1 DEF CountFill, Frame
<1>3. Continues(h, Settle(h)) /\ Continues(h, NextOrder(h))
      BY <1>2, SettleContinues, NextOrderContinues
<1>4. Continues(h, c)
      BY <1>2 DEF Frame, Continues
<1> HIDE DEF h, c
<1>5. AfterCount(h) \in {Settle(h), c, NextOrder(h)}
      BY Zenon DEF AfterCount, c
<1>6. Continues(h, AfterCount(h))
      BY <1>3, <1>4, <1>5
<1>7. QED BY <1>2, <1>6 DEF Continues, h

-----------------------------------------------------------------------------
(* The steps.                                                               *)

(* One task moves to a guarded frame and no cooldown starts.                *)
LEMMA GotoGuarded ==
    ASSUME CooldownInv, NEW t \in Task, NEW g, Guarded(t, g, cooldown), Goto(t, g),
           UNCHANGED cooldown
    PROVE  \A u \in Task : Guarded(u, frame'[u], cooldown')
<1>1. frame' = [frame EXCEPT ![t] = g] /\ frame \in [Task -> Frame]
      BY DEF Goto, CooldownInv, IInv, TypeOK
<1>2. QED BY <1>1 DEF CooldownInv

(* A buy that goes on, or ends, stays guarded.                              *)
LEMMA ContinueGuarded ==
    ASSUME NEW t \in Task, NEW f, Guarded(t, f, cooldown), Buying(f),
           f.pc # "compensate", NEW g, Continues(f, g)
    PROVE  Guarded(t, g, cooldown)
BY DEF Guarded, Continues, Buying

(* The detector's steps: a box is bought only out of its cooldown.          *)
LEMMA DetectGuarded ==
    ASSUME CooldownInv, NEW t \in Task, Detect(t)
    PROVE  \A u \in Task : Guarded(u, frame'[u], cooldown')
<1>1. frame[t] \in Frame /\ Guarded(t, frame[t], cooldown) /\ UNCHANGED cooldown
      BY DEF CooldownInv, IInv, TypeOK, Detect, SkipBox, EnterBox, ScanDone
<1>2. CASE SkipBox(t)
  <2>1. PICK b \in frame[t].todo : Goto(t, [frame[t] EXCEPT !.todo = @ \ {b}])
        BY <1>2 DEF SkipBox
  <2> DEFINE g == [frame[t] EXCEPT !.todo = @ \ {b}]
  <2>2. g.todo \subseteq frame[t].todo /\ g.pc = "scan"
        BY <1>1, <1>2 DEF Frame, SkipBox
  <2>3. Guarded(t, g, cooldown)
        BY <1>1, <2>2 DEF Guarded, Buying
  <2>4. QED BY <1>1, <2>1, <2>3, GotoGuarded
<1>3. CASE EnterBox(t)
  <2>1. PICK b \in frame[t].todo :
          /\ ~cooldown[b]
          /\ Goto(t, Decided(frame[t], b))
        BY <1>3 DEF EnterBox
  <2> DEFINE g == Decided(frame[t], b)
  <2>2. g.todo \subseteq frame[t].todo /\ g.pc \in {"wait", "check"} /\ g.box = b
        BY <1>1 DEF Frame, Decided
  <2>3. Guarded(t, g, cooldown)
        BY <1>1, <2>1, <2>2 DEF Guarded, Buying
  <2>4. QED BY <1>1, <2>1, <2>3, GotoGuarded
<1>4. CASE ScanDone(t)
  <2>1. Guarded(t, IdleFrame, cooldown)
        BY DEF Guarded, Buying, IdleFrame
  <2>2. QED BY <1>1, <1>4, <2>1, GotoGuarded DEF ScanDone
<1>5. QED BY <1>2, <1>3, <1>4 DEF Detect

(* The executor's steps before the commit fails only continue the frame.    *)
LEMMA BuyContinues ==
    ASSUME CooldownInv, NEW t \in Task, Buy(t), ~CommitFails(t), ~Compensate(t)
    PROVE  /\ Buying(frame[t]) /\ frame[t].pc # "compensate" /\ UNCHANGED cooldown
           /\ \E g : Goto(t, g) /\ Continues(frame[t], g)
<1> DEFINE f == frame[t]
<1>1. f \in Frame
      BY DEF CooldownInv, IInv, TypeOK
<1>2. CASE Check(t)
  <2> DEFINE h == [f EXCEPT !.want = Target, !.tries = RetryCount]
  <2>1. h \in Frame /\ h.todo = f.todo /\ h.box = f.box
        BY <1>1, BuyPathAssumption DEF Frame
  <2>2. Continues(f, NextOrder(h)) /\ Continues(f, Leave(f))
        BY <1>1, <2>1, NextOrderContinues, LeaveContinues DEF Continues
  <2>3. QED BY <1>2, <2>2 DEF Check, BeginSequence, ExecutorKeeps, Buying
<1>3. CASE NoAsk(t)
  <2> DEFINE g == [f EXCEPT !.pc = "market", !.market = TRUE, !.tries = 0]
  <2>1. Continues(f, g)
        BY <1>1 DEF Frame, Continues
  <2>2. QED BY <1>3, <2>1 DEF NoAsk, ExecutorKeeps, Buying
<1>4. CASE SendOrder(t)
  <2>1. PICK o \in Order : Goto(t, [f EXCEPT !.pc = "insert", !.ord = o])
        BY <1>4 DEF SendOrder
  <2>2. Continues(f, [f EXCEPT !.pc = "insert", !.ord = o])
        BY <1>1 DEF Frame, Continues
  <2>3. QED BY <1>4, <2>1, <2>2 DEF SendOrder, Buying
<1>5. CASE SendUnanswered(t) \/ SendFails(t)
      BY <1>1, <1>5, RaiseContinues
         DEF SendUnanswered, SendFails, ExecutorKeeps, Buying
<1>6. CASE Insert(t)
  <2>1. Continues(f, [f EXCEPT !.pc = "judge"])
        BY <1>1 DEF Frame, Continues
  <2>2. QED BY <1>1, <1>6, <2>1, RaiseContinues DEF Insert, Buying
<1>7. CASE Judge(t)
  <2>1. f.ord \in Order
        BY <1>7 DEF Judge, CooldownInv, IInv, FramesOK, FrameOK, InFlightOK
  <2>2. QED
        BY <1>1, <1>7, <2>1, CountContinues, RaiseContinues
           DEF Judge, ExecutorKeeps, Buying, CooldownInv
<1>8. CASE Cancel(t)
      BY <1>1, <1>8, NextOrderContinues, RaiseContinues DEF Cancel, Buying
<1>9. CASE Recheck(t)
  <2> DEFINE h == [f EXCEPT !.want = Target - f.kept]
  <2>1. Counted(f, bought) /\ Target - f.kept \in Nat
        BY <1>9, BuyingCounted, BuyPathAssumption
           DEF Recheck, Buying, CooldownInv, Counted, Frame
  <2>2. h \in Frame /\ h.todo = f.todo /\ h.box = f.box
        BY <1>1, <2>1 DEF Frame
  <2>3. Continues(f, NextOrder(h)) /\ Continues(f, Leave(f))
        BY <1>1, <2>2, NextOrderContinues, LeaveContinues DEF Continues
  <2>4. QED BY <1>9, <2>3 DEF Recheck, BeginFallback, ExecutorKeeps, Buying
<1>10. CASE Commit(t)
      BY <1>1, <1>10, LeaveContinues DEF Commit, Buying
<1>11. CASE NextMorning(t)
  <2>1. Continues(f, [f EXCEPT !.pc = "check"])
        BY <1>1 DEF Frame, Continues
  <2>2. Continues(f, AfterWait(f))
        BY <1>1, <2>1, LeaveContinues DEF AfterWait
  <2>3. QED BY <1>11, <2>2 DEF NextMorning, ExecutorKeeps, Buying
<1>12. QED
      BY <1>2, <1>3, <1>4, <1>5, <1>6, <1>7, <1>8, <1>9, <1>10, <1>11 DEF Buy

(* A failed commit blocks its own box, which the other task never buys.     *)
LEMMA CommitFailsGuarded ==
    ASSUME CooldownInv, NEW t \in Task, CommitFails(t)
    PROVE  \A u \in Task : Guarded(u, frame'[u], cooldown')
<1> DEFINE f == frame[t]
           g == [f EXCEPT !.pc = "compensate"]
<1>1. /\ f \in Frame /\ frame \in [Task -> Frame] /\ f.box \in BoxesOf(t)
      /\ f.todo \subseteq BoxesOf(t) /\ cooldown \in [Box -> BOOLEAN]
      /\ \A u \in Task : Guarded(u, frame[u], cooldown)
      BY DEF CommitFails, CooldownInv, IInv, TypeOK, Guarded, Buying
<1>2. /\ frame' = [frame EXCEPT ![t] = g]
      /\ cooldown' = [cooldown EXCEPT ![f.box] = TRUE]
      BY DEF CommitFails, Goto
<1>3. g.todo = f.todo /\ g.box = f.box /\ g.pc = "compensate"
      BY <1>1 DEF Frame
<1>4. Guarded(t, frame'[t], cooldown')
      BY <1>1, <1>2, <1>3 DEF Guarded
<1>5. ASSUME NEW u \in Task, u # t PROVE Guarded(u, frame'[u], cooldown')
  <2>1. frame'[u] = frame[u] /\ Guarded(u, frame[u], cooldown)
        BY <1>1, <1>2, <1>5
  <2>2. \A b \in BoxesOf(u) : b # f.box /\ b \in Box
        BY <1>1, <1>5, BuyPathAssumption DEF BoxesOf, Task
  <2>3. \A b \in BoxesOf(u) : cooldown'[b] = cooldown[b]
        BY <1>1, <1>2, <2>2
  <2>4. QED BY <2>1, <2>3 DEF Guarded
<1>6. QED BY <1>4, <1>5

(* The other steps end a buy, start a scan or end a cooldown.               *)
LEMMA OtherGuarded ==
    ASSUME CooldownInv,
           \/ BarComplete \/ EodBar \/ OrderEvent \/ Environment \/ Crash
           \/ \E b \in Box : CloseBox(b) \/ CooldownExpires(b)
           \/ UNCHANGED vars
    PROVE  \A u \in Task : Guarded(u, frame'[u], cooldown')
<1>1. /\ frame \in [Task -> Frame] /\ cooldown \in [Box -> BOOLEAN]
      /\ \A u \in Task : Guarded(u, frame[u], cooldown)
      BY DEF CooldownInv, IInv, TypeOK
<1>2. ASSUME NEW t \in Task, StartScan(t), UNCHANGED cooldown
      PROVE  \A u \in Task : Guarded(u, frame'[u], cooldown')
  <2> DEFINE g == [IdleFrame EXCEPT !.pc = "scan", !.todo = ListWaiting(t)]
  <2>1. g.pc = "scan" /\ g.todo = ListWaiting(t)
        BY DEF IdleFrame
  <2>2. Guarded(t, g, cooldown)
        BY <2>1 DEF Guarded, Buying, ListWaiting
  <2>3. QED BY <1>2, <2>2, GotoGuarded DEF StartScan
<1>3. CASE UNCHANGED <<frame, cooldown>>
      BY <1>1, <1>3
<1>4. CASE BarComplete \/ EodBar
      BY <1>2, <1>3, <1>4 DEF BarComplete, EodBar, Task
<1>5. CASE \E b \in Box : CooldownExpires(b)
  <2>1. frame' = frame /\ \A c \in Box : cooldown'[c] => cooldown[c]
        BY <1>1, <1>5 DEF CooldownExpires
  <2>2. \A u \in Task : BoxesOf(u) \subseteq Box
        BY BuyPathAssumption DEF BoxesOf
  <2>3. QED BY <1>1, <2>1, <2>2 DEF Guarded
<1>6. CASE Crash
  <2>1. \A u \in Task : frame'[u] = IdleFrame
        BY <1>6 DEF Crash
  <2>2. QED BY <2>1 DEF Guarded, Buying, IdleFrame
<1>7. CASE \/ OrderEvent \/ Environment \/ UNCHANGED vars
           \/ \E b \in Box : CloseBox(b)
      BY <1>3, <1>7 DEF OrderEvent, CloseBox, Environment, vars
<1>8. QED BY <1>4, <1>5, <1>6, <1>7

(* CooldownInv is an invariant.                                             *)
LEMMA CooldownInductive ==
    CooldownInv /\ [Next]_vars => CooldownInv'
<1> SUFFICES ASSUME CooldownInv, [Next]_vars
             PROVE  \A u \in Task : Guarded(u, frame'[u], cooldown')
    BY InductiveStep DEF CooldownInv
<1>1. CASE \E t \in Task : Detect(t)
      BY <1>1, DetectGuarded
<1>2. CASE \E t \in Task : CommitFails(t)
      BY <1>2, CommitFailsGuarded
<1>3. CASE \E t \in Task : Compensate(t)
  <2>1. PICK t \in Task : Compensate(t)
        BY <1>3
  <2>2. /\ frame[t] \in Frame /\ Guarded(t, frame[t], cooldown)
        /\ Goto(t, Leave(frame[t])) /\ UNCHANGED cooldown
        BY <2>1 DEF Compensate, CooldownInv, IInv, TypeOK
  <2>3. Leave(frame[t]).todo = frame[t].todo /\ Leave(frame[t]).pc = "scan"
        BY DEF Leave, IdleFrame
  <2>4. Guarded(t, Leave(frame[t]), cooldown)
        BY <2>2, <2>3 DEF Guarded, Buying
  <2>5. QED BY <2>2, <2>4, GotoGuarded
<1>4. ASSUME NEW t \in Task, Buy(t), ~CommitFails(t), ~Compensate(t)
      PROVE  \A u \in Task : Guarded(u, frame'[u], cooldown')
  <2>1. /\ Buying(frame[t]) /\ frame[t].pc # "compensate" /\ UNCHANGED cooldown
        /\ \E g : Goto(t, g) /\ Continues(frame[t], g)
        BY <1>4, BuyContinues
  <2>2. PICK g : Goto(t, g) /\ Continues(frame[t], g)
        BY <2>1
  <2>3. Guarded(t, g, cooldown)
        BY <2>1, <2>2, ContinueGuarded DEF CooldownInv
  <2>4. QED BY <2>1, <2>2, <2>3, GotoGuarded
<1>5. CASE \/ BarComplete \/ EodBar \/ OrderEvent \/ Environment \/ Crash
           \/ \E b \in Box : CloseBox(b) \/ CooldownExpires(b)
           \/ UNCHANGED vars
      BY <1>5, OtherGuarded
<1>6. QED BY <1>1, <1>2, <1>3, <1>4, <1>5 DEF Next

(* At the start nothing is bought and nothing is in cooldown.               *)
LEMMA CooldownInit == Init => CooldownInv
<1>1. Init => \A t \in Task : Guarded(t, frame[t], cooldown)
      BY DEF Init, Guarded, Buying, IdleFrame
<1>2. QED BY <1>1, InitIInv DEF CooldownInv

-----------------------------------------------------------------------------

(* Only an order the executor sends gets a box.                             *)
LEMMA OnlySendsPlace ==
    ASSUME IInv, [Next]_vars, \A t \in Task : ~SendOrder(t) /\ ~SendUnanswered(t)
    PROVE  \A o \in Order : broker'[o].box = broker[o].box
<1>1. broker \in [Order -> BrokerOrder]
      BY DEF IInv, TypeOK, BookTypeOK
<1>2. CASE UNCHANGED broker
      BY <1>2
<1>3. CASE \E o \in Order : \E k \in 1 .. broker[o].qty : BrokerFill(o, k)
  <2>1. PICK o \in Order : \E k \in 1 .. broker[o].qty : BrokerFill(o, k)
        BY <1>3
  <2>2. PICK k \in 1 .. broker[o].qty : BrokerFill(o, k)
        BY <2>1
  <2> DEFINE c == [broker[o] EXCEPT !.filled = broker[o].filled + k]
             l == broker[o].qty - (broker[o].filled + k) > 0
  <2>3. broker'[o] = [c EXCEPT !.live = l] /\ \A p \in Order : p # o => broker'[p] = broker[p]
        BY <1>1, <2>2 DEF BrokerFill
  <2>4. c.box = broker[o].box /\ [c EXCEPT !.live = l].box = c.box
        BY <1>1 DEF BrokerOrder
  <2> HIDE DEF c, l
  <2>5. QED BY <2>3, <2>4
<1>4. CASE \E o \in Order : BrokerReject(o) \/ BrokerCancel(o)
  <2>1. PICK o \in Order : broker' = [broker EXCEPT ![o].live = FALSE]
        BY <1>4 DEF BrokerReject, BrokerCancel
  <2>2. QED BY <1>1, <2>1 DEF BrokerOrder
<1>5. ASSUME NEW t \in Task, Buy(t)
      PROVE  UNCHANGED broker \/ \E o \in Order : BrokerCancel(o)
  <2>1. CASE Cancel(t)
    <3>1. frame[t].ord \in Order
          BY <2>1 DEF Cancel, IInv, FramesOK, FrameOK, InFlightOK
    <3>2. QED BY <2>1, <3>1 DEF Cancel, bookVars
  <2>2. CASE ~Cancel(t)
        BY <1>5, <2>2
           DEF Buy, NextMorning, Check, NoAsk, SendFails, Insert,
               Judge, Recheck, Commit, CommitFails, Compensate, ExecutorKeeps,
               bookVars
  <2>3. QED BY <2>1, <2>2
<1>6. CASE Environment
      BY <1>2, <1>3, <1>4, <1>6 DEF Environment, BarArrives, StreamLost
<1>7. CASE \/ BarComplete \/ EodBar \/ OrderEvent \/ Crash \/ UNCHANGED vars
           \/ \E b \in Box : CloseBox(b) \/ CooldownExpires(b)
           \/ \E t \in Task : Detect(t)
      BY <1>2, <1>7
         DEF BarComplete, EodBar, OrderEvent, OnOrderEvent, Crash, vars, CloseBox,
             CooldownExpires, Detect, SkipBox, EnterBox, ScanDone, bookVars
<1>8. QED BY <1>2, <1>4, <1>5, <1>6, <1>7 DEF Next

(* A box in its compensation cooldown gets no further order, whatever the   *)
(* two detectors, the other boxes and the restarts do.                      *)
THEOREM CooldownHolds == Spec => CooldownBlocksOrders
<1> DEFINE NoOrders == \A b \in Box : cooldown[b] =>
                         \A o \in Order : Fresh(o) => broker'[o].box # b
<1>1. CooldownInv /\ [Next]_vars => [NoOrders]_vars
  <2> SUFFICES ASSUME CooldownInv, [Next]_vars PROVE NoOrders
      OBVIOUS
  <2>1. CASE \A t \in Task : ~SendOrder(t) /\ ~SendUnanswered(t)
        BY <2>1, OnlySendsPlace, OrderBookAssumption DEF CooldownInv, Fresh
  <2>2. CASE \E t \in Task : SendOrder(t) \/ SendUnanswered(t)
    <3>1. PICK t \in Task : SendOrder(t) \/ SendUnanswered(t)
          BY <2>2
    <3>2. PICK o \in Order : Accept(o, frame[t].box, frame[t].want - frame[t].got)
          BY <3>1 DEF SendOrder, SendUnanswered
    <3>3. ~cooldown[frame[t].box]
          BY <3>1 DEF CooldownInv, Guarded, Buying, SendOrder, SendUnanswered
    <3>4. broker \in [Order -> BrokerOrder]
          BY DEF CooldownInv, IInv, TypeOK, BookTypeOK
    <3>5. /\ broker'[o].box = frame[t].box
          /\ \A p \in Order : p # o => broker'[p] = broker[p]
          BY <3>2, <3>4 DEF Accept
    <3>6. QED BY <3>3, <3>5, OrderBookAssumption DEF Fresh
  <2>3. QED BY <2>1, <2>2
<1>2. Spec => []CooldownInv
      BY CooldownInit, CooldownInductive, PTL DEF Spec
<1>3. QED BY <1>1, <1>2, PTL DEF Spec, CooldownBlocksOrders

=============================================================================
