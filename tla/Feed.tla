-------------------------------- MODULE Feed --------------------------------
(***************************************************************************)
(* What one stock's price ticks feed: the 3-minute and the daily candle     *)
(* builders with the scheduler of V71CandleManager, and V71PricePublisher,  *)
(* which writes the current price into the stock's position row.  Whoever   *)
(* gets a finished bar (the detectors) is modelled in BuyPath; here a bar   *)
(* is sent, and the history variable sent keeps what was.                   *)
(***************************************************************************)
EXTENDS Stream

CONSTANTS
    MaxBucket,      \* bound: 3-minute buckets of the first session
    MaxTicks,       \* bound: ticks, for each configuration of the flags
    MaxDay,         \* bound: the last date, for each configuration
    Holiday,        \* dates without a session: weekends, holidays
    Quote,          \* prices a tick can carry; message_to_tick drops others
    JumpPct         \* PRICE_TICK_JUMP_REJECT_PCT, in percent

ASSUME FeedAssumption ==
    /\ MaxBucket \in Nat \ {0}
    /\ MaxTicks \in [FlagSets -> Nat] /\ MaxDay \in [FlagSets -> Nat]
    /\ Holiday \subseteq Nat
    /\ Quote \subseteq Nat \ {0}
    /\ JumpPct \in Nat

VARIABLES
    clock,      \* the host's clock: 3-minute bucket, date, is the session over?
    bar,        \* V71ThreeMinuteCandleBuilder._current
    daily,      \* V71DailyCandleBuilder._seen_dates, the tasks that fetch
    quote,      \* V71PricePublisher: received, published, being flushed
    row,        \* the position row: status, current price and its time
    sent,       \* history: ticks heard in each bucket, last 3-minute bar that was
                \* finished, dates of the daily bars dispatched, date of the attach
    ticks       \* history: ticks so far; also the publisher's clock

feedVars == <<clock, bar, daily, quote, row, sent, ticks>>

Bucket == 1 .. MaxBucket

\* The dates up to d that had a session.
Sessions(d) == 1 .. d \ Holiday

NoBar == [start |-> 0, volume |-> 0]

\* last: _eod_loop's last_fetched_date; eod, prime: date being fetched, or 0.
NewDaily == [seen |-> {}, last |-> 0, eod |-> 0, prime |-> 0]

NoQuote == [price |-> 0, at |-> 0]

Quoted == [price : Nat, at : Nat]

NewPublisher == [got |-> NoQuote, published |-> 0, flushing |-> NoQuote, listed |-> FALSE]

NothingSent == [ticks |-> [b \in Bucket |-> 0], bar |-> 0, exact |-> TRUE,
                daily |-> {}, once |-> TRUE, since |-> 0]

FeedTypeOK ==
    /\ clock \in [bucket : Bucket, day : Nat, closed : BOOLEAN]
    /\ bar \in [start : 0 .. MaxBucket, volume : Nat]
    /\ daily \in [seen : SUBSET Nat, last : Nat, eod : Nat, prime : Nat]
    /\ quote \in [got : Quoted, published : Nat, flushing : Quoted, listed : BOOLEAN]
    /\ row \in [status : {"OPEN", "CLOSED"}, price : Nat, at : Nat]
    /\ sent \in [ticks : [Bucket -> Nat], bar : 0 .. MaxBucket, exact : BOOLEAN,
                 daily : SUBSET Nat, once : BOOLEAN, since : Nat]
    /\ ticks \in Nat

FeedInit ==
    /\ clock = [bucket |-> 1, day |-> 2, closed |-> FALSE]
    /\ bar = NoBar
    /\ daily = NewDaily
    /\ quote = NewPublisher
    /\ row \in [status : {"OPEN"}, price : {0}, at : {0}]
    /\ sent = NothingSent
    /\ ticks = 0

OtherVars == <<alertVars, streamVars, up>>

\* The stock is in the buy executor's tracked_stock_cache, which is where
\* _build_candle_manager takes its stocks from.
Follows == Runs("candle") /\ Runs("buy")

-----------------------------------------------------------------------------
(* Time.                                                                    *)

NextBucket ==
    /\ Runs("candle") /\ ~clock.closed
    /\ clock.bucket < MaxBucket
    /\ clock' = [clock EXCEPT !.bucket = @ + 1]
    /\ Smooth /\ UNCHANGED <<OtherVars, bar, daily, quote, row, sent, ticks>>

\* The host's clock is corrected, back into the bucket before.
ClockSetBack ==
    /\ Runs("candle") /\ ~clock.closed
    /\ clock.bucket > 1
    /\ clock' = [clock EXCEPT !.bucket = @ - 1]
    /\ Smooth /\ UNCHANGED <<OtherVars, bar, daily, quote, row, sent, ticks>>

SessionCloses ==
    /\ Runs("candle") /\ ~clock.closed
    /\ clock.bucket = MaxBucket
    /\ clock' = [clock EXCEPT !.closed = TRUE]
    /\ Smooth /\ UNCHANGED <<OtherVars, bar, daily, quote, row, sent, ticks>>

\* The evening of the next date, with a session or without one; the bound
\* leaves it without ticks.
NextDay ==
    /\ clock.closed
    /\ clock.day < MaxDay[flags]
    /\ clock' = [clock EXCEPT !.day = @ + 1]
    /\ Smooth /\ UNCHANGED <<OtherVars, bar, daily, quote, row, sent, ticks>>

-----------------------------------------------------------------------------
(* V71ThreeMinuteCandleBuilder.                                             *)

\* Slip: a tick of an older bucket is added to the bar in progress.
AfterTickLate(b) ==
    IF bar.start = 0 \/ b > bar.start THEN [start |-> b, volume |-> 1]
    ELSE [bar EXCEPT !.volume = @ + 1]

\* on_tick: a tick of an older bucket is dropped.
AfterTick(b) ==
    IF bar.start = 0 \/ b > bar.start THEN [start |-> b, volume |-> 1]
    ELSE IF b = bar.start THEN [bar EXCEPT !.volume = @ + 1]
    ELSE bar

\* A tick of a later bucket finishes the bar, which is dispatched.
Finishes(b) == bar.start # 0 /\ b > bar.start

\* Ticks heard in the bucket, those that on_tick drops included.
Counts(b) == [sent.ticks EXCEPT ![b] = @ + 1]

SentAfter(b) ==
    [sent EXCEPT !.ticks = Counts(b),
                 !.bar = IF Finishes(b) THEN bar.start ELSE @,
                 !.exact = @ /\ (Finishes(b) => bar.start > sent.bar
                                                /\ bar.volume = sent.ticks[bar.start])]

-----------------------------------------------------------------------------
(* V71PricePublisher.                                                       *)

Apart(p, q) == IF p > q THEN p - q ELSE q - p

\* _sanity_ok: a jump from the last received price is rejected.
Sane(p) ==
    /\ p > 0
    /\ quote.got.at > 0 => Apart(p, quote.got.price) * 100 <= JumpPct * quote.got.price

\* _handle_price_message.
Received(p) ==
    IF Runs("publisher") /\ Sane(p) /\ vi.state # "TRIGGERED"
    THEN [quote EXCEPT !.got = [price |-> p, at |-> ticks + 1]]
    ELSE quote

\* _flush_once: nothing to do for a price that was published last.
FlushLists ==
    /\ Runs("publisher")
    /\ quote.flushing = NoQuote
    /\ quote.got.at > 0 /\ quote.got.price # quote.published
    /\ quote' = [quote EXCEPT !.flushing = quote.got, !.listed = (row.status = "OPEN")]
    /\ Smooth /\ UNCHANGED <<OtherVars, clock, bar, daily, row, sent, ticks>>

\* Slip: the row is written as it was listed.
WrittenAsListed == [row EXCEPT !.price = quote.flushing.price, !.at = quote.flushing.at]

\* _flush_stock's UPDATE: not a closed row, not an older price.
Written ==
    IF row.status # "CLOSED" /\ row.at < quote.flushing.at
    THEN [row EXCEPT !.price = quote.flushing.price, !.at = quote.flushing.at]
    ELSE row

FlushWrites ==
    /\ Runs("publisher")
    /\ quote.flushing # NoQuote
    /\ row' = IF quote.listed THEN Written ELSE row
    /\ quote' = [quote EXCEPT !.published = quote.flushing.price, !.flushing = NoQuote,
                              !.listed = FALSE]
    /\ Smooth /\ UNCHANGED <<OtherVars, clock, bar, daily, sent, ticks>>

\* The query or the UPDATE fails: the next pass tries again.
FlushFails ==
    /\ Runs("publisher")
    /\ quote.flushing # NoQuote
    /\ quote' = [quote EXCEPT !.flushing = NoQuote, !.listed = FALSE]
    /\ Upset
    /\ UNCHANGED <<OtherVars, clock, bar, daily, row, sent, ticks>>

\* An exit takes the last share.
RowCloses ==
    /\ Runs("publisher")
    /\ row.status = "OPEN"
    /\ row' = [row EXCEPT !.status = "CLOSED"]
    /\ Smooth /\ UNCHANGED <<OtherVars, clock, bar, daily, quote, sent, ticks>>

-----------------------------------------------------------------------------
(* A PRICE_TICK: the handlers of the channel, one after the other.  Its time*)
(* is received_at, which the receive loop takes from the host's clock; the  *)
(* exchange's own time is not read, so that a tick which comes late counts  *)
(* in the bucket it comes in.                                               *)

ReadTick ==
    /\ Runs("websocket")
    /\ Follows \/ Runs("publisher")
    /\ ws.st = "connected" /\ recv = "wait"
    /\ "PRICE_TICK" \in subs.reg
    /\ ~clock.closed /\ ticks < MaxTicks[flags]
    /\ IF Follows THEN bar' = AfterTick(clock.bucket) /\ sent' = SentAfter(clock.bucket)
       ELSE UNCHANGED <<bar, sent>>
    /\ \E p \in Quote : quote' = Received(p)
    /\ ticks' = ticks + 1
    /\ recv' = "heard"
    /\ Smooth /\ UNCHANGED <<alertVars, up, token, ws, subs, market, inbox, vi, unheard>>
    /\ UNCHANGED <<clock, daily, row>>

-----------------------------------------------------------------------------
(* V71DailyCandleBuilder and the tasks of V71CandleManager.                 *)

\* The date of the newest row that ka10081 can answer for date d: d itself, or
\* the session before when d is a holiday or its row is not there yet.
Newest(d) == {n \in Sessions(d) : \A m \in Sessions(d) : n < m => m = d}

\* The detectors get the bar of date n.
Dispatched(n) == [sent EXCEPT !.daily = @ \cup {n}, !.once = @ /\ n \notin sent.daily]

\* _eod_loop: once per date, holidays included, after DAILY_CANDLE_FETCH_HHMM.
EodStarts ==
    /\ Runs("eod") /\ Follows
    /\ daily.eod = 0
    /\ clock.closed /\ daily.last # clock.day
    /\ daily' = [daily EXCEPT !.eod = clock.day]
    /\ GetToken
    /\ Smooth /\ UNCHANGED <<alertVars, ws, subs, recv, market, inbox, vi, unheard, up>>
    /\ UNCHANGED <<clock, bar, quote, row, sent, ticks>>

\* Slip: fetch_eod relies on its caller to ask once per date.
EodFetchedAgain ==
    /\ Runs("eod")
    /\ daily.eod # 0
    /\ \E n \in Newest(daily.eod) :
          /\ sent' = Dispatched(n)
          /\ daily' = [daily EXCEPT !.eod = 0, !.last = daily.eod, !.seen = @ \cup {n}]
    /\ Smooth /\ UNCHANGED <<OtherVars, clock, bar, quote, row, ticks>>

\* fetch_eod takes the newest row, of whatever date; a date that was seen
\* before is not dispatched again.
EodFetched ==
    /\ Runs("eod")
    /\ daily.eod # 0
    /\ \E n \in Newest(daily.eod) :
          /\ sent' = IF n \in daily.seen THEN sent ELSE Dispatched(n)
          /\ daily' = [daily EXCEPT !.eod = 0, !.last = daily.eod, !.seen = @ \cup {n}]
    /\ Smooth /\ UNCHANGED <<OtherVars, clock, bar, quote, row, ticks>>

\* The call raises, no row is answered or the newest does not parse: nothing
\* is dispatched, and the loop counts the date as fetched all the same.
EodFails ==
    /\ Runs("eod")
    /\ daily.eod # 0
    /\ daily' = [daily EXCEPT !.eod = 0, !.last = daily.eod]
    /\ Upset
    /\ UNCHANGED <<OtherVars, clock, bar, quote, row, sent, ticks>>

\* fetch_history: the date of every row is noted, the base date's own included
\* when it is there, and nothing is dispatched.
PrimeFetched ==
    /\ Runs("prime")
    /\ \E n \in Newest(daily.prime) :
          daily' = [daily EXCEPT !.prime = 0, !.seen = @ \cup Sessions(n)]
    /\ up' = up \ {"prime"}
    /\ Smooth /\ UNCHANGED <<alertVars, streamVars, clock, bar, quote, row, sent, ticks>>

PrimeFails ==
    /\ Runs("prime")
    /\ daily' = [daily EXCEPT !.prime = 0]
    /\ up' = up \ {"prime"}
    /\ Upset
    /\ UNCHANGED <<alertVars, streamVars, clock, bar, quote, row, sent, ticks>>

FeedStep ==
    \/ NextBucket \/ ClockSetBack \/ SessionCloses \/ NextDay \/ ReadTick
    \/ FlushLists \/ FlushWrites \/ FlushFails \/ RowCloses
    \/ EodStarts \/ EodFetched \/ EodFails \/ PrimeFetched \/ PrimeFails

-----------------------------------------------------------------------------
(* Properties.                                                              *)

(* A 3-minute bar is finished once, in the order of time, and holds exactly *)
(* the ticks heard within its bucket until then, though the host's clock is *)
(* set back over its start, the connection is lost or detach flushes it.    *)
BarsExact == sent.exact

(* A process dispatches a date's bar at most once, though the end-of-day    *)
(* fetch is answered the same row again on a holiday or before the day's    *)
(* own is there, and the history beside it notes dates in silence.  The     *)
(* history hides no bar of a day after the attach: such a date that is      *)
(* noted has been dispatched.                                               *)
DailyBarsOnce ==
    sent.once /\ \A d \in daily.seen : d > sent.since => d \in sent.daily

(* A flush that races with an exit never writes a closed row, and the time  *)
(* of a row's price never goes back.                                        *)
RowStampsRise == [][row'.at >= row.at /\ (row.status = "CLOSED" => row' = row)]_row

=============================================================================
