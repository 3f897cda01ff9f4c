------------------------------- MODULE Gateway -------------------------------
(***************************************************************************)
(* A REST call through V71KiwoomClient.request: a token of the bucket of    *)
(* V71RateLimiter first, then the access token of V71TokenManager, which    *)
(* one coroutine at a time may issue, then the request.  Whatever the       *)
(* broker answers the call is over: nothing repeats it here.  The broker is *)
(* external; the callers are the engine's tasks and handlers.               *)
(***************************************************************************)
EXTENDS Outside

CONSTANTS
    Caller,     \* who has calls under way; "capital" is the refresh of Caches
    Burst,      \* burst_capacity
    Cost        \* ticks of the clock in which the bucket gains one token

ASSUME GatewayAssumption ==
    /\ "capital" \in Caller
    /\ Burst \in Nat \ {0} /\ Cost \in Nat \ {0}

VARIABLES
    calls,      \* step of each caller's call
    bucket,     \* _tokens, in 1 / Cost, and the time since _last_refill
    owed        \* history: grants that the rate has not yet paid for

gateVars == <<calls, bucket, owed>>

Capacity == Burst * Cost

FullBucket == [level |-> Capacity, age |-> 0]

NoCalls == [c \in Caller |-> "idle"]

GatewayTypeOK ==
    /\ calls \in [Caller -> {"idle", "waits", "locks", "issues", "sends"}]
    /\ bucket \in [level : 0 .. Capacity, age : Nat]
    /\ owed \in Nat

GatewayInit == calls = NoCalls /\ bucket = FullBucket /\ owed = 0

At(c, step) == calls[c] = step

Goes(c, step) == calls' = [calls EXCEPT ![c] = step]

-----------------------------------------------------------------------------
(* V71RateLimiter.                                                          *)

\* Slip: the bucket runs over.
RefilledOver == bucket.level + bucket.age

\* _refill_locked.
Refilled == IF bucket.level + bucket.age < Capacity THEN bucket.level + bucket.age ELSE Capacity

\* Slip: a refill that grants nothing leaves _last_refill where it was.
RefillKept == [level |-> Refilled, age |-> bucket.age]

Refill == [level |-> Refilled, age |-> 0]

\* Time; bound: it passes while somebody waits and, when more calls may come,
\* until the bucket could have run over by a token.
Tick ==
    /\ Runs("exchange")
    /\ \/ Refilled < Cost /\ \E c \in Caller : At(c, "waits")
       \/ /\ moves["call"] < MaxMoves[flags]["call"]
          /\ bucket.level + bucket.age < Capacity + Cost
    /\ bucket' = [bucket EXCEPT !.age = @ + 1]
    /\ owed' = IF owed > 0 THEN owed - 1 ELSE 0
    /\ UNCHANGED <<vars, moves, calls>>

\* acquire, when the bucket is too low: the caller sleeps and tries again.
Waits(c) ==
    /\ At(c, "waits")
    /\ Refilled < Cost
    /\ bucket.age > 0
    /\ bucket' = Refill
    /\ UNCHANGED <<vars, moves, calls, owed>>

-----------------------------------------------------------------------------
(* V71TokenManager.                                                         *)

\* not should_refresh: a token the broker has dropped is as fresh.
Fresh == token \notin {"none", "due"}

Issuing == \E c \in Caller : At(c, "issues")

\* acquire succeeds, and get_token looks at the cached token.
Granted(c) ==
    /\ At(c, "waits")
    /\ Refilled >= Cost
    /\ bucket' = [Refill EXCEPT !.level = @ - Cost]
    /\ owed' = owed + Cost
    /\ Goes(c, IF Fresh THEN "sends" ELSE "locks")
    /\ UNCHANGED <<vars, moves>>

\* Slip: the cached token is not read again under the lock.
AfterLockBlind == "issues"

\* The cached token is read again under the lock.
AfterLock == IF Fresh THEN "sends" ELSE "issues"

TakesLock(c) ==
    /\ At(c, "locks")
    /\ ~Issuing
    /\ Goes(c, AfterLock)
    /\ UNCHANGED <<vars, moves, bucket, owed>>

\* _issue_token_locked.
Issued(c) ==
    /\ At(c, "issues")
    /\ token' = "good"
    /\ CallAsksToken /\ UNCHANGED flags
    /\ Goes(c, "sends")
    /\ UNCHANGED <<moves, bucket, owed>>

\* No connection, an HTTP error, a refusal or an answer without a token.
IssueFails(c) ==
    /\ At(c, "issues")
    /\ Goes(c, "idle")
    /\ UNCHANGED <<vars, moves, bucket, owed>>

-----------------------------------------------------------------------------
(* V71KiwoomClient.request.                                                 *)

\* get_minute_chart, get_account_balance, place_buy_order and their like.
Asks(c) ==
    /\ Runs("exchange")
    /\ At(c, "idle")
    /\ Goes(c, "waits")
    /\ UNCHANGED <<bucket, owed>>

OtherAsks(c) ==
    /\ c # "capital"
    /\ Move("call")
    /\ Asks(c)
    /\ UNCHANGED vars

\* return_code = 0; a token the broker has dropped is refused.
Answered(c) ==
    /\ At(c, "sends")
    /\ token # "rejected"
    /\ Goes(c, "idle")
    /\ UNCHANGED <<vars, moves, bucket, owed>>

\* V71KiwoomTransportError, V71KiwoomBusinessError.
CallFails(c) ==
    /\ At(c, "sends")
    /\ Goes(c, "idle")
    /\ UNCHANGED <<vars, moves, bucket, owed>>

\* The caller is a task of a part that is taken down.  Nobody cancels the
\* refresh of the capital.
Cancelled(c) ==
    /\ c # "capital"
    /\ engine.phase = "detaching"
    /\ ~At(c, "idle")
    /\ Goes(c, "idle")
    /\ UNCHANGED <<vars, moves, bucket, owed>>

\* A step of the engine: a new process has a new client, and what the engine
\* itself asks the token manager for waits for the lock.
GatewayFollows ==
    IF "exchange" \in up'
    THEN UNCHANGED <<bucket, owed>> /\ (Issuing => token' = token)
    ELSE bucket' = FullBucket /\ owed' = 0

-----------------------------------------------------------------------------
(* Properties.                                                              *)

(* rate_limiter.py: over any stretch of time the callers are granted no     *)
(* more than burst_capacity and what rate_per_second gives meanwhile,       *)
(* whichever of them wakes first and tries again how often.                 *)
GrantsWithinRate == owed <= Capacity

(* token_manager.py: "a single inflight OAuth request per refresh window":  *)
(* nobody has a token issued while the cached one is fresh.                 *)
TokenIssuedOnce == Issuing => ~Fresh

=============================================================================
