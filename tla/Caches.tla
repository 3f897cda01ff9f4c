-------------------------------- MODULE Caches --------------------------------
(***************************************************************************)
(* _build_total_capital_cache of trading_bridge.py: the account's capital,  *)
(* read synchronously by the buy executor's cap check, the summary and the  *)
(* web, and refreshed by a task of its own when it is old.  The task is     *)
(* nobody's: it outlives the buy executor.  A refresh is a call of Gateway. *)
(***************************************************************************)
EXTENDS Gateway

VARIABLE capital    \* the cache's state; known: system_state has its getter

\* old: more than _TOTAL_CAPITAL_TTL_SECONDS since fetched_at, which starts at 0.
NewCache == [known |-> FALSE, old |-> TRUE, inflight |-> FALSE]

CachesTypeOK == capital \in [known : BOOLEAN, old : BOOLEAN, inflight : BOOLEAN]

CachesInit == capital = NewCache

\* A total of zero, from a body of another shape, is cached like any other.
Cached == [capital EXCEPT !.old = FALSE, !.inflight = FALSE]

\* Slip: the flag is cleared by an answer only.
FailedQuietly == capital

\* The call failed: value and fetched_at stay.
Failed == [capital EXCEPT !.inflight = FALSE]

RefreshDue == capital.old /\ ~capital.inflight

\* get_total_capital; a read that finds no need of a refresh changes nothing.
CapitalRead ==
    /\ capital.known
    /\ RefreshDue
    /\ Move("call")
    /\ capital' = [capital EXCEPT !.inflight = TRUE]
    /\ Asks("capital")
    /\ UNCHANGED vars

CapitalAges ==
    /\ capital.known /\ ~capital.old
    /\ Move("period")
    /\ capital' = [capital EXCEPT !.old = TRUE]
    /\ UNCHANGED <<vars, gateVars>>

RefreshAnswered ==
    /\ Answered("capital")
    /\ capital' = Cached

RefreshFails ==
    /\ IssueFails("capital") \/ CallFails("capital")
    /\ capital' = Failed

\* _build_buy_executor awaits a first refresh, leaves the getter with the web
\* and reads it: when the first refresh has failed the reading starts another.
FirstReads ==
    {[NewCache EXCEPT !.known = TRUE, !.inflight = TRUE]}
      \cup (IF token = "good" THEN {[NewCache EXCEPT !.known = TRUE, !.old = FALSE]} ELSE {})

\* A step of the engine: a refresh without its client fails at once.
CachesFollow ==
    /\ IF engine'.phase = "down" THEN capital' = NewCache
       ELSE IF "buy" \in up' \ up THEN capital' \in FirstReads
       ELSE capital' = IF "exchange" \in up' THEN capital ELSE Failed
    /\ calls' = IF "exchange" \notin up' THEN NoCalls
                ELSE [calls EXCEPT !["capital"] = IF capital'.inflight /\ ~capital.inflight THEN "waits" ELSE @]

-----------------------------------------------------------------------------
(* Properties.                                                              *)

(* The flag that keeps a burst of reads from starting a refresh each is set *)
(* exactly while one is under way: a refresh that failed, was refused a     *)
(* token or lost its client does not keep the next one from starting.       *)
RefreshGuarded == capital.inflight <=> ~At("capital", "idle")

=============================================================================
