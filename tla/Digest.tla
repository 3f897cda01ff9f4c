-------------------------------- MODULE Digest --------------------------------
(***************************************************************************)
(* V71DailySummaryScheduler and V71MonthlyReviewScheduler: one loop, which  *)
(* sleeps until the next 15:30, or the next first of a month, and notifies. *)
(* A period is a day or a month; its target divides it into the time before *)
(* and the time past.  Whatever it notifies is one of OthersNotify's rows.  *)
(***************************************************************************)
EXTENDS Bot

VARIABLES
    now,        \* the clock of each schedule: 2p before p's target, 2p + 1 past it
    sched,      \* each scheduler's loop: its step and what it sleeps until
    digests     \* history: how often each period's digest was notified

digestVars == <<now, sched, digests>>

Digests == {"summary", "review"}

NoTask == [pc |-> "off", target |-> 0]

DigestTypeOK ==
    /\ now \in [Digests -> Nat]
    /\ sched \in [Digests -> [pc : {"off", "sleeps", "sends", "rests"}, target : Nat]]
    /\ \A d \in Digests : digests[d] \in [0 .. now[d] \div 2 -> Nat]

DigestInit ==
    /\ now = [d \in Digests |-> 0]
    /\ sched = [d \in Digests |-> NoTask]
    /\ digests = [d \in Digests |-> [p \in {0} |-> 0]]

KeepsRest == UNCHANGED <<gateVars, capital, botVars>>

Candidate(d) == 2 * (now[d] \div 2) + 1

\* Slip: the target of this period counts as the next one until it is over.
NextTargetAgain(d) == IF Candidate(d) < now[d] THEN Candidate(d) + 2 ELSE Candidate(d)

\* next_target: strictly in the future.
NextTarget(d) == IF Candidate(d) <= now[d] THEN Candidate(d) + 2 ELSE Candidate(d)

\* Time passes; a task that is due is not kept waiting for half a period.
TimePasses(d) ==
    /\ d \in flags
    /\ sched[d].pc # "sends"
    /\ sched[d].pc = "sleeps" => now[d] < sched[d].target
    /\ Move("period")
    /\ now' = [now EXCEPT ![d] = @ + 1]
    /\ digests' = [digests EXCEPT ![d] = [p \in 0 .. (now[d] + 1) \div 2 |->
                                             IF p \in DOMAIN @ THEN @[p] ELSE 0]]
    /\ KeepsRest /\ UNCHANGED <<vars, sched>>

\* run_once, after Clock.sleep_until.
Wakes(d) ==
    /\ sched[d].pc = "sleeps"
    /\ now[d] >= sched[d].target
    /\ sched' = [sched EXCEPT ![d].pc = "sends"]
    /\ KeepsRest /\ UNCHANGED <<vars, moves, now, digests>>

\* V71DailySummary.send, V71MonthlyReview.send.
DigestSent(d) ==
    /\ sched[d].pc = "sends"
    /\ digests' = [digests EXCEPT ![d][now[d] \div 2] = @ + 1]
    /\ sched' = [sched EXCEPT ![d].pc = "rests"]
    /\ KeepsRest /\ UNCHANGED <<vars, moves, now>>

\* A query or the notifier raises: there is no other try before the next period.
DigestFails(d) ==
    /\ sched[d].pc = "sends"
    /\ sched' = [sched EXCEPT ![d].pc = "rests"]
    /\ KeepsRest /\ UNCHANGED <<vars, moves, now, digests>>

\* After sleep(60) the loop starts over.
Rested(d) ==
    /\ sched[d].pc = "rests"
    /\ sched' = [sched EXCEPT ![d] = [pc |-> "sleeps", target |-> NextTarget(d)]]
    /\ KeepsRest /\ UNCHANGED <<vars, moves, now, digests>>

DigestStep ==
    \E d \in Digests : TimePasses(d) \/ Wakes(d) \/ DigestSent(d) \/ DigestFails(d) \/ Rested(d)

\* start() and stop().
DigestFollows ==
    /\ sched' = [d \in Digests |->
                    IF d \notin up' THEN NoTask
                    ELSE IF d \notin up THEN [pc |-> "sleeps", target |-> NextTarget(d)]
                    ELSE sched[d]]
    /\ UNCHANGED <<now, digests>>

-----------------------------------------------------------------------------
(* Properties.                                                              *)

(* v71_monthly_review.py: no "double-firing for the same month after a      *)
(* process restart on the 1st", nor of a day's summary: a period's digest   *)
(* is notified once at most, and not before its time.                       *)
DigestsOnce ==
    \A d \in Digests : \A p \in DOMAIN digests[d] :
        digests[d][p] <= (IF now[d] > 2 * p THEN 1 ELSE 0)

=============================================================================
