------------------------------- MODULE Alerts -------------------------------
(***************************************************************************)
(* The notification queue: V71NotificationQueue on the notifications table, *)
(* V71CircuitBreaker and the worker of V71NotificationService, which drains *)
(* the table into Telegram.  The rows survive a restart, the worker and the *)
(* breaker do not.  Every await of the worker ends an action.               *)
(***************************************************************************)
EXTENDS Tasks, FiniteSetsExt

CONSTANTS
    Key,            \* rate_limit_key values
    MaxAlerts,      \* bound: rows the table ever gets
    CriticalTries,  \* NOTIFICATION_CRITICAL_RETRY_COUNT
    TripAfter       \* NOTIFICATION_CIRCUIT_BREAKER_FAILURE_THRESHOLD

ASSUME AlertsAssumption ==
    /\ Key # {}
    /\ MaxAlerts \in Nat
    /\ CriticalTries \in Nat \ {0}
    /\ TripAfter \in Nat \ {0}

VARIABLES
    rows,       \* the notifications table, in the order of created_at
    breaker,    \* the circuit breaker
    worker,     \* the worker's step
    told        \* history: how often Telegram showed each row to the operator

alertVars == <<rows, breaker, worker, told>>

Alert == 1 .. MaxAlerts

Severity == {"CRITICAL", "HIGH", "MEDIUM", "LOW"}

\* severity_to_priority.
Priority(sev) == CHOOSE n \in 1 .. 4 : sev = <<"CRITICAL", "HIGH", "MEDIUM", "LOW">>[n]

\* aged: five minutes have passed, for expires_at as for the rate limit.
Record == [sev : Severity, key : Key,
           status : {"absent", "PENDING", "SENT", "FAILED", "EXPIRED"}, aged : BOOLEAN]

NoRecord == [sev |-> "LOW", key |-> CHOOSE k \in Key : TRUE, status |-> "absent", aged |-> FALSE]

\* due: the timeout of an OPEN breaker has elapsed.
Closed == [state |-> "CLOSED", failures |-> 0, due |-> FALSE]

Asleep == [pc |-> "idle", row |-> 0, tries |-> 0]

AlertsTypeOK ==
    /\ rows \in [Alert -> Record]
    /\ breaker \in [state : {"CLOSED", "OPEN", "HALF_OPEN"}, failures : 0 .. TripAfter, due : BOOLEAN]
    /\ worker \in [pc : {"idle", "fetch", "send", "sent", "unsent"}, row : 0 .. MaxAlerts,
                   tries : 0 .. CriticalTries]
    /\ told \in [Alert -> Nat]

AlertsInit ==
    /\ rows = [a \in Alert |-> NoRecord]
    /\ breaker = Closed
    /\ worker = Asleep
    /\ told = [a \in Alert |-> 0]

-----------------------------------------------------------------------------
(* V71NotificationQueue.                                                    *)

Absent == {a \in Alert : rows[a].status = "absent"}

Suppressed(sev, key) ==
    /\ sev # "CRITICAL"
    /\ \E a \in Alert : rows[a].status # "absent" /\ rows[a].key = key /\ ~rows[a].aged

\* enqueue.  The rate limit looks at rows of any status; a full table stands
\* for the bound and takes nothing more.
Enqueue(sev, key) ==
    rows' = IF Suppressed(sev, key) \/ Absent = {} THEN rows
            ELSE [rows EXCEPT ![Min(Absent)] = [sev |-> sev, key |-> key,
                                                status |-> "PENDING", aged |-> FALSE]]

NeverExpires(sev) == sev \in {"CRITICAL", "HIGH"}

Stale(r) == r.status = "PENDING" /\ ~NeverExpires(r.sev) /\ r.aged

\* fetch_next_pending: priority, then age.
Fetchable == {a \in Alert : rows[a].status = "PENDING" /\ ~Stale(rows[a])}

Before(a, b) ==
    \/ Priority(rows[a].sev) < Priority(rows[b].sev)
    \/ Priority(rows[a].sev) = Priority(rows[b].sev) /\ a <= b

NextPending == CHOOSE a \in Fetchable : \A b \in Fetchable : Before(a, b)

-----------------------------------------------------------------------------
(* V71CircuitBreaker.                                                       *)

\* Slip: the timeout of an open breaker is not looked at.
LookedOpen(b) == b

\* state(): OPEN turns into HALF_OPEN when the timeout has elapsed.
Looked(b) == IF b.state = "OPEN" /\ b.due THEN [b EXCEPT !.state = "HALF_OPEN"] ELSE b

Tripped == [state |-> "OPEN", failures |-> TripAfter, due |-> FALSE]

\* record_failure.
AfterFailure(b) ==
    IF b.state = "OPEN" /\ ~b.due THEN b
    ELSE IF b.state = "HALF_OPEN" \/ b.failures + 1 >= TripAfter THEN Tripped
    ELSE [b EXCEPT !.failures = @ + 1]

BreakerTimesOut ==
    /\ breaker.state = "OPEN" /\ ~breaker.due
    /\ breaker' = [breaker EXCEPT !.due = TRUE]
    /\ Smooth /\ UNCHANGED <<rows, worker, told>>

-----------------------------------------------------------------------------
(* The worker of V71NotificationService.                                    *)

\* run_once: expire_stale.
Expire ==
    /\ worker.pc = "idle"
    /\ Fetchable # {} \/ \E a \in Alert : Stale(rows[a])
    /\ rows' = [a \in Alert |-> IF Stale(rows[a]) THEN [rows[a] EXCEPT !.status = "EXPIRED"] ELSE rows[a]]
    /\ worker' = [worker EXCEPT !.pc = "fetch"]
    /\ Smooth /\ UNCHANGED <<breaker, told>>

\* The breaker is looked at, then the table.
Fetch ==
    /\ worker.pc = "fetch"
    /\ breaker' = Looked(breaker)
    /\ worker' = IF breaker'.state = "OPEN" \/ Fetchable = {} THEN Asleep
                 ELSE [pc |-> "send", row |-> NextPending,
                       tries |-> IF rows[NextPending].sev = "CRITICAL" THEN CriticalTries ELSE 1]
    /\ Smooth /\ UNCHANGED <<rows, told>>

\* Slip: the loop over the tries is not left after a success.
AcceptedKeepsTrying(w) == IF w.tries > 1 THEN [w EXCEPT !.tries = @ - 1] ELSE [w EXCEPT !.pc = "sent"]

Accepted(w) == [w EXCEPT !.pc = "sent"]

\* Telegram shows the message.
SendAccepted ==
    /\ worker.pc = "send"
    /\ told' = [told EXCEPT ![worker.row] = @ + 1]
    /\ breaker' = Closed
    /\ worker' = Accepted(worker)
    /\ Smooth /\ UNCHANGED rows

\* Telegram is down, refuses, or shows the message and the answer is lost.
SendFails ==
    /\ worker.pc = "send"
    /\ Upset
    /\ told' \in {told, [told EXCEPT ![worker.row] = @ + 1]}
    /\ breaker' = AfterFailure(breaker)
    /\ worker' = IF worker.tries > 1 THEN [worker EXCEPT !.tries = @ - 1]
                 ELSE [worker EXCEPT !.pc = "unsent"]
    /\ UNCHANGED rows

\* Slip: only a CRITICAL row goes back to the queue.
RevertsCritical(sev) == sev = "CRITICAL"

\* _dispatch_standard, _dispatch_critical: revert_to_pending.
Reverts(sev) == sev \in {"CRITICAL", "HIGH"}

\* mark_sent, mark_failed.
Outcome(w) ==
    IF w.pc = "sent" THEN "SENT"
    ELSE IF Reverts(rows[w.row].sev) THEN "PENDING" ELSE "FAILED"

MarkRow ==
    /\ worker.pc \in {"sent", "unsent"}
    /\ rows' = [rows EXCEPT ![worker.row].status = Outcome(worker)]
    /\ worker' = Asleep
    /\ Smooth /\ UNCHANGED <<breaker, told>>

\* A statement of the step raises: the worker logs it and sleeps.
StepRaises ==
    /\ worker.pc \in {"fetch", "sent", "unsent"}
    /\ Upset
    /\ worker' = Asleep
    /\ UNCHANGED <<rows, breaker, told>>

WorkerStep ==
    /\ Runs("worker")
    /\ Expire \/ Fetch \/ SendAccepted \/ SendFails \/ MarkRow \/ StepRaises

\* Five minutes pass for every row.
AlertsAge ==
    /\ \E a \in Alert : rows[a].status # "absent" /\ ~rows[a].aged
    /\ Upset
    /\ rows' = [a \in Alert |-> [rows[a] EXCEPT !.aged = rows[a].status # "absent"]]
    /\ UNCHANGED <<breaker, worker, told>>

\* Something else notifies: an exit, a reconciler, a summary.
OthersNotify ==
    /\ Runs("queue")
    /\ Absent # {}
    /\ \E sev \in Severity, key \in Key : Enqueue(sev, key)
    /\ rows' # rows
    /\ Upset
    /\ UNCHANGED <<breaker, worker, told>>

-----------------------------------------------------------------------------
(* Properties.                                                              *)

(* 02_TRADING_RULES.md 9: a CRITICAL or HIGH row is never given up, and is  *)
(* SENT only when Telegram has shown it, through failed sends, lost answers,*)
(* a tripped breaker, failed updates and restarts.                          *)
ImportantKept ==
    \A a \in Alert : rows[a].sev \in {"CRITICAL", "HIGH"} =>
        /\ rows[a].status \in {"absent", "PENDING", "SENT"}
        /\ rows[a].status = "SENT" => told[a] > 0

(* The operator sees a row again only after something went wrong.           *)
RepeatsNeedUpsets == \A a \in Alert : told[a] <= 1 + upsets

(* The CRITICAL and HIGH rows are delivered in the end, whatever the breaker*)
(* and the order of the queue do, unless the worker is not running.         *)
AlertsDelivered ==
    []<>(~Runs("worker") \/ ~\E a \in Alert : rows[a].status = "PENDING"
                                             /\ rows[a].sev \in {"CRITICAL", "HIGH"})

=============================================================================
