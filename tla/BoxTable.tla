------------------------------ MODULE BoxTable ------------------------------
(***************************************************************************)
(* The support_boxes of one tracked stock under concurrent transactions:    *)
(* the create, patch and delete requests of the web service and its         *)
(* stop_tracking, the engine's sweep after a full exit, and the engine's    *)
(* single-row updates.  Every session is REPEATABLE READ: a transaction     *)
(* reads the tables as of its first statement, SELECT ... FOR UPDATE and    *)
(* UPDATE wait for the lock of a row, and fail when the row was updated     *)
(* after that first statement.  A row that was only locked does not make    *)
(* them fail.                                                               *)
(*                                                                          *)
(* The asyncio lock of a V71BoxManager is left out: the web service takes   *)
(* it only while it holds the stock's row lock, and the engine's manager is *)
(* another instance, so that no one ever waits for it.                      *)
(***************************************************************************)
EXTENDS Naturals, FiniteSets, FiniteSetsExt

CONSTANTS
    Box,        \* box ids that can be created
    NoBox,      \* "no box"
    Stock,      \* the lock of the tracked_stocks row
    Web,        \* web requests in progress at the same time
    Engine,     \* the engine's sweep
    Path,       \* path types
    PriceRange, \* price ranges a user enters
    Size,       \* position_size_pct a user enters
    Cap         \* MAX_PCT_PER_STOCK

ASSUME BoxTableAssumption ==
    /\ IsFiniteSet(Box)
    /\ NoBox \notin Box
    /\ Stock \notin Box
    /\ Engine \notin Web
    /\ \A r \in PriceRange : r.lo \in Nat /\ r.hi \in Nat /\ r.lo < r.hi
    /\ Size \subseteq Nat \ {0}
    /\ Path # {} /\ PriceRange # {} /\ Size # {}
    /\ Cap \in Nat

VARIABLES
    rows,       \* support_boxes
    tracked,    \* tracked_stocks.status
    held,       \* boxes whose position is not CLOSED
    sweepDue,   \* has a full exit still to start its sweep?
    tx          \* the open transactions

vars == <<rows, tracked, held, sweepDue, tx>>

Tx == Web \cup {Engine}

Resource == Box \cup {Stock}

BoxStatus == {"none", "WAITING", "TRIGGERED", "INVALIDATED", "CANCELLED"}

TrackedStatus == {"TRACKING", "BOX_SET", "EXITED"}

Row == [status : BoxStatus, path : Path, range : PriceRange, size : Size, tier : Nat]

Blank == [status |-> "none", path |-> CHOOSE p \in Path : TRUE,
          range |-> CHOOSE r \in PriceRange : TRUE, size |-> CHOOSE s \in Size : TRUE,
          tier |-> 0]

(* view, seen, open: the rows, the stock's status and the open positions as *)
(* the transaction sees them; stale: what others have updated since it      *)
(* began; want: the row a create or patch asks for.                         *)
Transaction == [op : {"none", "create", "patch", "delete", "sweep", "stop"},
                pc : {"idle", "stock", "box", "commit"},
                box : Box \cup {NoBox}, want : Row,
                view : [Box -> Row], seen : TrackedStatus, open : SUBSET Box,
                writes : SUBSET Resource, locks : SUBSET Resource,
                stale : SUBSET Resource]

NoTx == [op |-> "none", pc |-> "idle", box |-> NoBox, want |-> Blank,
         view |-> [b \in Box |-> Blank], seen |-> "TRACKING", open |-> {},
         writes |-> {}, locks |-> {}, stale |-> {}]

Init ==
    /\ rows = [b \in Box |-> Blank]
    /\ tracked = "TRACKING"
    /\ held = {}
    /\ sweepDue = FALSE
    /\ tx = [t \in Tx |-> NoTx]

-----------------------------------------------------------------------------
(* Rules of the box system, on a set of rows R.                             *)

WaitingIn(R) == {b \in Box : R[b].status = "WAITING"}

\* Strict bounds: ranges that only touch do not overlap.
Overlap(r, s) == r.hi > s.lo /\ r.lo < s.hi

\* Slip: only a sibling around the new lower bound is seen.
SiblingLow(R, b, want) ==
    \E c \in WaitingIn(R) \ {b} :
        /\ R[c].path = want.path
        /\ R[c].range.lo <= want.range.lo /\ want.range.lo < R[c].range.hi

\* find_overlap: a waiting sibling of the path, other than b itself.
Sibling(R, b, want) ==
    \E c \in WaitingIn(R) \ {b} :
        R[c].path = want.path /\ Overlap(R[c].range, want.range)

\* stock_capital_usage: open positions and waiting boxes.  A position is taken
\* to have invested what its box allowed.
Usage(R, open) == SumFunctionOnSet([b \in Box |-> R[b].size], WaitingIn(R) \cup open)

NextTier(R, p) ==
    Max({0} \cup {R[b].tier : b \in {c \in Box : R[c].status # "none" /\ R[c].path = p}}) + 1

-----------------------------------------------------------------------------
(* Transactions.                                                            *)

\* The first statement of a transaction takes its snapshot.
Begin(t, op, pc, b, want) ==
    /\ tx[t].op = "none"
    /\ tx' = [tx EXCEPT ![t] =
                [NoTx EXCEPT !.op = op, !.pc = pc, !.box = b, !.want = want,
                             !.view = rows, !.seen = tracked, !.open = held]]

\* The rows a transaction is about to lock.
Wanted(t) ==
    CASE tx[t].pc = "stock" -> {Stock}
      [] tx[t].pc = "box" /\ tx[t].op \in {"patch", "delete"} -> {tx[t].box}
      [] tx[t].pc = "box" /\ tx[t].op \in {"sweep", "stop"} -> WaitingIn(tx[t].view)
      [] OTHER -> {}

Free(t, R) == \A u \in Tx \ {t} : tx[u].locks \cap R = {}

\* Slip: the engine's default isolation level, READ COMMITTED.
NeverOutdated(t, R) == FALSE

\* REPEATABLE READ: the row was updated after the snapshot.
Outdated(t, R) == R \cap tx[t].stale # {}

Granted(t) == Free(t, Wanted(t)) /\ ~Outdated(t, Wanted(t))

\* The transaction goes on to pc with the locks it wanted; f is what it has
\* written in its own view.
Proceed(t, pc, f) ==
    tx' = [tx EXCEPT ![t] = [f EXCEPT !.pc = pc, !.locks = @ \cup Wanted(t)]]

\* Slip: a failed request's session is not closed.
KeepLocks(t) == tx' = [tx EXCEPT ![t] = [NoTx EXCEPT !.locks = tx[t].locks]]

RollBack(t) == tx' = [tx EXCEPT ![t] = NoTx]

\* What another transaction sees of an update of the rows R.
Updated(f, R) == IF f.op = "none" THEN f ELSE [f EXCEPT !.stale = @ \cup R]

Commit(t) ==
    LET f == tx[t]
    IN  /\ f.pc = "commit"
        /\ rows' = [b \in Box |-> IF b \in f.writes THEN f.view[b] ELSE rows[b]]
        /\ tracked' = IF Stock \in f.writes THEN f.seen ELSE tracked
        /\ tx' = [u \in Tx |-> IF u = t THEN NoTx ELSE Updated(tx[u], f.writes)]
        /\ UNCHANGED <<held, sweepDue>>

-----------------------------------------------------------------------------
(* The web service's requests.                                              *)

BeginCreate(t) ==
    \E b \in Box, p \in Path, r \in PriceRange, s \in Size :
        /\ rows[b].status = "none"
        /\ \A u \in Tx : ~(tx[u].op = "create" /\ tx[u].box = b)
        /\ Begin(t, "create", "stock", b,
                 [status |-> "WAITING", path |-> p, range |-> r, size |-> s,
                  tier |-> NextTier(rows, p)])

MayCreate(f) ==
    /\ Usage(f.view, f.open) + f.want.size <= Cap
    /\ ~Sibling(f.view, f.box, f.want)

\* FOR UPDATE on the stock, cap, overlap, INSERT, TRACKING -> BOX_SET.
Create(t) ==
    LET f == tx[t]
        first == f.seen = "TRACKING"
    IN  /\ f.op = "create" /\ f.pc = "stock"
        /\ Granted(t)
        /\ MayCreate(f)
        /\ Proceed(t, "commit",
             [f EXCEPT !.view[f.box] = f.want,
                       !.seen = IF first THEN "BOX_SET" ELSE @,
                       !.writes = {f.box} \cup (IF first THEN {Stock} ELSE {})])

\* A waiting box gets a new range, a new size, or both.
BeginPatch(t) ==
    \E b \in WaitingIn(rows), r \in PriceRange, s \in Size :
        Begin(t, "patch", "stock", b, [rows[b] EXCEPT !.range = r, !.size = s])

\* Slip: open positions are not counted.
FitsCapWithoutPositions(f) ==
    Usage(f.view, {}) + f.want.size <= Cap + f.view[f.box].size

FitsCap(f) ==
    Usage(f.view, f.open) + f.want.size <= Cap + f.view[f.box].size

\* FOR UPDATE on the stock, cap.
PatchStock(t) ==
    LET f == tx[t]
    IN  /\ f.op = "patch" /\ f.pc = "stock"
        /\ Granted(t)
        /\ FitsCap(f)
        /\ Proceed(t, "box", f)

MayModify(f) ==
    f.want.range # f.view[f.box].range => ~Sibling(f.view, f.box, f.want)

\* FOR UPDATE on the box, overlap with the others, UPDATE.
PatchBox(t) ==
    LET f == tx[t]
    IN  /\ f.op = "patch" /\ f.pc = "box"
        /\ Granted(t)
        /\ MayModify(f)
        /\ Proceed(t, "commit", [f EXCEPT !.view[f.box] = f.want, !.writes = {f.box}])

BeginDelete(t) ==
    \E b \in WaitingIn(rows) : Begin(t, "delete", "box", b, Blank)

\* Slip: any deletion takes the stock back to TRACKING.
DeleteAnyBox(t) ==
    LET f == tx[t]
    IN  /\ f.op = "delete" /\ f.pc = "box"
        /\ Granted(t)
        /\ Proceed(t, IF f.seen = "BOX_SET" THEN "stock" ELSE "commit",
             [f EXCEPT !.view[f.box].status = "CANCELLED", !.writes = {f.box}])

\* FOR UPDATE on the box, CANCELLED; then, with no waiting box in view, the
\* stock goes back to TRACKING.
DeleteBox(t) ==
    LET f == tx[t]
        last == f.seen = "BOX_SET" /\ WaitingIn(f.view) = {f.box}
    IN  /\ f.op = "delete" /\ f.pc = "box"
        /\ Granted(t)
        /\ Proceed(t, IF last THEN "stock" ELSE "commit",
             [f EXCEPT !.view[f.box].status = "CANCELLED", !.writes = {f.box}])

DeleteStock(t) ==
    LET f == tx[t]
    IN  /\ f.op = "delete" /\ f.pc = "stock"
        /\ Granted(t)
        /\ Proceed(t, "commit", [f EXCEPT !.seen = "TRACKING", !.writes = @ \cup {Stock}])

\* Slip: open positions are not looked at.
BeginStopUnchecked(t) ==
    /\ tracked # "EXITED"
    /\ Begin(t, "stop", "stock", NoBox, Blank)

\* stop_tracking, refused while a position is open.
BeginStop(t) ==
    /\ held = {}
    /\ tracked # "EXITED"
    /\ Begin(t, "stop", "stock", NoBox, Blank)

-----------------------------------------------------------------------------
(* The engine.                                                              *)

\* The last shares of a position are sold; its sweep follows.  Bound: one
\* sweep waits at a time.
FullExit(b) ==
    /\ b \in held
    /\ ~sweepDue
    /\ held' = held \ {b}
    /\ sweepDue' = TRUE
    /\ UNCHANGED <<rows, tracked, tx>>

BeginSweep ==
    /\ sweepDue
    /\ sweepDue' = FALSE
    /\ Begin(Engine, "sweep", "stock", NoBox, Blank)
    /\ UNCHANGED <<rows, tracked, held>>

\* The sweep locks the stock; stop_tracking updates it.
CloseStock(t) ==
    LET f == tx[t]
    IN  /\ f.op \in {"sweep", "stop"} /\ f.pc = "stock"
        /\ Granted(t)
        /\ Proceed(t, "box", IF f.op = "stop"
                             THEN [f EXCEPT !.seen = "EXITED", !.writes = {Stock}]
                             ELSE f)

\* Both cancel every waiting box they see.
CloseBoxes(t) ==
    LET f == tx[t]
    IN  /\ f.op \in {"sweep", "stop"} /\ f.pc = "box"
        /\ Granted(t)
        /\ Proceed(t, "commit",
             [f EXCEPT !.view = [b \in Box |-> IF b \in WaitingIn(f.view)
                                              THEN [f.view[b] EXCEPT !.status = "CANCELLED"]
                                              ELSE f.view[b]],
                       !.writes = @ \cup WaitingIn(f.view)])

\* One row of its own: fetch_box FOR UPDATE, and a commit at once.
Mark(b, s) ==
    /\ rows[b].status = "WAITING"
    /\ \A t \in Tx : b \notin tx[t].locks
    /\ rows' = [rows EXCEPT ![b].status = s]
    /\ tx' = [t \in Tx |-> Updated(tx[t], {b})]
    /\ UNCHANGED <<tracked, sweepDue>>

\* The position's INSERT checks its reference to the stock, which waits for
\* SELECT ... FOR UPDATE though not for an UPDATE.
MarkTriggered(b) ==
    /\ \A t \in Tx : Stock \in tx[t].locks => tx[t].op \in {"delete", "stop"}
    /\ Mark(b, "TRIGGERED")
    /\ held' = held \cup {b}

MarkInvalidated(b) ==
    /\ Mark(b, "INVALIDATED")
    /\ UNCHANGED held

-----------------------------------------------------------------------------
(* Transactions that fail.                                                  *)

Refused(t) ==
    LET f == tx[t]
    IN  \/ f.op = "create" /\ f.pc = "stock" /\ ~MayCreate(f)
        \/ f.op = "patch" /\ f.pc = "stock" /\ ~FitsCap(f)
        \/ f.op = "patch" /\ f.pc = "box" /\ ~MayModify(f)

\* A serialization failure, or a rule that the request breaks.
Fail(t) ==
    /\ tx[t].pc \in {"stock", "box"}
    /\ Free(t, Wanted(t))
    /\ Outdated(t, Wanted(t)) \/ Refused(t)
    /\ RollBack(t)

\* The database breaks a cycle of waits.
Deadlocked(t) ==
    /\ \E u \in Tx \ {t} : /\ tx[u].locks \cap Wanted(t) # {}
                           /\ tx[t].locks \cap Wanted(u) # {}
    /\ RollBack(t)

-----------------------------------------------------------------------------

Request(t) ==
    /\ BeginCreate(t) \/ BeginPatch(t) \/ BeginDelete(t) \/ BeginStop(t)
    /\ UNCHANGED <<rows, tracked, held, sweepDue>>

Work(t) ==
    /\ \/ Create(t) \/ PatchStock(t) \/ PatchBox(t)
       \/ DeleteBox(t) \/ DeleteStock(t)
       \/ CloseStock(t) \/ CloseBoxes(t)
       \/ Fail(t) \/ Deadlocked(t)
    /\ UNCHANGED <<rows, tracked, held, sweepDue>>

Next ==
    \/ \E t \in Web : Request(t)
    \/ \E t \in Tx : Work(t) \/ Commit(t)
    \/ BeginSweep
    \/ \E b \in Box : FullExit(b) \/ MarkTriggered(b) \/ MarkInvalidated(b)

Spec == Init /\ [][Next]_vars

\* The waiters of a row take turns: a statement whose locks are free again and
\* again gets them.  A transaction that got its last statement through commits.
FairSpec == Spec /\ \A t \in Tx : SF_vars(Work(t)) /\ WF_vars(Commit(t))

-----------------------------------------------------------------------------
(* Properties.                                                              *)

(* Every variable has its type.                                             *)
TypeOK ==
    /\ rows \in [Box -> Row]
    /\ tracked \in TrackedStatus
    /\ held \subseteq Box
    /\ sweepDue \in BOOLEAN
    /\ tx \in [Tx -> Transaction]

(* Two waiting boxes of one path never overlap: box_repository.py, at       *)
(* fetch_tracked_for_update: "Used by create_box / ... to prevent two       *)
(* concurrent overlap checks from both passing".                            *)
NoOverlap ==
    \A b, c \in WaitingIn(rows) :
        b # c /\ rows[b].path = rows[c].path => ~Overlap(rows[b].range, rows[c].range)

(* Waiting boxes and open positions of the stock stay within 30 per cent of *)
(* the capital, through patches, triggers and exits.                        *)
WithinCap == Usage(rows, held) <= Cap

(* A stock shown as TRACKING has no waiting box, so that no box waits on a  *)
(* stock whose price feed is not subscribed.                                *)
TrackingHasNoBox == tracked = "TRACKING" => WaitingIn(rows) = {}

(* What is closed stays closed: a closed box is never written again, by a   *)
(* request that saw it waiting or by another closer, so at most one of them *)
(* succeeds; and a stock the user stopped tracking is not brought back by a *)
(* request that saw it tracked.                                             *)
ClosedBoxFrozen ==
    [][/\ \A b \in Box : rows[b].status \notin {"none", "WAITING"}
                        => rows'[b] = rows[b]
       /\ tracked = "EXITED" => tracked' = "EXITED"]_vars

(* Tracking never stops over the position of a box stop_tracking knew of,   *)
(* though such a box may trigger after stop_tracking has looked for open    *)
(* positions.  (A box created in the meantime escapes it.)                  *)
StopLeavesNoPosition ==
    [][\A t \in Web :
          tx[t].op = "stop" /\ tx'[t].op = "none" /\ Stock \in tx[t].writes
          /\ tracked' = "EXITED" /\ tracked # "EXITED"
          => \A b \in held' : tx[t].view[b].status = "none"]_vars

(* Every transaction ends, whatever locks the others take and in whichever  *)
(* order: none waits for ever.                                              *)
TransactionsEnd == \A t \in Tx : tx[t].op # "none" ~> tx[t].op = "none"

=============================================================================
