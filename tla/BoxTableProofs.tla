--------------------------- MODULE BoxTableProofs ---------------------------
(***************************************************************************)
(* What the row locks of the box table guarantee, for any number of Web     *)
(* requests beside the engine: types, boxes and stocks that stay closed,    *)
(* and a stop_tracking that leaves no position of a box it knew of; and,    *)
(* beside one request at a time, tiers, entry ranges and the capital's cap. *)
(***************************************************************************)
EXTENDS BoxTable, Sums, TLAPS

-----------------------------------------------------------------------------
(* Largest elements and tiers.                                              *)

HasMax(S) == \E x \in S : \A y \in S : x >= y

\* By the least size of a finite set that has none.
LEMMA FiniteHasMax ==
    ASSUME NEW S, IsFiniteSet(S), S \subseteq Nat, S # {}
    PROVE  HasMax(S)
  <1> DEFINE bad(n) == \E T \in SUBSET Nat : IsFiniteSet(T) /\ Cardinality(T) = n /\ T # {} /\ ~HasMax(T)
             Bad == {n \in Nat : bad(n)}
  <1>1. Bad = {}
    <2> SUFFICES ASSUME Bad # {} PROVE FALSE
      OBVIOUS
    <2>1. PICK n \in Bad : \A m \in Bad : <<m, n>> \notin OpToRel(<, Nat)
      <3>1. Bad \subseteq Nat
        OBVIOUS
      <3> HIDE DEF Bad
      <3> QED
        BY <3>1, SmallestExists
    <2>2. PICK T \in SUBSET Nat : IsFiniteSet(T) /\ Cardinality(T) = n /\ T # {} /\ ~HasMax(T)
      BY <2>1
    <2>3. PICK x \in T : TRUE
      BY <2>2
    <2> DEFINE U == T \ {x}
    <2>4. IsFiniteSet(U) /\ Cardinality(U) = n - 1 /\ n \in Nat
      BY <2>1, <2>2, <2>3, FS_RemoveElement
    <2>5. Cardinality(U) \in Nat /\ Cardinality(U) < n
      BY <2>4, FS_CardinalityType
    <2>6. Cardinality(U) \notin Bad
      BY <2>1, <2>4, <2>5, SmallerIsIn
    <2>7. U = {} \/ HasMax(U)
      BY <2>4, <2>5, <2>6
    <2>8. HasMax(T)
      <3>1. CASE U = {}
        <4>1. T = {x} /\ x \in Nat
          BY <2>3, <3>1
        <4> QED
          BY <4>1 DEF HasMax
      <3>2. CASE HasMax(U)
        <4>1. PICK z \in U : \A y \in U : z >= y
          BY <3>2 DEF HasMax
        <4>2. z \in Nat /\ x \in Nat /\ T = U \cup {x} /\ \A y \in U : y \in Nat
          BY <2>3, <4>1
        <4> HIDE DEF U
        <4>3. CASE z >= x
          BY <4>1, <4>2, <4>3 DEF HasMax
        <4>4. CASE x > z
          BY <4>1, <4>2, <4>4 DEF HasMax
        <4> QED
          BY <4>2, <4>3, <4>4
      <3> QED
        BY <2>7, <3>1, <3>2
    <2> QED
      BY <2>2, <2>8
  <1>2. Cardinality(S) \in Nat
    BY FS_CardinalityType
  <1>3. ~bad(Cardinality(S))
    BY <1>1, <1>2
  <1> QED
    BY <1>3

\* The next tier is a number.
LEMMA NextTierIsNat ==
    ASSUME NEW R \in [Box -> Row], NEW p
    PROVE  NextTier(R, p) \in Nat
  <1> DEFINE C == {c \in Box : R[c].status # "none" /\ R[c].path = p}
             T == {R[b].tier : b \in C}
             f == [b \in C |-> R[b].tier]
  <1>1. IsFiniteSet(C)
    BY BoxTableAssumption, FS_Subset
  <1>2. f \in Surjection(C, T)
    BY DEF Surjection
  <1>3. IsFiniteSet(T)
    <2> HIDE DEF C, T, f
    <2> QED
      BY <1>1, <1>2, FS_Surjection
  <1>4. T \subseteq Nat
    BY DEF Row
  <1>5. IsFiniteSet({0} \cup T) /\ {0} \cup T \subseteq Nat /\ {0} \cup T # {}
    <2>1. {0} \cup T = T \cup {0}
      OBVIOUS
    <2> HIDE DEF T
    <2> QED
      BY <1>3, <1>4, <2>1, FS_AddElement
  <1>6. Max({0} \cup T) \in Nat
    <2> HIDE DEF T
    <2>1. \E x \in {0} \cup T : \A y \in {0} \cup T : x >= y
      BY <1>5, FiniteHasMax DEF HasMax
    <2>2. Max({0} \cup T) \in {0} \cup T
      BY <2>1 DEF Max
    <2> QED
      BY <1>5, <2>2
  <1> QED
    BY <1>6 DEF NextTier

-----------------------------------------------------------------------------
(* The inductive invariant.  A transaction (f) is seen against the rows (R),*)
(* the stock's status (K) and the held boxes (H) as they are now.           *)

Live == {"none", "WAITING"}

\* What nobody has updated since the snapshot still is as the transaction
\* sees it, but for its own writes; what it saw closed is closed.
SnapshotOK(f, R, K) ==
    f.op # "none" =>
        /\ \A b \in Box : b \notin f.stale /\ b \notin f.writes => f.view[b] = R[b]
        /\ Stock \notin f.stale /\ Stock \notin f.writes => f.seen = K
        /\ \A b \in Box : b \notin f.writes /\ f.view[b].status \notin Live
                          => R[b].status \notin Live

\* A locked row is as fresh as the snapshot, a locked box waits, and what is
\* about to be written is locked, or is the box that a create inserts.
LocksOK(f, R, K) ==
    /\ \A r \in f.locks : r \notin f.stale
    /\ \A b \in Box : b \in f.locks => R[b].status = "WAITING"
    /\ \A r \in f.writes : r \in f.locks \/ (f.op = "create" /\ r = f.box)
    /\ f.op = "create" => f.box \in Box /\ R[f.box].status = "none"
    /\ Stock \in f.writes => K # "EXITED"

\* How far a transaction is.
PlaceOK(f) ==
    /\ f.op = "none" => f = NoTx
    /\ f.op \in {"patch", "delete"} => f.box \in Box
    /\ f.pc = "box" => f.writes = IF f.op = "stop" THEN {Stock} ELSE {}
    /\ f.pc = "stock" => IF f.op = "delete" THEN f.writes = {f.box} /\ f.seen = "BOX_SET"
                                           ELSE f.writes = {}
    /\ f.op = "patch" /\ f.pc = "stock" => f.view[f.box].status = "WAITING"
    /\ f.op \in {"patch", "delete"} /\ f.pc = "box" => f.view[f.box].status = "WAITING"
    /\ f.op = "stop" /\ f.pc = "stock" => f.seen # "EXITED"
    /\ f.op = "stop" /\ f.pc = "commit" => WaitingIn(f.view) = {}

\* A position that stop_tracking did not see open is of a box it does not
\* know, or has made that box stale.
StopOK(f, H) ==
    f.op = "stop" => \A b \in H : \/ f.view[b].status = "none"
                                  \/ f.view[b].status = "WAITING" /\ b \in f.stale

FrameOK(f, R, K, H) == SnapshotOK(f, R, K) /\ LocksOK(f, R, K) /\ PlaceOK(f) /\ StopOK(f, H)

Apart(f, g) ==
    /\ \A r \in f.locks : r \notin g.locks
    /\ f.op = "create" /\ g.op = "create" => f.box # g.box

BoxInv ==
    /\ TypeOK
    /\ \A t \in Tx : FrameOK(tx[t], rows, tracked, held)
    /\ \A t, u \in Tx : t # u => Apart(tx[t], tx[u])

\* A row and a transaction that are not there.
LEMMA BlankTypes == Blank \in Row /\ NoTx \in Transaction
  <1>1. Blank \in Row
    BY BoxTableAssumption DEF Blank, Row, BoxStatus
  <1> QED
    BY <1>1 DEF NoTx, Transaction, TrackedStatus

\* A transaction that is over asks nothing of the rows.
LEMMA NoTxOK == FrameOK(NoTx, rows, tracked, held)
  BY DEF FrameOK, SnapshotOK, LocksOK, PlaceOK, StopOK, NoTx

\* The invariant holds at the start.
LEMMA InitBox == Init => BoxInv
  <1> SUFFICES ASSUME Init PROVE BoxInv
    OBVIOUS
  <1>1. TypeOK
    BY BlankTypes DEF Init, TypeOK, TrackedStatus
  <1>2. \A t \in Tx : tx[t] = NoTx
    BY DEF Init
  <1>3. \A t, u \in Tx : Apart(tx[t], tx[u])
    BY <1>2 DEF Apart, NoTx
  <1> QED
    BY <1>1, <1>2, <1>3, NoTxOK DEF BoxInv

-----------------------------------------------------------------------------
(* A transaction's own steps.                                               *)

\* A transaction that writes its own frame leaves the others as they are.
LEMMA OwnStep ==
    ASSUME BoxInv, NEW t \in Tx, NEW g \in Transaction, tx' = [tx EXCEPT ![t] = g],
           UNCHANGED <<rows, tracked, held>>, sweepDue' \in BOOLEAN,
           FrameOK(g, rows, tracked, held),
           \A u \in Tx \ {t} : Apart(g, tx[u])
    PROVE  BoxInv'
  <1>1. TypeOK'
    BY DEF BoxInv, TypeOK
  <1>2. \A u \in Tx : tx'[u] = IF u = t THEN g ELSE tx[u]
    BY DEF BoxInv, TypeOK
  <1>3. \A u \in Tx : FrameOK(tx'[u], rows', tracked', held')
    BY <1>2 DEF BoxInv
  <1>4. \A u, v \in Tx : u # v => Apart(tx'[u], tx'[v])
    <2> SUFFICES ASSUME NEW u \in Tx, NEW v \in Tx, u # v PROVE Apart(tx'[u], tx'[v])
      OBVIOUS
    <2>1. CASE u = t
      BY <1>2, <2>1
    <2>2. CASE v = t
      <3>1. Apart(g, tx[u])
        BY <2>2
      <3> QED
        BY <1>2, <2>2, <3>1 DEF Apart
    <2>3. CASE u # t /\ v # t
      BY <1>2, <2>3 DEF BoxInv
    <2> QED
      BY <2>1, <2>2, <2>3
  <1> QED
    BY <1>1, <1>3, <1>4 DEF BoxInv

\* A snapshot has just been taken.
LEMMA BeginKeeps ==
    ASSUME BoxInv, NEW t \in Tx, UNCHANGED <<rows, tracked, held>>, sweepDue' \in BOOLEAN,
           NEW op \in {"create", "patch", "delete", "sweep", "stop"}, NEW pc \in {"stock", "box"},
           NEW b \in Box \cup {NoBox}, NEW want \in Row,
           Begin(t, op, pc, b, want),
           op = "create" => /\ b \in Box /\ rows[b].status = "none"
                            /\ \A u \in Tx : ~(tx[u].op = "create" /\ tx[u].box = b),
           op \in {"patch", "delete"} => b \in WaitingIn(rows),
           op = "delete" => pc = "box",
           op = "stop" => pc = "stock" /\ held = {} /\ tracked # "EXITED"
    PROVE  BoxInv'
  <1> DEFINE g == [NoTx EXCEPT !.op = op, !.pc = pc, !.box = b, !.want = want,
                               !.view = rows, !.seen = tracked, !.open = held]
  <1>1. g \in Transaction
    BY BlankTypes DEF BoxInv, TypeOK, Transaction
  <1>2. /\ g.op = op /\ g.pc = pc /\ g.box = b /\ g.view = rows /\ g.seen = tracked
        /\ g.writes = {} /\ g.locks = {} /\ g.stale = {}
    BY DEF NoTx
  <1>3. tx' = [tx EXCEPT ![t] = g]
    BY DEF Begin
  <1> HIDE DEF g
  <1>4. FrameOK(g, rows, tracked, held)
    <2>1. SnapshotOK(g, rows, tracked) /\ LocksOK(g, rows, tracked) /\ StopOK(g, held)
      BY <1>2 DEF SnapshotOK, LocksOK, StopOK
    <2>2. PlaceOK(g)
      BY <1>2 DEF PlaceOK, WaitingIn
    <2> QED
      BY <2>1, <2>2 DEF FrameOK
  <1>5. \A u \in Tx \ {t} : Apart(g, tx[u])
    BY <1>2 DEF Apart
  <1> QED
    BY <1>1, <1>3, <1>4, <1>5, OwnStep

\* A request begins.
LEMMA RequestKeeps ==
    ASSUME BoxInv, NEW t \in Web, Request(t)
    PROVE  BoxInv'
  <1>1. t \in Tx /\ UNCHANGED <<rows, tracked, held>> /\ sweepDue' \in BOOLEAN
        /\ rows \in [Box -> Row]
    BY DEF Request, Tx, BoxInv, TypeOK
  <1>2. CASE BeginCreate(t)
    <2>1. PICK b \in Box, p \in Path, r \in PriceRange, s \in Size :
            /\ rows[b].status = "none"
            /\ \A u \in Tx : ~(tx[u].op = "create" /\ tx[u].box = b)
            /\ Begin(t, "create", "stock", b,
                 [status |-> "WAITING", path |-> p, range |-> r, size |-> s,
                  tier |-> NextTier(rows, p)])
      BY <1>2 DEF BeginCreate
    <2>2. [status |-> "WAITING", path |-> p, range |-> r, size |-> s,
           tier |-> NextTier(rows, p)] \in Row
      BY <1>1, NextTierIsNat DEF Row, BoxStatus
    <2> QED
      BY <1>1, <2>1, <2>2, BeginKeeps
  <1>3. CASE BeginPatch(t)
    <2>1. PICK b \in WaitingIn(rows), r \in PriceRange, s \in Size :
            Begin(t, "patch", "stock", b, [rows[b] EXCEPT !.range = r, !.size = s])
      BY <1>3 DEF BeginPatch
    <2>2. b \in Box /\ [rows[b] EXCEPT !.range = r, !.size = s] \in Row
      BY <1>1 DEF WaitingIn, Row
    <2> QED
      BY <1>1, <2>1, <2>2, BeginKeeps
  <1>4. CASE BeginDelete(t)
    <2>1. PICK b \in WaitingIn(rows) : Begin(t, "delete", "box", b, Blank)
      BY <1>4 DEF BeginDelete
    <2> QED
      BY <1>1, <2>1, BlankTypes, BeginKeeps DEF WaitingIn
  <1>5. CASE BeginStop(t)
    BY <1>1, <1>5, BlankTypes, BeginKeeps DEF BeginStop
  <1> QED
    BY <1>2, <1>3, <1>4, <1>5 DEF Request

\* The sweep begins.
LEMMA SweepBegins ==
    ASSUME BoxInv, BeginSweep
    PROVE  BoxInv'
  BY BlankTypes, BeginKeeps DEF BeginSweep, Tx

-----------------------------------------------------------------------------
(* Statements.                                                              *)

\* What a granted statement knows, and what its locks leave to show.
LEMMA ProceedKeeps ==
    ASSUME BoxInv, NEW t \in Tx, UNCHANGED <<rows, tracked, held, sweepDue>>, Granted(t),
           tx[t].op # "none", NEW pc \in {"box", "stock", "commit"},
           NEW f \in Transaction, f.locks = tx[t].locks, f.stale = tx[t].stale,
           f.op = tx[t].op, f.box = tx[t].box, Proceed(t, pc, f),
           \A b \in Box : b \in Wanted(t) => tx[t].view[b].status = "WAITING" /\ rows[b].status = "WAITING",
           Wanted(t) \subseteq Resource,
           \A r \in f.writes : \/ r \in f.locks \/ r \in Wanted(t)
                               \/ f.op = "create" /\ r = f.box,
           Stock \in f.writes => tracked # "EXITED",
           SnapshotOK(f, rows, tracked), PlaceOK([f EXCEPT !.pc = pc]), StopOK(f, held)
    PROVE  BoxInv'
  <1> DEFINE g == [f EXCEPT !.pc = pc, !.locks = @ \cup Wanted(t)]
  <1>1. g \in Transaction
    BY DEF Transaction
  <1>2. /\ g.op = f.op /\ g.pc = pc /\ g.box = f.box /\ g.view = f.view /\ g.seen = f.seen
        /\ g.writes = f.writes /\ g.stale = f.stale /\ g.locks = f.locks \cup Wanted(t)
    BY DEF Transaction
  <1>3. tx' = [tx EXCEPT ![t] = g]
    BY DEF Proceed
  <1>4. LET h == [f EXCEPT !.pc = pc]
        IN  /\ h.op = f.op /\ h.pc = pc /\ h.box = f.box /\ h.view = f.view /\ h.seen = f.seen
            /\ h.writes = f.writes
    BY DEF Transaction
  <1> HIDE DEF g
  <1>5. FrameOK(tx[t], rows, tracked, held)
    BY DEF BoxInv
  <1>6. \A r \in Wanted(t) : r \notin tx[t].stale
    BY DEF Granted, Outdated
  <1>7. \A u \in Tx \ {t} : \A r \in Wanted(t) : r \notin tx[u].locks
    BY DEF Granted, Free
  <1>8. SnapshotOK(g, rows, tracked) /\ StopOK(g, held)
    BY <1>2 DEF SnapshotOK, StopOK
  <1>9. LocksOK(g, rows, tracked)
    BY <1>2, <1>5, <1>6 DEF FrameOK, LocksOK
  <1>10. PlaceOK(g)
    BY <1>2, <1>4 DEF PlaceOK
  <1>11. \A u \in Tx \ {t} : Apart(g, tx[u])
    BY <1>2, <1>7 DEF BoxInv, Apart
  <1> QED
    BY <1>1, <1>3, <1>8, <1>9, <1>10, <1>11, OwnStep DEF FrameOK, BoxInv, TypeOK

\* A granted lock on the stock, and on the box of a request.
LEMMA StockLocked ==
    ASSUME BoxInv, NEW t \in Tx, Granted(t), tx[t].pc = "stock", tx[t].op # "none"
    PROVE  /\ Wanted(t) = {Stock}
           /\ tx[t].op # "delete" => tx[t].writes = {} /\ tx[t].seen = tracked
           /\ tx[t].op = "delete" => /\ tx[t].writes = {tx[t].box}
                                     /\ tx[t].seen = "BOX_SET" /\ tracked = "BOX_SET"
  <1>1. Wanted(t) = {Stock}
    BY DEF Wanted
  <1>2. Stock \notin tx[t].stale
    BY <1>1 DEF Granted, Outdated
  <1>3. SnapshotOK(tx[t], rows, tracked) /\ PlaceOK(tx[t])
    BY DEF BoxInv, FrameOK
  <1> QED
    BY <1>1, <1>2, <1>3, BoxTableAssumption DEF SnapshotOK, PlaceOK

\* A box that a patch or a delete has locked still waits.
LEMMA BoxLocked ==
    ASSUME BoxInv, NEW t \in Tx, Granted(t), tx[t].pc = "box", tx[t].op \in {"patch", "delete"}
    PROVE  /\ tx[t].box \in Box /\ Wanted(t) = {tx[t].box} /\ tx[t].writes = {}
           /\ tx[t].view[tx[t].box].status = "WAITING" /\ rows[tx[t].box].status = "WAITING"
  <1>1. Wanted(t) = {tx[t].box}
    BY DEF Wanted
  <1>2. tx[t].box \notin tx[t].stale
    BY <1>1 DEF Granted, Outdated
  <1>3. SnapshotOK(tx[t], rows, tracked) /\ PlaceOK(tx[t])
    BY DEF BoxInv, FrameOK
  <1> QED
    BY <1>1, <1>2, <1>3 DEF SnapshotOK, PlaceOK

\* create_box.
LEMMA CreateKeeps ==
    ASSUME BoxInv, NEW t \in Tx, UNCHANGED <<rows, tracked, held, sweepDue>>, Create(t)
    PROVE  BoxInv'
  <1> DEFINE f == tx[t]
             first == f.seen = "TRACKING"
             g == [f EXCEPT !.view[f.box] = f.want,
                            !.seen = IF first THEN "BOX_SET" ELSE @,
                            !.writes = {f.box} \cup (IF first THEN {Stock} ELSE {})]
  <1>1. /\ f.op = "create" /\ f.pc = "stock" /\ Granted(t) /\ Proceed(t, "commit", g)
        /\ f \in Transaction
    BY DEF Create, BoxInv, TypeOK
  <1>2. Wanted(t) = {Stock} /\ f.writes = {} /\ f.seen = tracked
    BY <1>1, StockLocked
  <1>3. SnapshotOK(f, rows, tracked) /\ LocksOK(f, rows, tracked) /\ f.box \in Box
    BY <1>1 DEF BoxInv, FrameOK, LocksOK
  <1>4. g \in Transaction
    BY <1>1, <1>3 DEF Transaction, Resource, TrackedStatus
  <1>5. /\ g.locks = f.locks /\ g.stale = f.stale /\ g.op = "create" /\ g.box = f.box
        /\ \A b \in Box \ {f.box} : g.view[b] = f.view[b]
        /\ g.writes = {f.box} \cup (IF first THEN {Stock} ELSE {})
        /\ ~first => g.seen = f.seen
    BY <1>1, <1>3 DEF Transaction
  <1>6. [g EXCEPT !.pc = "commit"].op = "create" /\ [g EXCEPT !.pc = "commit"].pc = "commit"
    BY <1>4, <1>5 DEF Transaction
  <1> HIDE DEF g
  <1>7. SnapshotOK(g, rows, tracked)
    BY <1>1, <1>2, <1>3, <1>5 DEF SnapshotOK
  <1>8. PlaceOK([g EXCEPT !.pc = "commit"]) /\ StopOK(g, held)
    BY <1>5, <1>6 DEF PlaceOK, StopOK
  <1>9. Stock \in g.writes => tracked # "EXITED"
    BY <1>2, <1>3, <1>5, BoxTableAssumption
  <1>10. /\ \A b \in Box : b \in Wanted(t) => f.view[b].status = "WAITING" /\ rows[b].status = "WAITING"
         /\ Wanted(t) \subseteq Resource
         /\ \A r \in g.writes : \/ r \in g.locks \/ r \in Wanted(t)
                                \/ g.op = "create" /\ r = g.box
    BY <1>2, <1>5, BoxTableAssumption DEF Resource
  <1> QED
    BY <1>1, <1>4, <1>5, <1>7, <1>8, <1>9, <1>10, ProceedKeeps

\* patch_box, the stock's lock.
LEMMA PatchStockKeeps ==
    ASSUME BoxInv, NEW t \in Tx, UNCHANGED <<rows, tracked, held, sweepDue>>, PatchStock(t)
    PROVE  BoxInv'
  <1> DEFINE f == tx[t]
  <1>1. /\ f.op = "patch" /\ f.pc = "stock" /\ Granted(t) /\ Proceed(t, "box", f)
        /\ f \in Transaction
    BY DEF PatchStock, BoxInv, TypeOK
  <1>2. Wanted(t) = {Stock} /\ f.writes = {}
    BY <1>1, StockLocked
  <1>3. SnapshotOK(f, rows, tracked) /\ PlaceOK(f) /\ StopOK(f, held)
    BY DEF BoxInv, FrameOK
  <1>4. PlaceOK([f EXCEPT !.pc = "box"])
    <2> DEFINE h == [f EXCEPT !.pc = "box"]
    <2>1. h.op = f.op /\ h.pc = "box" /\ h.box = f.box /\ h.view = f.view /\ h.writes = f.writes
      BY <1>1 DEF Transaction
    <2> HIDE DEF h
    <2>2. PlaceOK(h)
      BY <1>1, <1>2, <1>3, <2>1 DEF PlaceOK
    <2> QED
      BY <2>2 DEF h
  <1> QED
    BY <1>1, <1>2, <1>3, <1>4, BoxTableAssumption, ProceedKeeps DEF Resource

\* patch_box, the box's lock.
LEMMA PatchBoxKeeps ==
    ASSUME BoxInv, NEW t \in Tx, UNCHANGED <<rows, tracked, held, sweepDue>>, PatchBox(t)
    PROVE  BoxInv'
  <1> DEFINE f == tx[t]
             g == [f EXCEPT !.view[f.box] = f.want, !.writes = {f.box}]
  <1>1. /\ f.op = "patch" /\ f.pc = "box" /\ Granted(t) /\ Proceed(t, "commit", g)
        /\ f \in Transaction
    BY DEF PatchBox, BoxInv, TypeOK
  <1>2. /\ f.box \in Box /\ Wanted(t) = {f.box} /\ f.writes = {}
        /\ f.view[f.box].status = "WAITING" /\ rows[f.box].status = "WAITING"
    BY <1>1, BoxLocked
  <1>3. SnapshotOK(f, rows, tracked)
    BY DEF BoxInv, FrameOK
  <1>4. g \in Transaction
    BY <1>1, <1>2 DEF Transaction, Resource
  <1>5. /\ g.locks = f.locks /\ g.stale = f.stale /\ g.op = "patch" /\ g.box = f.box
        /\ \A b \in Box \ {f.box} : g.view[b] = f.view[b]
        /\ g.writes = {f.box} /\ g.seen = f.seen
    BY <1>1 DEF Transaction
  <1>6. LET h == [g EXCEPT !.pc = "commit"]
        IN  h.op = "patch" /\ h.pc = "commit" /\ h.box = f.box
    BY <1>4, <1>5 DEF Transaction
  <1> HIDE DEF g
  <1>7. SnapshotOK(g, rows, tracked)
    BY <1>1, <1>2, <1>3, <1>5 DEF SnapshotOK
  <1>8. PlaceOK([g EXCEPT !.pc = "commit"]) /\ StopOK(g, held)
    BY <1>2, <1>5, <1>6 DEF PlaceOK, StopOK
  <1> QED
    BY <1>1, <1>2, <1>4, <1>5, <1>7, <1>8, BoxTableAssumption, ProceedKeeps DEF Resource

\* delete_box, the box's lock.
LEMMA DeleteBoxKeeps ==
    ASSUME BoxInv, NEW t \in Tx, UNCHANGED <<rows, tracked, held, sweepDue>>, DeleteBox(t)
    PROVE  BoxInv'
  <1> DEFINE f == tx[t]
             g == [f EXCEPT !.view[f.box].status = "CANCELLED", !.writes = {f.box}]
  <1>1. /\ f.op = "delete" /\ f.pc = "box" /\ Granted(t) /\ f \in Transaction
        /\ \/ Proceed(t, "commit", g)
           \/ f.seen = "BOX_SET" /\ Proceed(t, "stock", g)
    BY DEF DeleteBox, BoxInv, TypeOK
  <1>2. /\ f.box \in Box /\ Wanted(t) = {f.box} /\ f.writes = {}
        /\ f.view[f.box].status = "WAITING" /\ rows[f.box].status = "WAITING"
    BY <1>1, BoxLocked
  <1>3. SnapshotOK(f, rows, tracked)
    BY DEF BoxInv, FrameOK
  <1>4. g \in Transaction
    BY <1>1, <1>2 DEF Transaction, Resource, Row, BoxStatus
  <1>5. /\ g.locks = f.locks /\ g.stale = f.stale /\ g.op = "delete" /\ g.box = f.box
        /\ \A b \in Box \ {f.box} : g.view[b] = f.view[b]
        /\ g.writes = {f.box} /\ g.seen = f.seen
    BY <1>1 DEF Transaction
  <1> HIDE DEF g
  <1>6. SnapshotOK(g, rows, tracked) /\ StopOK(g, held)
    BY <1>1, <1>2, <1>3, <1>5 DEF SnapshotOK, StopOK
  <1>7. ASSUME NEW pc \in {"stock", "commit"}, pc = "stock" => f.seen = "BOX_SET",
               Proceed(t, pc, g)
        PROVE  BoxInv'
    <2> DEFINE h == [g EXCEPT !.pc = pc]
    <2>1. /\ h.op = "delete" /\ h.pc = pc /\ h.box = f.box /\ h.writes = {f.box}
          /\ h.seen = f.seen
      BY <1>4, <1>5 DEF Transaction
    <2> HIDE DEF h
    <2>2. PlaceOK(h)
      BY <1>2, <1>7, <2>1 DEF PlaceOK
    <2> QED
      BY <1>1, <1>2, <1>4, <1>5, <1>6, <1>7, <2>2, BoxTableAssumption, ProceedKeeps DEF Resource, h
  <1> QED
    BY <1>1, <1>7

\* delete_box, the stock's lock.
LEMMA DeleteStockKeeps ==
    ASSUME BoxInv, NEW t \in Tx, UNCHANGED <<rows, tracked, held, sweepDue>>, DeleteStock(t)
    PROVE  BoxInv'
  <1> DEFINE f == tx[t]
             g == [f EXCEPT !.seen = "TRACKING", !.writes = @ \cup {Stock}]
  <1>1. /\ f.op = "delete" /\ f.pc = "stock" /\ Granted(t) /\ Proceed(t, "commit", g)
        /\ f \in Transaction
    BY DEF DeleteStock, BoxInv, TypeOK
  <1>2. Wanted(t) = {Stock} /\ f.writes = {f.box} /\ tracked = "BOX_SET"
    BY <1>1, StockLocked
  <1>3. SnapshotOK(f, rows, tracked) /\ LocksOK(f, rows, tracked) /\ PlaceOK(f)
    BY DEF BoxInv, FrameOK
  <1>4. g \in Transaction
    BY <1>1 DEF Transaction, Resource, TrackedStatus
  <1>5. /\ g.locks = f.locks /\ g.stale = f.stale /\ g.op = "delete" /\ g.box = f.box
        /\ g.view = f.view /\ g.writes = {f.box, Stock}
    BY <1>1, <1>2 DEF Transaction
  <1>6. LET h == [g EXCEPT !.pc = "commit"]
        IN  h.op = "delete" /\ h.pc = "commit" /\ h.box = f.box
    BY <1>4, <1>5 DEF Transaction
  <1> HIDE DEF g
  <1>7. SnapshotOK(g, rows, tracked) /\ StopOK(g, held)
    BY <1>1, <1>2, <1>3, <1>5 DEF SnapshotOK, StopOK
  <1>8. PlaceOK([g EXCEPT !.pc = "commit"])
    BY <1>1, <1>3, <1>6 DEF PlaceOK
  <1>9. /\ \A b \in Box : b \in Wanted(t) => f.view[b].status = "WAITING" /\ rows[b].status = "WAITING"
        /\ Wanted(t) \subseteq Resource
        /\ \A r \in g.writes : \/ r \in g.locks \/ r \in Wanted(t)
                               \/ g.op = "create" /\ r = g.box
    BY <1>1, <1>2, <1>3, <1>5, BoxTableAssumption DEF Resource, LocksOK
  <1> QED
    BY <1>1, <1>2, <1>4, <1>5, <1>7, <1>8, <1>9, ProceedKeeps

\* stop_tracking, the stock's lock.
LEMMA CloseStockKeeps ==
    ASSUME BoxInv, NEW t \in Tx, UNCHANGED <<rows, tracked, held, sweepDue>>, CloseStock(t)
    PROVE  BoxInv'
  <1> DEFINE f == tx[t]
             g == IF f.op = "stop" THEN [f EXCEPT !.seen = "EXITED", !.writes = {Stock}] ELSE f
  <1>1. /\ f.op \in {"sweep", "stop"} /\ f.pc = "stock" /\ Granted(t) /\ Proceed(t, "box", g)
        /\ f \in Transaction
    BY DEF CloseStock, BoxInv, TypeOK
  <1>2. Wanted(t) = {Stock} /\ f.writes = {} /\ f.seen = tracked
    BY <1>1, StockLocked
  <1>3. SnapshotOK(f, rows, tracked) /\ PlaceOK(f) /\ StopOK(f, held)
    BY DEF BoxInv, FrameOK
  <1>4. g \in Transaction
    BY <1>1 DEF Transaction, Resource, TrackedStatus
  <1>5. /\ g.locks = f.locks /\ g.stale = f.stale /\ g.op = f.op /\ g.box = f.box
        /\ g.view = f.view
        /\ g.writes = IF f.op = "stop" THEN {Stock} ELSE {}
        /\ f.op # "stop" => g.seen = f.seen
    BY <1>1, <1>2 DEF Transaction
  <1>6. LET h == [g EXCEPT !.pc = "box"]
        IN  h.op = f.op /\ h.pc = "box" /\ h.box = f.box /\ h.writes = g.writes
    BY <1>4, <1>5 DEF Transaction
  <1> HIDE DEF g
  <1>7. SnapshotOK(g, rows, tracked) /\ StopOK(g, held)
    BY <1>1, <1>2, <1>3, <1>5, BoxTableAssumption DEF SnapshotOK, StopOK
  <1>8. PlaceOK([g EXCEPT !.pc = "box"])
    BY <1>1, <1>3, <1>5, <1>6 DEF PlaceOK
  <1>9. /\ \A b \in Box : b \in Wanted(t) => f.view[b].status = "WAITING" /\ rows[b].status = "WAITING"
        /\ Wanted(t) \subseteq Resource
        /\ \A r \in g.writes : \/ r \in g.locks \/ r \in Wanted(t)
                               \/ g.op = "create" /\ r = g.box
        /\ Stock \in g.writes => tracked # "EXITED"
    BY <1>1, <1>2, <1>3, <1>5, BoxTableAssumption DEF Resource, PlaceOK
  <1> QED
    BY <1>1, <1>4, <1>5, <1>7, <1>8, <1>9, ProceedKeeps

\* stop_tracking, the boxes.
LEMMA CloseBoxesKeeps ==
    ASSUME BoxInv, NEW t \in Tx, UNCHANGED <<rows, tracked, held, sweepDue>>, CloseBoxes(t)
    PROVE  BoxInv'
  <1> DEFINE f == tx[t]
             W == WaitingIn(f.view)
             view == [b \in Box |-> IF b \in W THEN [f.view[b] EXCEPT !.status = "CANCELLED"]
                                              ELSE f.view[b]]
             g == [f EXCEPT !.view = view, !.writes = @ \cup W]
  <1>1. /\ f.op \in {"sweep", "stop"} /\ f.pc = "box" /\ Granted(t) /\ Proceed(t, "commit", g)
        /\ f \in Transaction
    BY DEF CloseBoxes, BoxInv, TypeOK
  <1>2. Wanted(t) = W /\ W \subseteq Box /\ \A b \in Box : b \in W <=> f.view[b].status = "WAITING"
    BY <1>1 DEF Wanted, WaitingIn
  <1>3. FrameOK(f, rows, tracked, held)
    BY DEF BoxInv
  <1>4. f.writes = (IF f.op = "stop" THEN {Stock} ELSE {}) /\ \A b \in Box : b \notin f.writes
    BY <1>1, <1>3, BoxTableAssumption DEF FrameOK, PlaceOK
  <1>5. \A b \in W : b \notin f.stale
    BY <1>1, <1>2 DEF Granted, Outdated
  <1>6. view \in [Box -> Row] /\ \A b \in Box \ W : view[b] = f.view[b]
    <2>1. \A b \in Box : view[b] \in Row
      BY <1>1 DEF Transaction, Row, BoxStatus
    <2> QED
      BY <2>1
  <1>7. \A b \in W : view[b].status = "CANCELLED"
    <2> SUFFICES ASSUME NEW b \in W PROVE view[b].status = "CANCELLED"
      OBVIOUS
    <2>1. f.view[b] \in Row /\ view[b] = [f.view[b] EXCEPT !.status = "CANCELLED"]
      BY <1>1, <1>2 DEF Transaction
    <2> QED
      BY <2>1 DEF Row
  <1> HIDE DEF view, W
  <1>8. g \in Transaction
    BY <1>1, <1>2, <1>6 DEF Transaction, Resource
  <1>9. /\ g.locks = f.locks /\ g.stale = f.stale /\ g.op = f.op /\ g.box = f.box
        /\ g.view = view /\ g.writes = f.writes \cup W /\ g.seen = f.seen
    BY <1>1 DEF Transaction
  <1>10. LET h == [g EXCEPT !.pc = "commit"]
         IN  h.op = f.op /\ h.pc = "commit" /\ h.view = view
    BY <1>8, <1>9 DEF Transaction
  <1> HIDE DEF g
  <1>11. SnapshotOK(g, rows, tracked)
    BY <1>2, <1>3, <1>4, <1>6, <1>9 DEF FrameOK, SnapshotOK
  <1>12. WaitingIn(view) = {}
    BY <1>2, <1>6, <1>7 DEF WaitingIn
  <1>13. PlaceOK([g EXCEPT !.pc = "commit"])
    BY <1>1, <1>10, <1>12 DEF PlaceOK
  <1>14. StopOK(g, held)
    <2> SUFFICES ASSUME f.op = "stop", NEW b \in held PROVE view[b].status = "none"
      BY <1>9 DEF StopOK
    <2>1. b \in Box
      BY DEF BoxInv, TypeOK
    <2>2. b \notin W /\ f.view[b].status = "none"
      BY <1>2, <1>3, <1>5, <2>1 DEF FrameOK, StopOK
    <2> QED
      BY <1>6, <2>1, <2>2
  <1>15. \A b \in W : f.view[b].status = "WAITING" /\ rows[b].status = "WAITING"
    BY <1>1, <1>2, <1>3, <1>4, <1>5 DEF FrameOK, SnapshotOK
  <1>16. /\ Wanted(t) \subseteq Resource
         /\ \A r \in g.writes : r \in g.locks \/ r \in Wanted(t) \/ r = Stock
         /\ Stock \in g.writes => Stock \in f.writes
    BY <1>2, <1>4, <1>9, BoxTableAssumption DEF Resource
  <1>17. /\ Stock \in f.writes => Stock \in f.locks /\ tracked # "EXITED"
         /\ f.op # "create"
    BY <1>1, <1>3 DEF FrameOK, LocksOK
  <1>18. \A b \in Box : b \in Wanted(t) => f.view[b].status = "WAITING" /\ rows[b].status = "WAITING"
    BY <1>2, <1>15
  <1>19. \A r \in g.writes : \/ r \in g.locks \/ r \in Wanted(t)
                             \/ g.op = "create" /\ r = g.box
    BY <1>9, <1>16, <1>17
  <1> QED
    BY <1>1, <1>8, <1>9, <1>11, <1>13, <1>14, <1>16, <1>17, <1>18, <1>19, ProceedKeeps

\* A transaction is rolled back.
LEMMA RollBackKeeps ==
    ASSUME BoxInv, NEW t \in Tx, UNCHANGED <<rows, tracked, held, sweepDue>>, RollBack(t)
    PROVE  BoxInv'
  <1>1. \A u \in Tx \ {t} : Apart(NoTx, tx[u])
    BY DEF Apart, NoTx
  <1>2. tx' = [tx EXCEPT ![t] = NoTx] /\ sweepDue' \in BOOLEAN
    BY DEF RollBack, BoxInv, TypeOK
  <1> QED
    BY <1>1, <1>2, BlankTypes, NoTxOK, OwnStep

\* Every step of a transaction keeps the invariant.
LEMMA WorkKeeps ==
    ASSUME BoxInv, NEW t \in Tx, Work(t)
    PROVE  BoxInv'
  <1>1. UNCHANGED <<rows, tracked, held, sweepDue>>
    BY DEF Work
  <1> QED
    BY <1>1, CreateKeeps, PatchStockKeeps, PatchBoxKeeps, DeleteBoxKeeps, DeleteStockKeeps,
       CloseStockKeeps, CloseBoxesKeeps, RollBackKeeps
    DEF Work, Fail, Deadlocked

-----------------------------------------------------------------------------
(* Updates as the other transactions meet them.                             *)

\* Rows that a transaction has not locked are updated; none that was closed.
LEMMA UpdatedOK ==
    ASSUME BoxTableAssumption, NEW f \in Transaction, NEW R, R \subseteq Resource,
           FrameOK(f, rows, tracked, held), held \subseteq Box,
           \A r \in f.locks : r \notin R,
           f.op = "create" => f.box \notin R,
           \A b \in Box : b \notin R => rows'[b] = rows[b],
           Stock \notin R => tracked' = tracked,
           \A b \in Box : rows[b].status \notin Live => rows'[b] = rows[b],
           \A b \in held' : \/ b \in held
                            \/ b \in Box /\ b \in R /\ rows[b].status = "WAITING"
    PROVE  /\ Updated(f, R) \in Transaction
           /\ FrameOK(Updated(f, R), rows', tracked', held')
           /\ Updated(f, R).locks = f.locks /\ Updated(f, R).op = f.op
           /\ Updated(f, R).box = f.box
  <1> DEFINE g == Updated(f, R)
  <1>1. CASE f.op = "none"
    <2>1. f = NoTx /\ g = f
      BY <1>1 DEF FrameOK, PlaceOK, Updated
    <2>2. FrameOK(NoTx, rows', tracked', held')
      BY DEF FrameOK, SnapshotOK, LocksOK, PlaceOK, StopOK, NoTx
    <2> QED
      BY <2>1, <2>2
  <1>2. CASE f.op # "none"
    <2>1. g = [f EXCEPT !.stale = @ \cup R]
      BY <1>2 DEF Updated
    <2>2. g \in Transaction
      BY <2>1 DEF Transaction
    <2>3. /\ g.op = f.op /\ g.pc = f.pc /\ g.box = f.box /\ g.view = f.view /\ g.seen = f.seen
          /\ g.writes = f.writes /\ g.locks = f.locks /\ g.stale = f.stale \cup R
      BY <2>1 DEF Transaction
    <2> HIDE DEF g
    <2>4. SnapshotOK(g, rows', tracked')
      BY <2>3 DEF FrameOK, SnapshotOK
    <2>5. LocksOK(g, rows', tracked')
      <3>1. LocksOK(f, rows, tracked)
        BY DEF FrameOK
      <3>2. Stock \in f.writes => Stock \notin R
        BY <3>1, BoxTableAssumption DEF LocksOK
      <3>3. /\ \A r \in g.locks : r \notin g.stale
            /\ \A b \in Box : b \in g.locks => rows'[b].status = "WAITING"
            /\ \A r \in g.writes : r \in g.locks \/ (g.op = "create" /\ r = g.box)
        BY <2>3, <3>1 DEF LocksOK
      <3>4. g.op = "create" => g.box \in Box /\ rows'[g.box].status = "none"
        BY <2>3, <3>1 DEF LocksOK
      <3>5. Stock \in g.writes => tracked' # "EXITED"
        BY <2>3, <3>1, <3>2 DEF LocksOK
      <3> QED
        BY <3>3, <3>4, <3>5 DEF LocksOK
    <2>6. PlaceOK(g)
      BY <1>2, <2>3 DEF FrameOK, PlaceOK
    <2>7. StopOK(g, held')
      <3> SUFFICES ASSUME f.op = "stop", NEW b \in held'
                   PROVE  \/ f.view[b].status = "none"
                          \/ f.view[b].status = "WAITING" /\ b \in f.stale \cup R
        BY <2>3 DEF StopOK
      <3>1. CASE b \in held
        BY <3>1 DEF FrameOK, StopOK
      <3>2. CASE b \in Box /\ b \in R /\ rows[b].status = "WAITING"
        <4>1. b \notin f.writes
          BY <3>2 DEF FrameOK, LocksOK
        <4>2. f.view[b].status \in Live
          BY <1>2, <3>2, <4>1 DEF FrameOK, SnapshotOK, Live
        <4> QED
          BY <3>2, <4>2 DEF Live
      <3> QED
        BY <3>1, <3>2
    <2> QED
      BY <2>2, <2>3, <2>4, <2>5, <2>6, <2>7 DEF FrameOK, g
  <1> QED
    BY <1>1, <1>2

\* The writer, if it is a transaction, is over; everyone else sees R updated.
LEMMA UpdateKeeps ==
    ASSUME BoxInv, NEW R, R \subseteq Resource,
           rows' \in [Box -> Row], tracked' \in TrackedStatus, held' \subseteq Box,
           sweepDue' \in BOOLEAN, NEW W, tx' = [u \in Tx |-> IF u \in W THEN NoTx ELSE Updated(tx[u], R)],
           \A u \in Tx : u \notin W => /\ \A r \in tx[u].locks : r \notin R
                                       /\ tx[u].op = "create" => tx[u].box \notin R,
           \A b \in Box : b \notin R => rows'[b] = rows[b],
           Stock \notin R => tracked' = tracked,
           \A b \in Box : rows[b].status \notin Live => rows'[b] = rows[b],
           \A b \in held' : \/ b \in held
                            \/ b \in Box /\ b \in R /\ rows[b].status = "WAITING"
    PROVE  BoxInv'
  <1>1. ASSUME NEW u \in Tx
        PROVE  /\ tx'[u] \in Transaction
               /\ FrameOK(tx'[u], rows', tracked', held')
               /\ \/ tx'[u] = NoTx
                  \/ tx'[u].locks = tx[u].locks /\ tx'[u].op = tx[u].op /\ tx'[u].box = tx[u].box
    <2>1. CASE u \in W
      <3>1. tx'[u] = NoTx
        BY <2>1
      <3>2. FrameOK(NoTx, rows', tracked', held')
        BY DEF FrameOK, SnapshotOK, LocksOK, PlaceOK, StopOK, NoTx
      <3> QED
        BY <3>1, <3>2, BlankTypes
    <2>2. CASE u \notin W
      <3> DEFINE f == tx[u]
      <3>1. tx'[u] = Updated(f, R)
        BY <2>2
      <3>2. f \in Transaction /\ FrameOK(f, rows, tracked, held) /\ held \subseteq Box
        BY DEF BoxInv, TypeOK
      <3>3. (\A r \in f.locks : r \notin R) /\ (f.op = "create" => f.box \notin R)
        BY <2>2
      <3> HIDE DEF f
      <3>4. /\ Updated(f, R) \in Transaction
            /\ FrameOK(Updated(f, R), rows', tracked', held')
            /\ Updated(f, R).locks = f.locks /\ Updated(f, R).op = f.op
            /\ Updated(f, R).box = f.box
        BY <3>2, <3>3, UpdatedOK, BoxTableAssumption
      <3> QED
        BY <3>1, <3>4 DEF f
    <2> QED
      BY <2>1, <2>2
  <1>2. TypeOK'
    BY <1>1 DEF TypeOK
  <1>3. \A t, u \in Tx : t # u => Apart(tx'[t], tx'[u])
    <2> SUFFICES ASSUME NEW t \in Tx, NEW u \in Tx, t # u PROVE Apart(tx'[t], tx'[u])
      OBVIOUS
    <2>1. Apart(tx[t], tx[u])
      BY DEF BoxInv
    <2>2. NoTx.locks = {} /\ NoTx.op = "none"
      BY DEF NoTx
    <2> QED
      BY <1>1, <2>1, <2>2 DEF Apart
  <1> QED
    BY <1>1, <1>2, <1>3 DEF BoxInv

\* A transaction that commits writes no closed box, no EXITED stock, and
\* nothing another one has locked or is about to insert.
LEMMA CommitWrites ==
    ASSUME BoxInv, NEW t \in Tx, Commit(t)
    PROVE  /\ tx[t].writes \subseteq Resource
           /\ \A b \in Box : b \in tx[t].writes => rows[b].status \in Live
           /\ \A b \in Box : b \notin tx[t].writes => rows'[b] = rows[b]
           /\ Stock \notin tx[t].writes => tracked' = tracked
           /\ Stock \in tx[t].writes => tracked # "EXITED"
           /\ \A u \in Tx \ {t} : /\ \A r \in tx[u].locks : r \notin tx[t].writes
                                  /\ tx[u].op = "create" => tx[u].box \notin tx[t].writes
  <1> DEFINE f == tx[t]
  <1>1. f \in Transaction /\ LocksOK(f, rows, tracked)
    BY DEF BoxInv, TypeOK, FrameOK
  <1>2. f.writes \subseteq Resource
    BY <1>1 DEF Transaction
  <1>3. \A b \in Box : b \in f.writes => rows[b].status \in Live
    BY <1>1 DEF LocksOK, Live
  <1>4. /\ \A b \in Box : b \notin f.writes => rows'[b] = rows[b]
        /\ Stock \notin f.writes => tracked' = tracked
    BY DEF Commit
  <1>5. Stock \in f.writes => tracked # "EXITED"
    BY <1>1 DEF LocksOK
  <1>6. ASSUME NEW u \in Tx \ {t}
        PROVE  /\ \A r \in tx[u].locks : r \notin f.writes
               /\ tx[u].op = "create" => tx[u].box \notin f.writes
    <2>1. Apart(f, tx[u]) /\ LocksOK(tx[u], rows, tracked)
      BY DEF BoxInv, FrameOK
    <2>2. \A r \in tx[u].locks : r \notin f.writes
      <3> SUFFICES ASSUME NEW r \in tx[u].locks, r \in f.writes PROVE FALSE
        OBVIOUS
      <3>1. f.op = "create" /\ r = f.box
        BY <1>1, <2>1 DEF LocksOK, Apart
      <3> QED
        BY <1>1, <2>1, <3>1 DEF LocksOK
    <2>3. tx[u].op = "create" => tx[u].box \notin f.writes
      <3> SUFFICES ASSUME tx[u].op = "create", tx[u].box \in f.writes PROVE FALSE
        OBVIOUS
      <3>1. tx[u].box \in f.locks
        BY <1>1, <2>1 DEF LocksOK, Apart
      <3> QED
        BY <1>1, <2>1, <3>1 DEF LocksOK
    <2> QED
      BY <2>2, <2>3
  <1> QED
    BY <1>2, <1>3, <1>4, <1>5, <1>6

\* So does its commit.
LEMMA CommitKeeps ==
    ASSUME BoxInv, NEW t \in Tx, Commit(t)
    PROVE  BoxInv'
  <1> DEFINE R == tx[t].writes
  <1>1. /\ tx[t] \in Transaction /\ rows \in [Box -> Row] /\ tracked \in TrackedStatus
        /\ held \subseteq Box /\ sweepDue \in BOOLEAN
    BY DEF BoxInv, TypeOK
  <1>2. rows' \in [Box -> Row] /\ tracked' \in TrackedStatus /\ held' = held /\ sweepDue' = sweepDue
    BY <1>1 DEF Commit, Transaction
  <1>3. tx' = [u \in Tx |-> IF u \in {t} THEN NoTx ELSE Updated(tx[u], R)]
    BY DEF Commit
  <1>4. /\ R \subseteq Resource
        /\ \A b \in Box : b \in R => rows[b].status \in Live
        /\ \A b \in Box : b \notin R => rows'[b] = rows[b]
        /\ Stock \notin R => tracked' = tracked
        /\ \A u \in Tx : u \notin {t} => /\ \A r \in tx[u].locks : r \notin R
                                         /\ tx[u].op = "create" => tx[u].box \notin R
    BY CommitWrites
  <1>5. \A b \in Box : rows[b].status \notin Live => rows'[b] = rows[b]
    BY <1>4
  <1> HIDE DEF R
  <1> QED
    BY <1>1, <1>2, <1>3, <1>4, <1>5, UpdateKeeps

\* The engine marks a box.
LEMMA MarkKeeps ==
    ASSUME BoxInv, NEW b \in Box, NEW s \in BoxStatus, Mark(b, s),
           held' \subseteq held \cup {b}
    PROVE  BoxInv'
  <1> DEFINE R == {b}
             W == {}
  <1>1. /\ rows \in [Box -> Row] /\ tracked' = tracked /\ tracked \in TrackedStatus
        /\ sweepDue' = sweepDue /\ sweepDue \in BOOLEAN /\ held \subseteq Box
        /\ rows[b].status = "WAITING"
    BY DEF BoxInv, TypeOK, Mark
  <1>2. rows' \in [Box -> Row] /\ \A c \in Box \ {b} : rows'[c] = rows[c]
    BY <1>1 DEF Mark, Row
  <1>3. tx' = [u \in Tx |-> IF u \in W THEN NoTx ELSE Updated(tx[u], R)]
    BY DEF Mark
  <1>4. \A u \in Tx : u \notin W => /\ \A r \in tx[u].locks : r \notin R
                                    /\ tx[u].op = "create" => tx[u].box \notin R
    BY <1>1 DEF Mark, BoxInv, FrameOK, LocksOK
  <1>5. \A c \in Box : rows[c].status \notin Live => rows'[c] = rows[c]
    BY <1>1, <1>2 DEF Live
  <1>6. R \subseteq Resource /\ Stock \notin R /\ held' \subseteq Box
    BY <1>1, BoxTableAssumption DEF Resource
  <1>7. \A c \in Box : c \notin R => rows'[c] = rows[c]
    BY <1>2
  <1>8. \A c \in held' : \/ c \in held
                         \/ c \in Box /\ c \in R /\ rows[c].status = "WAITING"
    BY <1>1
  <1> HIDE DEF R, W
  <1> QED
    BY <1>1, <1>2, <1>3, <1>4, <1>5, <1>6, <1>7, <1>8, UpdateKeeps

\* A position is sold out.
LEMMA FullExitKeeps ==
    ASSUME BoxInv, NEW b \in Box, FullExit(b)
    PROVE  BoxInv'
  <1>1. UNCHANGED <<rows, tracked, tx>> /\ held' \subseteq held /\ TypeOK'
    BY DEF FullExit, BoxInv, TypeOK
  <1>2. \A t \in Tx : FrameOK(tx'[t], rows', tracked', held')
    BY <1>1 DEF BoxInv, FrameOK, StopOK
  <1> QED
    BY <1>1, <1>2 DEF BoxInv

\* Every step keeps the invariant.
LEMMA NextKeeps ==
    ASSUME BoxInv, Next
    PROVE  BoxInv'
  <1>1. CASE \E t \in Web : Request(t)
    BY <1>1, RequestKeeps
  <1>2. CASE \E t \in Tx : Work(t) \/ Commit(t)
    BY <1>2, WorkKeeps, CommitKeeps
  <1>3. CASE BeginSweep
    BY <1>3, SweepBegins
  <1>4. CASE \E b \in Box : FullExit(b) \/ MarkTriggered(b) \/ MarkInvalidated(b)
    BY <1>4, FullExitKeeps, MarkKeeps DEF MarkTriggered, MarkInvalidated, BoxStatus
  <1> QED
    BY <1>1, <1>2, <1>3, <1>4 DEF Next

\* So does a step of somebody else.
LEMMA StutterKeeps == BoxInv /\ UNCHANGED vars => BoxInv'
  BY DEF vars, BoxInv, TypeOK

-----------------------------------------------------------------------------
(* Theorems.                                                                *)

\* The invariant of the box table.
LEMMA InvariantHolds == Spec => []BoxInv
  <1>1. BoxInv /\ [Next]_vars => BoxInv'
    BY NextKeeps, StutterKeeps
  <1> QED
    BY <1>1, InitBox, PTL DEF Spec

(* Every variable keeps its type, whatever requests meet.                   *)
THEOREM TypesHold == Spec => []TypeOK
  <1>1. BoxInv => TypeOK
    BY DEF BoxInv
  <1> QED
    BY <1>1, InvariantHolds, PTL

\* The steps that write rows or the stock.
LEMMA Writers ==
    ASSUME BoxInv, Next
    PROVE  \/ rows' = rows /\ tracked' = tracked
           \/ \E t \in Tx : Commit(t)
           \/ \E b \in Box, s \in BoxStatus : Mark(b, s)
  BY DEF Next, Request, Work, BeginSweep, FullExit, MarkTriggered, MarkInvalidated, BoxStatus

\* No step reopens a box or an exited stock.
LEMMA ClosedStep ==
    ASSUME BoxInv, Next
    PROVE  /\ \A b \in Box : rows[b].status \notin {"none", "WAITING"} => rows'[b] = rows[b]
           /\ tracked = "EXITED" => tracked' = "EXITED"
  <1>1. CASE rows' = rows /\ tracked' = tracked
    BY <1>1
  <1>2. ASSUME NEW t \in Tx, Commit(t)
        PROVE  /\ \A b \in Box : rows[b].status \notin {"none", "WAITING"} => rows'[b] = rows[b]
               /\ tracked = "EXITED" => tracked' = "EXITED"
    BY <1>2, CommitWrites DEF Live
  <1>3. ASSUME NEW c \in Box, NEW s \in BoxStatus, Mark(c, s)
        PROVE  /\ \A b \in Box : rows[b].status \notin {"none", "WAITING"} => rows'[b] = rows[b]
               /\ tracked = "EXITED" => tracked' = "EXITED"
    BY <1>3 DEF Mark, BoxInv, TypeOK
  <1> QED
    BY <1>1, <1>2, <1>3, Writers

(* A closed box is never written again and a stock that is EXITED stays so, *)
(* however many requests, sweeps and engine updates meet.                   *)
THEOREM ClosedStaysClosed == Spec => ClosedBoxFrozen
  <1>1. BoxInv /\ [Next]_vars
          => [/\ \A b \in Box : rows[b].status \notin {"none", "WAITING"} => rows'[b] = rows[b]
              /\ tracked = "EXITED" => tracked' = "EXITED"]_vars
    BY ClosedStep
  <1> QED
    BY <1>1, InvariantHolds, PTL DEF Spec, ClosedBoxFrozen

\* The step that ends a stop_tracking and writes the stock is its commit.
LEMMA StopStep ==
    ASSUME BoxInv, Next, NEW t \in Web, tx[t].op = "stop", tx'[t].op = "none",
           Stock \in tx[t].writes, tracked' = "EXITED", tracked # "EXITED"
    PROVE  \A b \in held' : tx[t].view[b].status = "none"
  <1>1. t \in Tx /\ FrameOK(tx[t], rows, tracked, held) /\ held \subseteq Box
    BY DEF Tx, BoxInv, TypeOK
  <1>2. PICK u \in Tx : Commit(u)
    BY Writers DEF Mark
  <1>3. u = t
    <2> SUFFICES ASSUME u # t PROVE FALSE
      OBVIOUS
    <2>1. tx'[t] = Updated(tx[t], tx[u].writes)
      BY <1>1, <1>2 DEF Commit
    <2>2. tx'[t].op = "stop"
      BY <1>1, <2>1 DEF Updated, BoxInv, TypeOK, Transaction
    <2> QED
      BY <2>2
  <1>4. tx[t].pc = "commit" /\ held' = held
    BY <1>2, <1>3 DEF Commit
  <1>5. WaitingIn(tx[t].view) = {}
    BY <1>1, <1>4 DEF FrameOK, PlaceOK
  <1> QED
    BY <1>1, <1>4, <1>5 DEF FrameOK, StopOK, WaitingIn

(* Tracking never stops over the position of a box stop_tracking knew of.   *)
THEOREM StopsOverNoPosition == Spec => StopLeavesNoPosition
  <1>1. BoxInv /\ [Next]_vars
          => [\A t \in Web :
                tx[t].op = "stop" /\ tx'[t].op = "none" /\ Stock \in tx[t].writes
                /\ tracked' = "EXITED" /\ tracked # "EXITED"
                => \A b \in held' : tx[t].view[b].status = "none"]_vars
    BY StopStep
  <1> QED
    BY <1>1, InvariantHolds, PTL DEF Spec, StopLeavesNoPosition

-----------------------------------------------------------------------------
(* One Web request at a time.  Everyone else only closes boxes, so that     *)
(* what the request has checked on its snapshot holds of the rows.          *)

Rules(R, K) ==
    /\ \A b, c \in WaitingIn(R) :
          b # c /\ R[b].path = R[c].path => ~Overlap(R[b].range, R[c].range)
    /\ K = "TRACKING" => WaitingIn(R) = {}

ViewOK(f, R) ==
    f.op # "none" =>
        /\ f.op # "sweep"
        /\ Stock \notin f.stale
        /\ Rules(f.view, f.seen)
        /\ \A b \in Box : b \notin f.writes /\ R[b].status = "WAITING" => f.view[b] = R[b]
        /\ f.op = "patch" /\ f.pc # "commit" => f.want.path = f.view[f.box].path
        /\ f.op = "delete" /\ f.pc = "stock" => WaitingIn(f.view) = {}

SweepOK(f) ==
    /\ f.op \in {"none", "sweep"}
    /\ Stock \notin f.writes
    /\ \A b \in Box : b \in f.writes => f.view[b].status = "CANCELLED"

Alone(w) ==
    /\ BoxInv
    /\ Rules(rows, tracked)
    /\ ViewOK(tx[w], rows)
    /\ SweepOK(tx[Engine])

\* Rules that hold of the waiting boxes hold of some of them.
LEMMA FewerBoxesRules ==
    ASSUME NEW R, NEW S, NEW K, Rules(R, K),
           \A b \in Box : S[b].status = "WAITING" => S[b] = R[b]
    PROVE  Rules(S, K)
  <1>1. \A b \in WaitingIn(S) : b \in WaitingIn(R) /\ S[b] = R[b]
    BY DEF WaitingIn
  <1> QED
    BY <1>1 DEF Rules

\* A box that overlaps no sibling is put in, in place of itself or anew.
LEMMA CheckedRules ==
    ASSUME NEW R \in [Box -> Row], NEW S \in [Box -> Row], NEW K, NEW L, Rules(R, K), NEW b \in Box,
           \A c \in Box \ {b} : S[c] = R[c],
           ~Sibling(R, b, S[b]), L # "TRACKING"
    PROVE  Rules(S, L)
  <1> SUFFICES ASSUME NEW c \in WaitingIn(S), NEW d \in WaitingIn(S),
                      c # d, S[c].path = S[d].path
               PROVE  ~Overlap(S[c].range, S[d].range)
    BY DEF Rules
  <1>1. \A e \in WaitingIn(S) \ {b} : e \in WaitingIn(R) \ {b} /\ S[e] = R[e]
    BY DEF WaitingIn
  <1>2. c \in Box /\ d \in Box /\ S[c].range \in PriceRange /\ S[d].range \in PriceRange
    BY DEF WaitingIn, Row
  <1>3. /\ S[c].range.lo \in Nat /\ S[c].range.hi \in Nat
        /\ S[d].range.lo \in Nat /\ S[d].range.hi \in Nat
    BY <1>2, BoxTableAssumption
  <1>4. CASE c = b
    <2>1. ~Overlap(S[d].range, S[c].range)
      BY <1>1, <1>4 DEF Sibling
    <2> QED
      BY <1>3, <2>1 DEF Overlap
  <1>5. CASE d = b
    BY <1>1, <1>5 DEF Sibling
  <1>6. CASE c # b /\ d # b
    BY <1>1, <1>6 DEF Rules
  <1> QED
    BY <1>4, <1>5, <1>6

\* Nobody but the one request has begun.
LEMMA InitAlone ==
    ASSUME NEW w, Web = {w}, Init
    PROVE  Alone(w)
  <1>1. tx[w] = NoTx /\ tx[Engine] = NoTx
    BY DEF Init, Tx
  <1>2. WaitingIn(rows) = {}
    BY DEF Init, WaitingIn, Blank
  <1> QED
    BY <1>1, <1>2, InitBox DEF Alone, Rules, ViewOK, SweepOK, NoTx

\* The one request begins.
LEMMA RequestAlone ==
    ASSUME NEW w \in Web, Alone(w), Request(w)
    PROVE  Alone(w)'
  <1>1. w \in Tx /\ w # Engine /\ tx \in [Tx -> Transaction] /\ rows \in [Box -> Row]
    BY BoxTableAssumption DEF Alone, Tx, BoxInv, TypeOK
  <1>2. UNCHANGED <<rows, tracked>> /\ BoxInv'
    BY RequestKeeps DEF Request, Alone
  <1>3. ASSUME NEW op \in {"create", "patch", "delete", "stop"}, NEW pc \in {"stock", "box"}, NEW b, NEW want,
               Begin(w, op, pc, b, want),
               op = "patch" => want.path = rows[b].path,
               op = "delete" => pc = "box"
        PROVE  ViewOK(tx'[w], rows') /\ SweepOK(tx'[Engine])
    <2> DEFINE g == [NoTx EXCEPT !.op = op, !.pc = pc, !.box = b, !.want = want,
                                 !.view = rows, !.seen = tracked, !.open = held]
    <2>1. /\ g.op = op /\ g.pc = pc /\ g.box = b /\ g.view = rows /\ g.seen = tracked
          /\ g.want = want /\ g.writes = {} /\ g.stale = {}
      BY DEF NoTx
    <2>2. tx'[w] = g /\ tx'[Engine] = tx[Engine]
      BY <1>1, <1>3 DEF Begin, Tx
    <2> HIDE DEF g
    <2> QED
      BY <1>2, <1>3, <2>1, <2>2 DEF Alone, ViewOK
  <1>4. \A b \in Box, r \in PriceRange, s \in Size :
            [rows[b] EXCEPT !.range = r, !.size = s].path = rows[b].path
    BY <1>1 DEF Row
  <1>5. ViewOK(tx'[w], rows') /\ SweepOK(tx'[Engine])
    BY <1>3, <1>4 DEF Request, BeginCreate, BeginPatch, BeginDelete, BeginStop, WaitingIn
  <1> QED
    BY <1>2, <1>5 DEF Alone

\* A statement of a transaction, and what it leaves of the others.
LEMMA Proceeds ==
    ASSUME BoxInv, NEW t \in Tx, NEW pc, NEW f \in Transaction, Proceed(t, pc, f)
    PROVE  /\ tx'[t].op = f.op /\ tx'[t].pc = pc /\ tx'[t].box = f.box /\ tx'[t].want = f.want
           /\ tx'[t].view = f.view /\ tx'[t].seen = f.seen /\ tx'[t].writes = f.writes
           /\ tx'[t].stale = f.stale
           /\ \A u \in Tx \ {t} : tx'[u] = tx[u]
  BY DEF Proceed, BoxInv, TypeOK, Transaction

\* The request's own statements.
LEMMA WorkAlone ==
    ASSUME NEW w \in Web, Alone(w), Work(w)
    PROVE  Alone(w)'
  <1> DEFINE f == tx[w]
  <1>1. /\ w \in Tx /\ Engine \in Tx \ {w} /\ f \in Transaction /\ BoxInv
        /\ rows \in [Box -> Row] /\ UNCHANGED <<rows, tracked, held, sweepDue>>
    BY BoxTableAssumption DEF Alone, Tx, BoxInv, TypeOK, Work
  <1>2. BoxInv'
    BY <1>1, WorkKeeps
  <1>3. ViewOK(f, rows) /\ FrameOK(f, rows, tracked, held)
    BY <1>1 DEF Alone, BoxInv
  <1> SUFFICES ViewOK(tx'[w], rows) /\ tx'[Engine] = tx[Engine]
    BY <1>1, <1>2 DEF Alone
  <1>4. CASE Create(w)
    <2> DEFINE first == f.seen = "TRACKING"
               g == [f EXCEPT !.view[f.box] = f.want,
                              !.seen = IF first THEN "BOX_SET" ELSE @,
                              !.writes = {f.box} \cup (IF first THEN {Stock} ELSE {})]
    <2>1. /\ f.op = "create" /\ f.pc = "stock" /\ MayCreate(f) /\ Proceed(w, "commit", g)
          /\ Granted(w)
      BY <1>4 DEF Create
    <2>2. f.box \in Box /\ f.writes = {}
      BY <1>1, <1>3, <2>1, StockLocked DEF FrameOK, LocksOK
    <2>3. g \in Transaction
      BY <1>1, <2>2 DEF Transaction, Resource, TrackedStatus
    <2>4. /\ g.op = "create" /\ g.stale = f.stale /\ g.view[f.box] = f.want
          /\ \A b \in Box \ {f.box} : g.view[b] = f.view[b]
          /\ g.writes = {f.box} \cup (IF first THEN {Stock} ELSE {})
          /\ g.seen # "TRACKING"
      BY <1>1, <2>1, <2>2 DEF Transaction
    <2>5. g.view \in [Box -> Row] /\ f.view \in [Box -> Row]
      BY <1>1, <2>3 DEF Transaction
    <2> HIDE DEF g
    <2>6. Rules(g.view, g.seen)
      BY <1>3, <2>1, <2>2, <2>4, <2>5, CheckedRules DEF ViewOK, MayCreate
    <2>7. \A b \in Box : b \notin g.writes /\ rows[b].status = "WAITING" => g.view[b] = rows[b]
      BY <1>3, <2>1, <2>2, <2>4 DEF ViewOK
    <2> QED
      BY <1>1, <1>3, <2>1, <2>3, <2>4, <2>6, <2>7, Proceeds DEF ViewOK
  <1>5. CASE PatchStock(w)
    <2>1. f.op = "patch" /\ f.pc = "stock" /\ Proceed(w, "box", f)
      BY <1>5 DEF PatchStock
    <2> QED
      BY <1>1, <1>3, <2>1, Proceeds DEF ViewOK
  <1>6. CASE PatchBox(w)
    <2> DEFINE g == [f EXCEPT !.view[f.box] = f.want, !.writes = {f.box}]
    <2>1. f.op = "patch" /\ f.pc = "box" /\ MayModify(f) /\ Proceed(w, "commit", g) /\ Granted(w)
      BY <1>6 DEF PatchBox
    <2>2. f.box \in Box /\ f.writes = {} /\ f.view[f.box].status = "WAITING"
      BY <1>1, <2>1, BoxLocked
    <2>3. g \in Transaction
      BY <1>1, <2>2 DEF Transaction, Resource
    <2>4. /\ g.op = "patch" /\ g.stale = f.stale /\ g.view[f.box] = f.want
          /\ \A b \in Box \ {f.box} : g.view[b] = f.view[b]
          /\ g.writes = {f.box} /\ g.seen = f.seen
      BY <1>1, <2>1, <2>2 DEF Transaction
    <2>5. g.view \in [Box -> Row] /\ f.view \in [Box -> Row]
      BY <1>1, <2>3 DEF Transaction
    <2>6. /\ Rules(f.view, f.seen) /\ f.want.path = f.view[f.box].path
          /\ f.seen # "TRACKING"
      BY <1>3, <2>1, <2>2 DEF ViewOK, Rules, WaitingIn
    <2> HIDE DEF g
    <2>7. Rules(g.view, g.seen)
      <3>1. CASE f.want.range = f.view[f.box].range
        <4>1. \A b \in WaitingIn(g.view) :
                 /\ b \in WaitingIn(f.view) /\ g.view[b].path = f.view[b].path
                 /\ g.view[b].range = f.view[b].range
          BY <2>2, <2>4, <2>6, <3>1 DEF WaitingIn
        <4> QED
          BY <2>4, <2>6, <4>1 DEF Rules
      <3>2. CASE ~Sibling(f.view, f.box, f.want)
        BY <2>2, <2>4, <2>5, <2>6, <3>2, CheckedRules
      <3> QED
        BY <2>1, <3>1, <3>2 DEF MayModify
    <2>8. \A b \in Box : b \notin g.writes /\ rows[b].status = "WAITING" => g.view[b] = rows[b]
      BY <1>3, <2>1, <2>2, <2>4 DEF ViewOK
    <2> QED
      BY <1>1, <1>3, <2>1, <2>3, <2>4, <2>7, <2>8, Proceeds DEF ViewOK
  <1>7. CASE DeleteBox(w)
    <2> DEFINE g == [f EXCEPT !.view[f.box].status = "CANCELLED", !.writes = {f.box}]
    <2>1. /\ f.op = "delete" /\ f.pc = "box" /\ Granted(w)
          /\ \/ Proceed(w, "commit", g)
             \/ WaitingIn(f.view) = {f.box} /\ Proceed(w, "stock", g)
      BY <1>7 DEF DeleteBox
    <2>2. f.box \in Box /\ f.writes = {} /\ f.view[f.box].status = "WAITING"
      BY <1>1, <2>1, BoxLocked
    <2>3. g \in Transaction
      <3>1. [f.view[f.box] EXCEPT !.status = "CANCELLED"] \in Row
        BY <1>1, <2>2 DEF Transaction, Row, BoxStatus
      <3>2. [f.view EXCEPT ![f.box].status = "CANCELLED"] \in [Box -> Row]
        BY <1>1, <2>2, <3>1 DEF Transaction
      <3>3. f.box \in Resource
        BY <2>2 DEF Resource
      <3> QED
        BY <1>1, <3>2, <3>3 DEF Transaction
    <2>4. /\ g.op = "delete" /\ g.stale = f.stale /\ g.view[f.box].status = "CANCELLED"
          /\ \A b \in Box \ {f.box} : g.view[b] = f.view[b]
          /\ g.writes = {f.box} /\ g.seen = f.seen
      BY <1>1, <2>1, <2>2 DEF Transaction, Row
    <2> HIDE DEF g
    <2>5. Rules(g.view, g.seen)
      BY <1>3, <2>1, <2>4, FewerBoxesRules DEF ViewOK
    <2>6. \A b \in Box : b \notin g.writes /\ rows[b].status = "WAITING" => g.view[b] = rows[b]
      BY <1>3, <2>1, <2>2, <2>4 DEF ViewOK
    <2>7. WaitingIn(f.view) = {f.box} => WaitingIn(g.view) = {}
      BY <2>2, <2>4 DEF WaitingIn
    <2> QED
      BY <1>1, <1>3, <2>1, <2>3, <2>4, <2>5, <2>6, <2>7, Proceeds DEF ViewOK
  <1>8. CASE DeleteStock(w)
    <2> DEFINE g == [f EXCEPT !.seen = "TRACKING", !.writes = @ \cup {Stock}]
    <2>1. f.op = "delete" /\ f.pc = "stock" /\ Proceed(w, "commit", g)
      BY <1>8 DEF DeleteStock
    <2>2. g \in Transaction
      BY <1>1 DEF Transaction, Resource, TrackedStatus
    <2>3. /\ g.op = "delete" /\ g.stale = f.stale /\ g.view = f.view
          /\ g.writes = f.writes \cup {Stock} /\ g.seen = "TRACKING"
      BY <1>1, <2>1 DEF Transaction
    <2> HIDE DEF g
    <2>4. Rules(g.view, g.seen)
      BY <1>3, <2>1, <2>3 DEF ViewOK, Rules
    <2> QED
      BY <1>1, <1>3, <2>1, <2>2, <2>3, <2>4, Proceeds DEF ViewOK
  <1>9. CASE CloseStock(w)
    <2> DEFINE g == IF f.op = "stop" THEN [f EXCEPT !.seen = "EXITED", !.writes = {Stock}] ELSE f
    <2>1. f.op = "stop" /\ Proceed(w, "box", g)
      BY <1>3, <1>9 DEF CloseStock, ViewOK
    <2>2. g \in Transaction
      BY <1>1 DEF Transaction, Resource, TrackedStatus
    <2>3. /\ g.op = "stop" /\ g.stale = f.stale /\ g.view = f.view
          /\ g.writes = {Stock} /\ g.seen = "EXITED"
      BY <1>1, <2>1 DEF Transaction
    <2>4. \A b \in Box : b \notin f.writes
      BY <1>1, <1>3, <1>9, StockLocked DEF CloseStock
    <2> HIDE DEF g
    <2>5. Rules(g.view, g.seen)
      BY <1>3, <2>1, <2>3 DEF ViewOK, Rules
    <2> QED
      BY <1>1, <1>3, <2>1, <2>2, <2>3, <2>4, <2>5, Proceeds DEF ViewOK
  <1>10. CASE CloseBoxes(w)
    <2> DEFINE view == [b \in Box |-> IF b \in WaitingIn(f.view)
                                      THEN [f.view[b] EXCEPT !.status = "CANCELLED"]
                                      ELSE f.view[b]]
               g == [f EXCEPT !.view = view, !.writes = @ \cup WaitingIn(f.view)]
    <2>1. f.op = "stop" /\ Proceed(w, "commit", g)
      BY <1>3, <1>10 DEF CloseBoxes, ViewOK
    <2>2. \A b \in Box : /\ view[b] \in Row /\ view[b].status # "WAITING"
                         /\ b \notin WaitingIn(f.view) => view[b] = f.view[b]
      BY <1>1 DEF Transaction, Row, BoxStatus, WaitingIn
    <2>3. view \in [Box -> Row]
      BY <2>2
    <2> HIDE DEF view
    <2>4. g \in Transaction
      BY <1>1, <2>3 DEF Transaction, Resource, WaitingIn
    <2>5. /\ g.op = "stop" /\ g.stale = f.stale /\ g.view = view
          /\ g.writes = f.writes \cup WaitingIn(f.view) /\ g.seen = f.seen
      BY <1>1, <2>1 DEF Transaction
    <2> HIDE DEF g
    <2>6. Rules(g.view, g.seen)
      BY <2>2, <2>5 DEF Rules, WaitingIn
    <2>7. \A b \in Box : b \notin g.writes /\ rows[b].status = "WAITING" => g.view[b] = rows[b]
      BY <1>3, <2>1, <2>2, <2>5 DEF ViewOK
    <2> QED
      BY <1>1, <1>3, <2>1, <2>4, <2>5, <2>6, <2>7, Proceeds DEF ViewOK
  <1>11. CASE RollBack(w)
    BY <1>1, <1>11 DEF RollBack, ViewOK, NoTx, BoxInv, TypeOK
  <1> QED
    BY <1>4, <1>5, <1>6, <1>7, <1>8, <1>9, <1>10, <1>11 DEF Work, Fail, Deadlocked

\* The sweep's.
LEMMA SweepAlone ==
    ASSUME NEW w \in Web, Alone(w), Work(Engine) \/ BeginSweep
    PROVE  Alone(w)'
  <1> DEFINE f == tx[Engine]
  <1>1. /\ Engine \in Tx /\ w \in Tx \ {Engine} /\ f \in Transaction /\ BoxInv
        /\ UNCHANGED <<rows, tracked, held>>
    BY BoxTableAssumption DEF Alone, Tx, BoxInv, TypeOK, Work, BeginSweep
  <1>2. BoxInv'
    BY <1>1, WorkKeeps, SweepBegins
  <1>3. SweepOK(f)
    BY DEF Alone
  <1> SUFFICES SweepOK(tx'[Engine]) /\ tx'[w] = tx[w]
    BY <1>1, <1>2 DEF Alone
  <1>4. CASE BeginSweep
    <2> DEFINE g == [NoTx EXCEPT !.op = "sweep", !.pc = "stock", !.box = NoBox, !.want = Blank,
                                 !.view = rows, !.seen = tracked, !.open = held]
    <2>1. g.op = "sweep" /\ g.writes = {}
      BY DEF NoTx
    <2>2. tx'[Engine] = g /\ tx'[w] = tx[w]
      BY <1>1, <1>4 DEF BeginSweep, Begin, BoxInv, TypeOK
    <2> QED
      BY <2>1, <2>2 DEF SweepOK
  <1>5. CASE CloseStock(Engine)
    <2>1. Proceed(Engine, "box", f) /\ f.op = "sweep"
      BY <1>3, <1>5 DEF CloseStock, SweepOK
    <2> QED
      BY <1>1, <1>3, <2>1, Proceeds DEF SweepOK
  <1>6. CASE CloseBoxes(Engine)
    <2> DEFINE W == WaitingIn(f.view)
               view == [b \in Box |-> IF b \in W THEN [f.view[b] EXCEPT !.status = "CANCELLED"]
                                                ELSE f.view[b]]
               g == [f EXCEPT !.view = view, !.writes = @ \cup W]
    <2>1. f.op = "sweep" /\ f.pc = "box" /\ Proceed(Engine, "commit", g)
      BY <1>3, <1>6 DEF CloseBoxes, SweepOK
    <2>2. \A b \in Box : view[b] \in Row /\ (b \in W => view[b].status = "CANCELLED")
      BY <1>1 DEF Transaction, Row, BoxStatus
    <2>3. view \in [Box -> Row] /\ W \subseteq Box
      BY <2>2 DEF WaitingIn
    <2>4. \A r : r \notin f.writes
      BY <1>1, <2>1 DEF BoxInv, FrameOK, PlaceOK
    <2> HIDE DEF view, W
    <2>5. g \in Transaction
      BY <1>1, <2>3 DEF Transaction, Resource
    <2>6. g.op = "sweep" /\ g.view = view /\ g.writes = f.writes \cup W
      BY <1>1, <2>1 DEF Transaction
    <2> HIDE DEF g
    <2>7. tx'[Engine].op = "sweep" /\ tx'[Engine].view = view /\ tx'[Engine].writes = f.writes \cup W
          /\ tx'[w] = tx[w]
      BY <1>1, <2>1, <2>5, <2>6, Proceeds
    <2> QED
      BY <2>2, <2>3, <2>4, <2>7, BoxTableAssumption DEF SweepOK
  <1>7. CASE RollBack(Engine)
    <2>1. tx'[Engine] = NoTx /\ tx'[w] = tx[w]
      BY <1>1, <1>7 DEF RollBack, BoxInv, TypeOK
    <2> QED
      BY <2>1 DEF SweepOK, NoTx
  <1> QED
    BY <1>3, <1>4, <1>5, <1>6, <1>7 DEF Work, Fail, Deadlocked, Create, PatchStock, PatchBox,
       DeleteBox, DeleteStock, SweepOK

\* The commit of the request: the rows become what it has checked.
LEMMA CommitAlone ==
    ASSUME NEW w \in Web, Web = {w}, Alone(w), Commit(w)
    PROVE  Alone(w)'
  <1> DEFINE f == tx[w]
  <1>1. /\ w \in Tx /\ Engine \in Tx \ {w} /\ f \in Transaction /\ BoxInv
        /\ rows \in [Box -> Row] /\ f.pc = "commit"
    BY BoxTableAssumption DEF Alone, Tx, BoxInv, TypeOK, Commit
  <1>2. BoxInv'
    BY <1>1, CommitKeeps
  <1>3. ViewOK(f, rows) /\ SnapshotOK(f, rows, tracked) /\ f.op # "none"
    BY <1>1 DEF Alone, BoxInv, FrameOK, PlaceOK, NoTx
  <1>4. /\ \A b \in Box : rows'[b] = IF b \in f.writes THEN f.view[b] ELSE rows[b]
        /\ tracked' = IF Stock \in f.writes THEN f.seen ELSE tracked
        /\ tx'[w] = NoTx /\ tx'[Engine] = Updated(tx[Engine], f.writes)
    BY <1>1 DEF Commit
  <1>5. tracked' = f.seen
    BY <1>3, <1>4 DEF ViewOK, SnapshotOK
  <1>6. \A b \in Box : rows'[b].status = "WAITING" => rows'[b] = f.view[b]
    BY <1>3, <1>4 DEF ViewOK
  <1>7. Rules(rows', tracked')
    <2> DEFINE S == rows'
    <2>1. \A b \in Box : S[b].status = "WAITING" => S[b] = f.view[b]
      BY <1>6
    <2>2. Rules(f.view, f.seen)
      BY <1>3 DEF ViewOK
    <2> HIDE DEF S
    <2>3. Rules(S, f.seen)
      BY <2>1, <2>2, FewerBoxesRules
    <2> QED
      BY <1>5, <2>3 DEF S
  <1>8. ViewOK(NoTx, rows')
    BY DEF ViewOK, NoTx
  <1>9. SweepOK(tx'[Engine])
    <2>1. SweepOK(tx[Engine]) /\ tx[Engine] \in Transaction
      BY <1>1 DEF Alone, BoxInv, TypeOK
    <2> QED
      BY <1>4, <2>1 DEF SweepOK, Updated, Transaction
  <1> QED
    BY <1>2, <1>4, <1>7, <1>8, <1>9 DEF Alone

\* Everyone else's updates: boxes are closed, and the request learns it.
LEMMA ClosingAlone ==
    ASSUME NEW w \in Web, Alone(w), BoxInv', NEW R, Stock \notin R,
           tracked' = tracked, tx'[w] = Updated(tx[w], R), SweepOK(tx'[Engine]),
           \A b \in Box : rows'[b].status = "WAITING" => rows'[b] = rows[b]
    PROVE  Alone(w)'
  <1> DEFINE S == rows'
             g == Updated(tx[w], R)
  <1>1. tx[w] \in Transaction /\ ViewOK(tx[w], rows) /\ Rules(rows, tracked)
    BY DEF Alone, BoxInv, TypeOK, Tx
  <1>2. \A b \in Box : S[b].status = "WAITING" => S[b] = rows[b]
    OBVIOUS
  <1>3. /\ g.op = tx[w].op /\ g.pc = tx[w].pc /\ g.box = tx[w].box /\ g.want = tx[w].want
        /\ g.view = tx[w].view /\ g.seen = tx[w].seen /\ g.writes = tx[w].writes
        /\ g.op # "none" => g.stale = tx[w].stale \cup R
    BY <1>1 DEF Updated, Transaction
  <1> HIDE DEF S, g
  <1>4. Rules(S, tracked)
    BY <1>1, <1>2, FewerBoxesRules
  <1>5. ViewOK(g, S)
    BY <1>1, <1>2, <1>3 DEF ViewOK
  <1> QED
    BY <1>4, <1>5 DEF Alone, S, g

\* The sweep commits.
LEMMA SweepCommitAlone ==
    ASSUME NEW w \in Web, Alone(w), Commit(Engine)
    PROVE  Alone(w)'
  <1> DEFINE f == tx[Engine]
  <1>1. /\ Engine \in Tx /\ w \in Tx \ {Engine} /\ BoxInv /\ SweepOK(f)
        /\ rows \in [Box -> Row]
    BY BoxTableAssumption DEF Alone, Tx, BoxInv, TypeOK
  <1>2. BoxInv'
    BY <1>1, CommitKeeps
  <1>3. /\ \A b \in Box : rows'[b] = IF b \in f.writes THEN f.view[b] ELSE rows[b]
        /\ tracked' = tracked /\ Stock \notin f.writes
        /\ tx'[Engine] = NoTx /\ tx'[w] = Updated(tx[w], f.writes)
    BY <1>1 DEF Commit, SweepOK
  <1>4. \A b \in Box : rows'[b].status = "WAITING" => rows'[b] = rows[b]
    BY <1>1, <1>3 DEF SweepOK
  <1>5. SweepOK(NoTx)
    BY DEF SweepOK, NoTx
  <1> QED
    BY <1>2, <1>3, <1>4, <1>5, ClosingAlone

\* The engine marks a box beside the one request.
LEMMA MarkAlone ==
    ASSUME NEW w \in Web, Alone(w), BoxInv', NEW b \in Box, NEW s \in BoxStatus, s # "WAITING",
           Mark(b, s)
    PROVE  Alone(w)'
  <1>1. /\ w \in Tx /\ Engine \in Tx /\ rows \in [Box -> Row] /\ tx[Engine] \in Transaction
        /\ SweepOK(tx[Engine])
    BY DEF Alone, Tx, BoxInv, TypeOK
  <1>2. \A c \in Box : rows'[c].status = "WAITING" => rows'[c] = rows[c]
    BY <1>1 DEF Mark, Row
  <1>3. /\ tracked' = tracked /\ Stock \notin {b} /\ tx'[w] = Updated(tx[w], {b})
        /\ tx'[Engine] = Updated(tx[Engine], {b})
    BY <1>1, BoxTableAssumption DEF Mark
  <1>4. SweepOK(tx'[Engine])
    BY <1>1, <1>3 DEF SweepOK, Updated, Transaction
  <1> QED
    BY <1>2, <1>3, <1>4, ClosingAlone

\* Every step keeps what holds beside one request.
LEMMA NextAlone ==
    ASSUME NEW w, Web = {w}, Alone(w), [Next]_vars
    PROVE  Alone(w)'
  <1>1. w \in Web /\ Tx = {w, Engine}
    BY DEF Tx
  <1>2. BoxInv'
    BY NextKeeps, StutterKeeps DEF Alone
  <1>3. CASE UNCHANGED vars
    BY <1>2, <1>3 DEF Alone, vars
  <1>4. CASE \E t \in Web : Request(t)
    BY <1>1, <1>4, RequestAlone
  <1>5. CASE \E t \in Tx : Work(t) \/ Commit(t)
    BY <1>1, <1>5, WorkAlone, SweepAlone, CommitAlone, SweepCommitAlone
  <1>6. CASE BeginSweep
    BY <1>1, <1>6, SweepAlone
  <1>7. CASE \E b \in Box : FullExit(b)
    BY <1>2, <1>7 DEF Alone, FullExit
  <1>8. CASE \E b \in Box : MarkTriggered(b) \/ MarkInvalidated(b)
    BY <1>1, <1>2, <1>8, MarkAlone DEF MarkTriggered, MarkInvalidated, BoxStatus
  <1> QED
    BY <1>3, <1>4, <1>5, <1>6, <1>7, <1>8 DEF Next

\* The invariant beside one request.
LEMMA AloneHolds ==
    ASSUME NEW w, Web = {w}
    PROVE  Spec => []Alone(w)
  <1>1. Init => Alone(w)
    BY InitAlone
  <1>2. Alone(w) /\ [Next]_vars => Alone(w)'
    BY NextAlone
  <1> QED
    BY <1>1, <1>2, PTL DEF Spec

(* Two waiting boxes of a path never overlap, as long as the Web serves one *)
(* request at a time, whatever the engine writes in the meantime.           *)
THEOREM OneRequestNoOverlap ==
    ASSUME NEW w, Web = {w}
    PROVE  Spec => []NoOverlap
  <1>1. Alone(w) => NoOverlap
    BY DEF Alone, Rules, NoOverlap
  <1> QED
    BY <1>1, AloneHolds, PTL

(* A stock shown as TRACKING has no waiting box, under the same condition.  *)
THEOREM OneRequestTracking ==
    ASSUME NEW w, Web = {w}
    PROVE  Spec => []TrackingHasNoBox
  <1>1. Alone(w) => TrackingHasNoBox
    BY DEF Alone, Rules, TrackingHasNoBox
  <1> QED
    BY <1>1, AloneHolds, PTL

-----------------------------------------------------------------------------
(* The cap.  Boxes that wait or whose position is open weigh their size.    *)

Sizes(R) == [b \in Box |-> R[b].size]

Weighing(R, H) == {b \in Box : R[b].status = "WAITING" \/ b \in H}

\* The usage is the sum of the sizes of the boxes that weigh.
LEMMA UsageIs ==
    ASSUME NEW R \in [Box -> Row], NEW H \in SUBSET Box
    PROVE  /\ Usage(R, H) = SumFunctionOnSet(Sizes(R), Weighing(R, H))
           /\ Usage(R, H) \in Nat
           /\ IsFiniteSet(Weighing(R, H)) /\ Weighing(R, H) \subseteq Box
           /\ \A b \in Box : Sizes(R)[b] \in Nat /\ Sizes(R)[b] = R[b].size
  <1>1. WaitingIn(R) \cup H = Weighing(R, H)
    BY DEF WaitingIn, Weighing
  <1>2. Usage(R, H) = SumFunctionOnSet(Sizes(R), Weighing(R, H))
    BY <1>1, Zenon DEF Usage, Sizes
  <1>3. Weighing(R, H) \subseteq Box /\ IsFiniteSet(Weighing(R, H))
    BY BoxTableAssumption, FS_Subset DEF Weighing
  <1>4. \A b \in Box : Sizes(R)[b] \in Nat /\ Sizes(R)[b] = R[b].size
    BY BoxTableAssumption DEF Sizes, Row
  <1>5. SumFunctionOnSet(Sizes(R), Weighing(R, H)) \in Nat
    BY <1>3, <1>4, SumNat
  <1> QED
    BY <1>2, <1>3, <1>4, <1>5

\* Fewer boxes of the same size weigh less.
LEMMA FewerWeighLess ==
    ASSUME NEW R \in [Box -> Row], NEW H \in SUBSET Box, NEW S \in [Box -> Row], NEW G \in SUBSET Box,
           \A b \in Box : S[b].status = "WAITING" \/ b \in G
                          => (R[b].status = "WAITING" \/ b \in H) /\ S[b].size = R[b].size
    PROVE  Usage(S, G) <= Usage(R, H)
  <1>1. Weighing(S, G) \in SUBSET Weighing(R, H)
    BY DEF Weighing
  <1>2. \A b \in Weighing(S, G) : Sizes(S)[b] = Sizes(R)[b]
    BY DEF Weighing, Sizes
  <1>3. SumFunctionOnSet(Sizes(S), Weighing(S, G)) = SumFunctionOnSet(Sizes(R), Weighing(S, G))
    BY <1>2, UsageIs, SumSame
  <1>4. SumFunctionOnSet(Sizes(R), Weighing(S, G)) <= SumFunctionOnSet(Sizes(R), Weighing(R, H))
    BY <1>1, UsageIs, SumSubset
  <1> QED
    BY <1>3, <1>4, UsageIs

\* A new box adds its size at most.
LEMMA NewBoxWeighs ==
    ASSUME NEW R \in [Box -> Row], NEW S \in [Box -> Row], NEW H \in SUBSET Box, NEW b \in Box,
           \A c \in Box \ {b} : S[c] = R[c]
    PROVE  Usage(S, H) <= Usage(R, H) + S[b].size
  <1> DEFINE W == Weighing(S, H) \ {b}
  <1>1. W \in SUBSET Weighing(R, H) /\ IsFiniteSet(W) /\ b \notin W /\ W \subseteq Box
    BY BoxTableAssumption, FS_Subset DEF Weighing
  <1>2. \A c \in W : Sizes(S)[c] = Sizes(R)[c] /\ Sizes(S)[c] \in Nat
    BY UsageIs DEF Weighing, Sizes
  <1> HIDE DEF W
  <1>3. SumFunctionOnSet(Sizes(S), W) = SumFunctionOnSet(Sizes(R), W)
    BY <1>1, <1>2, SumSame
  <1>4. SumFunctionOnSet(Sizes(R), W) <= SumFunctionOnSet(Sizes(R), Weighing(R, H))
    BY <1>1, UsageIs, SumSubset
  <1>5. SumFunctionOnSet(Sizes(S), W) \in Nat
    BY <1>1, <1>2, SumNat
  <1>6. SumFunctionOnSet(Sizes(S), W \cup {b}) = S[b].size + SumFunctionOnSet(Sizes(S), W)
    <2>1. Sizes(S)[b] = S[b].size /\ Sizes(S)[b] \in Nat
      BY UsageIs
    <2>2. \A c \in W : Sizes(S)[c] \in Nat
      BY <1>2
    <2>3. SumFunctionOnSet(Sizes(S), W \cup {b}) = Sizes(S)[b] + SumFunctionOnSet(Sizes(S), W)
      BY <1>1, <2>1, <2>2, SumAdd
    <2> QED
      BY <2>1, <2>3
  <1>7. /\ S[b].size \in Nat /\ Usage(R, H) \in Nat
        /\ Usage(R, H) = SumFunctionOnSet(Sizes(R), Weighing(R, H))
        /\ Usage(S, H) = SumFunctionOnSet(Sizes(S), Weighing(S, H))
    BY UsageIs
  <1>8. CASE b \in Weighing(S, H)
    <2>1. Weighing(S, H) = W \cup {b}
      BY <1>8 DEF W
    <2> QED
      BY <1>3, <1>4, <1>5, <1>6, <1>7, <2>1
  <1>9. CASE b \notin Weighing(S, H)
    <2>1. Weighing(S, H) = W
      BY <1>9 DEF W
    <2> QED
      BY <1>3, <1>4, <1>5, <1>7, <2>1
  <1> QED
    BY <1>8, <1>9

\* A waiting box that changes its size changes the sum by as much.
LEMMA PatchedBoxWeighs ==
    ASSUME NEW R \in [Box -> Row], NEW S \in [Box -> Row], NEW H \in SUBSET Box, NEW b \in Box,
           R[b].status = "WAITING", \A c \in Box \ {b} : S[c] = R[c]
    PROVE  Usage(S, H) + R[b].size <= Usage(R, H) + S[b].size
  <1> DEFINE W == Weighing(R, H)
  <1>1. b \in W /\ Weighing(S, H) \in SUBSET W
    BY DEF Weighing
  <1>2. /\ IsFiniteSet(W)
        /\ \A c \in W : Sizes(R)[c] \in Nat /\ Sizes(S)[c] \in Nat
        /\ \A c \in W \ {b} : Sizes(R)[c] = Sizes(S)[c]
    BY UsageIs DEF Weighing, Sizes
  <1> HIDE DEF W
  <1>3. /\ SumFunctionOnSet(Sizes(S), W) + Sizes(R)[b] = SumFunctionOnSet(Sizes(R), W) + Sizes(S)[b]
        /\ SumFunctionOnSet(Sizes(R), W) \in Nat /\ SumFunctionOnSet(Sizes(S), W) \in Nat
    BY <1>1, <1>2, SumChange
  <1>4. SumFunctionOnSet(Sizes(S), Weighing(S, H)) <= SumFunctionOnSet(Sizes(S), W)
    BY <1>1, <1>2, SumSubset
  <1>5. /\ Usage(S, H) = SumFunctionOnSet(Sizes(S), Weighing(S, H)) /\ Usage(S, H) \in Nat
        /\ Usage(R, H) = SumFunctionOnSet(Sizes(R), W) /\ Usage(R, H) \in Nat
        /\ Sizes(R)[b] = R[b].size /\ Sizes(S)[b] = S[b].size
        /\ Sizes(R)[b] \in Nat /\ Sizes(S)[b] \in Nat
    BY UsageIs DEF W
  <1> QED
    BY <1>3, <1>4, <1>5

-----------------------------------------------------------------------------
(* The box of an open position has triggered.                               *)

HeldTriggered == \A b \in held : rows[b].status = "TRIGGERED"

\* What a transaction writes is no such box.
LEMMA WritesNoHeld ==
    ASSUME BoxInv, HeldTriggered, NEW t \in Tx
    PROVE  \A b \in held : b \notin tx[t].writes
  <1>1. FrameOK(tx[t], rows, tracked, held) /\ held \subseteq Box
    BY DEF BoxInv, TypeOK
  <1>2. \A b \in Box : b \in tx[t].writes => rows[b].status \in {"WAITING", "none"}
    BY <1>1 DEF FrameOK, LocksOK
  <1> QED
    BY <1>1, <1>2 DEF HeldTriggered

\* The box of an open position is triggered, and stays so.
LEMMA HeldKeeps ==
    ASSUME BoxInv, HeldTriggered, [Next]_vars
    PROVE  HeldTriggered'
  <1>0. rows \in [Box -> Row] /\ held \subseteq Box
    BY DEF BoxInv, TypeOK
  <1>1. CASE \E t \in Tx : Commit(t)
    BY <1>0, <1>1, WritesNoHeld DEF Commit, HeldTriggered
  <1>2. CASE \E b \in Box : MarkTriggered(b)
    <2>1. PICK b \in Box : MarkTriggered(b)
      BY <1>2
    <2>2. \A c \in Box : rows'[c] = IF c = b THEN [rows[b] EXCEPT !.status = "TRIGGERED"] ELSE rows[c]
      BY <1>0, <2>1 DEF MarkTriggered, Mark
    <2>3. held' = held \cup {b}
      BY <2>1 DEF MarkTriggered
    <2>4. [rows[b] EXCEPT !.status = "TRIGGERED"].status = "TRIGGERED"
      BY <1>0 DEF Row
    <2> QED
      BY <1>0, <2>1, <2>2, <2>3, <2>4 DEF HeldTriggered
  <1>3. CASE \E b \in Box : MarkInvalidated(b)
    <2>1. PICK b \in Box : MarkInvalidated(b)
      BY <1>3
    <2>2. rows[b].status = "WAITING" /\ held' = held
      BY <2>1 DEF MarkInvalidated, Mark
    <2>3. \A c \in Box \ {b} : rows'[c] = rows[c]
      BY <1>0, <2>1 DEF MarkInvalidated, Mark
    <2> QED
      BY <1>0, <2>2, <2>3 DEF HeldTriggered
  <1>4. CASE \E b \in Box : FullExit(b)
    BY <1>4 DEF FullExit, HeldTriggered
  <1>5. CASE (\E t \in Web : Request(t)) \/ (\E t \in Tx : Work(t)) \/ BeginSweep \/ UNCHANGED vars
    BY <1>5 DEF Request, Work, BeginSweep, vars, HeldTriggered
  <1> QED
    BY <1>1, <1>2, <1>3, <1>4, <1>5 DEF Next

\* What the request's snapshot says of the boxes that weigh now: it knows them
\* all, in their size, but for those it writes; and it fits the cap, also with
\* what the request has written, and after a patch that is still to be written.
CapOK(f, R, H) ==
    f.op # "none" =>
        /\ Usage(f.view, f.open) <= Cap
        /\ \A b \in Box : b \notin f.writes /\ (R[b].status = "WAITING" \/ b \in H)
              => (f.view[b].status = "WAITING" \/ b \in f.open) /\ f.view[b].size = R[b].size
        /\ f.op = "patch" /\ f.pc = "box" => FitsCap(f)

CapInv(w) ==
    /\ HeldTriggered
    /\ Usage(rows, held) <= Cap
    /\ CapOK(tx[w], rows, held)

\* The parts of the invariant that weighing reads.
LEMMA CapTypes ==
    ASSUME BoxInv, NEW t \in Tx
    PROVE  /\ rows \in [Box -> Row] /\ held \in SUBSET Box /\ tx[t] \in Transaction
           /\ tx[t].view \in [Box -> Row] /\ tx[t].open \in SUBSET Box /\ tx \in [Tx -> Transaction]
           /\ tx[t].want \in Row
  BY DEF BoxInv, TypeOK, Transaction

\* Nothing weighs at the start.
LEMMA InitCap ==
    ASSUME NEW w, Web = {w}, Init
    PROVE  CapInv(w)
  <1>1. tx[w] = NoTx /\ NoTx.op = "none" /\ held = {} /\ rows = [b \in Box |-> Blank]
    BY DEF Init, Tx, NoTx
  <1>2. rows \in [Box -> Row] /\ held \in SUBSET Box
    BY <1>1, BlankTypes
  <1>3. Weighing(rows, held) = {}
    BY <1>1 DEF Weighing, Blank
  <1>4. Usage(rows, held) = 0
    BY <1>2, <1>3, UsageIs, SumEmpty
  <1> QED
    BY <1>1, <1>4, BoxTableAssumption DEF CapInv, CapOK, HeldTriggered

\* A snapshot has just been taken.
LEMMA RequestCap ==
    ASSUME NEW w \in Web, BoxInv, CapInv(w), Request(w)
    PROVE  CapOK(tx'[w], rows', held') /\ Usage(rows', held') <= Cap
  <1>1. w \in Tx /\ UNCHANGED <<rows, held>>
    BY DEF Tx, Request
  <1>2. ASSUME NEW op \in {"create", "patch", "delete", "stop"}, NEW pc \in {"stock", "box"}, NEW b, NEW want,
               Begin(w, op, pc, b, want), op = "patch" => pc = "stock"
        PROVE  CapOK(tx'[w], rows', held')
    <2> DEFINE g == [NoTx EXCEPT !.op = op, !.pc = pc, !.box = b, !.want = want,
                                 !.view = rows, !.seen = tracked, !.open = held]
    <2>1. g.op = op /\ g.pc = pc /\ g.view = rows /\ g.open = held /\ g.writes = {}
      BY DEF NoTx
    <2>2. tx'[w] = g
      BY <1>1, <1>2, CapTypes DEF Begin
    <2> HIDE DEF g
    <2>3. Usage(g.view, g.open) <= Cap
      BY <2>1 DEF CapInv
    <2> QED
      BY <1>1, <1>2, <2>1, <2>2, <2>3 DEF CapOK
  <1>3. CapOK(tx'[w], rows', held')
    BY <1>2 DEF Request, BeginCreate, BeginPatch, BeginDelete, BeginStop
  <1>4. Usage(rows', held') <= Cap
    BY <1>1 DEF CapInv
  <1> QED
    BY <1>3, <1>4

\* A statement that makes the request's view no heavier.
LEMMA LighterView ==
    ASSUME NEW w \in Web, BoxInv, CapInv(w), tx[w].op # "none",
           NEW g \in Transaction, NEW pc, Proceed(w, pc, g),
           g.open = tx[w].open, g.op = tx[w].op, Usage(g.view, g.open) <= Cap,
           \A b \in Box : b \notin g.writes => b \notin tx[w].writes /\ g.view[b] = tx[w].view[b],
           g.op = "patch" => pc # "box"
    PROVE  CapOK(tx'[w], rows, held)
  <1> DEFINE f == tx[w]
  <1>1. /\ tx'[w].op = f.op /\ tx'[w].pc = pc /\ tx'[w].view = g.view /\ tx'[w].open = f.open
        /\ tx'[w].writes = g.writes
    BY CapTypes DEF Proceed, Tx, Transaction
  <1>2. CapOK(f, rows, held)
    BY DEF CapInv
  <1>3. Usage(tx'[w].view, tx'[w].open) <= Cap
    BY <1>1
  <1>4. \A b \in Box : b \notin g.writes => b \notin f.writes /\ g.view[b] = f.view[b]
    OBVIOUS
  <1> HIDE DEF f
  <1> QED
    BY <1>1, <1>2, <1>3, <1>4 DEF CapOK, f

\* A step of the one request keeps its snapshot within the cap.
LEMMA WorkCap ==
    ASSUME NEW w \in Web, Alone(w), CapInv(w), Work(w)
    PROVE  CapOK(tx'[w], rows', held') /\ Usage(rows', held') <= Cap
  <1> DEFINE f == tx[w]
  <1>0. w \in Tx /\ BoxInv /\ UNCHANGED <<rows, held>>
    BY DEF Alone, Tx, Work
  <1>1. /\ f \in Transaction /\ f.view \in [Box -> Row] /\ f.open \in SUBSET Box /\ f.want \in Row
    BY <1>0, CapTypes
  <1>2. Usage(rows', held') <= Cap
    BY <1>0 DEF CapInv
  <1>3. FrameOK(f, rows, tracked, held) /\ CapOK(f, rows, held) /\ ViewOK(f, rows)
    BY <1>0 DEF BoxInv, CapInv, Alone
  <1> SUFFICES CapOK(tx'[w], rows, held)
    BY <1>0, <1>2
  <1>4. CASE Create(w)
    <2> DEFINE first == f.seen = "TRACKING"
               g == [f EXCEPT !.view[f.box] = f.want,
                              !.seen = IF first THEN "BOX_SET" ELSE @,
                              !.writes = {f.box} \cup (IF first THEN {Stock} ELSE {})]
    <2>1. /\ f.op = "create" /\ f.pc = "stock" /\ MayCreate(f) /\ Proceed(w, "commit", g)
          /\ Granted(w)
      BY <1>4 DEF Create
    <2>2. f.box \in Box /\ f.writes = {}
      BY <1>0, <1>3, <2>1, StockLocked DEF FrameOK, LocksOK
    <2>3. g \in Transaction
      BY <1>1, <2>2 DEF Transaction, Resource, TrackedStatus
    <2>4. /\ g.op = "create" /\ g.view[f.box] = f.want /\ g.open = f.open
          /\ \A b \in Box \ {f.box} : g.view[b] = f.view[b]
          /\ f.box \in g.writes
      BY <1>1, <2>1, <2>2 DEF Transaction
    <2>5. g.view \in [Box -> Row]
      BY <2>3 DEF Transaction
    <2> HIDE DEF g
    <2>6. Usage(g.view, f.open) <= Usage(f.view, f.open) + f.want.size
      BY <1>1, <2>2, <2>4, <2>5, NewBoxWeighs
    <2>7. Usage(f.view, f.open) + f.want.size <= Cap
      BY <2>1 DEF MayCreate
    <2>8. Usage(g.view, f.open) \in Nat /\ Usage(f.view, f.open) \in Nat /\ f.want.size \in Nat /\ Cap \in Nat
      BY <1>1, <2>5, UsageIs, BoxTableAssumption DEF Row
    <2>9. Usage(g.view, g.open) <= Cap
      BY <2>4, <2>6, <2>7, <2>8
    <2> QED
      BY <1>0, <2>1, <2>2, <2>3, <2>4, <2>9, LighterView
  <1>5. CASE PatchStock(w)
    <2>1. f.op = "patch" /\ f.pc = "stock" /\ FitsCap(f) /\ Proceed(w, "box", f)
      BY <1>5 DEF PatchStock
    <2>2. /\ tx'[w].op = f.op /\ tx'[w].view = f.view /\ tx'[w].open = f.open
          /\ tx'[w].writes = f.writes /\ tx'[w].want = f.want /\ tx'[w].box = f.box
      BY <1>0, <1>1, <2>1, CapTypes DEF Proceed, Transaction
    <2>3. FitsCap(tx'[w])
      BY <2>1, <2>2 DEF FitsCap
    <2> QED
      BY <1>3, <2>1, <2>2, <2>3 DEF CapOK
  <1>6. CASE PatchBox(w)
    <2> DEFINE g == [f EXCEPT !.view[f.box] = f.want, !.writes = {f.box}]
    <2>1. f.op = "patch" /\ f.pc = "box" /\ Proceed(w, "commit", g) /\ Granted(w)
      BY <1>6 DEF PatchBox
    <2>2. f.box \in Box /\ f.writes = {} /\ f.view[f.box].status = "WAITING"
      BY <1>0, <2>1, BoxLocked
    <2>3. g \in Transaction
      BY <1>1, <2>2 DEF Transaction, Resource
    <2>4. /\ g.op = "patch" /\ g.view[f.box] = f.want /\ g.open = f.open
          /\ \A b \in Box \ {f.box} : g.view[b] = f.view[b]
          /\ g.writes = {f.box}
      BY <1>1, <2>1, <2>2 DEF Transaction
    <2>5. g.view \in [Box -> Row]
      BY <2>3 DEF Transaction
    <2> HIDE DEF g
    <2>6. Usage(g.view, f.open) + f.view[f.box].size <= Usage(f.view, f.open) + f.want.size
      <3>1. g.view[f.box].size = f.want.size
        BY <2>4
      <3> QED
        BY <1>1, <2>2, <2>4, <2>5, <3>1, PatchedBoxWeighs
    <2>7. Usage(f.view, f.open) + f.want.size <= Cap + f.view[f.box].size
      BY <1>3, <2>1 DEF CapOK, FitsCap
    <2>8. /\ Usage(g.view, f.open) \in Nat /\ Usage(f.view, f.open) \in Nat /\ f.want.size \in Nat
          /\ f.view[f.box].size \in Nat /\ Cap \in Nat
      BY <1>1, <2>2, <2>5, UsageIs, BoxTableAssumption DEF Row
    <2>9. Usage(g.view, g.open) <= Cap
      BY <2>4, <2>6, <2>7, <2>8
    <2> QED
      BY <1>0, <2>1, <2>2, <2>3, <2>4, <2>9, LighterView
  <1>7. CASE DeleteBox(w)
    <2> DEFINE g == [f EXCEPT !.view[f.box].status = "CANCELLED", !.writes = {f.box}]
    <2>1. /\ f.op = "delete" /\ f.pc = "box" /\ Granted(w)
          /\ \/ Proceed(w, "commit", g)
             \/ Proceed(w, "stock", g)
      BY <1>7 DEF DeleteBox
    <2>2. f.box \in Box /\ f.writes = {} /\ f.view[f.box].status = "WAITING"
      BY <1>0, <2>1, BoxLocked
    <2>3. g \in Transaction
      <3>1. [f.view[f.box] EXCEPT !.status = "CANCELLED"] \in Row
        BY <1>1, <2>2 DEF Transaction, Row, BoxStatus
      <3>2. [f.view EXCEPT ![f.box].status = "CANCELLED"] \in [Box -> Row]
        BY <1>1, <2>2, <3>1 DEF Transaction
      <3>3. f.box \in Resource
        BY <2>2 DEF Resource
      <3> QED
        BY <1>1, <3>2, <3>3 DEF Transaction
    <2>4. /\ g.op = "delete" /\ g.view[f.box].size = f.view[f.box].size /\ g.open = f.open
          /\ \A b \in Box \ {f.box} : g.view[b] = f.view[b]
          /\ g.writes = {f.box}
      BY <1>1, <2>1, <2>2 DEF Transaction, Row
    <2>5. g.view \in [Box -> Row]
      BY <2>3 DEF Transaction
    <2> HIDE DEF g
    <2>6. Usage(g.view, f.open) <= Usage(f.view, f.open)
      <3>1. \A b \in Box : g.view[b].status = "WAITING" \/ b \in f.open
                => (f.view[b].status = "WAITING" \/ b \in f.open) /\ g.view[b].size = f.view[b].size
        BY <2>2, <2>4
      <3> QED
        BY <1>1, <2>5, <3>1, FewerWeighLess
    <2>7. Usage(g.view, g.open) <= Cap
      <3>1. Usage(g.view, f.open) \in Nat /\ Usage(f.view, f.open) \in Nat /\ Cap \in Nat
        BY <1>1, <2>5, UsageIs, BoxTableAssumption
      <3>2. Usage(f.view, f.open) <= Cap
        BY <1>3, <2>1 DEF CapOK
      <3> QED
        BY <2>4, <2>6, <3>1, <3>2
    <2> QED
      BY <1>0, <2>1, <2>2, <2>3, <2>4, <2>7, LighterView
  <1>8. CASE DeleteStock(w)
    <2> DEFINE g == [f EXCEPT !.seen = "TRACKING", !.writes = @ \cup {Stock}]
    <2>1. f.op = "delete" /\ f.pc = "stock" /\ Proceed(w, "commit", g)
      BY <1>8 DEF DeleteStock
    <2>2. g \in Transaction
      BY <1>1 DEF Transaction, Resource, TrackedStatus
    <2>3. /\ g.op = "delete" /\ g.view = f.view /\ g.open = f.open
          /\ g.writes = f.writes \cup {Stock}
      BY <1>1, <2>1 DEF Transaction
    <2> HIDE DEF g
    <2>4. Usage(g.view, g.open) <= Cap
      BY <1>3, <2>1, <2>3 DEF CapOK
    <2> QED
      BY <1>0, <2>1, <2>2, <2>3, <2>4, LighterView
  <1>9. CASE CloseStock(w)
    <2> DEFINE g == IF f.op = "stop" THEN [f EXCEPT !.seen = "EXITED", !.writes = {Stock}] ELSE f
    <2>1. f.op = "stop" /\ f.pc = "stock" /\ Proceed(w, "box", g) /\ Granted(w)
      BY <1>3, <1>9 DEF CloseStock, ViewOK
    <2>2. g \in Transaction
      BY <1>1 DEF Transaction, Resource, TrackedStatus
    <2>3. /\ g.op = "stop" /\ g.view = f.view /\ g.open = f.open /\ g.writes = {Stock}
      BY <1>1, <2>1 DEF Transaction
    <2>4. f.writes = {}
      BY <1>0, <2>1, StockLocked
    <2> HIDE DEF g
    <2>5. Usage(g.view, g.open) <= Cap
      BY <1>3, <2>1, <2>3 DEF CapOK
    <2> QED
      BY <1>0, <2>1, <2>2, <2>3, <2>4, <2>5, LighterView
  <1>10. CASE CloseBoxes(w)
    <2> DEFINE view == [b \in Box |-> IF b \in WaitingIn(f.view)
                                      THEN [f.view[b] EXCEPT !.status = "CANCELLED"]
                                      ELSE f.view[b]]
               g == [f EXCEPT !.view = view, !.writes = @ \cup WaitingIn(f.view)]
    <2>1. f.op = "stop" /\ Proceed(w, "commit", g)
      BY <1>3, <1>10 DEF CloseBoxes, ViewOK
    <2>2. \A b \in Box : /\ view[b] \in Row /\ view[b].status # "WAITING"
                         /\ view[b].size = f.view[b].size
                         /\ b \notin WaitingIn(f.view) => view[b] = f.view[b]
      BY <1>1 DEF Transaction, Row, BoxStatus, WaitingIn
    <2>3. view \in [Box -> Row]
      BY <2>2
    <2> HIDE DEF view
    <2>4. g \in Transaction
      BY <1>1, <2>3 DEF Transaction, Resource, WaitingIn
    <2>5. /\ g.op = "stop" /\ g.view = view /\ g.open = f.open
          /\ g.writes = f.writes \cup WaitingIn(f.view)
      BY <1>1, <2>1 DEF Transaction
    <2> HIDE DEF g
    <2>6. Usage(g.view, f.open) <= Usage(f.view, f.open)
      BY <1>1, <2>2, <2>3, <2>5, FewerWeighLess
    <2>7. Usage(g.view, g.open) <= Cap
      <3>1. Usage(g.view, f.open) \in Nat /\ Usage(f.view, f.open) \in Nat /\ Cap \in Nat
        BY <1>1, <2>3, <2>5, UsageIs, BoxTableAssumption
      <3>2. Usage(f.view, f.open) <= Cap
        BY <1>3, <2>1 DEF CapOK
      <3> QED
        BY <2>5, <2>6, <3>1, <3>2
    <2>8. \A b \in Box : b \notin g.writes => b \notin f.writes /\ g.view[b] = f.view[b]
      BY <2>2, <2>5
    <2> QED
      BY <1>0, <2>1, <2>4, <2>5, <2>7, <2>8, LighterView
  <1>11. CASE RollBack(w)
    <2>1. tx'[w] = NoTx
      BY <1>0, <1>11, CapTypes DEF RollBack
    <2> QED
      BY <2>1 DEF CapOK, NoTx
  <1> QED
    BY <1>4, <1>5, <1>6, <1>7, <1>8, <1>9, <1>10, <1>11 DEF Work, Fail, Deadlocked

\* The engine only takes weight off: it closes boxes, and a triggered box goes
\* on as an open position.
LEMMA LessWeighs ==
    ASSUME NEW w \in Web, BoxInv, BoxInv', CapInv(w), NEW R, tx'[w] \in {tx[w], Updated(tx[w], R)},
           \A b \in Box : rows'[b].status = "WAITING" \/ b \in held'
                => (rows[b].status = "WAITING" \/ b \in held) /\ rows'[b].size = rows[b].size
    PROVE  CapOK(tx'[w], rows', held') /\ Usage(rows', held') <= Cap
  <1> DEFINE S == rows'
             G == held'
             g == tx'[w]
             f == tx[w]
  <1>1. /\ rows \in [Box -> Row] /\ held \in SUBSET Box /\ S \in [Box -> Row] /\ G \in SUBSET Box
        /\ f \in Transaction
    BY CapTypes DEF BoxInv, TypeOK, Tx
  <1>2. \A b \in Box : S[b].status = "WAITING" \/ b \in G
                => (rows[b].status = "WAITING" \/ b \in held) /\ S[b].size = rows[b].size
    OBVIOUS
  <1>3. /\ g.op = f.op /\ g.pc = f.pc /\ g.view = f.view /\ g.open = f.open
        /\ g.writes = f.writes /\ g.want = f.want /\ g.box = f.box
    BY <1>1 DEF Updated, Transaction
  <1>4. CapOK(f, rows, held) /\ Usage(rows, held) <= Cap
    BY DEF CapInv
  <1> HIDE DEF S, G, g, f
  <1>5. Usage(S, G) <= Usage(rows, held)
    BY <1>1, <1>2, FewerWeighLess
  <1>6. Usage(S, G) <= Cap
    <2>1. Usage(S, G) \in Nat /\ Usage(rows, held) \in Nat /\ Cap \in Nat
      BY <1>1, UsageIs, BoxTableAssumption
    <2> QED
      BY <1>4, <1>5, <2>1
  <1>7. CapOK(g, S, G)
    <2>1. FitsCap(f) => FitsCap(g)
      BY <1>3 DEF FitsCap
    <2> QED
      BY <1>2, <1>3, <1>4, <2>1 DEF CapOK
  <1> QED
    BY <1>6, <1>7 DEF S, G, g

\* The commit of the request: what weighs now is what weighs in its view.
LEMMA CommitCap ==
    ASSUME NEW w \in Web, BoxInv, BoxInv', CapInv(w), Commit(w)
    PROVE  CapOK(tx'[w], rows', held') /\ Usage(rows', held') <= Cap
  <1> DEFINE f == tx[w]
             S == rows'
  <1>1. /\ w \in Tx /\ f \in Transaction /\ f.view \in [Box -> Row] /\ f.open \in SUBSET Box
        /\ S \in [Box -> Row] /\ held \in SUBSET Box /\ tx \in [Tx -> Transaction]
    BY CapTypes DEF BoxInv, TypeOK, Tx
  <1>2. /\ \A b \in Box : S[b] = IF b \in f.writes THEN f.view[b] ELSE rows[b]
        /\ tx'[w] = NoTx /\ held' = held /\ f.pc = "commit"
    BY <1>1 DEF Commit
  <1>3. f.op # "none"
    BY <1>1, <1>2 DEF BoxInv, FrameOK, PlaceOK, NoTx
  <1>4. CapOK(f, rows, held)
    BY DEF CapInv
  <1>5. \A b \in held : b \notin f.writes
    BY <1>1, WritesNoHeld DEF CapInv
  <1> HIDE DEF f, S
  <1>6. \A b \in Box : S[b].status = "WAITING" \/ b \in held
                => (f.view[b].status = "WAITING" \/ b \in f.open) /\ S[b].size = f.view[b].size
    BY <1>2, <1>3, <1>4, <1>5 DEF CapOK
  <1>7. Usage(S, held) <= Usage(f.view, f.open)
    BY <1>1, <1>6, FewerWeighLess
  <1>8. Usage(S, held) <= Cap
    <2>1. Usage(S, held) \in Nat /\ Usage(f.view, f.open) \in Nat /\ Cap \in Nat
      BY <1>1, UsageIs, BoxTableAssumption
    <2> QED
      BY <1>3, <1>4, <1>7, <2>1 DEF CapOK
  <1> QED
    BY <1>2, <1>8 DEF CapOK, NoTx, S

\* Every step keeps the cap.
LEMMA NextCap ==
    ASSUME NEW w, Web = {w}, Alone(w), CapInv(w), [Next]_vars
    PROVE  CapInv(w)'
  <1>1. w \in Web /\ Tx = {w, Engine} /\ w # Engine /\ w \in Tx /\ BoxInv /\ SweepOK(tx[Engine])
    BY BoxTableAssumption DEF Tx, Alone
  <1>2. BoxInv'
    BY <1>1, NextKeeps, StutterKeeps
  <1>3. HeldTriggered'
    BY <1>1, HeldKeeps DEF CapInv
  <1>4. tx \in [Tx -> Transaction] /\ rows \in [Box -> Row] /\ held \subseteq Box
    BY <1>1, CapTypes
  <1> SUFFICES CapOK(tx'[w], rows', held') /\ Usage(rows', held') <= Cap
    BY <1>3 DEF CapInv
  <1>5. CASE Request(w)
    BY <1>1, <1>5, RequestCap
  <1>6. CASE Work(w)
    BY <1>1, <1>6, WorkCap
  <1>7. CASE Commit(w)
    BY <1>1, <1>2, <1>7, CommitCap
  <1>8. CASE UNCHANGED vars
    BY <1>1, <1>2, <1>8, LessWeighs DEF vars
  <1>9. CASE Work(Engine) \/ BeginSweep
    <2>1. tx'[w] = tx[w] /\ UNCHANGED <<rows, held>>
      BY <1>1, <1>4, <1>9 DEF Work, BeginSweep, Begin, Create, PatchStock, PatchBox, DeleteBox,
         DeleteStock, CloseStock, CloseBoxes, Fail, Deadlocked, RollBack, Proceed
    <2> QED
      BY <1>1, <1>2, <2>1, LessWeighs
  <1>10. CASE Commit(Engine)
    <2> DEFINE f == tx[Engine]
    <2>1. /\ \A b \in Box : rows'[b] = IF b \in f.writes THEN f.view[b] ELSE rows[b]
          /\ tx'[w] = Updated(tx[w], f.writes) /\ held' = held
      BY <1>1, <1>10 DEF Commit
    <2>2. \A b \in held : b \notin f.writes
      BY <1>1, WritesNoHeld DEF CapInv
    <2>3. \A b \in Box : b \in f.writes => f.view[b].status # "WAITING"
      BY <1>1 DEF SweepOK
    <2>4. \A b \in Box : rows'[b].status = "WAITING" \/ b \in held'
                => (rows[b].status = "WAITING" \/ b \in held) /\ rows'[b].size = rows[b].size
      BY <2>1, <2>2, <2>3
    <2> QED
      BY <1>1, <1>2, <2>1, <2>4, LessWeighs
  <1>11. CASE \E b \in Box : FullExit(b)
    BY <1>1, <1>2, <1>11, LessWeighs DEF FullExit
  <1>12. CASE \E b \in Box : MarkTriggered(b) \/ MarkInvalidated(b)
    <2>1. PICK b \in Box : MarkTriggered(b) \/ MarkInvalidated(b)
      BY <1>12
    <2>2. PICK s \in {"TRIGGERED", "INVALIDATED"} : Mark(b, s)
      BY <2>1 DEF MarkTriggered, MarkInvalidated
    <2>3. /\ rows[b].status = "WAITING" /\ tx'[w] = Updated(tx[w], {b})
          /\ \A c \in Box \ {b} : rows'[c] = rows[c]
          /\ rows'[b] = [rows[b] EXCEPT !.status = s]
      BY <1>1, <1>4, <2>2 DEF Mark
    <2>4. rows'[b].size = rows[b].size
      BY <1>4, <2>3 DEF Row
    <2>5. held' \subseteq held \cup {b}
      BY <2>1 DEF MarkTriggered, MarkInvalidated
    <2>6. \A c \in Box : rows'[c].status = "WAITING" \/ c \in held'
                => (rows[c].status = "WAITING" \/ c \in held) /\ rows'[c].size = rows[c].size
      BY <2>3, <2>4, <2>5
    <2> QED
      BY <1>1, <1>2, <2>3, <2>6, LessWeighs
  <1> QED
    BY <1>1, <1>5, <1>6, <1>7, <1>8, <1>9, <1>10, <1>11, <1>12 DEF Next

(* Waiting boxes and open positions stay within the cap, as long as the Web *)
(* serves one request at a time, whatever the engine triggers, cancels and  *)
(* exits in the meantime.                                                   *)
THEOREM OneRequestWithinCap ==
    ASSUME NEW w, Web = {w}
    PROVE  Spec => []WithinCap
  <1>1. Init => CapInv(w)
    BY InitCap
  <1>2. Alone(w) /\ CapInv(w) /\ [Next]_vars => CapInv(w)'
    BY NextCap
  <1>3. CapInv(w) => WithinCap
    BY DEF CapInv, WithinCap
  <1> QED
    BY <1>1, <1>2, <1>3, AloneHolds, PTL DEF Spec

=============================================================================
