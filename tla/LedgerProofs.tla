---------------------------- MODULE LedgerProofs ----------------------------
(***************************************************************************)
(* The ledger of positions: rows stay consistent and stops on the ladder,   *)
(* and a sell that is spread over rows takes from them, in order, what it   *)
(* sells and no more; for any number of rows, prices and share counts.      *)
(***************************************************************************)
EXTENDS Holdings, Sums, TLAPS

-----------------------------------------------------------------------------
(* Arithmetic.                                                              *)

\* What \div and % leave of a natural.
LEMMA DivIsNat ==
    ASSUME NEW n \in Nat, NEW d \in Nat \ {0}
    PROVE  /\ n \div d \in Nat /\ n % d \in Nat
           /\ d * (n \div d) <= n /\ n < d * (n \div d) + d
  <1>1. n \div d \in Nat /\ n % d \in Nat
    OBVIOUS
  <1>2. d * (n \div d) <= n
    BY SMTT(30)
  <1>3. n < d * (n \div d) + d
    BY Z3T(30)
  <1> QED
    BY <1>1, <1>2, <1>3

\* A quotient rounded to even is a natural.
LEMMA RoundDivIsNat ==
    ASSUME NEW n \in Nat, NEW d \in Nat \ {0}
    PROVE  RoundDiv(n, d) \in Nat
  BY DivIsNat DEF RoundDiv

\* A stop is a natural.
LEMMA StageIsNat ==
    ASSUME NEW p5, NEW p10, NEW avg \in Nat
    PROVE  Stage(p5, p10, avg) \in Nat
  <1> DEFINE c == IF p10 THEN 104 ELSE IF p5 THEN 98 ELSE 95
  <1>1. c \in Nat
    OBVIOUS
  <1> HIDE DEF c
  <1>2. avg * c \in Nat
    BY <1>1
  <1>3. RoundDiv(avg * c, 100) \in Nat
    BY <1>2, RoundDivIsNat
  <1> QED
    BY <1>3 DEF Stage, c

\* A weighted average is a natural.
LEMMA AverageIsNat ==
    ASSUME NEW q \in Nat, NEW a \in Nat, NEW k \in Nat \ {0}, NEW pr \in Nat
    PROVE  WeightedAverage(q, a, k, pr) \in Nat
  <1>1. q * a + k * pr \in Nat /\ q + k \in Nat \ {0}
    OBVIOUS
  <1> QED
    BY <1>1, RoundDivIsNat DEF WeightedAverage

\* A share, rounded down, of k is no more than k, nor than its path has.
LEMMA FloorBound ==
    ASSUME NEW k \in Nat, NEW b \in Nat, NEW t \in Nat \ {0}, b <= t
    PROVE  /\ (k * b) \div t \in Nat
           /\ (k * b) \div t <= k
           /\ k <= t => (k * b) \div t <= b /\ k - (k * b) \div t <= t - b
  <1> DEFINE q == (k * b) \div t
  <1>1. k * b \in Nat
    OBVIOUS
  <1>2. q \in Nat /\ t * q <= k * b /\ k * b < t * q + t
    BY <1>1, DivIsNat
  <1> HIDE DEF q
  <1>3. t * q <= k * b
    BY <1>2
  <1>4. k * b <= k * t
    OBVIOUS
  <1>5. t * q <= t * k
    BY <1>2, <1>3, <1>4
  <1>6. q <= k
    BY <1>2, <1>5
  <1>7. ASSUME k <= t
        PROVE  q <= b /\ k - q <= t - b
    <2>1. k * b <= t * b
      BY <1>7
    <2>2. t * q <= t * b
      BY <1>2, <1>3, <2>1
    <2>3. q <= b
      BY <1>2, <2>2
    <2>4. k * b < t * (q + 1)
      BY <1>2
    <2>5. ASSUME k - q > t - b
          PROVE  FALSE
      <3>1. q + 1 <= k + b - t
        BY <1>2, <2>5
      <3>2. t * (q + 1) <= t * (k + b - t)
        BY <1>2, <3>1
      <3>3. k * b < t * (k + b - t)
        BY <1>2, <2>4, <3>2
      <3>4. (t - k) * (t - b) \in Nat
        BY <1>7
      <3>5. k * b - t * (k + b - t) = (t - k) * (t - b)
        OBVIOUS
      <3> QED
        BY <3>3, <3>4, <3>5
    <2> QED
      BY <1>2, <2>3, <2>5
  <1> QED
    BY <1>2, <1>6, <1>7 DEF q

-----------------------------------------------------------------------------
(* Rows drained in order.                                                   *)

\* The rows of the ledger are finitely many naturals.
LEMMA PosIsFinite ==
    /\ IsFiniteSet(Pos) /\ Pos \subseteq Nat
    /\ \A S \in SUBSET Pos : IsFiniteSet(S) /\ S \subseteq Nat
  <1>1. IsFiniteSet(Pos) /\ Pos \subseteq Nat
    BY FS_Interval, LedgerAssumption DEF Pos
  <1> QED
    BY <1>1, FS_Subset

\* A set of naturals has a least element.
LEMMA MinExists ==
    ASSUME NEW S, S # {}, S \subseteq Nat
    PROVE  \E x \in S : \A y \in S : x <= y
  <1>1. PICK x \in S : \A y \in S : <<y, x>> \notin OpToRel(<, Nat)
    BY SmallestExists
  <1>2. \A y \in S : ~(y < x)
    BY <1>1, SmallerIsIn
  <1> QED
    BY <1>2

\* The last row of a set of rows is one of them.
LEMMA MaxIsIn ==
    ASSUME NEW S \in SUBSET Pos, S # {}
    PROVE  Max(S) \in S /\ Max(S) \in Pos
  <1> DEFINE G == {V \in SUBSET S : V # {} => \E x \in V : \A y \in V : x >= y}
  <1>0. IsFiniteSet(S) /\ S \subseteq Nat
    BY PosIsFinite
  <1>1. ASSUME NEW V \in SUBSET S, \A W \in SUBSET V : W # V => W \in G
        PROVE  V \in G
    <2> SUFFICES ASSUME V # {} PROVE \E x \in V : \A y \in V : x >= y
      OBVIOUS
    <2>1. PICK z \in V : TRUE
      OBVIOUS
    <2>2. V \ {z} \in G
      BY <1>1, <2>1
    <2>3. CASE V \ {z} = {}
      <3>1. V = {z}
        BY <2>1, <2>3
      <3> QED
        BY <1>0, <3>1
    <2>4. CASE V \ {z} # {}
      <3>1. PICK x \in V \ {z} : \A y \in V \ {z} : x >= y
        BY <2>2, <2>4
      <3>2. x \in Nat /\ z \in Nat /\ \A y \in V : y \in Nat
        BY <1>0, <2>1
      <3>3. CASE x >= z
        BY <3>1, <3>3
      <3>4. CASE ~(x >= z)
        <4>1. \A y \in V : z >= y
          BY <3>1, <3>2, <3>4
        <4> QED
          BY <2>1, <4>1
      <3> QED
        BY <3>3, <3>4
    <2> QED
      BY <2>3, <2>4
  <1>2. \A V \in SUBSET S : V \in G
    <2> HIDE DEF G
    <2> QED
      BY <1>0, <1>1, SubsetInduction
  <1>3. \E x \in S : \A y \in S : x >= y
    BY <1>2
  <1> QED
    BY <1>3 DEF Max

\* The rows before p, with p and without it.
LEMMA TailSums ==
    ASSUME NEW S \in SUBSET Pos, NEW cap, \A p \in S : cap[p] \in Nat, NEW p \in S
    PROVE  LET A == SumFunctionOnSet(cap, {q \in S : q >= p})
               B == SumFunctionOnSet(cap, {q \in S : q > p})
           IN  A \in Nat /\ B \in Nat /\ A = cap[p] + B
  <1> DEFINE U == {q \in S : q >= p}
             V == {q \in S : q > p}
  <1>1. IsFiniteSet(U) /\ IsFiniteSet(V) /\ S \subseteq Nat
    BY PosIsFinite
  <1>2. U = V \cup {p} /\ p \notin V
    <2>1. \A q \in S : (q >= p <=> q > p \/ q = p) /\ ~(p > p)
      BY <1>1
    <2> QED
      BY <2>1, Zenon
  <1>3. (\A x \in U : cap[x] \in Nat) /\ (\A x \in V : cap[x] \in Nat)
    OBVIOUS
  <1> HIDE DEF U, V
  <1>4. SumFunctionOnSet(cap, V \cup {p}) = cap[p] + SumFunctionOnSet(cap, V)
    BY <1>1, <1>2, <1>3, SumAdd
  <1>5. SumFunctionOnSet(cap, U) \in Nat /\ SumFunctionOnSet(cap, V) \in Nat
    BY <1>1, <1>3, SumNat
  <1>6. SumFunctionOnSet(cap, U) = cap[p] + SumFunctionOnSet(cap, V)
    BY <1>2, <1>4
  <1> QED
    BY <1>5, <1>6, Zenon DEF U, V

\* No row gives more than it may, nor more than is asked.
LEMMA DrainedBound ==
    ASSUME NEW S \in SUBSET Pos, NEW cap, \A p \in S : cap[p] \in Nat, NEW k \in Nat,
           NEW p \in Pos
    PROVE  /\ Drained(S, cap, k)[p] \in Nat
           /\ p \notin S => Drained(S, cap, k)[p] = 0
           /\ p \in S => Drained(S, cap, k)[p] <= cap[p]
           /\ k = 0 => Drained(S, cap, k)[p] = 0
  <1>1. CASE p \notin S
    BY <1>1 DEF Drained
  <1>2. CASE p \in S
    <2> DEFINE A == SumFunctionOnSet(cap, {q \in S : q >= p})
               B == SumFunctionOnSet(cap, {q \in S : q > p})
    <2>1. A \in Nat /\ B \in Nat /\ A = cap[p] + B /\ cap[p] \in Nat
      BY <1>2, TailSums
    <2>2. Drained(S, cap, k)[p] = Smaller(k, A) - Smaller(k, B)
      BY <1>2 DEF Drained
    <2> HIDE DEF A, B
    <2> QED
      BY <1>2, <2>1, <2>2 DEF Smaller
  <1> QED
    BY <1>1, <1>2

\* When all of it is asked, every row gives all it has.
LEMMA DrainedAll ==
    ASSUME NEW S \in SUBSET Pos, NEW cap, \A p \in S : cap[p] \in Nat, NEW p \in S
    PROVE  Drained(S, cap, SumFunctionOnSet(cap, S))[p] = cap[p]
  <1> DEFINE U == {q \in S : q >= p}
             V == {q \in S : q > p}
             T == SumFunctionOnSet(cap, S)
             A == SumFunctionOnSet(cap, U)
             B == SumFunctionOnSet(cap, V)
  <1>1. A \in Nat /\ B \in Nat /\ A = cap[p] + B /\ cap[p] \in Nat
    BY TailSums
  <1>2. A <= T
    <2>1. IsFiniteSet(S) /\ U \in SUBSET S
      BY PosIsFinite
    <2> HIDE DEF U
    <2> QED
      BY <2>1, SumSubset
  <1>3. T \in Nat
    BY PosIsFinite, SumNat
  <1>4. Drained(S, cap, T)[p] = Smaller(T, A) - Smaller(T, B)
    BY DEF Drained
  <1> HIDE DEF A, B, T
  <1>5. Drained(S, cap, T)[p] = cap[p]
    BY <1>1, <1>2, <1>3, <1>4 DEF Smaller
  <1> QED
    BY <1>5 DEF T

\* All rows together give what is asked, as long as they have it.
LEMMA DrainedTotal ==
    ASSUME NEW S \in SUBSET Pos, NEW cap, \A p \in S : cap[p] \in Nat, NEW k \in Nat
    PROVE  /\ SumFunctionOnSet(Drained(S, cap, k), S) = Smaller(k, SumFunctionOnSet(cap, S))
           /\ SumFunctionOnSet(Drained(S, cap, k), S) \in Nat
  <1> DEFINE take == Drained(S, cap, k)
             Upper(V) == \A v \in V, w \in S : w >= v => w \in V
             G == {V \in SUBSET S : Upper(V) =>
                     SumFunctionOnSet(take, V) = Smaller(k, SumFunctionOnSet(cap, V))}
  <1>0. IsFiniteSet(S) /\ S \subseteq Nat
    BY PosIsFinite
  <1>1. ASSUME NEW V \in SUBSET S, \A W \in SUBSET V : W # V => W \in G
        PROVE  V \in G
    <2> SUFFICES ASSUME Upper(V)
                 PROVE  SumFunctionOnSet(take, V) = Smaller(k, SumFunctionOnSet(cap, V))
      OBVIOUS
    <2>1. CASE V = {}
      BY <2>1, SumEmpty DEF Smaller
    <2>2. CASE V # {}
      <3>1. PICK m \in V : \A y \in V : m <= y
        BY <1>0, <2>2, MinExists
      <3> DEFINE W == V \ {m}
                 A == SumFunctionOnSet(cap, V)
                 B == SumFunctionOnSet(cap, W)
      <3>2. V = {q \in S : q >= m} /\ W = {q \in S : q > m}
        <4>1. V = {q \in S : q >= m}
          BY <1>0, <3>1
        <4>2. m \in S /\ \A q \in S : (q > m <=> q >= m /\ q # m)
          BY <1>0, <3>1
        <4> QED
          BY <4>1, <4>2, Zenon
      <3>3. A \in Nat /\ B \in Nat /\ A = cap[m] + B
        <4>1. LET X == SumFunctionOnSet(cap, {q \in S : q >= m})
                  Y == SumFunctionOnSet(cap, {q \in S : q > m})
              IN  X \in Nat /\ Y \in Nat /\ X = cap[m] + Y
          BY <3>1, TailSums
        <4> QED
          BY <3>2, <4>1, Zenon
      <3>4. take[m] = Smaller(k, A) - Smaller(k, B)
        <4>1. take[m] = Smaller(k, SumFunctionOnSet(cap, {q \in S : q >= m}))
                        - Smaller(k, SumFunctionOnSet(cap, {q \in S : q > m}))
          BY <3>1 DEF Drained
        <4> HIDE DEF take
        <4> QED
          BY <3>2, <4>1
      <3>5. Upper(W) /\ W \in SUBSET V /\ W # V
        BY <1>0, <3>1, <3>2
      <3>6. SumFunctionOnSet(take, W) = Smaller(k, B)
        <4> HIDE DEF Upper, take
        <4> QED
          BY <1>1, <3>5
      <3>7. SumFunctionOnSet(take, V) = take[m] + SumFunctionOnSet(take, W)
        <4>1. IsFiniteSet(V)
          BY <1>0, FS_Subset
        <4>2. \A x \in V : take[x] \in Nat
          BY DrainedBound
        <4> HIDE DEF take
        <4> QED
          BY <3>1, <4>1, <4>2, SumRemove
      <3> HIDE DEF A, B, W, take, Upper, G
      <3>8. SumFunctionOnSet(take, V) = Smaller(k, A)
        BY <3>3, <3>4, <3>6, <3>7 DEF Smaller
      <3> QED
        BY <3>8 DEF A
    <2> QED
      BY <2>1, <2>2
  <1>2. \A V \in SUBSET S : V \in G
    <2> HIDE DEF G
    <2> QED
      BY <1>0, <1>1, SubsetInduction
  <1>3. SumFunctionOnSet(take, S) = Smaller(k, SumFunctionOnSet(cap, S))
    <2>1. S \in G /\ Upper(S)
      BY <1>2
    <2> HIDE DEF take, Upper
    <2> QED
      BY <2>1
  <1>4. SumFunctionOnSet(cap, S) \in Nat
    BY <1>0, SumNat
  <1> HIDE DEF take
  <1>5. SumFunctionOnSet(take, S) \in Nat
    BY <1>3, <1>4 DEF Smaller
  <1> QED
    BY <1>3, <1>5 DEF take

\* The two parts of a split are what is split, and no path is asked for more
\* than it has.
LEMMA SplitExact ==
    ASSUME NEW k \in Nat, NEW a \in Nat, NEW b \in Nat
    PROVE  /\ Split(k, a, b).a \in Nat /\ Split(k, a, b).b \in Nat
           /\ Split(k, a, b).a + Split(k, a, b).b = k
           /\ k <= a + b => Split(k, a, b).a <= a /\ Split(k, a, b).b <= b
  <1> DEFINE t == a + b
             x == (k * b) \div t
             y == (k * a) \div t
  <1>1. CASE a = 0 \/ b = 0
    BY <1>1 DEF Split
  <1>2. CASE a # 0 /\ b # 0
    <2>1. t \in Nat \ {0} /\ a <= t /\ b <= t /\ t - a = b /\ t - b = a
      BY <1>2
    <2>2. x \in Nat /\ x <= k /\ (k <= t => x <= b /\ k - x <= t - b)
      <3> HIDE DEF t
      <3> QED
        BY <2>1, FloorBound
    <2>3. y \in Nat /\ y <= k /\ (k <= t => y <= a /\ k - y <= t - a)
      <3> HIDE DEF t
      <3> QED
        BY <2>1, FloorBound
    <2>4. Split(k, a, b) = IF a >= b THEN [a |-> k - x, b |-> x] ELSE [a |-> y, b |-> k - y]
      BY <1>2 DEF Split
    <2> HIDE DEF t, x, y
    <2>5. k <= a + b <=> k <= t
      BY DEF t
    <2>6. CASE a >= b
      BY <2>1, <2>2, <2>4, <2>5, <2>6
    <2>7. CASE ~(a >= b)
      BY <2>1, <2>3, <2>4, <2>5, <2>7
    <2> QED
      BY <2>6, <2>7
  <1> QED
    BY <1>1, <1>2

-----------------------------------------------------------------------------
(* Rows.                                                                   *)

RowTyped(r) == r \in Row /\ Consistent(r)

\* A row as it is inserted.
LEMMA NewRowTyped ==
    ASSUME NEW src \in Source, NEW k \in Nat \ {0}, NEW pr \in Nat
    PROVE  RowTyped(NewRow(src, k, pr))
  <1> DEFINE stop == Stage(FALSE, FALSE, pr)
             r == [src |-> src, status |-> "OPEN", qty |-> k, avg |-> pr,
                   stop |-> stop, p5 |-> FALSE, p10 |-> FALSE]
  <1>1. stop \in Nat
    BY StageIsNat
  <1> HIDE DEF stop
  <1>2. r \in Row
    BY <1>1 DEF Row, Status
  <1>3. Consistent(r)
    BY DEF Consistent, Active
  <1> QED
    BY <1>2, <1>3 DEF RowTyped, NewRow, stop

\* An add-buy that the table accepts.
LEMMA AfterBuyTyped ==
    ASSUME NEW r, RowTyped(r), NEW k \in Nat \ {0}, NEW pr \in Nat
    PROVE  AfterBuy(r, k, pr) \in Row
  <1> DEFINE avg == WeightedAverage(r.qty, r.avg, k, pr)
             stop == Stage(FALSE, FALSE, avg)
             status == IF r.status = "PARTIAL_CLOSED" THEN "OPEN" ELSE r.status
             all == r.qty + k
             s == [r EXCEPT !.qty = all, !.avg = avg, !.stop = stop, !.p5 = FALSE, !.p10 = FALSE,
                            !.status = status]
  <1>1. r.qty \in Nat /\ r.avg \in Nat
    BY DEF RowTyped, Row
  <1>2. avg \in Nat
    BY <1>1, AverageIsNat
  <1> HIDE DEF avg
  <1>3. stop \in Nat
    BY <1>2, StageIsNat
  <1> HIDE DEF stop
  <1>4. all \in Nat /\ status \in Status
    BY <1>1 DEF RowTyped, Row, Status
  <1> HIDE DEF all, status
  <1>5. s \in Row
    BY <1>2, <1>3, <1>4 DEF RowTyped, Row
  <1> QED
    BY <1>5 DEF AfterBuy, avg, stop, all, status

\* The status after a sell: open or partially closed while shares are left.
LEMMA LifecycleTyped ==
    ASSUME NEW r, RowTyped(r), NEW k \in Nat, k <= r.qty, k # 0
    PROVE  /\ Lifecycle(r.status, r.qty - k) \in Status
           /\ Lifecycle(r.status, r.qty - k) \in {"OPEN", "PARTIAL_CLOSED"} <=> r.qty - k > 0
           /\ Lifecycle(r.status, r.qty - k) # "absent"
           /\ r.qty - k \in Nat /\ Active(r)
  <1>1. r.qty \in Nat /\ r.status \in Status /\ Active(r)
    BY DEF RowTyped, Row, Consistent
  <1> QED
    BY <1>1 DEF Lifecycle, Active, Status

\* A row that an exit has sold from.
LEMMA AfterSellTyped ==
    ASSUME NEW r, RowTyped(r), NEW k \in Nat, k <= r.qty, k # 0, NEW event
    PROVE  RowTyped(AfterSell(r, k, event))
  <1> DEFINE p5  == r.p5 \/ event \in ProfitEvent
             p10 == r.p10 \/ event = "PROFIT_TAKE_10"
             stop == IF event \in ProfitEvent THEN Stage(p5, p10, r.avg) ELSE r.stop
             status == Lifecycle(r.status, r.qty - k)
             left == r.qty - k
             s == [r EXCEPT !.qty = left, !.p5 = p5, !.p10 = p10, !.stop = stop, !.status = status]
  <1>1. r \in Row
    BY DEF RowTyped
  <1>2. p5 \in BOOLEAN /\ p10 \in BOOLEAN
    BY <1>1 DEF Row
  <1>3. stop \in Nat
    <2>1. r.stop \in Nat /\ r.avg \in Nat
      BY <1>1 DEF Row
    <2> HIDE DEF p5, p10
    <2>2. Stage(p5, p10, r.avg) \in Nat
      BY <2>1, StageIsNat
    <2> QED
      BY <2>1, <2>2
  <1>4. left \in Nat /\ status \in Status /\ (status \in {"OPEN", "PARTIAL_CLOSED"} <=> left > 0)
    BY LifecycleTyped
  <1>5. AfterSell(r, k, event) = s
    BY DEF AfterSell
  <1> HIDE DEF p5, p10, stop, status, left
  <1>6. s \in Row /\ s.qty = left /\ s.status = status
    BY <1>1, <1>2, <1>3, <1>4 DEF Row
  <1> HIDE DEF s
  <1>7. RowTyped(s)
    BY <1>4, <1>6 DEF RowTyped, Consistent, Active
  <1> QED
    BY <1>5, <1>7

\* A row that a reconciler has taken shares from.
LEMMA ReducedTyped ==
    ASSUME NEW r, RowTyped(r), NEW k \in Nat, k <= r.qty
    PROVE  RowTyped(Reduced(r, k))
  <1>1. CASE k = 0
    BY <1>1 DEF Reduced
  <1>2. CASE k # 0
    <2> DEFINE status == Lifecycle(r.status, r.qty - k)
               left == r.qty - k
               s == [r EXCEPT !.qty = left, !.status = status]
    <2>1. left \in Nat /\ status \in Status /\ (status \in {"OPEN", "PARTIAL_CLOSED"} <=> left > 0)
      BY <1>2, LifecycleTyped
    <2>2. Reduced(r, k) = s
      BY <1>2 DEF Reduced
    <2> HIDE DEF status, left
    <2>3. s \in Row /\ s.qty = left /\ s.status = status
      BY <2>1 DEF Row, RowTyped
    <2> HIDE DEF s
    <2>4. RowTyped(s)
      BY <2>1, <2>3 DEF RowTyped, Consistent, Active
    <2> QED
      BY <2>2, <2>4
  <1> QED
    BY <1>1, <1>2

-----------------------------------------------------------------------------
(* The table.                                                               *)

PosInv ==
    /\ pos = [p \in Pos |-> pos[p]]
    /\ \A p \in Pos : RowTyped(pos[p])

\* What the invariant says of the fields of each row.
LEMMA PosTyped ==
    ASSUME PosInv
    PROVE  /\ LedgerTypeOK
           /\ \A p \in Pos : /\ pos[p].qty \in Nat /\ pos[p].avg \in Nat /\ pos[p].stop \in Nat
                             /\ pos[p].src \in Source /\ (Active(pos[p]) <=> pos[p].qty > 0)
  <1>1. \A p \in Pos : pos[p] \in Row
    BY DEF PosInv, RowTyped
  <1>2. LedgerTypeOK
    BY <1>1 DEF PosInv, LedgerTypeOK
  <1>3. \A p \in Pos : Active(pos[p]) <=> pos[p].qty > 0
    BY DEF PosInv, RowTyped, Consistent
  <1> QED
    BY <1>1, <1>2, <1>3 DEF Row

\* The rows of some paths hold a natural number of shares.
LEMMA QtyIsNat ==
    ASSUME PosInv, NEW S
    PROVE  QtyIn(S) \in Nat
  <1> DEFINE f == [p \in Pos |-> pos[p].qty]
             A == ActiveOf(S)
  <1>1. IsFiniteSet(A) /\ A \subseteq Pos
    BY PosIsFinite DEF ActiveOf
  <1>2. \A p \in A : f[p] \in Nat
    BY <1>1, PosTyped
  <1> HIDE DEF f, A
  <1>3. SumFunctionOnSet(f, A) \in Nat
    BY <1>1, <1>2, SumNat
  <1> QED
    BY <1>3 DEF QtyIn, f, A

\* add_position.
LEMMA AddTyped ==
    ASSUME PosInv, NEW src \in Source, NEW k \in Nat, NEW pr \in Price, AddPosition(src, k, pr)
    PROVE  PosInv'
  <1>1. PICK p \in FreshPos : pos' = [pos EXCEPT ![p] = NewRow(src, k, pr)]
    BY DEF AddPosition
  <1>2. pos' = [q \in Pos |-> IF q = p THEN NewRow(src, k, pr) ELSE pos[q]]
    BY <1>1 DEF PosInv
  <1>3. k \in Nat \ {0} /\ pr \in Nat
    BY ExitAssumption DEF AddPosition
  <1> QED
    BY <1>2, <1>3, NewRowTyped DEF PosInv

\* apply_buy.
LEMMA BuyTyped ==
    ASSUME PosInv, NEW p, NEW k \in Nat \ {0}, NEW pr \in Price, ApplyBuy(p, k, pr)
    PROVE  PosInv'
  <1> DEFINE r == AfterBuy(pos[p], k, pr)
  <1>1. CASE pos' = pos
    BY <1>1 DEF PosInv
  <1>2. CASE Consistent(r) /\ pos' = [pos EXCEPT ![p] = r]
    <2>1. pos' = [q \in Pos |-> IF q = p THEN r ELSE pos[q]]
      BY <1>2 DEF PosInv
    <2>2. ASSUME p \in Pos PROVE RowTyped(r)
      <3>1. RowTyped(pos[p]) /\ pr \in Nat
        BY <2>2, ExitAssumption DEF PosInv
      <3>2. r \in Row
        BY <3>1, AfterBuyTyped
      <3> QED
        BY <1>2, <3>2 DEF RowTyped
    <2> HIDE DEF r
    <2> QED
      BY <2>1, <2>2 DEF PosInv
  <1> QED
    BY <1>1, <1>2 DEF ApplyBuy

\* apply_sell.
LEMMA SellTyped ==
    ASSUME PosInv, NEW p, NEW k, NEW event, ApplySell(p, k, event)
    PROVE  PosInv'
  <1>1. pos' = [q \in Pos |-> IF q = p THEN AfterSell(pos[p], k, event) ELSE pos[q]]
    BY DEF ApplySell, PosInv
  <1>2. ASSUME p \in Pos PROVE RowTyped(AfterSell(pos[p], k, event))
    <2>1. RowTyped(pos[p]) /\ pos[p].qty \in Nat
      BY <1>2, PosTyped DEF PosInv
    <2>2. k \in Nat /\ k <= pos[p].qty /\ k # 0
      BY <2>1 DEF ApplySell, CanSell
    <2> QED
      BY <2>1, <2>2, AfterSellTyped
  <1> QED
    BY <1>1, <1>2 DEF PosInv

\* What one class of rows gives, and what the three give together.
TakeOf(S, n) == Drained(ActiveOf(S), [p \in Pos |-> pos[p].qty], n)

Take(m, s) ==
    [p \in Pos |-> TakeOf({"MANUAL"}, m)[p] + TakeOf({"SYSTEM_A"}, s.a)[p] + TakeOf({"SYSTEM_B"}, s.b)[p]]

\* A drain takes from active rows only, and no more than they hold.
LEMMA TakeOfBound ==
    ASSUME PosInv, NEW S, NEW n \in Nat, NEW p \in Pos
    PROVE  /\ TakeOf(S, n)[p] \in Nat
           /\ p \notin ActiveOf(S) => TakeOf(S, n)[p] = 0
           /\ TakeOf(S, n)[p] <= pos[p].qty
           /\ n = 0 => TakeOf(S, n)[p] = 0
  <1> DEFINE f == [q \in Pos |-> pos[q].qty]
             A == ActiveOf(S)
  <1>1. A \in SUBSET Pos /\ (\A q \in A : f[q] \in Nat) /\ f[p] = pos[p].qty /\ pos[p].qty \in Nat
    BY PosTyped DEF ActiveOf
  <1> HIDE DEF f, A
  <1>2. /\ Drained(A, f, n)[p] \in Nat
        /\ p \notin A => Drained(A, f, n)[p] = 0
        /\ p \in A => Drained(A, f, n)[p] <= f[p]
        /\ n = 0 => Drained(A, f, n)[p] = 0
    BY <1>1, DrainedBound
  <1>3. TakeOf(S, n) = Drained(A, f, n)
    BY DEF TakeOf, f, A
  <1> HIDE DEF TakeOf
  <1> QED
    BY <1>1, <1>2, <1>3 DEF A

\* A row is in one class, so it gives no more than it has.
LEMMA TakeBound ==
    ASSUME PosInv, NEW m \in Nat, NEW s, s.a \in Nat, s.b \in Nat, NEW p \in Pos
    PROVE  /\ Take(m, s)[p] \in Nat
           /\ Take(m, s)[p] <= pos[p].qty
           /\ pos[p].src = "MANUAL" => Take(m, s)[p] = TakeOf({"MANUAL"}, m)[p]
           /\ pos[p].src = "SYSTEM_A" => Take(m, s)[p] = TakeOf({"SYSTEM_A"}, s.a)[p]
           /\ pos[p].src = "SYSTEM_B" => Take(m, s)[p] = TakeOf({"SYSTEM_B"}, s.b)[p]
  <1> DEFINE x == TakeOf({"MANUAL"}, m)[p]
             y == TakeOf({"SYSTEM_A"}, s.a)[p]
             z == TakeOf({"SYSTEM_B"}, s.b)[p]
  <1>1. Take(m, s)[p] = x + y + z
    BY DEF Take
  <1>2. /\ x \in Nat /\ y \in Nat /\ z \in Nat
        /\ x <= pos[p].qty /\ y <= pos[p].qty /\ z <= pos[p].qty
        /\ p \notin ActiveOf({"MANUAL"}) => x = 0
        /\ p \notin ActiveOf({"SYSTEM_A"}) => y = 0
        /\ p \notin ActiveOf({"SYSTEM_B"}) => z = 0
    BY TakeOfBound
  <1>3. pos[p].src \in {"MANUAL", "SYSTEM_A", "SYSTEM_B"} /\ pos[p].qty \in Nat
    BY PosTyped DEF Source
  <1>4. /\ pos[p].src # "MANUAL" => p \notin ActiveOf({"MANUAL"})
        /\ pos[p].src # "SYSTEM_A" => p \notin ActiveOf({"SYSTEM_A"})
        /\ pos[p].src # "SYSTEM_B" => p \notin ActiveOf({"SYSTEM_B"})
    BY DEF ActiveOf
  <1> HIDE DEF x, y, z
  <1>5. CASE pos[p].src = "MANUAL"
    BY <1>1, <1>2, <1>3, <1>4, <1>5 DEF x
  <1>6. CASE pos[p].src = "SYSTEM_A"
    BY <1>1, <1>2, <1>3, <1>4, <1>6 DEF y
  <1>7. CASE pos[p].src = "SYSTEM_B"
    BY <1>1, <1>2, <1>3, <1>4, <1>7 DEF z
  <1> QED
    BY <1>3, <1>5, <1>6, <1>7

\* Case B of the periodic reconciler: the user's rows give what they can, the
\* paths the rest as far as they have it.
SellParts(k, m, s) ==
    /\ m = Smaller(k, QtyIn({"MANUAL"})) /\ m \in Nat
    /\ s.a \in Nat /\ s.a <= QtyIn({"SYSTEM_A"})
    /\ s.b \in Nat /\ s.b <= QtyIn({"SYSTEM_B"})
    /\ s.a + s.b = Smaller(k - m, QtyIn({"SYSTEM_A"}) + QtyIn({"SYSTEM_B"}))
    /\ pos' = [p \in Pos |-> Reduced(pos[p], Take(m, s)[p])]

\* What is taken from manual rows and what from the others.
LEMMA PartialSellParts ==
    ASSUME PosInv, NEW k \in Nat, ApplyPartialSell(k)
    PROVE  \E m, s : SellParts(k, m, s)
  <1> DEFINE a == QtyIn({"SYSTEM_A"})
             b == QtyIn({"SYSTEM_B"})
             m == Smaller(k, QtyIn({"MANUAL"}))
             n == Smaller(k - m, a + b)
             s == IF a + b = 0 THEN [a |-> 0, b |-> 0] ELSE Split(n, a, b)
  <1>1. a \in Nat /\ b \in Nat /\ QtyIn({"MANUAL"}) \in Nat
    BY QtyIsNat
  <1>2. pos' = [p \in Pos |-> Reduced(pos[p], Take(m, s)[p])]
    BY DEF ApplyPartialSell, Take, TakeOf
  <1> HIDE DEF a, b
  <1>3. m \in Nat /\ m <= k
    BY <1>1 DEF Smaller
  <1> HIDE DEF m
  <1>4. n \in Nat /\ n <= a + b
    BY <1>1, <1>3 DEF Smaller
  <1>5. s.a \in Nat /\ s.b \in Nat /\ s.a <= a /\ s.b <= b /\ s.a + s.b = n
    <2>1. CASE a + b = 0
      <3>1. a = 0 /\ b = 0
        BY <1>1, <2>1
      <3>2. n = 0
        BY <1>4, <2>1
      <3> HIDE DEF n
      <3> QED
        BY <2>1, <3>1, <3>2
    <2>2. CASE a + b # 0
      <3> HIDE DEF n
      <3>1. s = Split(n, a, b)
        BY <2>2
      <3> HIDE DEF s
      <3> QED
        BY <1>1, <1>4, <3>1, SplitExact
    <2> QED
      BY <2>1, <2>2
  <1> HIDE DEF s
  <1>6. SellParts(k, m, s)
    BY <1>2, <1>3, <1>5 DEF SellParts, m, a, b
  <1> QED
    BY <1>6

\* apply_partial_sell.
LEMMA PartialSellTyped ==
    ASSUME PosInv, NEW k \in Nat, ApplyPartialSell(k)
    PROVE  PosInv'
  <1>1. PICK m, s : SellParts(k, m, s)
    BY PartialSellParts
  <1>2. \A p \in Pos : Take(m, s)[p] \in Nat /\ Take(m, s)[p] <= pos[p].qty
    BY <1>1, TakeBound DEF SellParts
  <1>3. \A p \in Pos : RowTyped(Reduced(pos[p], Take(m, s)[p]))
    BY <1>2, ReducedTyped DEF PosInv
  <1>4. pos' = [p \in Pos |-> Reduced(pos[p], Take(m, s)[p])]
    BY <1>1 DEF SellParts
  <1> QED
    BY <1>3, <1>4 DEF PosInv

RstTyped == rst \in [pc : {"idle", "fetch", "load", "apply"}, bal : Nat, snap : [Pos -> Nat]]

\* Scenario B of a restart.
LEMMA RstTakeIsNat ==
    ASSUME PosInv, RstTyped, NEW k \in Nat, NEW p \in Pos
    PROVE  RstTake(k)[p] \in Nat
  <1> DEFINE M == Listed("MANUAL")
             m == Drained(M, ManualCap, k)
             have == SumFunctionOnSet(ManualCap, M)
             left == k - Smaller(k, have)
             a == FirstQty("SYSTEM_A")
             b == FirstQty("SYSTEM_B")
             s == IF left = 0 THEN [a |-> 0, b |-> 0] ELSE Split(left, a, b)
  <1>1. \A q \in Pos : rst.snap[q] \in Nat /\ ManualCap[q] \in Nat
    BY PosTyped DEF RstTyped, ManualCap
  <1>2. M \in SUBSET Pos /\ IsFiniteSet(M)
    BY PosIsFinite DEF Listed
  <1>3. a \in Nat /\ b \in Nat
    <2>1. ASSUME NEW src PROVE FirstQty(src) \in Nat
      <3>1. Listed(src) \in SUBSET Pos
        BY DEF Listed
      <3>2. CASE Listed(src) = {}
        BY <3>2 DEF FirstQty
      <3>3. CASE Listed(src) # {}
        BY <1>1, <3>1, <3>3, MaxIsIn DEF FirstQty, First
      <3> QED
        BY <3>2, <3>3
    <2> QED
      BY <2>1
  <1> HIDE DEF M, a, b
  <1>4. have \in Nat
    BY <1>1, <1>2, SumNat
  <1> HIDE DEF have
  <1>5. left \in Nat
    BY <1>4 DEF Smaller
  <1> HIDE DEF left
  <1>6. s.a \in Nat /\ s.b \in Nat
    <2>1. Split(left, a, b).a \in Nat /\ Split(left, a, b).b \in Nat
      BY <1>3, <1>5, SplitExact
    <2> QED
      BY <2>1
  <1>7. m[p] \in Nat
    BY <1>1, <1>2, DrainedBound
  <1>8. RstTake(k)[p] = m[p] + (IF p = First("SYSTEM_A") THEN s.a ELSE 0)
                             + (IF p = First("SYSTEM_B") THEN s.b ELSE 0)
    BY DEF RstTake, M, left, have, a, b
  <1> HIDE DEF s, m
  <1> QED
    BY <1>6, <1>7, <1>8

\* The recovery hands each path its share of what was sold meanwhile.
LEMMA HandleBTyped ==
    ASSUME PosInv, RstTyped, NEW k \in Nat, HandleB(k)
    PROVE  PosInv'
  <1>1. CASE pos' = pos
    BY <1>1 DEF PosInv
  <1>2. CASE /\ \A p \in Pos : RstTake(k)[p] <= pos[p].qty
             /\ pos' = [p \in Pos |-> IF RstTake(k)[p] = 0 THEN pos[p]
                                     ELSE AfterSell(pos[p], RstTake(k)[p], "MANUAL_SELL")]
    <2>1. ASSUME NEW p \in Pos, RstTake(k)[p] # 0
          PROVE  RowTyped(AfterSell(pos[p], RstTake(k)[p], "MANUAL_SELL"))
      <3>1. RstTake(k)[p] \in Nat /\ RstTake(k)[p] <= pos[p].qty
        BY <1>2, RstTakeIsNat
      <3> QED
        BY <2>1, <3>1, AfterSellTyped DEF PosInv
    <2> QED
      BY <1>2, <2>1 DEF PosInv
  <1> QED
    BY <1>1, <1>2 DEF HandleB

-----------------------------------------------------------------------------
(* The stops.  What a row is written from is its own record.                *)

\* A row is a record with these fields.
Shaped(r) ==
    r \in [src : {r.src}, status : {r.status}, qty : {r.qty}, avg : {r.avg},
           stop : {r.stop}, p5 : {r.p5}, p10 : {r.p10}]

OnLadder(r) ==
    /\ r.p5 \in BOOLEAN /\ r.p10 \in BOOLEAN
    /\ Active(r) => r.stop = Stage(r.p5, r.p10, r.avg) /\ (r.p10 => r.p5)

RowOK(r) == Shaped(r) /\ OnLadder(r)

LadderInv ==
    /\ pos = [p \in Pos |-> pos[p]]
    /\ \A p \in Pos : RowOK(pos[p])

-----------------------------------------------------------------------------
(* Rows.                                                                    *)

\* The row of a first buy starts on the first rung.
LEMMA NewRowOK ==
    ASSUME NEW src, NEW k, NEW pr
    PROVE  RowOK(NewRow(src, k, pr))
  BY DEF NewRow, RowOK, Shaped, OnLadder, Active

\* An add-buy puts the row on the first rung of its new average.
LEMMA AfterBuyOK ==
    ASSUME NEW r, NEW k, NEW pr, RowOK(r)
    PROVE  RowOK(AfterBuy(r, k, pr))
  <1> DEFINE s   == AfterBuy(r, k, pr)
             avg == WeightedAverage(r.qty, r.avg, k, pr)
  <1>1. s = [r EXCEPT !.qty = @ + k, !.avg = avg, !.stop = Stage(FALSE, FALSE, avg),
                      !.p5 = FALSE, !.p10 = FALSE,
                      !.status = IF @ = "PARTIAL_CLOSED" THEN "OPEN" ELSE @]
    BY DEF AfterBuy
  <1>2. Shaped(s) /\ s.avg = avg /\ s.stop = Stage(FALSE, FALSE, avg) /\ s.p5 = FALSE /\ s.p10 = FALSE
    BY <1>1 DEF RowOK, Shaped
  <1> QED
    BY <1>2 DEF RowOK, OnLadder

\* A sale never makes a row active that was not.
LEMMA LifecycleActive ==
    ASSUME NEW status, NEW left, Lifecycle(status, left) \in {"OPEN", "PARTIAL_CLOSED"}
    PROVE  status \in {"OPEN", "PARTIAL_CLOSED"}
  BY DEF Lifecycle

\* A sale leaves the row on its rung or, with its event, puts it on the next.
LEMMA AfterSellOK ==
    ASSUME NEW r, NEW k, NEW event, RowOK(r)
    PROVE  RowOK(AfterSell(r, k, event))
  <1> DEFINE s   == AfterSell(r, k, event)
             p5  == r.p5 \/ event \in ProfitEvent
             p10 == r.p10 \/ event = "PROFIT_TAKE_10"
             stop == IF event \in ProfitEvent THEN Stage(p5, p10, r.avg) ELSE r.stop
  <1>1. s = [r EXCEPT !.qty = @ - k, !.p5 = p5, !.p10 = p10, !.stop = stop,
                      !.status = Lifecycle(@, r.qty - k)]
    BY DEF AfterSell
  <1> HIDE DEF s
  <1>2. /\ Shaped(s) /\ s.p5 = p5 /\ s.p10 = p10 /\ s.avg = r.avg
        /\ s.stop = stop /\ s.status = Lifecycle(r.status, r.qty - k)
    <2> HIDE DEF p5, p10, stop
    <2> QED
      BY <1>1 DEF RowOK, Shaped
  <1>3. ASSUME Active(s)
        PROVE  s.stop = Stage(s.p5, s.p10, s.avg) /\ (s.p10 => s.p5)
    <2>1. Active(r)
      BY <1>2, <1>3, LifecycleActive DEF Active
    <2>2. r.stop = Stage(r.p5, r.p10, r.avg) /\ (r.p10 => r.p5)
      BY <2>1 DEF RowOK, OnLadder
    <2>3. CASE event \in ProfitEvent
      BY <1>2, <2>3
    <2>4. CASE event \notin ProfitEvent
      <3>1. event # "PROFIT_TAKE_10"
        BY <2>4 DEF ProfitEvent
      <3>2. s.p5 = r.p5 /\ s.p10 = r.p10 /\ s.stop = r.stop
        BY <1>2, <2>4, <3>1 DEF RowOK, OnLadder
      <3> QED
        BY <1>2, <2>2, <3>2
    <2> QED
      BY <2>3, <2>4
  <1>4. s.p5 \in BOOLEAN /\ s.p10 \in BOOLEAN
    BY <1>2 DEF RowOK, OnLadder
  <1>5. RowOK(s)
    BY <1>2, <1>3, <1>4 DEF RowOK, OnLadder
  <1> QED
    BY <1>5 DEF s

\* What the periodic reconciler takes off a row leaves it on its rung.
LEMMA ReducedOK ==
    ASSUME NEW r, NEW k, RowOK(r)
    PROVE  RowOK(Reduced(r, k))
  <1>1. CASE k = 0
    BY <1>1 DEF Reduced
  <1>2. CASE k # 0
    <2> DEFINE s == Reduced(r, k)
    <2>1. s = [r EXCEPT !.qty = @ - k, !.status = Lifecycle(@, r.qty - k)]
      BY <1>2 DEF Reduced
    <2>2. /\ Shaped(s) /\ s.status = Lifecycle(r.status, r.qty - k) /\ s.avg = r.avg
          /\ s.stop = r.stop /\ s.p5 = r.p5 /\ s.p10 = r.p10
      BY <2>1 DEF RowOK, Shaped
    <2> QED
      BY <2>2, LifecycleActive DEF RowOK, OnLadder, Active
  <1> QED
    BY <1>1, <1>2

-----------------------------------------------------------------------------
(* The table.                                                               *)

\* A transaction writes some rows and leaves the others.
LEMMA AddKeeps ==
    ASSUME LadderInv, NEW src, NEW k, NEW pr, AddPosition(src, k, pr)
    PROVE  LadderInv'
  <1>1. PICK p \in FreshPos : pos' = [pos EXCEPT ![p] = NewRow(src, k, pr)]
    BY DEF AddPosition
  <1>2. pos' = [q \in Pos |-> IF q = p THEN NewRow(src, k, pr) ELSE pos[q]]
    BY <1>1 DEF LadderInv
  <1> QED
    BY <1>2, NewRowOK DEF LadderInv

\* apply_buy keeps the stops on the ladder.
LEMMA BuyKeeps ==
    ASSUME LadderInv, NEW p, NEW k, NEW pr, ApplyBuy(p, k, pr)
    PROVE  LadderInv'
  <1>1. pos' = pos \/ pos' = [q \in Pos |-> IF q = p THEN AfterBuy(pos[p], k, pr) ELSE pos[q]]
    BY DEF ApplyBuy, LadderInv
  <1> QED
    BY <1>1, AfterBuyOK DEF LadderInv

\* apply_sell keeps the stops on the ladder.
LEMMA SellKeeps ==
    ASSUME LadderInv, NEW p, NEW k, NEW event, ApplySell(p, k, event)
    PROVE  LadderInv'
  <1>1. pos' = [q \in Pos |-> IF q = p THEN AfterSell(pos[p], k, event) ELSE pos[q]]
    BY DEF ApplySell, LadderInv
  <1> QED
    BY <1>1, AfterSellOK DEF LadderInv

\* apply_partial_sell keeps the stops on the ladder.
LEMMA PartialSellKeeps ==
    ASSUME LadderInv, NEW k, ApplyPartialSell(k)
    PROVE  LadderInv'
  <1> DEFINE qty  == [p \in Pos |-> pos[p].qty]
             a    == QtyIn({"SYSTEM_A"})
             b    == QtyIn({"SYSTEM_B"})
             m    == Smaller(k, QtyIn({"MANUAL"}))
             s    == IF a + b = 0 THEN [a |-> 0, b |-> 0] ELSE Split(Smaller(k - m, a + b), a, b)
             take == [p \in Pos |-> Drained(ActiveOf({"MANUAL"}), qty, m)[p]
                                    + Drained(ActiveOf({"SYSTEM_A"}), qty, s.a)[p]
                                    + Drained(ActiveOf({"SYSTEM_B"}), qty, s.b)[p]]
  <1>1. pos' = [p \in Pos |-> Reduced(pos[p], take[p])]
    BY DEF ApplyPartialSell
  <1> HIDE DEF take
  <1> QED
    BY <1>1, ReducedOK DEF LadderInv

\* So does the recovery, which sells path by path.
LEMMA HandleBKeeps ==
    ASSUME LadderInv, NEW k, HandleB(k)
    PROVE  LadderInv'
  <1>1. pos' = pos \/ pos' = [p \in Pos |-> IF RstTake(k)[p] = 0 THEN pos[p]
                                          ELSE AfterSell(pos[p], RstTake(k)[p], "MANUAL_SELL")]
    BY DEF HandleB
  <1> QED
    BY <1>1, AfterSellOK DEF LadderInv

-----------------------------------------------------------------------------
(* The specification.                                                       *)

\* An empty ledger is on the ladder.
LEMMA LadderInit ==
    ASSUME Init
    PROVE  LadderInv
  BY DEF Init, LedgerInit, LadderInv, RowOK, Shaped, OnLadder, NoRow, Active

\* No step takes a stop off the ladder.
LEMMA LadderStep ==
    ASSUME LadderInv, [Next]_vars
    PROVE  LadderInv'
  <1>1. ASSUME pos' = pos
        PROVE  LadderInv'
    BY <1>1 DEF LadderInv
  <1>2. CASE ExitStep
    <2>1. CASE Apply
      BY <1>1, <2>1, SellKeeps DEF Apply
    <2>2. CASE Tick \/ Pick \/ NoBid \/ SendSell \/ SendRaises \/ JudgeFill \/ CancelSell
      BY <1>1, <2>2 DEF Tick, Pick, NoBid, SendSell, SendRaises, JudgeFill, CancelSell, Keeps
    <2> QED
      BY <1>2, <2>1, <2>2 DEF ExitStep, Evaluate
  <1>3. CASE BrokerStep
    BY <1>1, <1>3 DEF BrokerStep
  <1>4. CASE Reconcile
    <2>1. CASE RecApply
      BY <1>1, <2>1, AddKeeps, PartialSellKeeps DEF RecApply, ApplyManualInsert
    <2>2. CASE RecFetch \/ RecLoad \/ RecTrack \/ RecFails
      BY <1>1, <2>2 DEF RecFetch, RecLoad, RecTrack, RecFails
    <2> QED
      BY <1>4, <2>1, <2>2 DEF Reconcile
  <1>5. CASE Restart
    <2>1. CASE RstApply
      BY <1>1, <2>1, AddKeeps, BuyKeeps, HandleBKeeps DEF RstApply, HandleA, HandleD
    <2>2. CASE RstFetch \/ RstLoad \/ RstFails
      BY <1>1, <2>2 DEF RstFetch, RstLoad, RstFails
    <2> QED
      BY <1>5, <2>1, <2>2 DEF Restart
  <1>6. CASE BuyRecorded
    BY <1>1, <1>6, AddKeeps DEF BuyRecorded
  <1>7. CASE \E src \in BuyPath, k \in BuyQty : SystemBuys(src, k)
    BY <1>1, <1>7 DEF SystemBuys
  <1>8. CASE UserTrades \/ StopTracking \/ PriceMoves \/ Crash
    BY <1>1, <1>8 DEF UserTrades, StopTracking, PriceMoves, Crash
  <1>9. CASE UNCHANGED vars
    BY <1>1, <1>9 DEF vars
  <1> QED
    BY <1>2, <1>3, <1>4, <1>5, <1>6, <1>7, <1>8, <1>9 DEF Next

\* An open position's stop is the one its average and its profit-takes call
\* for, whatever order exits, reconcilers, restarts and add-buys wrote the row
\* in, and however many rows, prices and shares there are.
THEOREM StopsStayOnLadder == Spec => []StopOnLadder
  <1>1. LadderInv => StopOnLadder
    BY DEF LadderInv, RowOK, OnLadder, StopOnLadder
  <1> QED
    BY LadderInit, LadderStep, <1>1, PTL DEF Spec

=============================================================================
