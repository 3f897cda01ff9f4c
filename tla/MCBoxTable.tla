----------------------------- MODULE MCBoxTable -----------------------------
(* Small instances of BoxTable.                                             *)
EXTENDS BoxTable, TLC

\* Two ranges that touch, and one that overlaps both.
ThreeRanges == {[lo |-> 1, hi |-> 2], [lo |-> 2, hi |-> 3], [lo |-> 1, hi |-> 3]}

OneRange == {[lo |-> 1, hi |-> 2]}

BoxSymmetry == Permutations(Box)

=============================================================================
