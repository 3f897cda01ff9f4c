----------------------------- MODULE MCHoldings -----------------------------
(* Small instances of Holdings: constants and symmetry for TLC.             *)
EXTENDS Holdings, TLC

OrderSymmetry == Permutations(Order)

\* 95 is below the stop of a lot bought at 105 and of a lot bought at 95 that
\* has taken both profits; 105 is above +10 % of a lot bought at 95.
TwoPrices == {95, 105}

OnePrice == {100}

=============================================================================
