------------------------------- MODULE Outside -------------------------------
(***************************************************************************)
(* What reaches the parts added to Engine from outside: REST calls, updates *)
(* of Telegram, the passing of time.  Each kind has its own budget, for     *)
(* each configuration of the feature flags.                                 *)
(***************************************************************************)
EXTENDS Engine

CONSTANT MaxMoves   \* bound: moves of each kind, for each configuration

Kind == {"call", "update", "period"}

ASSUME OutsideAssumption == MaxMoves \in [FlagSets -> [Kind -> Nat]]

VARIABLE moves      \* history: moves so far

OutsideTypeOK == moves \in [Kind -> Nat]

OutsideInit == moves = [k \in Kind |-> 0]

Move(kind) ==
    /\ moves[kind] < MaxMoves[flags][kind]
    /\ moves' = [moves EXCEPT ![kind] = @ + 1]

=============================================================================
