-------------------------------- MODULE Tasks --------------------------------
(***************************************************************************)
(* What the modules of the engine share: the parts that have been built in  *)
(* this process and still run, and the budget of things that go wrong or    *)
(* that others do (failed calls, lost connections, restarts, the acts of    *)
(* the market and of the user).                                             *)
(***************************************************************************)
EXTENDS Wiring

CONSTANTS
    FlagSets,   \* the feature-flag configurations considered
    MaxUpsets   \* bound: upsets in a behaviour, for each configuration

ASSUME TasksAssumption == MaxUpsets \in [FlagSets -> Nat]

VARIABLES
    flags,      \* the feature flags; "telegram" stands for its credentials
    up,         \* the parts that are built and running
    upsets      \* history: upsets so far

TasksTypeOK == flags \in FlagSets /\ up \subseteq Part /\ upsets \in 0 .. MaxUpsets[flags]

Runs(part) == part \in up

Upset == upsets < MaxUpsets[flags] /\ upsets' = upsets + 1

Smooth == UNCHANGED upsets

=============================================================================
