-------------------------- MODULE PositionContract --------------------------
(***************************************************************************)
(* What the positions table promises about one position, whoever writes it: *)
(* it is opened once with shares, sheds shares and climbs its stop ladder,  *)
(* is bought more and then starts the ladder again, and is closed for good  *)
(* in the step that takes its last share.                                   *)
(***************************************************************************)
EXTENDS Naturals

CONSTANT Pos

VARIABLE life

Unborn == [phase |-> "unborn", shares |-> 0, rung |-> 0]

Init == life = [p \in Pos |-> Unborn]

\* The positions that a step writes keep to lifeStep, the others stay.
Live(l) == l.phase = "live" /\ l.shares > 0

Open(a, b) == a = Unborn /\ Live(b) /\ b.rung = 1

Shed(a, b) == Live(a) /\ Live(b) /\ b.shares < a.shares /\ b.rung >= a.rung

Grow(a, b) == Live(a) /\ Live(b) /\ b.shares > a.shares /\ b.rung = 1

Close(a, b) ==
    /\ Live(a)
    /\ b.phase = "closed"
    /\ b.shares = 0
    /\ b.rung >= a.rung

Step(a, b) == Open(a, b) \/ Shed(a, b) \/ Grow(a, b) \/ Close(a, b)

Next ==
    /\ DOMAIN life' = Pos
    /\ \A p \in Pos : life'[p] = life[p] \/ Step(life[p], life'[p])

Spec == Init /\ [][Next]_life

=============================================================================
