----------------------------- MODULE BoxContract -----------------------------
(***************************************************************************)
(* What the buying side promises about one stock's boxes, whatever happens  *)
(* inside it: a box waits, and then is either closed for good or triggered  *)
(* once, in the same step as its one position appears; the position has at  *)
(* least one share, no more than were asked for and no more than the broker *)
(* has bought for the box.  Shares bought are never given back.             *)
(***************************************************************************)
EXTENDS Naturals

CONSTANTS Box, Target

VARIABLES box, posn, bought

contractVars == <<box, posn, bought>>

Init ==
    /\ box = [b \in Box |-> "WAITING"]
    /\ posn = [b \in Box |-> [rows |-> 0, qty |-> 0]]
    /\ bought = [b \in Box |-> 0]

BrokerBuys(b) ==
    /\ bought'[b] > bought[b]
    /\ bought' = [bought EXCEPT ![b] = bought'[b]]
    /\ UNCHANGED <<box, posn>>

Trigger(b) ==
    /\ box[b] = "WAITING"
    /\ posn[b].rows = 0
    /\ posn'[b].qty \in 1 .. Target
    /\ posn'[b].qty <= bought[b]
    /\ posn' = [posn EXCEPT ![b] = [rows |-> 1, qty |-> posn'[b].qty]]
    /\ box' = [box EXCEPT ![b] = "TRIGGERED"]
    /\ UNCHANGED bought

Close(b) ==
    /\ box[b] = "WAITING"
    /\ box'[b] \in {"CANCELLED", "INVALIDATED"}
    /\ box' = [box EXCEPT ![b] = box'[b]]
    /\ UNCHANGED <<posn, bought>>

Next == \E b \in Box : BrokerBuys(b) \/ Trigger(b) \/ Close(b)

Spec == Init /\ [][Next]_contractVars

=============================================================================
