------------------------------ MODULE MCBuyPath ------------------------------
(* BuyPath for TLC, in the instances of the Buy*.cfg files.  Order numbers   *)
(* are handed out in one fixed order, so they are not a symmetry set.        *)
EXTENDS BuyPath, TLC

=============================================================================
