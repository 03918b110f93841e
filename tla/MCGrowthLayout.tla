---------------------------- MODULE MCGrowthLayout ----------------------------
(* GrowthLayout for TLC.  Discards play no part in the layout arithmetic. *)
EXTENDS GrowthLayout

MCDiscardPassthrough == {}
=============================================================================
