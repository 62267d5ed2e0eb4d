------------------------- MODULE MCCrossLiquidation -------------------------
(* Model-checking instance of CrossLiquidation. *)
EXTENDS CrossLiquidation

CONSTANTS long, short

MCMarket == {long, short}
=============================================================================
