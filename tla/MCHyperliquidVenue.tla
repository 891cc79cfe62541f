------------------------- MODULE MCHyperliquidVenue -------------------------
(***************************************************************************)
(* Instance of HyperliquidVenue: one intent whose quotient rounds up and   *)
(* may be filled in two parts at different prices, one that buys one lot.  *)
(***************************************************************************)
EXTENDS HyperliquidVenue

CONSTANTS i1, i2

MCNotional == i1 :> 2 @@ i2 :> 3
MCLimit == i1 :> 2 @@ i2 :> 4
=============================================================================
