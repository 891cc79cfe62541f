-------------------------- MODULE MCAuthorityAnchor --------------------------
(* Small instances of AuthorityAnchor for TLC: one grant alone, or one with *)
(* another that only shares its halts.                                      *)
EXTENDS AuthorityAnchor

CONSTANTS g1, g2

OneScope == {{g1}}
SharedScope == {{g1, g2}}
FourEach == [g \in Grants |-> 4]
Epochs == [g \in Grants |-> IF g = g1 THEN 3 ELSE 2]
Fences == [g \in Grants |-> IF g = g1 THEN 2 ELSE 0]
=============================================================================
