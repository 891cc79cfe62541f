-------------------------- MODULE MCQuorumSettlement --------------------------
(***************************************************************************)
(* Instance of QuorumSettlement: a faulty source may claim a fill or an    *)
(* absence early or late, a wrong amount, a foreign effect, or answer for  *)
(* another request.                                                        *)
(***************************************************************************)
EXTENDS QuorumSettlement

Says(status, effect, amount, bound) ==
  [fact |-> [status |-> status, effect |-> effect, amount |-> amount],
   authoritative |-> TRUE, bound |-> bound]

MCLies ==
  {Says("FINALIZED", "venue", Size, TRUE), Says("CONFIRMED", "venue", Size, TRUE),
   Says("FINALIZED", "venue", Size - 1, TRUE), Says("FINALIZED", "foreign", Size, TRUE),
   Says("CANCELLED", "venue", 0, TRUE), Says("PARTIALLY_FILLED", "venue", Size, TRUE),
   Says("NONE", "none", 0, TRUE), Says("NONE", "none", 0, FALSE)}
=============================================================================
