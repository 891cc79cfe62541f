---------------------------- MODULE MCPaperVenue ----------------------------
(* A small paper venue for TLC: a resting BUY; an IOC SELL under the same    *)
(* identity; a second resting BUY, for which the cash may not suffice, and a *)
(* request that is refused at sight, under another identity; and a cancel of *)
(* the first.  Only the first identity is ever submitted twice.              *)
EXTENDS PaperVenue

MCKeyOf == [r \in Requests |->
  CASE r \in {"buy", "sell"} -> "k1" [] r \in {"buy2", "odd"} -> "k2" [] r = "cancel" -> "k3"]
MCShape == [r \in Requests |->
  CASE r \in {"buy", "buy2", "odd"} -> [kind |-> "BUY", tif |-> "GTC", limit |-> 1]
    [] r = "sell"   -> [kind |-> "SELL", tif |-> "IOC", limit |-> 2]
    [] r = "cancel" -> [kind |-> "CANCEL", target |-> "k1"]]
MCMaxAttempts == [k \in Keys |-> IF k = "k1" THEN 2 ELSE 1]
=============================================================================
