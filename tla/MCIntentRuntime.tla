--------------------------- MODULE MCIntentRuntime ---------------------------
(* Small instances of IntentRuntime for TLC: one grant of one principal.     *)
EXTENDS IntentRuntime, TLC

CONSTANTS g1, p1, i1

MCPrincipalOf == [g \in Grants |-> p1]
MCGrantOf == [i \in Intents |-> g1]
MCDeadline == [i \in Intents |-> 3]
ShortDeadline == [i \in Intents |-> 2]
NoLies == {}

\* Whatever a verifier could say with authority of the order of i1, right or
\* wrong; reports naming another order, none, or a malformed one; the same without
\* authority, or bound to another request; and records that are no records.
Lie(status, auth, bound, effect, amount) ==
  [status |-> status, auth |-> auth, bound |-> bound, effect |-> effect, amount |-> amount]
AnyAnswer ==
  {Lie(s, TRUE, TRUE, i1, a) : s \in Reporting, a \in Amounts}
    \cup {Lie(s, TRUE, TRUE, e, Size) : s \in Reporting, e \in {"foreign", "none", "bad"}}
    \cup {Lie(s, FALSE, FALSE, i1, Size) : s \in Reporting}
    \cup {Lie(s, TRUE, FALSE, i1, Size) : s \in Reporting}
    \cup {Lie("NONE", auth, TRUE, "none", None) : auth \in BOOLEAN}
    \cup {Lie("CONTRADICTORY", TRUE, TRUE, "none", None), Lie("MALFORMED", FALSE, FALSE, "none", None)}

RuntimeSymmetry == Permutations(Issuers)
=============================================================================
