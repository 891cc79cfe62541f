--------------------------- MODULE QuorumSettlement ---------------------------
(***************************************************************************)
(* The quorum of settlement verifiers (faar/settlement.py).  One call asks *)
(* every source in turn and combines their records; the venue, which       *)
(* serves as the venue contract says and does not lose its book, moves on  *)
(* between two answers.  An honest source reports what it sees, at the     *)
(* finality it sees, or nothing; a faulty one reports anything.            *)
(***************************************************************************)
EXTENDS VenueContract, Integers, Sequences, FiniteSets

CONSTANTS
  Key,       \* the one client identity asked about
  Sources,   \* number of sources, asked in the order 1..Sources
  Quorum,    \* votes a fact needs
  Faulty,    \* sources whose records need not be true
  Lies       \* records a faulty source may return

Statuses ==
  {"NONE", "PARTIALLY_FILLED", "CONFIRMED", "FINALIZED", "CANCELLED", "UNKNOWN", "CONTRADICTORY"}

\* What a source votes on: status, effect identity and numeric amount.
Fact == [status : Statuses, effect : {"venue", "foreign", "none"}, amount : 0..Size]
\* bound: the record carries the hash of the request asked about.
Record == [fact : Fact, authoritative : BOOLEAN, bound : BOOLEAN]

ASSUME QuorumConstants ==
  /\ Keys = {Key}
  /\ Quorum \in Nat /\ 2 <= Quorum
  /\ Sources \in Nat /\ Quorum <= Sources
  /\ Faulty \subseteq 1..Sources /\ Cardinality(Faulty) < Quorum
  /\ Lies \subseteq Record

VARIABLES
  final,   \* the fill has reached finality at the venue
  votes,   \* records of the sources asked so far in this call
  truths,  \* facts that were true at some moment of this call
  last     \* last authoritative, uncontested fact returned by a call

vars == <<book, admitted, final, votes, truths, last>>

None == [status |-> "NONE", effect |-> "none", amount |-> 0]

\* The fact that is true of an order.
Truth(o, isFinal) ==
  CASE o.state = "ABSENT"    -> None
    [] o.state = "OPEN"      -> [status |-> "PARTIALLY_FILLED", effect |-> "venue", amount |-> o.filled]
    [] o.state = "CANCELLED" -> [status |-> "CANCELLED", effect |-> "venue", amount |-> o.filled]
    [] o.state = "FILLED"    -> [status |-> IF isFinal THEN "FINALIZED" ELSE "CONFIRMED",
                                 effect |-> "venue", amount |-> o.filled]

\* Finality aside.
Lagging(f) == IF f.status = "FINALIZED" THEN [f EXCEPT !.status = "CONFIRMED"] ELSE f

TypeOK ==
  /\ ContractTypeOK
  /\ final \in BOOLEAN /\ (final => book[Key].state = "FILLED")
  /\ votes \in Seq(Record) /\ Len(votes) <= Sources
  /\ truths \subseteq Fact
  /\ last \in Fact

Init ==
  /\ ContractInit
  /\ final = FALSE
  /\ votes = <<>>
  /\ truths = {None}
  /\ last = None

-----------------------------------------------------------------------------
(* The aggregate of a complete round of answers *)

Unanswered == [fact |-> [None EXCEPT !.status = "UNKNOWN"], authoritative |-> FALSE, bound |-> FALSE]

\* Slip: a source that cannot be reached is read as one that sees no effect.
SilenceIsAbsence == [fact |-> None, authoritative |-> TRUE, bound |-> TRUE]

\* A source that raises, returns something else than a record or does not know.
Silence == Unanswered

Counted == {i \in DOMAIN votes : votes[i].authoritative /\ votes[i].bound}
Mismatches == {i \in DOMAIN votes : votes[i].authoritative /\ ~votes[i].bound}
Facts == {votes[i].fact : i \in Counted}
Count(f) == Cardinality({i \in Counted : votes[i].fact = f})

\* Slip: any confirmed and any finalized fact are taken for one.
LagOfAny ==
  /\ Mismatches = {}
  /\ \E f \in Facts : f.status = "FINALIZED" /\ {g.status : g \in Facts} = {"CONFIRMED", "FINALIZED"}

\* Slip: finality is compared like everything else.
NeverLag == FALSE

\* Exactly two facts, which differ in finality only.
FinalityLag ==
  /\ Mismatches = {}
  /\ \E f \in Facts : f.status = "FINALIZED" /\ Facts = {f, Lagging(f)} /\ f # Lagging(f)

\* Finality a quorum has reached is not vetoed by a lagging member; otherwise
\* the weaker status carries the votes of both.
Tally ==
  IF FinalityLag
  THEN LET f == CHOOSE g \in Facts : g.status = "FINALIZED" IN
       IF Count(f) >= Quorum THEN [facts |-> {f}, count |-> Count(f)]
       ELSE [facts |-> {Lagging(f)}, count |-> Cardinality(Counted)]
  ELSE [facts |-> Facts, count |-> Cardinality(Counted)]

Contested == Mismatches # {} \/ Cardinality(Tally.facts) > 1

Reached == Tally.count >= Quorum

\* The record verify returns.
Verdict ==
  CASE Contested -> [fact |-> [None EXCEPT !.status = "CONTRADICTORY"],
                     authoritative |-> TRUE, bound |-> TRUE]
    [] ~Contested /\ ~Reached -> Unanswered
    [] ~Contested /\ Reached  -> [fact |-> CHOOSE f \in Tally.facts : TRUE,
                                  authoritative |-> TRUE, bound |-> TRUE]

-----------------------------------------------------------------------------
(* One call of verify, and the venue meanwhile *)

Answered == Len(votes) = Sources

\* What source i may return now.  Sources cross the finality threshold at
\* different times; none reports a finality the venue has not reached.
Answers(i) ==
  LET truth == Truth(book[Key], final) IN
  IF i \in Faulty THEN Lies \cup {Silence}
  ELSE {[fact |-> f, authoritative |-> TRUE, bound |-> TRUE] : f \in {truth, Lagging(truth)}}
         \cup {Silence}

Ask ==
  /\ ~Answered
  /\ \E r \in Answers(Len(votes) + 1) : votes' = Append(votes, r)
  /\ UNCHANGED <<book, admitted, final, truths, last>>

\* The verdict reaches the runtime, which will ask again.
Return ==
  /\ Answered
  /\ last' = IF Verdict.authoritative /\ Verdict.fact.status # "CONTRADICTORY"
             THEN Verdict.fact ELSE last
  /\ votes' = <<>>
  /\ truths' = {Truth(book[Key], final)}
  /\ UNCHANGED <<book, admitted, final>>

\* The venue's order changes, or its fill becomes final.  The contract's Forget is left
\* out: what a venue no longer knows no source can report.
VenueMoves ==
  /\ Serve
  /\ final' \in {final, book'[Key].state = "FILLED"}
  /\ truths' = truths \cup {Truth(book'[Key], final')}
  /\ UNCHANGED <<votes, last>>

Next == Ask \/ Return \/ VenueMoves

Spec == Init /\ [][Next]_vars

-----------------------------------------------------------------------------
(* What must hold *)

Decided == Answered /\ Verdict.authoritative /\ Verdict.fact.status # "CONTRADICTORY"

\* An authoritative, uncontested verdict is a fact that was true of the venue at
\* some moment of the call, or the same fact at a weaker finality: fewer faulty
\* sources than the quorum cannot make verify report an effect, an absence, an
\* amount or a finality that never was, although the answers of one call were
\* given at different moments.
VerdictWasTrue ==
  /\ TypeOK
  /\ Decided => \E t \in truths : Verdict.fact \in {t, Lagging(t)}

\* Sources that fail or lag in finality neither block nor contest a settlement:
\* while the order stands still and the faulty sources return nothing
\* authoritative, a call is never CONTRADICTORY, and with a quorum of answers it
\* decides (the loop's per-source guard, the finality merge, quorum-not-reached).
HonestQuorumDecides ==
  /\ Answered
  /\ Cardinality({Lagging(t) : t \in truths}) = 1
  /\ \A i \in Faulty : ~votes[i].authoritative
  => /\ Verdict.fact.status # "CONTRADICTORY"
     /\ Cardinality({i \in 1..Sources : votes[i].authoritative}) >= Quorum => Verdict.authoritative

Rank(f) == CASE f.status = "NONE" -> 0
             [] f.status = "PARTIALLY_FILLED" -> 1
             [] OTHER -> 2

\* Verdicts follow the order's life: what one call established a later one does
\* not take back, so the runtime never sees an effect vanish, shrink, or change
\* from filled to cancelled on the word of the quorum.
VerdictsAdvance ==
  Decided =>
    /\ Rank(Verdict.fact) >= Rank(last)
    /\ Verdict.fact.amount >= last.amount
    /\ Rank(last) = 2 => Lagging(Verdict.fact) = Lagging(last)

-----------------------------------------------------------------------------
(* The inductive invariant *)

\* Fact g may be true after fact f was.
Follows(f, g) ==
  /\ Rank(g) >= Rank(f)
  /\ g.amount >= f.amount
  /\ Rank(f) = 2 => Lagging(g) = Lagging(f)

\* The records an honest source may have given in this call.
Honest(r) ==
  \/ r = Silence
  \/ /\ r.authoritative /\ r.bound
     /\ \E t \in truths : r.fact \in {t, Lagging(t)}

\* Between the last verdict and now the venue's truth only moved on, and every answer
\* of an honest source was true at some moment of the call.
QuorumInv ==
  /\ TypeOK
  /\ Truth(book[Key], final) \in truths
  /\ \A t \in truths :
       /\ t.status \notin {"UNKNOWN", "CONTRADICTORY"}
       /\ Follows(last, t) /\ Follows(t, Truth(book[Key], final))
  /\ \A i \in DOMAIN votes \ Faulty : Honest(votes[i])
=============================================================================
