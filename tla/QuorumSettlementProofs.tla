------------------------ MODULE QuorumSettlementProofs ------------------------
(***************************************************************************)
(* The quorum verifier, for any number of sources, any quorum larger than  *)
(* the number of faulty sources, and whatever those report.  A verdict     *)
(* rests on at least one honest vote, and an honest vote was true at some  *)
(* moment of the call.                                                     *)
(***************************************************************************)
EXTENDS QuorumSettlement, FiniteSetTheorems, TLAPS

-----------------------------------------------------------------------------
(* Facts *)

\* The fact that is true of an order is well formed, and says what the order is.
LEMMA TruthFact ==
  ASSUME NEW o \in Order, NEW b \in BOOLEAN
  PROVE  /\ Truth(o, b) \in Fact
         /\ Truth(o, b).status \notin {"UNKNOWN", "CONTRADICTORY"}
         /\ Truth(o, b).amount = o.filled
         /\ o.state = "ABSENT" => Truth(o, b) = None
         /\ o.state = "OPEN" => Truth(o, b).status = "PARTIALLY_FILLED"
         /\ o.state \in {"FILLED", "CANCELLED"} =>
              Truth(o, b).status \in {"CANCELLED", "CONFIRMED", "FINALIZED"}
  <1>1. o.filled \in 0 .. Size /\ o.state \in {"ABSENT", "OPEN", "FILLED", "CANCELLED"}
    BY DEF Order
  <1>2. o.state = "ABSENT" => o.filled = 0
    BY DEF Order
  <1>3. CASE o.state = "ABSENT"
    BY <1>1, <1>2, <1>3, ContractConstants DEF Truth, None, Fact, Statuses
  <1>4. CASE o.state = "OPEN"
    BY <1>1, <1>4 DEF Truth, Fact, Statuses
  <1>5. CASE o.state = "CANCELLED"
    BY <1>1, <1>5 DEF Truth, Fact, Statuses
  <1>6. CASE o.state = "FILLED"
    BY <1>1, <1>6 DEF Truth, Fact, Statuses
  <1> QED
    BY <1>1, <1>3, <1>4, <1>5, <1>6

\* A weaker finality changes the status only, and only once.
LEMMA LaggingFact ==
  ASSUME NEW f \in Fact
  PROVE  /\ Lagging(f) \in Fact
         /\ Lagging(f).amount = f.amount /\ Lagging(f).effect = f.effect
         /\ Lagging(f).status = IF f.status = "FINALIZED" THEN "CONFIRMED" ELSE f.status
         /\ f.status # "FINALIZED" => Lagging(f) = f
         /\ Lagging(Lagging(f)) = Lagging(f)
         /\ Rank(Lagging(f)) = Rank(f)
  <1>1. CASE f.status = "FINALIZED"
    <2>1. f = [status |-> f.status, effect |-> f.effect, amount |-> f.amount]
      BY DEF Fact
    <2>2. Lagging(f) = [status |-> "CONFIRMED", effect |-> f.effect, amount |-> f.amount]
      BY <1>1, <2>1 DEF Lagging
    <2>3. Lagging(f) \in Fact /\ Lagging(f).status = "CONFIRMED"
      BY <2>2 DEF Fact, Statuses
    <2>4. Lagging(Lagging(f)) = Lagging(f)
      BY <2>3 DEF Lagging
    <2>5. Rank(Lagging(f)) = Rank(f)
      BY <1>1, <2>3 DEF Rank
    <2> QED
      BY <1>1, <2>2, <2>3, <2>4, <2>5
  <1>2. CASE f.status # "FINALIZED"
    BY <1>2 DEF Lagging
  <1> QED
    BY <1>1, <1>2

\* Ranks are numbers from 0 to 2.
LEMMA RankNumber ==
  ASSUME NEW f
  PROVE  Rank(f) \in {0, 1, 2}
  BY DEF Rank

\* What may follow a fact may follow its lagging form, and its own lagging form may.
LEMMA FollowsLagging ==
  ASSUME NEW f \in Fact, NEW g \in Fact, Follows(f, g)
  PROVE  Follows(Lagging(f), g) /\ Follows(f, Lagging(g))
  BY LaggingFact, RankNumber DEF Follows, Fact

\* Following is reflexive and transitive.
LEMMA FollowsOrder ==
  ASSUME NEW f \in Fact, NEW g \in Fact, NEW h \in Fact
  PROVE  /\ Follows(f, f)
         /\ Follows(f, g) /\ Follows(g, h) => Follows(f, h)
  <1>1. /\ Rank(f) \in {0, 1, 2} /\ Rank(g) \in {0, 1, 2} /\ Rank(h) \in {0, 1, 2}
        /\ f.amount \in Int /\ g.amount \in Int /\ h.amount \in Int
    BY RankNumber, ContractConstants DEF Fact
  <1> QED
    BY <1>1 DEF Follows

\* A step of a venue that keeps its contract moves the truth on.
LEMMA TruthAdvances ==
  ASSUME TypeOK, TypeOK', VenueMoves
  PROVE  Follows(Truth(book[Key], final), Truth(book'[Key], final'))
  <1>1. /\ Key \in Keys /\ book[Key] \in Order /\ book'[Key] \in Order
        /\ final \in BOOLEAN /\ final' \in BOOLEAN
        /\ final => book[Key].state = "FILLED"
        /\ book'[Key] \in Moves(Key)
    BY QuorumConstants DEF TypeOK, ContractTypeOK, VenueMoves, Serve
  <1> DEFINE f == Truth(book[Key], final)
             g == Truth(book'[Key], final')
  <1>2. /\ f \in Fact /\ g \in Fact
        /\ f.amount = book[Key].filled /\ g.amount = book'[Key].filled
        /\ f.status \notin {"UNKNOWN", "CONTRADICTORY"}
        /\ g.status \notin {"UNKNOWN", "CONTRADICTORY"}
    BY <1>1, TruthFact
  <1>3. book[Key].filled \in Nat /\ book'[Key].filled \in Nat
    BY <1>1, ContractConstants DEF Order
  <1>4. CASE book'[Key] = book[Key]
    <2>1. Lagging(g) = Lagging(f) /\ Rank(f) = Rank(g)
      <3>1. CASE book[Key].state # "FILLED"
        BY <1>1, <1>4, <3>1 DEF Truth, Order
      <3>2. CASE book[Key].state = "FILLED"
        <4>1. /\ f = [status |-> IF final THEN "FINALIZED" ELSE "CONFIRMED",
                      effect |-> "venue", amount |-> book[Key].filled]
              /\ g = [status |-> IF final' THEN "FINALIZED" ELSE "CONFIRMED",
                      effect |-> "venue", amount |-> book[Key].filled]
          BY <1>4, <3>2 DEF Truth
        <4> QED
          BY <4>1 DEF Lagging, Rank
      <3> QED
        BY <3>1, <3>2
    <2>2. g.amount = f.amount /\ f.amount \in Nat
      BY <1>2, <1>3, <1>4
    <2> HIDE DEF f, g
    <2>3. Rank(f) \in {0, 1, 2} /\ Rank(g) \in {0, 1, 2}
      BY RankNumber
    <2>4. Follows(f, g)
      BY <2>1, <2>2, <2>3 DEF Follows
    <2> QED
      BY <2>4 DEF f, g
  <1>5. CASE book'[Key] # book[Key]
    <2>1. /\ book'[Key].state # "ABSENT"
          /\ \/ book[Key].state = "ABSENT"
             \/ book[Key].state = "OPEN" /\ book'[Key].filled >= book[Key].filled
      BY <1>1, <1>5 DEF Moves
    <2>2. f.amount <= g.amount
      BY <1>1, <1>2, <1>3, <2>1 DEF Order
    <2>3. /\ f.status \in {"NONE", "PARTIALLY_FILLED"}
          /\ g.status # "NONE"
          /\ f.status = "NONE" \/ g.status # "NONE"
      BY <1>1, <2>1, TruthFact DEF None, Order
    <2> HIDE DEF f, g
    <2>4. Rank(f) <= Rank(g) /\ Rank(f) # 2
      BY <2>3 DEF Rank
    <2>5. f.amount \in Int /\ g.amount \in Int /\ Rank(f) \in {0, 1, 2} /\ Rank(g) \in {0, 1, 2}
      BY <1>2, <1>3, RankNumber
    <2> QED
      BY <2>2, <2>4, <2>5 DEF Follows, f, g
  <1> QED
    BY <1>4, <1>5

-----------------------------------------------------------------------------
(* Counting votes *)

\* The votes that count are finitely many.
LEMMA CountedFinite ==
  ASSUME TypeOK
  PROVE  /\ Counted \subseteq 1 .. Sources /\ IsFiniteSet(Counted) /\ IsFiniteSet(Facts)
         /\ Cardinality(Counted) \in Nat /\ Cardinality(Facts) \in Nat
         /\ \A f : Count(f) \in Nat
  <1>1. DOMAIN votes = 1 .. Len(votes) /\ Len(votes) \in Nat /\ Len(votes) <= Sources
    BY DEF TypeOK
  <1>2. Counted \subseteq 1 .. Sources
    BY <1>1, QuorumConstants DEF Counted
  <1>3. IsFiniteSet(1 .. Sources)
    BY FS_Interval, QuorumConstants
  <1>4. \A T \in SUBSET Counted : IsFiniteSet(T) /\ Cardinality(T) \in Nat
    BY <1>2, <1>3, FS_Subset, FS_CardinalityType
  <1>5. IsFiniteSet(Facts)
    <2> DEFINE f == [i \in Counted |-> votes[i].fact]
    <2>1. f \in Surjection(Counted, Facts)
      BY DEF Surjection, Facts
    <2> QED
      BY <1>4, <2>1, FS_Surjection
  <1>6. \A f : Count(f) \in Nat
    BY <1>4 DEF Count
  <1> QED
    BY <1>2, <1>4, <1>5, <1>6, FS_CardinalityType

\* The facts voted on are well formed.
LEMMA VotedFact ==
  ASSUME TypeOK
  PROVE  Facts \subseteq Fact
  <1>1. \A i \in DOMAIN votes : votes[i] \in Record
    BY DEF TypeOK
  <1>2. \A i \in Counted : votes[i].fact \in Fact
    BY <1>1 DEF Counted, Record
  <1> QED
    BY <1>2 DEF Facts

\* A quorum of votes holds an honest one: the faulty sources are too few.
LEMMA HonestVote ==
  ASSUME TypeOK, NEW S \in SUBSET Counted, Cardinality(S) >= Quorum
  PROVE  \E i \in S : i \notin Faulty
  <1> SUFFICES ASSUME S \subseteq Faulty PROVE FALSE
    OBVIOUS
  <1>1. IsFiniteSet(Faulty)
    <2>1. IsFiniteSet(1 .. Sources)
      BY FS_Interval, QuorumConstants
    <2> QED
      BY <2>1, FS_Subset, QuorumConstants
  <1>2. Cardinality(S) <= Cardinality(Faulty)
    BY <1>1, FS_Subset
  <1>3. Cardinality(S) \in Nat /\ Cardinality(Faulty) \in Nat
    BY <1>1, FS_CardinalityType, FS_Subset
  <1> QED
    BY <1>2, <1>3, QuorumConstants

\* An uncontested, reached tally is about one fact.
LEMMA OneFact ==
  ASSUME TypeOK, NEW S, IsFiniteSet(S), S # {}, ~(Cardinality(S) > 1)
  PROVE  \E f : S = {f}
  <1>1. Cardinality(S) \in Nat /\ Cardinality(S) # 0
    BY FS_CardinalityType, FS_EmptySet
  <1>2. Cardinality(S) = 1
    BY <1>1
  <1> QED
    BY <1>2, FS_Singleton

\* The vote of an honest source that counts is a truth of the call, finality aside.
LEMMA HonestFact ==
  ASSUME QuorumInv, NEW i \in Counted, i \notin Faulty
  PROVE  \E t \in truths : votes[i].fact \in {t, Lagging(t)}
  <1>1. i \in DOMAIN votes /\ votes[i].authoritative /\ Honest(votes[i])
    BY DEF QuorumInv, Counted
  <1>2. ~Silence.authoritative
    BY DEF Silence, Unanswered
  <1> QED
    BY <1>1, <1>2 DEF Honest

\* The heart of the matter: a decided verdict rests on an honest vote.
LEMMA VerdictTrue ==
  ASSUME QuorumInv, Decided
  PROVE  \E t \in truths : Verdict.fact \in {t, Lagging(t)}
  <1>0. TypeOK /\ truths \subseteq Fact
    BY DEF QuorumInv, TypeOK
  <1>1. /\ ~Contested /\ Reached
        /\ Verdict.fact = CHOOSE f \in Tally.facts : TRUE
    <2>1. CASE Contested
      <3>1. Verdict.fact = [None EXCEPT !.status = "CONTRADICTORY"]
        BY <2>1 DEF Verdict
      <3>2. Verdict.fact.status = "CONTRADICTORY"
        BY <3>1 DEF None
      <3> QED
        BY <3>2 DEF Decided
    <2>2. CASE ~Contested /\ ~Reached
      BY <2>2 DEF Decided, Verdict, Unanswered
    <2>3. CASE ~Contested /\ Reached
      BY <2>3 DEF Verdict
    <2> QED
      BY <2>1, <2>2, <2>3
  <1>2. CASE FinalityLag
    <2> DEFINE f == CHOOSE g \in Facts : g.status = "FINALIZED"
    <2>1. f \in Facts /\ f.status = "FINALIZED" /\ Facts = {f, Lagging(f)}
      <3>1. PICK h \in Facts : h.status = "FINALIZED" /\ Facts = {h, Lagging(h)}
        BY <1>2 DEF FinalityLag
      <3>2. f \in Facts /\ f.status = "FINALIZED"
        BY <3>1
      <3>3. h \in Fact
        BY <1>0, <3>1, VotedFact
      <3>4. Lagging(h).status = "CONFIRMED"
        BY <3>1, <3>3, LaggingFact
      <3>5. f = h
        BY <3>1, <3>2, <3>4
      <3> QED
        BY <3>1, <3>2, <3>5
    <2>2. Tally = IF Count(f) >= Quorum THEN [facts |-> {f}, count |-> Count(f)]
                  ELSE [facts |-> {Lagging(f)}, count |-> Cardinality(Counted)]
      BY <1>2 DEF Tally
    <2> HIDE DEF f
    <2>3. CASE Count(f) >= Quorum
      <3>1. Verdict.fact = f
        BY <1>1, <2>2, <2>3
      <3>2. PICK i \in {j \in Counted : votes[j].fact = f} : i \notin Faulty
        BY <1>0, <2>3, HonestVote DEF Count
      <3> QED
        BY <3>1, <3>2, HonestFact
    <2>4. CASE ~(Count(f) >= Quorum)
      <3>1. Verdict.fact = Lagging(f) /\ Cardinality(Counted) >= Quorum
        BY <1>1, <2>2, <2>4 DEF Reached
      <3>2. PICK i \in Counted : i \notin Faulty
        BY <1>0, <3>1, HonestVote
      <3>3. PICK t \in truths : votes[i].fact \in {t, Lagging(t)}
        BY <3>2, HonestFact
      <3>4. t \in Fact /\ f \in Fact
        BY <1>0, <2>1, VotedFact
      <3>5. votes[i].fact \in {f, Lagging(f)}
        BY <2>1 DEF Facts
      <3>6. Lagging(f) \in {t, Lagging(t)}
        BY <2>1, <3>3, <3>4, <3>5, LaggingFact
      <3> QED
        BY <3>1, <3>6
    <2> QED
      BY <2>3, <2>4
  <1>3. CASE ~FinalityLag
    <2>1. Tally.facts = Facts /\ Tally.count = Cardinality(Counted)
      BY <1>3 DEF Tally
    <2>2. PICK i \in Counted : i \notin Faulty
      BY <1>0, <1>1, <2>1, HonestVote DEF Reached
    <2>3. votes[i].fact \in Facts
      BY DEF Facts
    <2>4. PICK f : Facts = {f}
      BY <1>0, <1>1, <2>1, <2>3, CountedFinite, OneFact DEF Contested
    <2>5. Verdict.fact = votes[i].fact
      BY <1>1, <2>1, <2>3, <2>4
    <2> QED
      BY <2>2, <2>5, HonestFact
  <1> QED
    BY <1>2, <1>3

-----------------------------------------------------------------------------
(* The invariant *)

\* Nothing was asked or reported yet.
LEMMA QuorumInit == Init => QuorumInv
  <1> SUFFICES ASSUME Init PROVE QuorumInv
    OBVIOUS
  <1>1. Absent \in Order /\ Absent.state = "ABSENT" /\ Key \in Keys
    BY ContractConstants, QuorumConstants DEF Absent, Order
  <1>2. TypeOK
    <2>1. ContractTypeOK
      BY <1>1 DEF Init, ContractInit, ContractTypeOK
    <2>2. None \in Fact
      BY ContractConstants DEF None, Fact, Statuses
    <2> QED
      <3>1. /\ votes \in Seq(Record) /\ Len(votes) = 0 /\ final = FALSE
            /\ truths = {None} /\ last = None
        BY DEF Init
      <3> QED
        <4>1. 0 <= Sources
          BY QuorumConstants
        <4> QED
          BY <2>1, <2>2, <3>1, <4>1 DEF TypeOK
  <1>3. Truth(book[Key], final) = None /\ None \in Fact
    BY <1>1, TruthFact DEF Init, ContractInit
  <1>4. None.status \notin {"UNKNOWN", "CONTRADICTORY"} /\ Follows(None, None)
    BY <1>3, FollowsOrder DEF None
  <1> QED
    BY <1>2, <1>3, <1>4 DEF Init, QuorumInv

\* Every answer, verdict and move of the venue keeps the tables well typed.
LEMMA QuorumTypeStep ==
  ASSUME QuorumInv, [Next]_vars
  PROVE  TypeOK'
  <1>0. TypeOK /\ Key \in Keys /\ Keys = {Key}
    BY QuorumConstants DEF QuorumInv
  <1>1. CASE Ask
    <2>1. PICK r \in Answers(Len(votes) + 1) : votes' = Append(votes, r)
      BY <1>1 DEF Ask
    <2>2. Silence \in Record
      BY ContractConstants DEF Silence, Unanswered, None, Record, Fact, Statuses
    <2>3. Truth(book[Key], final) \in Fact
      BY <1>0, TruthFact DEF TypeOK, ContractTypeOK
    <2>4. r \in Record
      <3> DEFINE now == Truth(book[Key], final)
      <3>1. now \in Fact /\ Lagging(now) \in Fact
        BY <2>3, LaggingFact
      <3>2. r \in Lies \/ r = Silence \/ \E f \in {now, Lagging(now)} :
              r = [fact |-> f, authoritative |-> TRUE, bound |-> TRUE]
        <4>1. CASE Len(votes) + 1 \in Faulty
          BY <2>1, <4>1 DEF Answers
        <4>2. CASE Len(votes) + 1 \notin Faulty
          BY <2>1, <4>2 DEF Answers
        <4> QED
          BY <4>1, <4>2
      <3> HIDE DEF now
      <3>3. \A f \in Fact : [fact |-> f, authoritative |-> TRUE, bound |-> TRUE] \in Record
        BY DEF Record
      <3> QED
        BY <2>2, <3>1, <3>2, <3>3, QuorumConstants
    <2>5. votes' \in Seq(Record) /\ Len(votes') = Len(votes) + 1 /\ Len(votes) < Sources
      BY <1>0, <1>1, <2>1, <2>4, QuorumConstants DEF Ask, Answered, TypeOK
    <2> QED
      BY <1>0, <1>1, <2>5, QuorumConstants DEF Ask, TypeOK, ContractTypeOK
  <1>2. CASE Return
    <2>1. Truth(book[Key], final) \in Fact
      BY <1>0, TruthFact DEF TypeOK, ContractTypeOK
    <2>2. last' \in Fact
      <3>1. CASE Decided
        <4>1. PICK t \in truths : Verdict.fact \in {t, Lagging(t)}
          BY <3>1, VerdictTrue
        <4>2. t \in Fact
          BY <1>0 DEF TypeOK
        <4> QED
          BY <1>2, <3>1, <4>1, <4>2, LaggingFact DEF Return, Decided
      <3>2. CASE ~Decided
        BY <1>0, <1>2, <3>2 DEF Return, Decided, TypeOK
      <3> QED
        BY <3>1, <3>2
    <2> QED
      BY <1>0, <1>2, <2>1, <2>2, QuorumConstants DEF Return, TypeOK, ContractTypeOK
  <1>3. CASE VenueMoves
    <2>1. book' \in [Keys -> Order] /\ admitted' \in SUBSET Keys
      BY <1>0, <1>3 DEF VenueMoves, Serve, TypeOK, ContractTypeOK
    <2>2. final' \in BOOLEAN /\ (final' => book'[Key].state = "FILLED")
      <3>1. CASE final' = (book'[Key].state = "FILLED")
        BY <3>1
      <3>2. CASE final' = final
        <4>1. final => book'[Key] = book[Key] \/ book[Key].state \in {"ABSENT", "OPEN"}
          BY <1>0, <1>3 DEF VenueMoves, Serve, Moves
        <4> QED
          BY <1>0, <3>2, <4>1 DEF TypeOK
      <3> QED
        BY <1>3, <3>1, <3>2 DEF VenueMoves
    <2>3. Truth(book'[Key], final') \in Fact
      BY <1>0, <2>1, <2>2, TruthFact
    <2> QED
      BY <1>0, <1>3, <2>1, <2>2, <2>3 DEF VenueMoves, TypeOK, ContractTypeOK
  <1>4. CASE UNCHANGED vars
    BY <1>0, <1>4 DEF vars, TypeOK, ContractTypeOK
  <1> QED
    BY <1>1, <1>2, <1>3, <1>4 DEF Next

\* And it keeps the answers honest and the truth moving on.
LEMMA QuorumStep ==
  ASSUME QuorumInv, [Next]_vars
  PROVE  QuorumInv'
  <1> DEFINE now == Truth(book[Key], final)
  <1>0. /\ TypeOK /\ TypeOK' /\ now \in truths /\ now \in Fact /\ truths \subseteq Fact
        /\ last \in Fact /\ last' \in Fact
        /\ \A t \in truths : t.status \notin {"UNKNOWN", "CONTRADICTORY"}
        /\ \A t \in truths : Follows(last, t) /\ Follows(t, now)
        /\ \A i \in DOMAIN votes \ Faulty : Honest(votes[i])
    BY QuorumTypeStep DEF QuorumInv, TypeOK
  <1>1. CASE Ask
    <2>1. PICK r \in Answers(Len(votes) + 1) : votes' = Append(votes, r)
      BY <1>1 DEF Ask
    <2>2. UNCHANGED <<book, final, truths, last>>
      BY <1>1 DEF Ask
    <2>3. Len(votes) + 1 \notin Faulty => Honest(r)
      <3>1. Len(votes) + 1 \notin Faulty =>
              r \in {[fact |-> f, authoritative |-> TRUE, bound |-> TRUE] : f \in {now, Lagging(now)}}
                      \cup {Silence}
        BY <2>1 DEF Answers
      <3> QED
        BY <1>0, <3>1 DEF Honest
    <2>4. /\ DOMAIN votes' = 1 .. Len(votes) + 1 /\ DOMAIN votes = 1 .. Len(votes)
          /\ votes'[Len(votes) + 1] = r
          /\ \A i \in DOMAIN votes : votes'[i] = votes[i]
      <3>1. votes \in Seq(Record) /\ Len(votes) \in Nat
        BY <1>0 DEF TypeOK
      <3> QED
        BY <2>1, <3>1
    <2>5. ASSUME NEW i \in DOMAIN votes' \ Faulty
          PROVE  Honest(votes[i])' 
      <3>1. i \in DOMAIN votes \/ i = Len(votes) + 1
        BY <1>0, <2>4 DEF TypeOK
      <3>2. Honest(votes'[i])
        BY <1>0, <2>3, <2>4, <3>1
      <3> QED
        BY <2>2, <3>2 DEF Honest, Silence
    <2> QED
      BY <1>0, <2>2, <2>5 DEF QuorumInv
  <1>2. CASE Return
    <2>1. /\ UNCHANGED <<book, final>> /\ votes' = << >> /\ truths' = {now}
          /\ last' = IF Decided THEN Verdict.fact ELSE last
      BY <1>2 DEF Return, Decided
    <2>2. Follows(last', now)
      <3>1. CASE Decided
        <4>1. PICK t \in truths : Verdict.fact \in {t, Lagging(t)}
          BY <3>1, VerdictTrue
        <4>2. t \in Fact /\ Follows(t, now)
          BY <1>0
        <4> QED
          BY <1>0, <2>1, <3>1, <4>1, <4>2, FollowsLagging
      <3>2. CASE ~Decided
        BY <1>0, <2>1, <3>2
      <3> QED
        BY <3>1, <3>2
    <2>3. Follows(now, now)
      BY <1>0, FollowsOrder
    <2> QED
      BY <1>0, <2>1, <2>2, <2>3 DEF QuorumInv
  <1>3. CASE VenueMoves
    <2> DEFINE next == Truth(book'[Key], final')
    <2>1. /\ votes' = votes /\ last' = last /\ truths' = truths \cup {next}
      BY <1>3 DEF VenueMoves
    <2>2. Follows(now, next)
      BY <1>0, <1>3, TruthAdvances
    <2>3. next \in Fact /\ next.status \notin {"UNKNOWN", "CONTRADICTORY"}
      BY <1>0, TruthFact, QuorumConstants DEF TypeOK, ContractTypeOK
    <2>4. Follows(last, next) /\ Follows(next, next) /\ \A t \in truths : Follows(t, next)
      <3> HIDE DEF now, next
      <3>1. ASSUME NEW t \in truths
            PROVE  Follows(t, next)
        <4>1. t \in Fact /\ Follows(t, now)
          BY <1>0
        <4> QED
          BY <1>0, <2>2, <2>3, <4>1, FollowsOrder
      <3>2. Follows(last, now)
        BY <1>0
      <3> QED
        BY <1>0, <2>2, <2>3, <3>1, <3>2, FollowsOrder
    <2>5. \A i \in DOMAIN votes' \ Faulty : Honest(votes[i])'
      BY <1>0, <2>1 DEF Honest, Silence
    <2> QED
      BY <1>0, <2>1, <2>3, <2>4, <2>5 DEF QuorumInv
  <1>4. CASE UNCHANGED vars
    BY <1>0, <1>4 DEF vars, QuorumInv, Honest, Silence
  <1> QED
    BY <1>1, <1>2, <1>3, <1>4 DEF Next

\* The inductive invariant of the quorum verifier.
THEOREM QuorumInvariant == Spec => []QuorumInv
  BY QuorumInit, QuorumStep, PTL DEF Spec

-----------------------------------------------------------------------------
(* What the verdicts say *)

\* An authoritative, uncontested verdict was true of the venue at some moment of the
\* call, finality aside, for every quorum larger than the number of faulty sources.
THEOREM VerdictsWereTrue == Spec => []VerdictWasTrue
  <1>1. QuorumInv => VerdictWasTrue
    BY VerdictTrue DEF QuorumInv, VerdictWasTrue
  <1> QED
    BY <1>1, QuorumInvariant, PTL

\* What one call established no later call takes back.
THEOREM VerdictsNeverGoBack == Spec => []VerdictsAdvance
  <1>1. ASSUME QuorumInv, Decided
        PROVE  Follows(last, Verdict.fact)
    <2>1. PICK t \in truths : Verdict.fact \in {t, Lagging(t)}
      BY <1>1, VerdictTrue
    <2>2. t \in Fact /\ last \in Fact /\ Follows(last, t)
      BY <1>1 DEF QuorumInv, TypeOK
    <2> QED
      BY <2>1, <2>2, FollowsLagging
  <1>2. QuorumInv => VerdictsAdvance
    BY <1>1 DEF VerdictsAdvance, Follows
  <1> QED
    BY <1>2, QuorumInvariant, PTL

\* There are finitely many facts.
LEMMA FactsFinite == IsFiniteSet(Fact)
  <1> DEFINE E == {"venue", "foreign", "none"}
             P == Statuses \X E
             Q == P \X (0 .. Size)
             m == [q \in Q |-> [status |-> q[1][1], effect |-> q[1][2], amount |-> q[2]]]
  <1>1. IsFiniteSet(Statuses)
    <2>1. IsFiniteSet({})
      BY FS_EmptySet
    <2>2. \A S, x : IsFiniteSet(S) => IsFiniteSet(S \cup {x})
      BY FS_AddElement
    <2>3. IsFiniteSet({} \cup {"NONE"} \cup {"PARTIALLY_FILLED"} \cup {"CONFIRMED"}
                        \cup {"FINALIZED"} \cup {"CANCELLED"} \cup {"UNKNOWN"} \cup {"CONTRADICTORY"})
      BY <2>1, <2>2
    <2>4. Statuses = {} \cup {"NONE"} \cup {"PARTIALLY_FILLED"} \cup {"CONFIRMED"}
                        \cup {"FINALIZED"} \cup {"CANCELLED"} \cup {"UNKNOWN"} \cup {"CONTRADICTORY"}
      BY DEF Statuses
    <2> QED
      BY <2>3, <2>4
  <1>2. IsFiniteSet(E)
    <2>1. IsFiniteSet({}) /\ \A S, x : IsFiniteSet(S) => IsFiniteSet(S \cup {x})
      BY FS_EmptySet, FS_AddElement
    <2>2. E = {} \cup {"venue"} \cup {"foreign"} \cup {"none"}
      OBVIOUS
    <2> HIDE DEF E
    <2> QED
      BY <2>1, <2>2
  <1>3. IsFiniteSet(0 .. Size)
    BY FS_Interval, ContractConstants
  <1>4. IsFiniteSet(P)
    <2> HIDE DEF E
    <2> QED
      BY <1>1, <1>2, FS_Product
  <1>5. IsFiniteSet(Q)
    <2> HIDE DEF P
    <2> QED
      BY <1>3, <1>4, FS_Product
  <1>6. m \in Surjection(Q, Fact)
    <2>1. m \in [Q -> Fact]
      BY DEF Fact
    <2>2. ASSUME NEW f \in Fact
          PROVE  \E q \in Q : m[q] = f
      <3>1. <<<<f.status, f.effect>>, f.amount>> \in Q
        BY DEF Fact
      <3>2. f = [status |-> f.status, effect |-> f.effect, amount |-> f.amount]
        BY DEF Fact
      <3> QED
        BY <3>1, <3>2
    <2> HIDE DEF Q, m
    <2> QED
      BY <2>1, <2>2 DEF Surjection
  <1> HIDE DEF Q, m
  <1> QED
    BY <1>5, <1>6, FS_Surjection

\* Two facts that differ in finality at most are equal, or one is the other's lagging form.
LEMMA SameButFinality ==
  ASSUME NEW f \in Fact, NEW g \in Fact, Lagging(f) = Lagging(g)
  PROVE  /\ f.status = "FINALIZED" /\ g.status = "FINALIZED" => f = g
         /\ f.status = "FINALIZED" /\ g.status # "FINALIZED" => g = Lagging(f)
         /\ f.status # "FINALIZED" /\ g.status # "FINALIZED" => f = g
  <1>1. f.effect = g.effect /\ f.amount = g.amount
    BY LaggingFact
  <1>2. /\ f = [status |-> f.status, effect |-> f.effect, amount |-> f.amount]
        /\ g = [status |-> g.status, effect |-> g.effect, amount |-> g.amount]
    BY DEF Fact
  <1>3. f.status = "FINALIZED" /\ g.status = "FINALIZED" => f = g
    BY <1>1, <1>2
  <1> QED
    BY <1>3, LaggingFact

\* When the order stands still and no faulty source says anything authoritative, every
\* authoritative vote counts and the votes agree, finality aside.
LEMMA StillVotesAgree ==
  ASSUME QuorumInv, Answered, Cardinality({Lagging(t) : t \in truths}) = 1,
         \A i \in Faulty : ~votes[i].authoritative
  PROVE  /\ Mismatches = {}
         /\ Counted = {i \in 1 .. Sources : votes[i].authoritative}
         /\ \A f, g \in Facts : Lagging(f) = Lagging(g)
         /\ \A f \in Facts : Lagging(f).status # "CONTRADICTORY"
  <1> DEFINE Laggings == {Lagging(t) : t \in truths}
  <1>1. PICK l : Laggings = {l}
    <2>1. Cardinality(Laggings) = 1
      OBVIOUS
    <2> HIDE DEF Laggings
    <2>2. IsFiniteSet(Laggings)
      <3>1. IsFiniteSet(truths) => IsFiniteSet(Laggings)
        <4> DEFINE m == [t \in truths |-> Lagging(t)]
        <4>1. m \in Surjection(truths, Laggings)
          BY DEF Surjection, Laggings
        <4> QED
          BY <4>1, FS_Surjection
      <3>2. IsFiniteSet(truths)
        BY FactsFinite, FS_Subset DEF QuorumInv, TypeOK
      <3> QED
        BY <3>1, <3>2
    <2> QED
      BY <2>1, <2>2, FS_Singleton
  <1>2. DOMAIN votes = 1 .. Sources
    BY DEF QuorumInv, TypeOK, Answered
  <1>3. ASSUME NEW i \in DOMAIN votes, votes[i].authoritative
        PROVE  /\ votes[i].bound
               /\ Lagging(votes[i].fact) = l /\ l.status # "CONTRADICTORY"
    <2>1. i \notin Faulty
      BY <1>3
    <2>2. Honest(votes[i])
      BY <2>1 DEF QuorumInv
    <2>3. ~Silence.authoritative
      BY DEF Silence, Unanswered
    <2>4. PICK t \in truths : votes[i].fact \in {t, Lagging(t)}
      BY <1>3, <2>2, <2>3 DEF Honest
    <2>5. votes[i].bound
      BY <1>3, <2>2, <2>3 DEF Honest
    <2>6. t \in Fact /\ t.status \notin {"UNKNOWN", "CONTRADICTORY"}
      BY DEF QuorumInv, TypeOK
    <2>7. Lagging(t) = l
      BY <1>1
    <2> QED
      BY <2>4, <2>5, <2>6, <2>7, LaggingFact
  <1>4. Mismatches = {}
    BY <1>3 DEF Mismatches
  <1>5. Counted = {i \in 1 .. Sources : votes[i].authoritative}
    BY <1>2, <1>3 DEF Counted
  <1>6. \A f \in Facts : Lagging(f) = l /\ l.status # "CONTRADICTORY"
    BY <1>3 DEF Facts, Counted
  <1> QED
    BY <1>4, <1>5, <1>6

\* Sources that fail or lag neither block nor contest a settlement, for every number of
\* sources and every quorum.
THEOREM HonestQuorumsDecide == Spec => []HonestQuorumDecides
  <1>1. ASSUME QuorumInv, Answered, Cardinality({Lagging(t) : t \in truths}) = 1,
               \A i \in Faulty : ~votes[i].authoritative
        PROVE  /\ Verdict.fact.status # "CONTRADICTORY"
               /\ Cardinality({i \in 1 .. Sources : votes[i].authoritative}) >= Quorum
                    => Verdict.authoritative
    <2>0. TypeOK
      BY <1>1 DEF QuorumInv
    <2>1. /\ Mismatches = {}
          /\ Counted = {i \in 1 .. Sources : votes[i].authoritative}
          /\ \A f, g \in Facts : Lagging(f) = Lagging(g)
          /\ \A f \in Facts : Lagging(f).status # "CONTRADICTORY"
      BY <1>1, StillVotesAgree
    <2>2. Facts \subseteq Fact
      BY <2>0, VotedFact
    <2>3. /\ Cardinality(Tally.facts) \in {0, 1}
          /\ \A h \in Tally.facts : h.status # "CONTRADICTORY"
          /\ Reached => Tally.facts # {}
          /\ Cardinality(Counted) >= Quorum => Reached
      <3>1. CASE FinalityLag
        <4> DEFINE f == CHOOSE g \in Facts : g.status = "FINALIZED"
        <4>1. f \in Facts /\ f.status = "FINALIZED"
          BY <3>1 DEF FinalityLag
        <4>2. Tally = IF Count(f) >= Quorum THEN [facts |-> {f}, count |-> Count(f)]
                      ELSE [facts |-> {Lagging(f)}, count |-> Cardinality(Counted)]
          BY <3>1 DEF Tally
        <4> HIDE DEF f
        <4>3. /\ Tally.facts \in {{f}, {Lagging(f)}}
              /\ Cardinality(Counted) >= Quorum => Tally.count >= Quorum
          BY <4>2
        <4>4. \A x : Cardinality({x}) = 1
          BY FS_Singleton
        <4>5. Cardinality(Tally.facts) = 1
          BY <4>3, <4>4
        <4>6. f.status # "CONTRADICTORY" /\ Lagging(f).status # "CONTRADICTORY"
          BY <2>1, <4>1
        <4> QED
          BY <4>3, <4>5, <4>6 DEF Reached
      <3>2. CASE ~FinalityLag
        <4>1. Tally.facts = Facts /\ Tally.count = Cardinality(Counted)
          BY <3>2 DEF Tally
        <4>2. \A f, g \in Facts : f = g
          <5> SUFFICES ASSUME NEW f \in Facts, NEW g \in Facts, f # g
                       PROVE  FALSE
            OBVIOUS
          <5>1. PICK h \in Facts : h.status = "FINALIZED" /\ h # Lagging(h) /\ Lagging(h) \in Facts
            BY <2>1, <2>2, SameButFinality, LaggingFact
          <5>2. \A x \in Facts : x \in {h, Lagging(h)}
            BY <2>1, <2>2, <5>1, SameButFinality
          <5> QED
            BY <2>1, <3>2, <5>1, <5>2 DEF FinalityLag
        <4>3. Cardinality(Facts) \in {0, 1}
          <5>1. CASE Facts = {}
            BY <5>1, FS_EmptySet
          <5>2. CASE Facts # {}
            <6>1. PICK f : Facts = {f}
              BY <4>2, <5>2
            <6> QED
              BY <6>1, FS_Singleton
          <5> QED
            BY <5>1, <5>2
        <4>4. \A h \in Facts : h.status # "CONTRADICTORY"
          BY <2>1, <2>2, LaggingFact
        <4>5. Cardinality(Counted) >= Quorum => Facts # {}
          <5>1. Cardinality(Counted) >= Quorum => Counted # {}
            BY FS_EmptySet, QuorumConstants
          <5> QED
            BY <5>1 DEF Facts
        <4> QED
          BY <4>1, <4>3, <4>4, <4>5 DEF Reached
      <3> QED
        BY <3>1, <3>2
    <2>4. ~Contested
      BY <2>1, <2>3 DEF Contested
    <2>5. CASE Reached
      <3>1. /\ Verdict.fact = CHOOSE f \in Tally.facts : TRUE
            /\ Verdict.authoritative
        BY <2>4, <2>5 DEF Verdict
      <3>2. Verdict.fact \in Tally.facts
        BY <2>3, <2>5, <3>1
      <3> QED
        BY <2>3, <3>1, <3>2
    <2>6. CASE ~Reached
      <3>1. Verdict = Unanswered
        BY <2>4, <2>6 DEF Verdict
      <3>2. Verdict.fact.status = "UNKNOWN"
        BY <3>1 DEF Unanswered, None
      <3> QED
        BY <2>1, <2>3, <2>6, <3>2
    <2> QED
      BY <2>5, <2>6
  <1>2. QuorumInv => HonestQuorumDecides
    BY <1>1 DEF HonestQuorumDecides
  <1> QED
    BY <1>2, QuorumInvariant, PTL

=============================================================================
