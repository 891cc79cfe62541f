------------------------ MODULE HyperliquidVenueProofs ------------------------
(***************************************************************************)
(* What the Hyperliquid adapter and its verifier promise for any intents,  *)
(* notionals, prices, lot sizes, page limits, deadlines and any behaviour  *)
(* of the exchange within its contract.  The inductive invariant is        *)
(* AdapterInv: since the verifier never answers that there is no order, an *)
(* intent has one call, and what the exchange executed is that call's      *)
(* order; every thread underway passed the orphan check below the limit.   *)
(***************************************************************************)
EXTENDS HyperliquidVenue, FiniteSums

-----------------------------------------------------------------------------
(* Amounts *)

\* A larger cost never rounds up to a smaller one, and no cost rounds up to nothing.
LEMMA CeilingFacts ==
  ASSUME NEW x \in Nat, NEW y \in Nat, x <= y
  PROVE  /\ Ceiling(x) \in Nat /\ Ceiling(y) \in Nat
         /\ Ceiling(x) <= Ceiling(y)
         /\ x >= 1 => Ceiling(x) >= 1
  <1>0. Grain \in Nat /\ Grain >= 1
    BY HyperliquidConstants
  <1> DEFINE a == x + Grain - 1
             b == y + Grain - 1
             p == a \div Grain
             q == b \div Grain
  <1>1. a \in Nat /\ b \in Nat /\ a <= b /\ (x >= 1 => a >= Grain)
    BY <1>0
  <1> HIDE DEF a, b
  <1>2. p \in Nat /\ q \in Nat
    BY <1>0, <1>1
  <1>3. Grain * p <= a /\ b < Grain * (q + 1)
    BY <1>0, <1>1, <1>2
  <1>4. p <= q
    BY <1>0, <1>1, <1>2, <1>3
  <1>5. x >= 1 => p >= 1
    BY <1>0, <1>1, <1>2
  <1> QED
    BY <1>2, <1>4, <1>5 DEF Ceiling, a, b

Sizes(fills) == [n \in DOMAIN fills |-> fills[n].sz]
Costs(fills) == [n \in DOMAIN fills |-> fills[n].sz * fills[n].px]

\* What a fill contributes.
LEMMA FillFacts ==
  ASSUME NEW fills \in Seq(Fill)
  PROVE  /\ Len(fills) \in Nat /\ DOMAIN fills = 1 .. Len(fills) /\ IsFiniteSet(DOMAIN fills)
         /\ \A n \in DOMAIN fills :
              /\ fills[n].sz \in Nat /\ fills[n].sz >= 1
              /\ fills[n].px \in Prices /\ fills[n].px \in Nat /\ fills[n].px >= 1
              /\ Sizes(fills)[n] = fills[n].sz /\ Sizes(fills)[n] \in Nat
              /\ Costs(fills)[n] = fills[n].sz * fills[n].px /\ Costs(fills)[n] \in Nat
  <1>1. Len(fills) \in Nat /\ DOMAIN fills = 1 .. Len(fills)
    OBVIOUS
  <1>2. IsFiniteSet(1 .. Len(fills))
    BY <1>1, FS_Interval
  <1>3. ASSUME NEW n \in DOMAIN fills
        PROVE  /\ fills[n].sz \in Nat /\ fills[n].sz >= 1
               /\ fills[n].px \in Prices /\ fills[n].px \in Nat /\ fills[n].px >= 1
    <2>1. fills[n] \in Fill
      OBVIOUS
    <2>2. fills[n].sz \in Nat \ {0} /\ fills[n].px \in Prices
      BY <2>1 DEF Fill
    <2>3. \A p \in Prices : p \in Nat /\ p # 0
      BY HyperliquidConstants
    <2>4. fills[n].px \in Nat /\ fills[n].px # 0 /\ fills[n].sz \in Nat /\ fills[n].sz # 0
      BY <2>2, <2>3
    <2>5. \A k \in Nat : k # 0 => k >= 1
      OBVIOUS
    <2> QED
      BY <2>2, <2>4, <2>5
  <1>4. ASSUME NEW n \in DOMAIN fills
        PROVE  /\ Sizes(fills)[n] = fills[n].sz /\ Costs(fills)[n] = fills[n].sz * fills[n].px
    BY DEF Sizes, Costs
  <1>5. \A a, b \in Nat : a * b \in Nat
    OBVIOUS
  <1> QED
    BY <1>1, <1>2, <1>3, <1>4, <1>5

\* The fold over the fills is the total of their sizes.
LEMMA LotsTotal ==
  ASSUME NEW fills \in Seq(Fill)
  PROVE  Lots(fills) = Total(Sizes(fills), DOMAIN fills)
  <1> DEFINE S == DOMAIN fills
             w == Sizes(fills)
             W(g) == [s \in SUBSET S |-> IF s = {} THEN 0 ELSE g[s \ {Max(s)}] + w[Max(s)]]
             U(g) == [s \in SUBSET S |-> IF s = {} THEN 0 ELSE g[s \ {Max(s)}] + fills[Max(s)].sz]
  <1>0. Len(fills) \in Nat /\ S = 1 .. Len(fills) /\ \A n \in S : w[n] = fills[n].sz /\ w[n] \in Nat
    BY FillFacts
  <1>1. \A s \in SUBSET S : s # {} => Max(s) \in S
    BY <1>0, MaxIn
  <1>2. \A g : U(g) = W(g)
    BY <1>0, <1>1
  <1>3. (CHOOSE g : g = U(g)) = (CHOOSE g : g = W(g))
    BY <1>2
  <1>4. Lots(fills) = (CHOOSE g : g = U(g))[S]
    BY DEF Lots, FoldLeft, MapThenFoldSet
  <1>5. (CHOOSE g : AddsUp(g, w, S)) = (CHOOSE g : g = W(g))
    BY DEF AddsUp
  <1> HIDE DEF w, U, W
  <1>6. (CHOOSE g : AddsUp(g, w, S))[S] = Total(w, S)
    <2> HIDE DEF S
    <2> QED
      BY <1>0, AddedUpIsTotal
  <1> QED
    BY <1>3, <1>4, <1>5, <1>6 DEF w

\* What the fills cost is the total of their costs, rounded up once.
LEMMA SpentTotal ==
  ASSUME NEW fills \in Seq(Fill)
  PROVE  Spent(fills) = Ceiling(Total(Costs(fills), DOMAIN fills))
  <1> DEFINE S == DOMAIN fills
             w == Costs(fills)
             W(g) == [s \in SUBSET S |-> IF s = {} THEN 0 ELSE g[s \ {Max(s)}] + w[Max(s)]]
             U(g) == [s \in SUBSET S |->
                        IF s = {} THEN 0 ELSE g[s \ {Max(s)}] + fills[Max(s)].sz * fills[Max(s)].px]
  <1>0. /\ Len(fills) \in Nat /\ S = 1 .. Len(fills)
        /\ \A n \in S : w[n] = fills[n].sz * fills[n].px /\ w[n] \in Nat
    BY FillFacts
  <1>1. \A s \in SUBSET S : s # {} => Max(s) \in S
    BY <1>0, MaxIn
  <1>2. \A g : U(g) = W(g)
    BY <1>0, <1>1
  <1>3. (CHOOSE g : g = U(g)) = (CHOOSE g : g = W(g))
    BY <1>2
  <1>4. Spent(fills) = Ceiling((CHOOSE g : g = U(g))[S])
    BY DEF Spent, FoldLeft, MapThenFoldSet
  <1>5. (CHOOSE g : AddsUp(g, w, S)) = (CHOOSE g : g = W(g))
    BY DEF AddsUp
  <1> HIDE DEF w, U, W
  <1>6. (CHOOSE g : AddsUp(g, w, S))[S] = Total(w, S)
    <2> HIDE DEF S
    <2> QED
      BY <1>0, AddedUpIsTotal
  <1> QED
    BY <1>3, <1>4, <1>5, <1>6 DEF w

\* Lots and costs are numbers, and fills that have lots cost something.
LEMMA AmountFacts ==
  ASSUME NEW fills \in Seq(Fill)
  PROVE  /\ Lots(fills) \in Nat /\ Spent(fills) \in Nat
         /\ Lots(fills) >= 1 => Spent(fills) >= 1
  <1> DEFINE S == DOMAIN fills
             u == Sizes(fills)
             w == Costs(fills)
  <1>1. IsFiniteSet(S) /\ \A n \in S : u[n] \in Nat /\ w[n] \in Nat
    BY FillFacts
  <1>2. \A n \in S : u[n] <= 1 * w[n]
    <2>1. ASSUME NEW a \in Nat, NEW b \in Nat, b >= 1
          PROVE  a <= a * b
      BY <2>1
    <2>2. \A n \in S : /\ fills[n].sz \in Nat /\ fills[n].px \in Nat /\ fills[n].px >= 1
                       /\ u[n] = fills[n].sz /\ w[n] = fills[n].sz * fills[n].px
      BY FillFacts
    <2>3. \A n \in S : u[n] <= w[n]
      BY <2>1, <2>2
    <2> HIDE DEF u, w
    <2> QED
      BY <1>1, <2>3
  <1>3. Lots(fills) = Total(u, S) /\ Spent(fills) = Ceiling(Total(w, S))
    BY LotsTotal, SpentTotal
  <1> HIDE DEF u, w, S
  <1>4. Total(u, S) \in Nat /\ Total(w, S) \in Nat /\ Total(u, S) <= 1 * Total(w, S)
    BY <1>1, <1>2, TotalNat, TotalScaled
  <1>5. Ceiling(Total(w, S)) \in Nat /\ (Total(w, S) >= 1 => Ceiling(Total(w, S)) >= 1)
    BY <1>4, CeilingFacts
  <1> QED
    BY <1>3, <1>4, <1>5

\* Fills at the limit price or better, within the size, cost no more than the order.
LEMMA SpentWithin ==
  ASSUME NEW fills \in Seq(Fill), NEW size \in Nat, NEW limit \in Nat, Lots(fills) <= size,
         \A n \in DOMAIN fills : fills[n].px <= limit
  PROVE  Spent(fills) <= Ceiling(size * limit)
  <1> DEFINE S == DOMAIN fills
             u == Sizes(fills)
             w == Costs(fills)
  <1>1. IsFiniteSet(S) /\ \A n \in S : u[n] \in Nat /\ w[n] \in Nat
    BY FillFacts
  <1>2. \A n \in S : w[n] <= limit * u[n]
    <2>1. ASSUME NEW a \in Nat, NEW b \in Nat, b <= limit
          PROVE  a * b <= limit * a
      BY <2>1
    <2>2. \A n \in S : /\ fills[n].sz \in Nat /\ fills[n].px \in Nat /\ fills[n].px <= limit
                       /\ u[n] = fills[n].sz /\ w[n] = fills[n].sz * fills[n].px
      BY FillFacts
    <2> QED
      BY <2>1, <2>2
  <1>3. Lots(fills) = Total(u, S) /\ Spent(fills) = Ceiling(Total(w, S))
    BY LotsTotal, SpentTotal
  <1> HIDE DEF u, w, S
  <1>4. Total(u, S) \in Nat /\ Total(w, S) \in Nat /\ Total(w, S) <= limit * Total(u, S)
    BY <1>1, <1>2, TotalNat, TotalScaled
  <1>5. ASSUME NEW a \in Nat, a <= size
        PROVE  limit * a <= size * limit /\ limit * a \in Nat /\ size * limit \in Nat
    BY <1>5
  <1>6. Total(w, S) <= size * limit /\ size * limit \in Nat
    <2>1. limit * Total(u, S) <= size * limit /\ limit * Total(u, S) \in Nat /\ size * limit \in Nat
      BY <1>3, <1>4, <1>5
    <2> QED
      BY <1>4, <2>1
  <1>7. Ceiling(Total(w, S)) <= Ceiling(size * limit)
    BY <1>4, <1>6, CeilingFacts
  <1> QED
    BY <1>3, <1>7

\* The first k fills: no more lots than all of them, and as many only if they are all.
FirstFills(seen, fills, k) ==
  /\ seen \in Seq(Fill) /\ DOMAIN seen = 1 .. k /\ \A n \in 1 .. k : seen[n] = fills[n]
  /\ Lots(seen) <= Lots(fills)
  /\ Lots(seen) = Lots(fills) => seen = fills

\* Every fill has lots, so the fills that are shown tell whether any are missing.
LEMMA SeenLots ==
  ASSUME NEW fills \in Seq(Fill), NEW k \in 0 .. Len(fills), NEW seen, seen = SubSeq(fills, 1, k)
  PROVE  FirstFills(seen, fills, k)
  <1>0. /\ Len(fills) \in Nat /\ DOMAIN fills = 1 .. Len(fills) /\ IsFiniteSet(1 .. Len(fills))
        /\ \A n \in 1 .. Len(fills) : /\ Sizes(fills)[n] = fills[n].sz /\ Sizes(fills)[n] \in Nat
                                      /\ Sizes(fills)[n] >= 1
    BY FillFacts
  <1>1. k \in Nat /\ k <= Len(fills) /\ 1 .. k \in SUBSET (1 .. Len(fills))
    BY <1>0
  <1>2. /\ seen \in Seq(Fill) /\ Len(seen) = k /\ DOMAIN seen = 1 .. k
        /\ \A n \in 1 .. k : seen[n] = fills[n]
    BY <1>0, <1>1
  <1>3. \A n \in 1 .. k : Sizes(seen)[n] = Sizes(fills)[n]
    BY <1>0, <1>1, <1>2 DEF Sizes
  <1>4. Lots(seen) = Total(Sizes(fills), 1 .. k)
    <2>1. Lots(seen) = Total(Sizes(seen), 1 .. k)
      BY <1>2, LotsTotal
    <2> QED
      BY <1>3, <2>1, TotalSame
  <1>5. Lots(fills) = Total(Sizes(fills), 1 .. Len(fills))
    BY <1>0, LotsTotal
  <1>6. Lots(seen) <= Lots(fills)
    BY <1>0, <1>1, <1>4, <1>5, TotalMonotonic
  <1>7. ASSUME Lots(seen) = Lots(fills)
        PROVE  seen = fills
    <2>1. 1 .. k = 1 .. Len(fills)
      <3> SUFFICES ASSUME 1 .. k # 1 .. Len(fills) PROVE FALSE
        OBVIOUS
      <3>1. Total(Sizes(fills), 1 .. k) < Total(Sizes(fills), 1 .. Len(fills))
        BY <1>0, <1>1, TotalStrict
      <3>2. Lots(fills) \in Nat
        BY AmountFacts
      <3> QED
        BY <1>4, <1>5, <1>7, <3>1, <3>2
    <2>2. k = Len(fills)
      <3> DEFINE m == Len(fills)
      <3>1. m \in Nat /\ k \in Nat /\ k <= m /\ 1 .. k = 1 .. m
        BY <1>0, <1>1, <2>1
      <3> HIDE DEF m
      <3>2. k < m => m \in 1 .. m /\ m \notin 1 .. k
        BY <3>1
      <3>3. k = m
        BY <3>1, <3>2
      <3> QED
        BY <3>3 DEF m
    <2> QED
      BY <1>0, <1>2, <2>2
  <1> QED
    BY <1>2, <1>6, <1>7 DEF FirstFills

-----------------------------------------------------------------------------
(* Orders *)

\* A call is an intent and the number of its attempt.
LEMMA CallFacts ==
  ASSUME NEW c \in Calls
  PROVE  /\ IntentOf(c) \in Intents /\ c[1] \in Intents /\ c[2] \in 1 .. MaxAttempts
         /\ c = <<c[1], c[2]>> /\ IntentOf(c) = c[1]
  BY DEF Calls, IntentOf

\* Notionals, limits and sizes are numbers.
LEMMA SizeFacts ==
  ASSUME NEW i \in Intents
  PROVE  /\ Notional[i] \in Nat /\ Limit[i] \in Nat /\ Limit[i] >= 1
         /\ OrderSize(i) \in Int
         /\ Orderable(i) => /\ OrderSize(i) \in Nat /\ OrderSize(i) >= 1
                            /\ Ceiling(OrderSize(i) * Limit[i]) <= Notional[i]
  <1>1. Notional[i] \in Nat /\ Limit[i] \in Nat /\ Limit[i] >= 1 /\ Grain \in Nat
    BY HyperliquidConstants
  <1>2. Quotient(i) \in Int
    <2>1. Notional[i] * Grain \in Nat
      BY <1>1
    <2>2. (Notional[i] * Grain) \div Limit[i] \in Int
      BY <1>1, <2>1
    <2> QED
      BY <2>2 DEF Quotient
  <1>3. OrderSize(i) \in Int
    BY <1>2 DEF OrderSize
  <1>4. Orderable(i) => OrderSize(i) > 0 /\ Ceiling(OrderSize(i) * Limit[i]) <= Notional[i]
    BY DEF Orderable
  <1> QED
    BY <1>1, <1>3, <1>4

\* What the exchange may fill an order with: no more lots than it has, at its limit or
\* better, so for no more than the notional.
LEMMA ExecutionFacts ==
  ASSUME NEW i \in Intents, Orderable(i), NEW s \in Executions(i)
  PROVE  /\ s \in Seq(Fill) /\ Len(s) <= MaxFills
         /\ Lots(s) \in Nat /\ Lots(s) <= OrderSize(i)
         /\ \A n \in DOMAIN s : s[n].px <= Limit[i]
         /\ Spent(s) \in Nat /\ Spent(s) <= Notional[i]
         /\ Lots(s) = OrderSize(i) => Spent(s) # 0
  <1>1. PICK n \in 0 .. MaxFills : s \in [1 .. n -> [sz : 1 .. OrderSize(i), px : Prices]]
    BY DEF Executions
  <1>2. Lots(s) <= OrderSize(i) /\ \A k \in DOMAIN s : s[k].px <= Limit[i]
    BY DEF Executions
  <1>3. /\ Limit[i] \in Nat /\ OrderSize(i) \in Nat /\ OrderSize(i) >= 1 /\ Notional[i] \in Nat
        /\ Ceiling(OrderSize(i) * Limit[i]) <= Notional[i]
    BY SizeFacts
  <1>4. s \in Seq(Fill) /\ Len(s) <= MaxFills
    <2>1. n \in Nat /\ n <= MaxFills
      BY HyperliquidConstants
    <2>2. 1 .. OrderSize(i) \subseteq Nat \ {0}
      BY <1>3
    <2>3. [sz : 1 .. OrderSize(i), px : Prices] \subseteq Fill
      BY <2>2 DEF Fill
    <2>4. s \in [1 .. n -> Fill]
      BY <1>1, <2>3
    <2> QED
      BY <2>1, <2>4
  <1>5. Lots(s) \in Nat /\ Spent(s) \in Nat /\ (Lots(s) >= 1 => Spent(s) >= 1)
    BY <1>4, AmountFacts
  <1>6. Spent(s) <= Ceiling(OrderSize(i) * Limit[i])
    BY <1>2, <1>3, <1>4, SpentWithin
  <1>7. Ceiling(OrderSize(i) * Limit[i]) \in Nat
    <2>1. OrderSize(i) * Limit[i] \in Nat
      BY <1>3
    <2> QED
      BY <2>1, CeilingFacts
  <1> QED
    BY <1>2, <1>3, <1>4, <1>5, <1>6, <1>7

\* What became of the order of a call.
Truth(c) ==
  Says(IF Lots(orders[c].fills) = orders[c].size THEN "FINALIZED" ELSE "CANCELLED",
       c, Spent(orders[c].fills))

\* An order at the exchange is the one the intent translates to.
LEMMA OrderFacts ==
  ASSUME TypeOK, NEW c \in Calls, CallInv(c), orders[c] # NoOrder
  PROVE  /\ IntentOf(c) \in Intents /\ Orderable(IntentOf(c)) /\ ledger[c] = "consumed"
         /\ orders[c].size = OrderSize(IntentOf(c)) /\ orders[c].limit = Limit[IntentOf(c)]
         /\ orders[c].at <= Expires(c)
         /\ orders[c].fills \in Executions(IntentOf(c)) /\ orders[c].fills \in Seq(Fill)
         /\ Truth(c).amount = Spent(orders[c].fills)
         /\ Spent(orders[c].fills) \in Nat /\ Spent(orders[c].fills) <= Notional[IntentOf(c)]
  <1>1. /\ IntentOf(c) \in Intents /\ Orderable(IntentOf(c)) /\ ledger[c] = "consumed"
        /\ orders[c].size = OrderSize(IntentOf(c)) /\ orders[c].limit = Limit[IntentOf(c)]
        /\ orders[c].at <= Expires(c)
        /\ orders[c].fills \in Executions(IntentOf(c))
    BY CallFacts DEF CallInv
  <1>2. Truth(c).amount = Spent(orders[c].fills)
    BY DEF Truth, Says
  <1> QED
    BY <1>1, <1>2, ExecutionFacts

\* The verifier's record for an order that is shown is the truth, or says nothing.
LEMMA JudgeTruth ==
  ASSUME TypeOK, NEW c \in Calls, CallInv(c), shown[c] # Hidden
  PROVE  Judge(c) = Unknown \/ Judge(c) = Truth(c)
  <1> DEFINE i == IntentOf(c)
             fills == orders[c].fills
             seen == Seen(c)
  <1>0. orders[c] # NoOrder /\ shown[c] <= Len(fills)
    BY DEF CallInv
  <1>1. /\ i \in Intents /\ Orderable(i) /\ orders[c].size = OrderSize(i)
        /\ orders[c].limit = Limit[i] /\ fills \in Executions(i) /\ fills \in Seq(Fill)
    BY <1>0, OrderFacts
  <1>2. /\ Lots(fills) \in Nat /\ (\A n \in DOMAIN fills : fills[n].px <= Limit[i])
        /\ Spent(fills) \in Nat /\ Spent(fills) <= Notional[i]
        /\ Lots(fills) = OrderSize(i) => Spent(fills) # 0
    <2> HIDE DEF i, fills
    <2> QED
      BY <1>1, ExecutionFacts
  <1>3. Notional[i] \in Nat /\ Limit[i] \in Nat
    BY <1>1, SizeFacts
  <1>4. shown[c] \in 0 .. Len(fills)
    <2>1. MaxFills \in Nat /\ Len(fills) \in Nat
      BY <1>1, HyperliquidConstants
    <2>2. shown[c] \in -1 .. MaxFills /\ shown[c] # -1
      BY DEF TypeOK, Hidden
    <2> HIDE DEF fills
    <2> QED
      BY <1>0, <2>1, <2>2
  <1>5. /\ seen \in Seq(Fill) /\ DOMAIN seen = 1 .. shown[c]
        /\ \A n \in 1 .. shown[c] : seen[n] = fills[n]
        /\ Lots(seen) <= Lots(fills)
        /\ Lots(seen) = Lots(fills) => seen = fills
    <2> DEFINE k == shown[c]
    <2>1. seen = SubSeq(fills, 1, k)
      BY DEF Seen
    <2>2. k \in 0 .. Len(fills) /\ fills \in Seq(Fill)
      BY <1>1, <1>4
    <2> HIDE DEF seen, fills, k
    <2>3. FirstFills(seen, fills, k)
      BY <2>1, <2>2, SeenLots
    <2> QED
      BY <2>3 DEF k, FirstFills
  <1>6. Lots(seen) \in Nat
    BY <1>5, AmountFacts
  <1>7. ~Misbound(c)
    BY <1>1 DEF Misbound
  <1>8. ~(Lots(seen) > Filled(c) \/ \E n \in DOMAIN seen : seen[n].px > Limit[i])
    <2>1. Filled(c) = Lots(fills)
      BY DEF Filled
    <2>2. ASSUME NEW n \in DOMAIN seen PROVE ~(seen[n].px > Limit[i])
      <3>1. n \in DOMAIN fills /\ seen[n] = fills[n]
        BY <1>1, <1>4, <1>5
      <3>2. fills[n].px \in Nat /\ fills[n].px <= Limit[i]
        BY <1>1, <1>2, <3>1, FillFacts
      <3> HIDE DEF i, fills, seen
      <3> QED
        BY <1>3, <3>1, <3>2
    <2> HIDE DEF i, fills, seen
    <2> QED
      BY <1>2, <1>5, <1>6, <2>1, <2>2
  <1>9. ASSUME ~(Lots(seen) < Filled(c))
        PROVE  /\ seen = fills
               /\ ~(Spent(seen) > Notional[i] \/ (Complete(c) /\ Spent(seen) = 0))
    <2>1. Filled(c) = Lots(fills) /\ (Complete(c) <=> Lots(fills) = OrderSize(i))
      BY <1>1 DEF Filled, Complete
    <2> HIDE DEF i, fills, seen
    <2>2. Lots(seen) = Lots(fills)
      BY <1>2, <1>5, <1>6, <1>9, <2>1
    <2> QED
      BY <1>2, <1>3, <1>5, <2>1, <2>2
  <1>10. Says(IF Complete(c) THEN "FINALIZED" ELSE "CANCELLED", c, Spent(fills)) = Truth(c)
    BY DEF Truth, Complete, Filled
  <1>11. Judge(c) = IF Misbound(c) THEN Contradiction
                    ELSE IF Page(c) >= PageLimit THEN Unknown
                    ELSE IF Lots(seen) > Filled(c) \/ \E n \in DOMAIN seen : seen[n].px > Limit[i]
                         THEN Contradiction
                    ELSE IF Lots(seen) < Filled(c) THEN Unknown
                    ELSE IF Spent(seen) > Notional[i] \/ (Complete(c) /\ Spent(seen) = 0)
                         THEN Contradiction
                    ELSE Says(IF Complete(c) THEN "FINALIZED" ELSE "CANCELLED", c, Spent(seen))
    BY DEF Judge
  <1> HIDE DEF i, fills, seen
  <1> QED
    BY <1>7, <1>8, <1>9, <1>10, <1>11

-----------------------------------------------------------------------------
(* Attempts *)

\* An intent has one call at most: none, or the first.
LEMMA AttemptsIs ==
  ASSUME AdapterInv, NEW i \in Intents
  PROVE  /\ Begun(i) => Attempts(i) = 1 /\ Current(i) = <<i, 1>> /\ <<i, 1>> \in Calls
         /\ ~Begun(i) => Attempts(i) = 0
  <1> DEFINE N == {n \in 1 .. MaxAttempts : call[<<i, n>>].pc # "none"}
  <1>1. \A n \in 1 .. MaxAttempts : <<i, n>> \in Calls
    BY DEF Calls
  <1>2. \A n \in N : n = 1
    <2>1. ASSUME NEW n \in N PROVE n = 1
      <3> DEFINE c == <<i, n>>
      <3>1. c \in Calls /\ c[2] = n /\ call[c].pc # "none"
        BY <1>1
      <3>2. CallInv(c)
        BY <3>1 DEF AdapterInv
      <3> HIDE DEF c
      <3> QED
        BY <3>1, <3>2 DEF CallInv
    <2> QED
      BY <2>1
  <1>3. Attempts(i) = Cardinality(N)
    BY DEF Attempts
  <1>4. CASE Begun(i)
    <2>1. <<i, 1>> \in Calls /\ call[<<i, 1>>].pc # "none"
      BY <1>4 DEF Begun
    <2>2. 1 \in 1 .. MaxAttempts
      BY <2>1 DEF Calls
    <2>3. N = {1}
      BY <1>2, <2>1, <2>2
    <2>4. Cardinality(N) = 1
      BY <2>3, FS_Singleton
    <2> QED
      BY <1>3, <1>4, <2>1, <2>4 DEF Current
  <1>5. CASE ~Begun(i)
    <2>1. N = {}
      <3> SUFFICES ASSUME NEW n \in N PROVE FALSE
        OBVIOUS
      <3>1. n = 1 /\ n \in 1 .. MaxAttempts /\ call[<<i, n>>].pc # "none"
        BY <1>2
      <3> QED
        BY <1>1, <1>5, <3>1 DEF Begun
    <2>2. Cardinality(N) = 0
      BY <2>1, FS_EmptySet
    <2> QED
      BY <1>3, <1>5, <2>2
  <1> QED
    BY <1>4, <1>5

\* A further attempt would need an authoritative absence, which no record states.
LEMMA MayAttemptFirst ==
  ASSUME AdapterInv, NEW i \in Intents, MayAttempt(i)
  PROVE  ~Begun(i) /\ MaxAttempts > 0
  <1>1. MaxAttempts \in Nat
    BY HyperliquidConstants
  <1>2. ~Begun(i)
    <2> SUFFICES ASSUME Begun(i) PROVE FALSE
      OBVIOUS
    <2>1. Attempts(i) = 1
      BY AttemptsIs
    <2>2. verdict[i].status = "NONE"
      BY <2>1 DEF MayAttempt
    <2> QED
      BY <2>2 DEF AdapterInv, ThreadInv
  <1>3. Attempts(i) = 0 /\ Attempts(i) < MaxAttempts
    BY <1>2, AttemptsIs DEF MayAttempt
  <1> QED
    BY <1>1, <1>2, <1>3

-----------------------------------------------------------------------------
(* What a step leaves alone *)

CallRow == [pc : {"none", "start", "consume", "post", "await", "done", "refused"},
            issued : 0 .. MaxClock, now : 0 .. MaxClock, orphan : BOOLEAN]
Orphaned == {c \in Calls : call[c].orphan /\ ~Ended(c)}
Pending == {i \in Intents : caller[i] \in Underway}

\* There are finitely many calls and threads.
LEMMA FiniteCalls ==
  /\ IsFiniteSet(Calls) /\ IsFiniteSet(Intents) /\ Cardinality(Intents) \in Nat
  /\ \A S \in SUBSET Calls : IsFiniteSet(S) /\ Cardinality(S) \in Nat
  /\ \A S \in SUBSET Intents :
       IsFiniteSet(S) /\ Cardinality(S) \in Nat /\ Cardinality(S) <= Cardinality(Intents)
  <1>1. IsFiniteSet(Intents) /\ MaxAttempts \in Nat
    BY HyperliquidConstants
  <1>2. IsFiniteSet(1 .. MaxAttempts)
    BY <1>1, FS_Interval
  <1>3. IsFiniteSet(Calls)
    BY <1>1, <1>2, FS_Product DEF Calls
  <1> QED
    BY <1>1, <1>3, FS_Subset, FS_CardinalityType

\* The calls that run on are counted, and with the threads underway are within the limit.
LEMMA OrphanFacts ==
  ASSUME AdapterInv
  PROVE  /\ Orphaned \in SUBSET Calls /\ Pending \in SUBSET Intents
         /\ orphans \in Nat /\ orphans = Cardinality(Orphaned)
         /\ MaxOrphans \in Nat /\ MaxOrphans >= 1
         /\ peak \in Nat /\ Cardinality(Pending) <= peak
         /\ orphans + Cardinality(Pending) <= MaxOrphans - 1 + peak
  <1>1. MaxOrphans \in Nat /\ MaxOrphans >= 1
    BY HyperliquidConstants
  <1>2. Orphaned \in SUBSET Calls /\ Pending \in SUBSET Intents
    BY DEF Orphaned, Pending
  <1> QED
    BY <1>1, <1>2 DEF AdapterInv, OrphanInv, OrphansCounted, PastCheck, Orphaned, Pending, TypeOK

\* The invariant of a call that a step leaves alone, but for its permit's end.
LEMMA CallFrame ==
  ASSUME NEW c, CallInv(c), call'[c] = call[c], orders'[c] = orders[c], shown'[c] = shown[c],
         ledger[c] = "consumed" => ledger'[c] = "consumed", c \in posts' <=> c \in posts
  PROVE  CallInv(c)'
  BY DEF CallInv, Expires

\* The invariant of a thread that a step leaves alone.
LEMMA ThreadFrame ==
  ASSUME NEW i, ThreadInv(i), caller'[i] = caller[i], verdict'[i] = verdict[i],
         reading'[i] = reading[i],
         Begun(i)' <=> Begun(i),
         caller[i] \in {"waiting", "late"} /\ ~call[<<i, 1>>].orphan => ~call'[<<i, 1>>].orphan,
         reading[i] # NoCall /\ shown[reading[i]] # Hidden => shown'[reading[i]] # Hidden
  PROVE  ThreadInv(i)'
  BY DEF ThreadInv

\* Records stay true while orders stay.
LEMMA VerdictFrame ==
  ASSUME VerdictIsVenueTruth, \A c \in Calls : orders[c] # NoOrder => orders'[c] = orders[c],
         NEW i \in Intents, verdict'[i] = verdict[i], verdict[i].authoritative
  PROVE  /\ verdict'[i].order \in OrdersOf(i)'
         /\ orders'[verdict'[i].order] = orders[verdict[i].order]
         /\ verdict[i].order \in OrdersOf(i)
  BY DEF VerdictIsVenueTruth, OrdersOf

\* Orders stay, and every record stays or says nothing: the records are true.
LEMMA VerdictsKept ==
  ASSUME VerdictIsVenueTruth, \A c \in Calls : orders[c] # NoOrder => orders'[c] = orders[c],
         \A i \in Intents : verdict'[i] = verdict[i] \/ ~verdict'[i].authoritative
  PROVE  VerdictIsVenueTruth'
  <1> SUFFICES ASSUME NEW i \in Intents, verdict'[i].authoritative
               PROVE  /\ verdict'[i].order \in OrdersOf(i)'
                      /\ LET o == orders'[verdict'[i].order] IN
                         /\ verdict'[i].status = IF Lots(o.fills) = o.size THEN "FINALIZED" ELSE "CANCELLED"
                         /\ verdict'[i].amount = Spent(o.fills)
                         /\ verdict'[i].amount <= Notional[i]
    BY DEF VerdictIsVenueTruth
  <1>1. verdict'[i] = verdict[i] /\ verdict[i].authoritative
    OBVIOUS
  <1>2. /\ verdict'[i].order \in OrdersOf(i)'
        /\ orders'[verdict'[i].order] = orders[verdict[i].order]
    BY <1>1, VerdictFrame
  <1> QED
    BY <1>1, <1>2 DEF VerdictIsVenueTruth

\* The count is right while the set of orphaned calls and the threads underway stay.
LEMMA OrphansKept ==
  ASSUME AdapterInv, Orphaned' = Orphaned, Pending' \subseteq Pending, orphans' = orphans,
         peak' = peak
  PROVE  OrphanInv'
  <1>1. /\ Orphaned \in SUBSET Calls /\ Pending \in SUBSET Intents
        /\ orphans \in Nat /\ orphans = Cardinality(Orphaned)
        /\ MaxOrphans \in Nat /\ MaxOrphans >= 1
        /\ peak \in Nat /\ Cardinality(Pending) <= peak
        /\ orphans + Cardinality(Pending) <= MaxOrphans - 1 + peak
    BY OrphanFacts
  <1>2. Cardinality(Pending') \in Nat /\ Cardinality(Pending) \in Nat
        /\ Cardinality(Pending') <= Cardinality(Pending) /\ Cardinality(Intents) \in Nat
    BY <1>1, FiniteCalls, FS_Subset
  <1>3. /\ orphans' + Cardinality(Pending') <= MaxOrphans - 1 + peak'
        /\ Cardinality(Pending') <= peak'
    BY <1>1, <1>2
  <1> QED
    BY <1>1, <1>3 DEF OrphanInv, OrphansCounted, PastCheck, Orphaned, Pending

-----------------------------------------------------------------------------
(* Steps of the runtime threads *)

\* A step that changes the position of thread i alone, or nothing but the clock.
LEMMA ThreadMoves ==
  ASSUME AdapterInv, NEW i \in Intents, NEW p \in {"idle", "cleared", "waiting", "late", "stopped"},
         caller' = [caller EXCEPT ![i] = p], clock' \in 0 .. MaxClock,
         UNCHANGED <<call, ledger, orphans, exchangeVars, verifierVars>>, peak' \in Nat,
         p = "cleared" => ~Begun(i) /\ MaxAttempts > 0,
         p \in {"waiting", "late"} => caller[i] \in {"waiting", "late"},
         OrphanInv'
  PROVE  AdapterInv'
  <1>0. /\ TypeOK /\ (\A c \in Calls : CallInv(c)) /\ (\A j \in Intents : ThreadInv(j))
        /\ VerdictIsVenueTruth
        /\ call' = call /\ ledger' = ledger /\ orphans' = orphans /\ posts' = posts
        /\ orders' = orders /\ shown' = shown /\ reading' = reading /\ verdict' = verdict
    BY DEF AdapterInv, exchangeVars, verifierVars
  <1>1. /\ caller' \in [Intents -> {"idle", "cleared", "waiting", "late", "stopped"}]
        /\ caller'[i] = p /\ \A j \in Intents \ {i} : caller'[j] = caller[j]
    BY <1>0 DEF TypeOK
  <1>2. TypeOK'
    BY <1>0, <1>1 DEF TypeOK
  <1>3. \A c \in Calls : CallInv(c)'
    BY <1>0, CallFrame
  <1>4. ASSUME NEW j \in Intents PROVE ThreadInv(j)'
    <2>0. Begun(j)' <=> Begun(j)
      BY <1>0 DEF Begun
    <2>1. CASE j = i
      <3>1. ThreadInv(i)
        BY <1>0
      <3> QED
        BY <1>0, <1>1, <2>0, <2>1, <3>1 DEF ThreadInv
    <2>2. CASE j # i
      BY <1>0, <1>1, <2>0, <2>2, ThreadFrame
    <2> QED
      BY <2>1, <2>2
  <1>5. VerdictIsVenueTruth'
    BY <1>0, VerdictsKept
  <1> QED
    BY <1>2, <1>3, <1>4, <1>5 DEF AdapterInv

\* The set of orphaned calls depends on the calls only.
LEMMA SameOrphans ==
  ASSUME call' = call
  PROVE  Orphaned' = Orphaned
  BY DEF Orphaned, Ended

\* The orphan count is read.
LEMMA CheckOrphansStep ==
  ASSUME AdapterInv, NEW i \in Intents, CheckOrphans(i)
  PROVE  AdapterInv'
  <1>0. /\ caller[i] = "idle" /\ MayAttempt(i) /\ clock' = clock /\ call' = call
        /\ orphans' = orphans
        /\ UNCHANGED <<call, ledger, orphans, exchangeVars, verifierVars>>
        /\ peak' = IF Cardinality(Pending') > peak THEN Cardinality(Pending') ELSE peak
    BY DEF CheckOrphans, PastCheck, Pending
  <1> DEFINE p == IF orphans >= MaxOrphans THEN "stopped" ELSE "cleared"
  <1>1. caller' = [caller EXCEPT ![i] = p]
    BY DEF CheckOrphans
  <1>2. p \in {"stopped", "cleared"} /\ ~Begun(i) /\ MaxAttempts > 0
    BY <1>0, MayAttemptFirst
  <1>3. caller \in [Intents -> {"idle", "cleared", "waiting", "late", "stopped"}]
        /\ clock' \in 0 .. MaxClock
    BY <1>0 DEF AdapterInv, TypeOK
  <1>a. /\ Cardinality(Pending') \in Nat /\ Cardinality(Pending) \in Nat
        /\ peak \in Nat /\ Cardinality(Pending) <= peak
        /\ orphans \in Nat /\ orphans = Cardinality(Orphaned) /\ MaxOrphans \in Nat
    <2>1. Pending' \in SUBSET Intents /\ Pending \in SUBSET Intents
      BY DEF Pending
    <2> QED
      BY <2>1, FiniteCalls, OrphanFacts
  <1>b. peak' \in Nat
    BY <1>0, <1>a
  <1>4. OrphanInv'
    <2>1. CASE orphans >= MaxOrphans
      <3>1. caller'[i] = "stopped" /\ \A j \in Intents \ {i} : caller'[j] = caller[j]
        BY <1>1, <1>3, <2>1
      <3>2. Pending' = Pending
        BY <1>0, <3>1 DEF Pending, Underway
      <3>3. peak' = peak
        BY <1>0, <1>a, <3>2
      <3> QED
        BY <1>0, <3>2, <3>3, SameOrphans, OrphansKept
    <2>2. CASE ~(orphans >= MaxOrphans)
      <3>1. orphans' <= MaxOrphans - 1 /\ orphans' \in Nat /\ Cardinality(Pending') <= peak'
        BY <1>0, <1>a, <2>2
      <3>2. orphans' + Cardinality(Pending') <= MaxOrphans - 1 + peak'
        BY <1>a, <1>b, <3>1
      <3>3. orphans' = Cardinality(Orphaned')
        BY <1>0, <1>a, SameOrphans
      <3> QED
        BY <3>1, <3>2, <3>3 DEF OrphanInv, OrphansCounted, PastCheck, Orphaned, Pending
    <2> QED
      BY <2>1, <2>2
  <1> HIDE DEF p
  <1> QED
    BY <1>0, <1>1, <1>2, <1>3, <1>b, <1>4, ThreadMoves

\* The deadline passes.
LEMMA DeadlineStep ==
  ASSUME AdapterInv, NEW i \in Intents, Deadline(i)
  PROVE  AdapterInv'
  <1>0. /\ caller[i] = "waiting" /\ caller' = [caller EXCEPT ![i] = "late"]
        /\ clock' = clock /\ call' = call /\ orphans' = orphans /\ peak' = peak
        /\ UNCHANGED <<call, ledger, orphans, exchangeVars, verifierVars>>
    BY DEF Deadline
  <1>1. caller \in [Intents -> {"idle", "cleared", "waiting", "late", "stopped"}]
        /\ clock' \in 0 .. MaxClock /\ peak' \in Nat
    BY <1>0 DEF AdapterInv, TypeOK
  <1>2. Pending' = Pending
    BY <1>0, <1>1 DEF Pending, Underway
  <1>3. OrphanInv'
    BY <1>0, <1>2, SameOrphans, OrphansKept
  <1> QED
    BY <1>0, <1>1, <1>3, ThreadMoves

\* The call's outcome is taken.
LEMMA CollectStep ==
  ASSUME AdapterInv, NEW i \in Intents, Collect(i)
  PROVE  AdapterInv'
  <1>0. /\ caller' = [caller EXCEPT ![i] = "idle"]
        /\ clock' = clock /\ call' = call /\ orphans' = orphans /\ peak' = peak
        /\ UNCHANGED <<call, ledger, orphans, exchangeVars, verifierVars>>
    BY DEF Collect
  <1>1. caller \in [Intents -> {"idle", "cleared", "waiting", "late", "stopped"}]
        /\ clock' \in 0 .. MaxClock /\ peak' \in Nat
    BY <1>0 DEF AdapterInv, TypeOK
  <1>2. Pending' \subseteq Pending
    BY <1>0, <1>1 DEF Pending, Underway
  <1>3. OrphanInv'
    BY <1>0, <1>2, SameOrphans, OrphansKept
  <1> QED
    BY <1>0, <1>1, <1>3, ThreadMoves

\* The thread gives the call up: one thread less underway, one orphan more.
LEMMA AbandonStep ==
  ASSUME AdapterInv, NEW i \in Intents, Abandon(i)
  PROVE  AdapterInv'
  <1> DEFINE c == <<i, 1>>
  <1>0. /\ TypeOK /\ (\A d \in Calls : CallInv(d)) /\ (\A j \in Intents : ThreadInv(j))
        /\ VerdictIsVenueTruth /\ caller[i] = "late"
        /\ orphans' = orphans + 1 /\ caller' = [caller EXCEPT ![i] = "idle"] /\ peak' = peak
        /\ clock' = clock /\ ledger' = ledger /\ posts' = posts
        /\ orders' = orders /\ shown' = shown /\ reading' = reading /\ verdict' = verdict
    BY DEF AdapterInv, Abandon, exchangeVars, verifierVars
  <1>1. Begun(i) /\ ~call[c].orphan
    BY <1>0 DEF ThreadInv
  <1>2. c \in Calls /\ Current(i) = c /\ call[c].pc # "none"
    BY <1>1, AttemptsIs DEF Begun
  <1>3. ~Ended(c) /\ call' = [call EXCEPT ![c].orphan = TRUE]
    BY <1>2 DEF Abandon
  <1>4. call \in [Calls -> CallRow]
    BY <1>0 DEF TypeOK, CallRow
  <1>5. c[2] = 1 /\ \A j \in Intents : j # i => <<j, 1>> # c
    OBVIOUS
  <1> HIDE DEF c
  <1>6. /\ call' \in [Calls -> CallRow]
        /\ call'[c].pc = call[c].pc /\ call'[c].orphan = TRUE
        /\ call'[c].issued = call[c].issued /\ call'[c].now = call[c].now
        /\ \A d \in Calls \ {c} : call'[d] = call[d]
    BY <1>2, <1>3, <1>4 DEF CallRow
  <1>7. /\ caller' \in [Intents -> {"idle", "cleared", "waiting", "late", "stopped"}]
        /\ caller'[i] = "idle" /\ \A j \in Intents \ {i} : caller'[j] = caller[j]
    BY <1>0 DEF TypeOK
  <1>8. orphans \in Nat
    BY <1>0 DEF TypeOK
  <1>9. TypeOK'
    <2>1. orphans' \in Nat
      BY <1>0, <1>8
    <2> QED
      BY <1>0, <1>6, <1>7, <2>1 DEF TypeOK, CallRow
  <1>10. ASSUME NEW d \in Calls PROVE CallInv(d)'
    <2>1. CASE d = c
      <3>1. CallInv(c)
        BY <1>0, <1>2
      <3> QED
        BY <1>0, <1>2, <1>6, <2>1, <3>1 DEF CallInv, Expires
    <2>2. CASE d # c
      BY <1>0, <1>6, <2>2, CallFrame
    <2> QED
      BY <2>1, <2>2
  <1>11. ASSUME NEW j \in Intents PROVE ThreadInv(j)'
    <2>0. Begun(j)' <=> Begun(j)
      BY <1>2, <1>6 DEF Begun
    <2>1. CASE j = i
      <3>1. ThreadInv(i)
        BY <1>0
      <3> QED
        BY <1>0, <1>7, <2>0, <2>1, <3>1 DEF ThreadInv
    <2>2. CASE j # i
      <3>1. ThreadInv(j) /\ <<j, 1>> # c
        BY <1>0, <1>5, <2>2
      <3>2. caller[j] \in {"waiting", "late"} => call'[<<j, 1>>] = call[<<j, 1>>]
        BY <1>6, <3>1 DEF ThreadInv, Begun
      <3> QED
        BY <1>0, <1>7, <2>0, <2>2, <3>1, <3>2, ThreadFrame
    <2> QED
      BY <2>1, <2>2
  <1>12. OrphanInv'
    <2>1. /\ Orphaned \in SUBSET Calls /\ Pending \in SUBSET Intents
          /\ orphans = Cardinality(Orphaned) /\ MaxOrphans \in Nat /\ MaxOrphans >= 1
          /\ peak \in Nat /\ Cardinality(Pending) <= peak
          /\ orphans + Cardinality(Pending) <= MaxOrphans - 1 + peak
      BY OrphanFacts
    <2>2. Orphaned' = Orphaned \cup {c} /\ c \notin Orphaned
      BY <1>1, <1>2, <1>3, <1>6 DEF Orphaned, Ended, c
    <2>3. Pending' = Pending \ {i} /\ i \in Pending
      BY <1>0, <1>7 DEF Pending, Underway
    <2>4. IsFiniteSet(Orphaned) /\ IsFiniteSet(Pending) /\ Cardinality(Pending) \in Nat
          /\ Cardinality(Intents) \in Nat
      BY <2>1, FiniteCalls
    <2>5. Cardinality(Orphaned') = orphans + 1
      BY <2>1, <2>2, <2>4, FS_AddElement
    <2>6. Cardinality(Pending') = Cardinality(Pending) - 1
      BY <2>3, <2>4, FS_RemoveElement
    <2>7. orphans' + Cardinality(Pending') <= MaxOrphans - 1 + peak' /\ Cardinality(Pending') <= peak'
      BY <1>0, <1>8, <2>1, <2>4, <2>6
    <2> QED
      BY <1>0, <2>5, <2>7 DEF OrphanInv, OrphansCounted, PastCheck, Orphaned, Pending
  <1>13. VerdictIsVenueTruth'
    BY <1>0, VerdictsKept
  <1> QED
    BY <1>9, <1>10, <1>11, <1>12, <1>13 DEF AdapterInv

\* The clock goes on, or permits die.
LEMMA QuietStep ==
  ASSUME AdapterInv, clock' \in 0 .. MaxClock,
         ledger' \in [Calls -> {"none", "live", "dead", "consumed"}],
         \A c \in Calls : ledger[c] = "consumed" => ledger'[c] = "consumed",
         UNCHANGED <<caller, call, orphans, peak, exchangeVars, verifierVars>>
  PROVE  AdapterInv'
  <1>0. /\ TypeOK /\ (\A c \in Calls : CallInv(c)) /\ (\A j \in Intents : ThreadInv(j))
        /\ VerdictIsVenueTruth
        /\ caller' = caller /\ call' = call /\ orphans' = orphans /\ peak' = peak /\ posts' = posts
        /\ orders' = orders /\ shown' = shown /\ reading' = reading /\ verdict' = verdict
    BY DEF AdapterInv, exchangeVars, verifierVars
  <1>1. TypeOK'
    BY <1>0 DEF TypeOK
  <1>2. \A c \in Calls : CallInv(c)'
    BY <1>0, CallFrame
  <1>3. \A j \in Intents : ThreadInv(j)'
    <2>1. \A j \in Intents : Begun(j)' <=> Begun(j)
      BY <1>0 DEF Begun
    <2> QED
      BY <1>0, <2>1, ThreadFrame
  <1>4. VerdictIsVenueTruth'
    BY <1>0, VerdictsKept
  <1>5. OrphanInv'
    <2>1. Pending' = Pending
      BY <1>0 DEF Pending
    <2> QED
      BY <1>0, <2>1, SameOrphans, OrphansKept
  <1> QED
    BY <1>1, <1>2, <1>3, <1>4, <1>5 DEF AdapterInv

\* Time passes.
LEMMA TickStep ==
  ASSUME AdapterInv, Tick
  PROVE  AdapterInv'
  <1>1. /\ ledger' = ledger /\ UNCHANGED <<caller, call, orphans, peak, exchangeVars, verifierVars>>
    BY DEF Tick, exchangeVars, verifierVars
  <1>2. clock' \in 0 .. MaxClock
    <2>1. clock \in 0 .. MaxClock /\ MaxClock \in Nat /\ clock < MaxClock /\ clock' = clock + 1
      BY HyperliquidConstants DEF AdapterInv, TypeOK, Tick
    <2> QED
      BY <2>1
  <1>3. ledger' \in [Calls -> {"none", "live", "dead", "consumed"}]
    BY <1>1 DEF AdapterInv, TypeOK
  <1> QED
    BY <1>1, <1>2, <1>3, QuietStep

\* The grant is stopped: no consumed permit is touched.
LEMMA StopGrantStep ==
  ASSUME AdapterInv, NEW i \in Intents, StopGrant(i)
  PROVE  AdapterInv'
  <1>1. clock' = clock /\ UNCHANGED <<caller, call, orphans, peak, exchangeVars, verifierVars>>
    BY DEF StopGrant
  <1>2. clock' \in 0 .. MaxClock
    BY <1>1 DEF AdapterInv, TypeOK
  <1>3. ledger \in [Calls -> {"none", "live", "dead", "consumed"}]
    BY DEF AdapterInv, TypeOK
  <1>4. /\ ledger' \in [Calls -> {"none", "live", "dead", "consumed"}]
        /\ \A c \in Calls : ledger[c] = "consumed" => ledger'[c] = "consumed"
    BY <1>3 DEF StopGrant
  <1> QED
    BY <1>1, <1>2, <1>4, QuietStep

\* The first call starts; nothing was posted for it, and no call started before.
LEMMA StartCallStep ==
  ASSUME AdapterInv, NEW i \in Intents, StartCall(i)
  PROVE  AdapterInv'
  <1> DEFINE c == <<i, 1>>
  <1>0. /\ TypeOK /\ (\A d \in Calls : CallInv(d)) /\ (\A j \in Intents : ThreadInv(j))
        /\ VerdictIsVenueTruth /\ caller[i] = "cleared"
        /\ caller' = [caller EXCEPT ![i] = "waiting"] /\ verdict' = [verdict EXCEPT ![i] = Unknown]
        /\ clock' = clock /\ orphans' = orphans /\ peak' = peak /\ posts' = posts
        /\ orders' = orders /\ shown' = shown /\ reading' = reading
    BY DEF AdapterInv, StartCall, exchangeVars
  <1>1. ~Begun(i) /\ MaxAttempts > 0 /\ MaxAttempts \in Nat
    BY <1>0, HyperliquidConstants DEF ThreadInv
  <1>2. Attempts(i) = 0 /\ c \in Calls /\ call[c].pc = "none"
    <2>1. 1 \in 1 .. MaxAttempts
      BY <1>1
    <2>2. c \in Calls
      BY <2>1 DEF Calls
    <2> QED
      BY <1>1, <2>2, AttemptsIs DEF Begun
  <1>3. <<i, Attempts(i) + 1>> = c /\ IntentOf(c) = i /\ c[2] = 1
    BY <1>2 DEF IntentOf
  <1>4. /\ call' = [call EXCEPT ![c].pc = "start", ![c].issued = clock]
        /\ ledger' = [d \in Calls |-> CASE d = c -> "live"
                                        [] d # c /\ IntentOf(d) = i /\ ledger[d] = "live" -> "dead"
                                        [] OTHER -> ledger[d]]
    BY <1>3 DEF StartCall
  <1>5. call \in [Calls -> CallRow] /\ clock \in 0 .. MaxClock
        /\ ledger \in [Calls -> {"none", "live", "dead", "consumed"}]
    BY <1>0 DEF TypeOK, CallRow
  <1>6. \A j \in Intents : j # i => <<j, 1>> # c
    OBVIOUS
  <1> HIDE DEF c
  <1>7. /\ call' \in [Calls -> CallRow]
        /\ call'[c].pc = "start" /\ call'[c].orphan = call[c].orphan
        /\ \A d \in Calls \ {c} : call'[d] = call[d]
    <2> DEFINE r == [[call[c] EXCEPT !.pc = "start"] EXCEPT !.issued = clock]
    <2>1. call[c] \in CallRow
      BY <1>2, <1>5
    <2>2. r \in CallRow /\ r.pc = "start" /\ r.orphan = call[c].orphan
      BY <1>5, <2>1 DEF CallRow
    <2>3. call' = [call EXCEPT ![c] = r]
      BY <1>2, <1>4, <1>5
    <2> HIDE DEF r
    <2> QED
      BY <1>2, <1>5, <2>2, <2>3
  <1>8. /\ ledger' \in [Calls -> {"none", "live", "dead", "consumed"}]
        /\ \A d \in Calls \ {c} : ledger[d] = "consumed" => ledger'[d] = "consumed"
    BY <1>4, <1>5
  <1>9. /\ caller' \in [Intents -> {"idle", "cleared", "waiting", "late", "stopped"}]
        /\ caller'[i] = "waiting" /\ \A j \in Intents \ {i} : caller'[j] = caller[j]
    BY <1>0 DEF TypeOK
  <1>10. verdict'[i] = Unknown /\ \A j \in Intents \ {i} : verdict'[j] = verdict[j]
    BY <1>0 DEF TypeOK
  <1>11. TypeOK'
    <2> DEFINE V == [status : {"UNKNOWN", "NONE", "FINALIZED", "CANCELLED", "CONTRADICTORY"},
                     authoritative : BOOLEAN, order : Calls \cup {NoCall}, amount : Nat]
    <2>1. Unknown \in V
      BY DEF Unknown
    <2>2. verdict \in [Intents -> V]
      BY <1>0 DEF TypeOK
    <2>3. verdict' \in [Intents -> V]
      <3> HIDE DEF V
      <3> QED
        BY <1>0, <2>1, <2>2
    <2> QED
      BY <1>0, <1>5, <1>7, <1>8, <1>9, <2>3 DEF TypeOK, CallRow
  <1>12. call[c] = Unsent /\ c \notin posts /\ orders[c] = NoOrder /\ ~call[c].orphan
         /\ CallInv(c)
    <2>1. CallInv(c)
      BY <1>0, <1>2
    <2> QED
      BY <1>2, <2>1 DEF CallInv, Unsent
  <1>13. ASSUME NEW d \in Calls PROVE CallInv(d)'
    <2>1. CASE d = c
      BY <1>0, <1>3, <1>7, <1>12, <2>1 DEF CallInv
    <2>2. CASE d # c
      BY <1>0, <1>7, <1>8, <2>2, CallFrame
    <2> QED
      BY <2>1, <2>2
  <1>14. ASSUME NEW j \in Intents PROVE ThreadInv(j)'
    <2>1. CASE j = i
      <3>1. ThreadInv(i)
        BY <1>0
      <3>2. Begun(i)'
        BY <1>2, <1>7 DEF Begun, c
      <3>3. ~call'[<<i, 1>>].orphan
        BY <1>7, <1>12 DEF c
      <3>4. verdict'[i].status # "NONE"
        BY <1>10 DEF Unknown
      <3> QED
        BY <1>0, <1>9, <2>1, <3>1, <3>2, <3>3, <3>4 DEF ThreadInv
    <2>2. CASE j # i
      <3>1. ThreadInv(j) /\ <<j, 1>> # c
        BY <1>0, <1>6, <2>2
      <3>2. Begun(j)' <=> Begun(j)
        BY <1>7, <3>1 DEF Begun
      <3>3. caller[j] \in {"waiting", "late"} => call'[<<j, 1>>] = call[<<j, 1>>]
        BY <1>7, <3>1 DEF ThreadInv, Begun
      <3> QED
        BY <1>0, <1>9, <1>10, <2>2, <3>1, <3>2, <3>3, ThreadFrame
    <2> QED
      BY <2>1, <2>2
  <1>15. OrphanInv'
    <2>1. Orphaned' = Orphaned
      BY <1>7, <1>12 DEF Orphaned, Ended
    <2>2. Pending' = Pending
      BY <1>0, <1>9 DEF Pending, Underway
    <2> QED
      BY <1>0, <2>1, <2>2, OrphansKept
  <1>16. VerdictIsVenueTruth'
    <2>1. ~Unknown.authoritative
      BY DEF Unknown
    <2> QED
      BY <1>0, <1>10, <2>1, VerdictsKept
  <1> QED
    BY <1>11, <1>13, <1>14, <1>15, <1>16 DEF AdapterInv

-----------------------------------------------------------------------------
(* Steps of the adapter calls *)

Over(pc) == pc \in {"done", "refused"}

\* What a step of a call needs: the call goes on, its permit is consumed before its
\* action leaves, and an orphan that ends is no longer counted.
CallGoesOn(c, r) ==
  /\ call' = [call EXCEPT ![c] = r] /\ r \in CallRow
  /\ call[c].pc # "none" /\ r.pc # "none" /\ ~Ended(c)
  /\ r.issued = call[c].issued /\ r.orphan = call[c].orphan
  /\ ledger' \in [Calls -> {"none", "live", "dead", "consumed"}]
  /\ \A d \in Calls : ledger[d] = "consumed" => ledger'[d] = "consumed"
  /\ posts' \in {posts, posts \cup {c}}
  /\ r.pc \in {"consume", "post", "await"} => Orderable(IntentOf(c))
  /\ r.pc \in {"post", "await"} => ledger'[c] = "consumed"
  /\ c \in posts' => ledger'[c] = "consumed" /\ Orderable(IntentOf(c))
  /\ orphans' = IF r.orphan /\ Over(r.pc) THEN orphans - 1 ELSE orphans
  /\ UNCHANGED <<clock, caller, peak, orders, shown, verifierVars>>

\* A call goes on.
LEMMA CallStep ==
  ASSUME AdapterInv, NEW c \in Calls, NEW r, CallGoesOn(c, r)
  PROVE  AdapterInv'
  <1>0. /\ TypeOK /\ (\A d \in Calls : CallInv(d)) /\ (\A j \in Intents : ThreadInv(j))
        /\ VerdictIsVenueTruth
        /\ clock' = clock /\ caller' = caller /\ peak' = peak
        /\ orders' = orders /\ shown' = shown /\ reading' = reading /\ verdict' = verdict
    BY DEF AdapterInv, CallGoesOn, verifierVars
  <1>1. call \in [Calls -> CallRow] /\ orphans \in Nat /\ posts \subseteq Calls
    BY <1>0 DEF TypeOK, CallRow
  <1>2. /\ call' \in [Calls -> CallRow] /\ call'[c] = r
        /\ \A d \in Calls \ {c} : call'[d] = call[d]
    BY <1>1 DEF CallGoesOn
  <1>3. /\ posts' \subseteq Calls /\ posts \subseteq posts'
        /\ \A d \in Calls \ {c} : d \in posts' <=> d \in posts
    BY <1>1 DEF CallGoesOn
  <1>4. OrphanInv' /\ orphans' \in Nat
    <2>1. /\ Orphaned \in SUBSET Calls /\ Pending \in SUBSET Intents
          /\ orphans = Cardinality(Orphaned) /\ MaxOrphans \in Nat /\ MaxOrphans >= 1
          /\ peak \in Nat /\ Cardinality(Pending) <= peak
          /\ orphans + Cardinality(Pending) <= MaxOrphans - 1 + peak
      BY OrphanFacts
    <2>2. Pending' = Pending
      BY <1>0 DEF Pending
    <2>3. ~Ended(c) /\ r.orphan = call[c].orphan
      BY DEF CallGoesOn
    <2>4. CASE r.orphan /\ Over(r.pc)
      <3>1. Orphaned' = Orphaned \ {c} /\ c \in Orphaned
        BY <1>2, <2>3, <2>4 DEF Orphaned, Ended, Over
      <3>2. IsFiniteSet(Orphaned) /\ Cardinality(Pending) \in Nat /\ Cardinality(Intents) \in Nat
        BY <2>1, FiniteCalls
      <3>3. Cardinality(Orphaned') = orphans - 1
        BY <2>1, <3>1, <3>2, FS_RemoveElement
      <3>4. orphans' = orphans - 1
        BY <2>4 DEF CallGoesOn
      <3>5. Cardinality(Orphaned') \in Nat
        <4>1. Orphaned' \in SUBSET Calls
          BY <2>1, <3>1
        <4> QED
          BY <4>1, FiniteCalls
      <3>6. orphans' + Cardinality(Pending') <= MaxOrphans - 1 + peak' /\ Cardinality(Pending') <= peak'
        BY <1>0, <1>1, <2>1, <2>2, <3>2, <3>4
      <3> QED
        BY <3>3, <3>4, <3>5, <3>6 DEF OrphanInv, OrphansCounted, PastCheck, Orphaned, Pending
    <2>5. CASE ~(r.orphan /\ Over(r.pc))
      <3>1. Orphaned' = Orphaned
        BY <1>2, <2>3, <2>5 DEF Orphaned, Ended, Over
      <3>2. orphans' = orphans
        BY <2>5 DEF CallGoesOn
      <3> QED
        BY <1>0, <1>1, <2>2, <3>1, <3>2, OrphansKept
    <2> QED
      BY <2>4, <2>5
  <1>5. TypeOK'
    BY <1>0, <1>2, <1>3, <1>4 DEF TypeOK, CallRow, CallGoesOn
  <1>6. ASSUME NEW d \in Calls PROVE CallInv(d)'
    <2>1. CASE d = c
      <3>1. CallInv(c)
        BY <1>0
      <3> QED
        BY <1>0, <1>2, <1>3, <2>1, <3>1 DEF CallInv, Expires, CallGoesOn
    <2>2. CASE d # c
      <3>1. ledger[d] = "consumed" => ledger'[d] = "consumed"
        BY DEF CallGoesOn
      <3> QED
        BY <1>0, <1>2, <1>3, <2>2, <3>1, CallFrame
    <2> QED
      BY <2>1, <2>2
  <1>7. ASSUME NEW j \in Intents PROVE ThreadInv(j)'
    <2>1. \A d \in Calls : /\ call'[d].pc # "none" <=> call[d].pc # "none"
                           /\ call'[d].orphan = call[d].orphan
      BY <1>2 DEF CallGoesOn
    <2>2. Begun(j)' <=> Begun(j)
      BY <2>1 DEF Begun
    <2>3. ThreadInv(j)
      BY <1>0
    <2>4. caller[j] \in {"waiting", "late"} => call'[<<j, 1>>].orphan = call[<<j, 1>>].orphan
      BY <2>1, <2>3 DEF ThreadInv, Begun
    <2> QED
      BY <1>0, <2>2, <2>3, <2>4, ThreadFrame
  <1>8. VerdictIsVenueTruth'
    BY <1>0, VerdictsKept
  <1> QED
    BY <1>4, <1>5, <1>6, <1>7, <1>8 DEF AdapterInv

\* What is known of a call at one of its steps.
LEMMA CallKnown ==
  ASSUME AdapterInv, NEW c \in Calls
  PROVE  /\ call \in [Calls -> CallRow] /\ call[c] \in CallRow
         /\ ledger \in [Calls -> {"none", "live", "dead", "consumed"}]
         /\ clock \in 0 .. MaxClock
         /\ call[c].pc \in {"consume", "post", "await"} => Orderable(IntentOf(c))
         /\ call[c].pc \in {"post", "await"} => ledger[c] = "consumed"
         /\ c \in posts => ledger[c] = "consumed" /\ Orderable(IntentOf(c))
  <1>1. TypeOK /\ CallInv(c)
    BY DEF AdapterInv
  <1> QED
    BY <1>1 DEF TypeOK, CallInv, CallRow

\* The clock is read.
LEMMA ReadClockStep ==
  ASSUME AdapterInv, NEW c \in Calls, ReadClock(c)
  PROVE  AdapterInv'
  <1> DEFINE r == [[call[c] EXCEPT !.pc = "consume"] EXCEPT !.now = clock]
  <1>1. /\ call \in [Calls -> CallRow] /\ call[c] \in CallRow
        /\ ledger \in [Calls -> {"none", "live", "dead", "consumed"}] /\ clock \in 0 .. MaxClock
        /\ c \in posts => ledger[c] = "consumed" /\ Orderable(IntentOf(c))
    BY CallKnown
  <1>2. /\ r \in CallRow /\ r.pc = "consume"
        /\ r.issued = call[c].issued /\ r.orphan = call[c].orphan
    BY <1>1 DEF CallRow
  <1>3. call' = [call EXCEPT ![c] = r] /\ call[c].pc = "start" /\ Orderable(IntentOf(c))
    BY <1>1 DEF ReadClock
  <1>4. /\ ledger' = ledger /\ orphans' = orphans /\ posts' = posts
        /\ UNCHANGED <<clock, caller, peak, orders, shown, verifierVars>>
    BY DEF ReadClock, exchangeVars
  <1> HIDE DEF r
  <1>5. CallGoesOn(c, r)
    BY <1>1, <1>2, <1>3, <1>4 DEF CallGoesOn, Ended, Over
  <1> QED
    BY <1>5, CallStep

\* The permit is consumed.
LEMMA ConsumeStep ==
  ASSUME AdapterInv, NEW c \in Calls, Consume(c)
  PROVE  AdapterInv'
  <1> DEFINE r == [call[c] EXCEPT !.pc = "post"]
  <1>1. /\ call \in [Calls -> CallRow] /\ call[c] \in CallRow
        /\ ledger \in [Calls -> {"none", "live", "dead", "consumed"}]
        /\ call[c].pc \in {"consume", "post", "await"} => Orderable(IntentOf(c))
    BY CallKnown
  <1>2. /\ r \in CallRow /\ r.pc = "post"
        /\ r.issued = call[c].issued /\ r.orphan = call[c].orphan
    BY <1>1 DEF CallRow
  <1>3. call' = [call EXCEPT ![c] = r] /\ call[c].pc = "consume"
    BY <1>1 DEF Consume
  <1>4. /\ ledger' = [ledger EXCEPT ![c] = "consumed"] /\ orphans' = orphans /\ posts' = posts
        /\ UNCHANGED <<clock, caller, peak, orders, shown, verifierVars>>
    BY DEF Consume, exchangeVars
  <1> HIDE DEF r
  <1>5. CallGoesOn(c, r)
    BY <1>1, <1>2, <1>3, <1>4 DEF CallGoesOn, Ended, Over
  <1> QED
    BY <1>5, CallStep

\* The adapter refuses.
LEMMA RefusedStep ==
  ASSUME AdapterInv, NEW c \in Calls, Refused(c)
  PROVE  AdapterInv'
  <1> DEFINE r == [call[c] EXCEPT !.pc = "refused"]
  <1>1. /\ call \in [Calls -> CallRow] /\ call[c] \in CallRow
        /\ ledger \in [Calls -> {"none", "live", "dead", "consumed"}]
        /\ c \in posts => ledger[c] = "consumed" /\ Orderable(IntentOf(c))
    BY CallKnown
  <1>2. /\ r \in CallRow /\ r.pc = "refused"
        /\ r.issued = call[c].issued /\ r.orphan = call[c].orphan
    BY <1>1 DEF CallRow
  <1>3. /\ call' = [call EXCEPT ![c] = r] /\ call[c].pc \in {"start", "consume"}
        /\ orphans' = IF call[c].orphan THEN orphans - 1 ELSE orphans
    BY <1>1 DEF Refused, End
  <1>4. /\ ledger' = ledger /\ posts' = posts
        /\ UNCHANGED <<clock, caller, peak, orders, shown, verifierVars>>
    BY DEF Refused, exchangeVars
  <1> HIDE DEF r
  <1>5. CallGoesOn(c, r)
    BY <1>1, <1>2, <1>3, <1>4 DEF CallGoesOn, Ended, Over
  <1> QED
    BY <1>5, CallStep

\* The action leaves.
LEMMA PostStep ==
  ASSUME AdapterInv, NEW c \in Calls, Post(c)
  PROVE  AdapterInv'
  <1> DEFINE r == [call[c] EXCEPT !.pc = "await"]
  <1>1. /\ call \in [Calls -> CallRow] /\ call[c] \in CallRow
        /\ ledger \in [Calls -> {"none", "live", "dead", "consumed"}]
        /\ call[c].pc \in {"consume", "post", "await"} => Orderable(IntentOf(c))
        /\ call[c].pc \in {"post", "await"} => ledger[c] = "consumed"
    BY CallKnown
  <1>2. /\ r \in CallRow /\ r.pc = "await"
        /\ r.issued = call[c].issued /\ r.orphan = call[c].orphan
    BY <1>1 DEF CallRow
  <1>3. call' = [call EXCEPT ![c] = r] /\ call[c].pc = "post"
    BY <1>1 DEF Post
  <1>4. /\ ledger' = ledger /\ orphans' = orphans /\ posts' = posts \cup {c}
        /\ UNCHANGED <<clock, caller, peak, orders, shown, verifierVars>>
    BY DEF Post
  <1> HIDE DEF r
  <1>5. CallGoesOn(c, r)
    BY <1>1, <1>2, <1>3, <1>4 DEF CallGoesOn, Ended, Over
  <1> QED
    BY <1>5, CallStep

\* The call ends, with or without a reply.
LEMMA CallEndsStep ==
  ASSUME AdapterInv, NEW c \in Calls, CallEnds(c)
  PROVE  AdapterInv'
  <1> DEFINE r == [call[c] EXCEPT !.pc = "done"]
  <1>1. /\ call \in [Calls -> CallRow] /\ call[c] \in CallRow
        /\ ledger \in [Calls -> {"none", "live", "dead", "consumed"}]
        /\ c \in posts => ledger[c] = "consumed" /\ Orderable(IntentOf(c))
    BY CallKnown
  <1>2. /\ r \in CallRow /\ r.pc = "done"
        /\ r.issued = call[c].issued /\ r.orphan = call[c].orphan
    BY <1>1 DEF CallRow
  <1>3. /\ call' = [call EXCEPT ![c] = r] /\ call[c].pc \in {"post", "await"}
        /\ orphans' = IF call[c].orphan THEN orphans - 1 ELSE orphans
    BY <1>1 DEF CallEnds, End
  <1>4. /\ ledger' = ledger /\ posts' = posts
        /\ UNCHANGED <<clock, caller, peak, orders, shown, verifierVars>>
    BY DEF CallEnds, exchangeVars
  <1> HIDE DEF r
  <1>5. CallGoesOn(c, r)
    BY <1>1, <1>2, <1>3, <1>4 DEF CallGoesOn, Ended, Over
  <1> QED
    BY <1>5, CallStep

-----------------------------------------------------------------------------
(* Steps of the exchange *)

\* Orders and what is shown of them change for call c alone, and an order stays.
LEMMA ExchangeStep ==
  ASSUME AdapterInv, NEW c \in Calls, CallInv(c)',
         orders' \in [Calls -> Order], shown' \in [Calls -> Hidden .. MaxFills],
         \A d \in Calls \ {c} : orders'[d] = orders[d] /\ shown'[d] = shown[d],
         orders[c] # NoOrder => orders'[c] = orders[c],
         shown[c] # Hidden => shown'[c] # Hidden,
         UNCHANGED <<clock, caller, call, ledger, orphans, peak, posts, verifierVars>>
  PROVE  AdapterInv'
  <1>0. /\ TypeOK /\ (\A d \in Calls : CallInv(d)) /\ (\A j \in Intents : ThreadInv(j))
        /\ VerdictIsVenueTruth
        /\ clock' = clock /\ caller' = caller /\ call' = call /\ ledger' = ledger
        /\ orphans' = orphans /\ peak' = peak /\ posts' = posts /\ reading' = reading /\ verdict' = verdict
    BY DEF AdapterInv, verifierVars
  <1>1. TypeOK'
    BY <1>0 DEF TypeOK
  <1>2. ASSUME NEW d \in Calls PROVE CallInv(d)'
    <2>1. CASE d # c
      BY <1>0, <2>1, CallFrame
    <2> QED
      BY <2>1
  <1>3. ASSUME NEW j \in Intents PROVE ThreadInv(j)'
    <2>1. Begun(j)' <=> Begun(j)
      BY <1>0 DEF Begun
    <2>2. ThreadInv(j) /\ reading[j] \in Calls \cup {NoCall}
      BY <1>0 DEF TypeOK
    <2>3. reading[j] # NoCall /\ shown[reading[j]] # Hidden => shown'[reading[j]] # Hidden
      BY <2>2
    <2> QED
      BY <1>0, <2>1, <2>2, <2>3, ThreadFrame
  <1>4. VerdictIsVenueTruth'
    <2>1. \A d \in Calls : orders[d] # NoOrder => orders'[d] = orders[d]
      OBVIOUS
    <2> QED
      BY <1>0, <2>1, VerdictsKept
  <1>5. OrphanInv'
    <2>1. Pending' = Pending
      BY <1>0 DEF Pending
    <2> QED
      BY <1>0, <2>1, SameOrphans, OrphansKept
  <1> QED
    BY <1>1, <1>2, <1>3, <1>4, <1>5 DEF AdapterInv

\* An action is executed: its nonce is unused, so it has no order yet.
LEMMA ExecuteStep ==
  ASSUME AdapterInv, NEW c \in Calls, Execute(c)
  PROVE  AdapterInv'
  <1> DEFINE i == IntentOf(c)
  <1>0. TypeOK /\ CallInv(c) /\ i \in Intents /\ c \in posts /\ Orderable(i)
    BY CallFacts DEF AdapterInv, CallInv, Execute
  <1>1. PICK s \in Executions(i) :
          orders' = [orders EXCEPT ![c] = [size |-> OrderSize(i), limit |-> Limit[i],
                                           at |-> clock, fills |-> s]]
    BY DEF Execute
  <1> DEFINE o == [size |-> OrderSize(i), limit |-> Limit[i], at |-> clock, fills |-> s]
  <1>2. orders[c] = NoOrder
    BY DEF Execute, UsedNonces
  <1>3. clock \in 0 .. MaxClock /\ clock <= Expires(c)
        /\ UNCHANGED <<clock, caller, call, ledger, orphans, peak, posts, verifierVars>>
        /\ clock' = clock /\ call' = call /\ ledger' = ledger /\ posts' = posts /\ shown' = shown
    BY <1>0 DEF TypeOK, Execute
  <1>4. s \in Seq(Fill) /\ OrderSize(i) \in Nat /\ OrderSize(i) >= 1 /\ Limit[i] \in Nat
    <2> HIDE DEF i
    <2> QED
      BY <1>0, <1>1, ExecutionFacts, SizeFacts
  <1>5. o \in Order /\ o # NoOrder /\ o.size = OrderSize(i) /\ o.limit = Limit[i]
        /\ o.at = clock /\ o.fills = s
    <2>1. o.size = OrderSize(i) /\ o.limit = Limit[i] /\ o.at = clock /\ o.fills = s
      OBVIOUS
    <2>2. NoOrder.size = 0
      BY DEF NoOrder
    <2>3. o \in Order
      BY <1>3, <1>4 DEF Order
    <2> HIDE DEF o
    <2> QED
      BY <1>4, <2>1, <2>2, <2>3
  <1>6. orders' = [orders EXCEPT ![c] = o] /\ orders \in [Calls -> Order]
        /\ shown \in [Calls -> Hidden .. MaxFills]
    BY <1>0, <1>1 DEF TypeOK
  <1> HIDE DEF o
  <1>7. /\ orders' \in [Calls -> Order] /\ orders'[c] = o
        /\ \A d \in Calls \ {c} : orders'[d] = orders[d]
    BY <1>5, <1>6
  <1>8. shown[c] = Hidden /\ shown[c] <= Len(o.fills)
    <2>1. shown[c] = -1
      BY <1>0, <1>2 DEF CallInv, Hidden
    <2>2. Len(s) \in Nat
      BY <1>4
    <2> QED
      BY <1>5, <2>1, <2>2 DEF Hidden
  <1>9. Expires(c)' = Expires(c)
    BY <1>3 DEF Expires
  <1>10. CallInv(c)'
    BY <1>0, <1>1, <1>3, <1>5, <1>7, <1>8, <1>9 DEF CallInv
  <1> QED
    BY <1>2, <1>3, <1>6, <1>7, <1>10, ExchangeStep

\* The info API catches up.
LEMMA ShowStep ==
  ASSUME AdapterInv, NEW c \in Calls, Show(c)
  PROVE  AdapterInv'
  <1>0. /\ TypeOK /\ CallInv(c) /\ orders[c] # NoOrder
        /\ UNCHANGED <<clock, caller, call, ledger, orphans, peak, posts, verifierVars>>
        /\ call' = call /\ ledger' = ledger /\ posts' = posts /\ orders' = orders
        /\ shown[c] < Len(orders[c].fills) /\ shown' = [shown EXCEPT ![c] = shown[c] + 1]
    BY DEF AdapterInv, Show
  <1>1. shown \in [Calls -> -1 .. MaxFills] /\ orders \in [Calls -> Order] /\ MaxFills \in Nat
    BY <1>0, HyperliquidConstants DEF TypeOK, Hidden
  <1>2. Len(orders[c].fills) \in Nat /\ Len(orders[c].fills) <= MaxFills
    <2>1. /\ IntentOf(c) \in Intents /\ Orderable(IntentOf(c))
          /\ orders[c].fills \in Executions(IntentOf(c))
      BY <1>0, OrderFacts
    <2> DEFINE i == IntentOf(c)
               s == orders[c].fills
    <2> HIDE DEF i, s
    <2>2. s \in Seq(Fill) /\ Len(s) <= MaxFills
      BY <2>1, ExecutionFacts DEF i, s
    <2> QED
      BY <2>2 DEF s
  <1> DEFINE k == shown[c]
             m == Len(orders[c].fills)
  <1>3. k \in -1 .. MaxFills /\ k < m /\ m \in Nat /\ m <= MaxFills
    BY <1>0, <1>1, <1>2
  <1>4. shown' = [shown EXCEPT ![c] = k + 1]
    BY <1>0
  <1> HIDE DEF k, m
  <1>5. k + 1 \in -1 .. MaxFills /\ k + 1 # -1 /\ k + 1 <= m
    BY <1>1, <1>3
  <1>6. /\ shown' \in [Calls -> -1 .. MaxFills] /\ shown'[c] = k + 1
        /\ \A d \in Calls \ {c} : shown'[d] = shown[d]
    BY <1>1, <1>4, <1>5
  <1>7. shown' \in [Calls -> Hidden .. MaxFills] /\ shown'[c] # Hidden /\ shown'[c] <= Len(orders[c].fills)
    BY <1>5, <1>6 DEF Hidden, m
  <1>8. Expires(c)' = Expires(c)
    BY <1>0 DEF Expires
  <1>9. CallInv(c)'
    BY <1>0, <1>7, <1>8 DEF CallInv
  <1> QED
    BY <1>0, <1>1, <1>6, <1>7, <1>9, ExchangeStep

-----------------------------------------------------------------------------
(* Steps of the verifier *)

Record == [status : {"UNKNOWN", "NONE", "FINALIZED", "CANCELLED", "CONTRADICTORY"},
           authoritative : BOOLEAN, order : Calls \cup {NoCall}, amount : Nat]

\* A record that may be given for intent i: nothing is known, or the truth of its order.
Given(i, v) ==
  v = Unknown \/ \E c \in Calls : IntentOf(c) = i /\ shown[c] # Hidden /\ v = Truth(c)

\* The verifier of intent i goes on.
LEMMA VerifierStep ==
  ASSUME AdapterInv, NEW i \in Intents, NEW v, NEW d \in Calls \cup {NoCall},
         v = verdict[i] \/ Given(i, v), d # NoCall => IntentOf(d) = i /\ shown[d] # Hidden,
         verdict' = [verdict EXCEPT ![i] = v], reading' = [reading EXCEPT ![i] = d],
         UNCHANGED <<clock, caller, call, ledger, orphans, peak, exchangeVars>>
  PROVE  AdapterInv'
  <1>0. /\ TypeOK /\ (\A c \in Calls : CallInv(c)) /\ (\A j \in Intents : ThreadInv(j))
        /\ VerdictIsVenueTruth
        /\ clock' = clock /\ caller' = caller /\ call' = call /\ ledger' = ledger
        /\ orphans' = orphans /\ peak' = peak /\ posts' = posts /\ orders' = orders /\ shown' = shown
    BY DEF AdapterInv, exchangeVars
  <1>1. verdict \in [Intents -> Record] /\ reading \in [Intents -> Calls \cup {NoCall}]
    BY <1>0 DEF TypeOK, Record
  <1>2. /\ verdict'[i] = v /\ reading'[i] = d
        /\ \A j \in Intents \ {i} : verdict'[j] = verdict[j] /\ reading'[j] = reading[j]
    BY <1>1
  <1>3. Given(i, v) =>
          /\ v \in Record /\ v.status # "NONE"
          /\ v.authoritative => \E c \in Calls : IntentOf(c) = i /\ shown[c] # Hidden /\ v = Truth(c)
    <2>1. CASE v = Unknown
      BY <2>1 DEF Unknown, Record
    <2>2. ASSUME NEW c \in Calls, shown[c] # Hidden, v = Truth(c)
          PROVE  v \in Record /\ v.status # "NONE"
      <3>1. Spent(orders[c].fills) \in Nat
        BY <1>0, <2>2, OrderFacts DEF CallInv
      <3> DEFINE a == Spent(orders[c].fills)
                 st == IF Lots(orders[c].fills) = orders[c].size THEN "FINALIZED" ELSE "CANCELLED"
      <3>2. v = [status |-> st, authoritative |-> TRUE, order |-> c, amount |-> a]
        BY <2>2 DEF Truth, Says
      <3>3. st \in {"FINALIZED", "CANCELLED"} /\ a \in Nat
        BY <3>1
      <3> HIDE DEF st, a
      <3> QED
        BY <3>2, <3>3 DEF Record
    <2> QED
      BY <2>1, <2>2 DEF Given
  <1>4. v \in Record /\ v.status # "NONE"
    <2>1. verdict[i] \in Record /\ verdict[i].status # "NONE"
      BY <1>0, <1>1 DEF ThreadInv
    <2> QED
      BY <1>3, <2>1
  <1>5. TypeOK'
    <2>1. verdict' \in [Intents -> Record] /\ reading' \in [Intents -> Calls \cup {NoCall}]
      BY <1>1, <1>4
    <2> QED
      BY <1>0, <2>1 DEF TypeOK, Record
  <1>6. \A c \in Calls : CallInv(c)'
    BY <1>0, CallFrame
  <1>7. ASSUME NEW j \in Intents PROVE ThreadInv(j)'
    <2>0. Begun(j)' <=> Begun(j)
      BY <1>0 DEF Begun
    <2>1. CASE j = i
      <3>1. ThreadInv(i)
        BY <1>0
      <3> QED
        BY <1>0, <1>2, <1>4, <2>0, <2>1, <3>1 DEF ThreadInv
    <2>2. CASE j # i
      BY <1>0, <1>2, <2>0, <2>2, ThreadFrame
    <2> QED
      BY <2>1, <2>2
  <1>8. OrphanInv'
    <2>1. Pending' = Pending
      BY <1>0 DEF Pending
    <2> QED
      BY <1>0, <2>1, SameOrphans, OrphansKept
  <1>9. VerdictIsVenueTruth'
    <2>1. CASE verdict'[i] = verdict[i] \/ ~verdict'[i].authoritative
      BY <1>0, <1>2, <2>1, VerdictsKept
    <2>2. CASE verdict'[i] # verdict[i] /\ verdict'[i].authoritative
      <3>1. PICK c \in Calls : IntentOf(c) = i /\ shown[c] # Hidden /\ v = Truth(c)
        BY <1>2, <1>3, <2>2
      <3>2. CallInv(c) /\ orders[c] # NoOrder
        BY <1>0, <3>1 DEF CallInv
      <3>3. Spent(orders[c].fills) <= Notional[i]
        BY <1>0, <3>1, <3>2, OrderFacts
      <3>4. /\ verdict'[i].order = c /\ verdict'[i].amount = Spent(orders'[c].fills)
            /\ verdict'[i].status =
                 IF Lots(orders'[c].fills) = orders'[c].size THEN "FINALIZED" ELSE "CANCELLED"
        BY <1>0, <1>2, <3>1 DEF Truth, Says
      <3>5. verdict'[i].order \in OrdersOf(i)'
        BY <1>0, <3>1, <3>2, <3>4 DEF OrdersOf
      <3>6. ASSUME NEW j \in Intents, j # i, verdict'[j].authoritative
            PROVE  /\ verdict'[j].order \in OrdersOf(j)'
                   /\ orders'[verdict'[j].order] = orders[verdict[j].order]
                   /\ verdict'[j] = verdict[j]
        BY <1>0, <1>2, <3>6, VerdictFrame
      <3> SUFFICES ASSUME NEW j \in Intents, verdict'[j].authoritative
                   PROVE  /\ verdict'[j].order \in OrdersOf(j)'
                          /\ LET o == orders'[verdict'[j].order] IN
                             /\ verdict'[j].status =
                                  IF Lots(o.fills) = o.size THEN "FINALIZED" ELSE "CANCELLED"
                             /\ verdict'[j].amount = Spent(o.fills)
                             /\ verdict'[j].amount <= Notional[j]
        BY DEF VerdictIsVenueTruth
      <3>7. CASE j = i
        BY <1>0, <3>3, <3>4, <3>5, <3>7
      <3>8. CASE j # i
        BY <1>0, <3>6, <3>8 DEF VerdictIsVenueTruth
      <3> QED
        BY <3>7, <3>8
    <2> QED
      BY <2>1, <2>2
  <1> QED
    BY <1>5, <1>6, <1>7, <1>8, <1>9 DEF AdapterInv

\* The order's status is read.
LEMMA ReadOrderStep ==
  ASSUME AdapterInv, NEW i \in Intents, ReadOrder(i)
  PROVE  AdapterInv'
  <1>0. /\ UNCHANGED <<clock, caller, call, ledger, orphans, peak, exchangeVars>>
        /\ verdict \in [Intents -> Record] /\ reading \in [Intents -> Calls \cup {NoCall}]
        /\ reading[i] = NoCall
    BY DEF ReadOrder, AdapterInv, TypeOK, Record
  <1>1. CASE Visible(i) = {}
    <2>1. verdict' = [verdict EXCEPT ![i] = Unknown] /\ reading' = [reading EXCEPT ![i] = NoCall]
      BY <1>0, <1>1 DEF ReadOrder, Missing
    <2>2. Given(i, Unknown)
      BY DEF Given
    <2> QED
      BY <1>0, <2>1, <2>2, VerifierStep
  <1>2. CASE Visible(i) # {}
    <2>1. PICK c \in Visible(i) : reading' = [reading EXCEPT ![i] = c] /\ verdict' = verdict
      BY <1>2 DEF ReadOrder
    <2>2. c \in Calls /\ IntentOf(c) = i /\ shown[c] # Hidden
      BY DEF Visible
    <2>3. verdict' = [verdict EXCEPT ![i] = verdict[i]]
      BY <1>0, <2>1
    <2> QED
      BY <1>0, <2>1, <2>2, <2>3, VerifierStep
  <1> QED
    BY <1>1, <1>2

\* The fills are read and the order is judged.
LEMMA ReadFillsStep ==
  ASSUME AdapterInv, NEW i \in Intents, ReadFills(i)
  PROVE  AdapterInv'
  <1> DEFINE c == reading[i]
             v == Judge(c)
  <1>1. /\ UNCHANGED <<clock, caller, call, ledger, orphans, peak, exchangeVars>>
        /\ verdict' = [verdict EXCEPT ![i] = v] /\ reading' = [reading EXCEPT ![i] = NoCall]
    BY DEF ReadFills
  <1>2. TypeOK /\ c \in Calls /\ IntentOf(c) = i /\ shown[c] # Hidden /\ CallInv(c)
    <2>1. c \in Calls /\ ThreadInv(i) /\ c # NoCall
      BY DEF AdapterInv, TypeOK, ReadFills
    <2> QED
      BY <2>1 DEF AdapterInv, ThreadInv
  <1>3. v = Unknown \/ v = Truth(c)
    <2> HIDE DEF c
    <2> QED
      BY <1>2, JudgeTruth
  <1> HIDE DEF c, v
  <1>4. Given(i, v)
    BY <1>2, <1>3 DEF Given
  <1> QED
    BY <1>1, <1>4, VerifierStep

\* A read fails.
LEMMA ReadFailsStep ==
  ASSUME AdapterInv, NEW i \in Intents, ReadFails(i)
  PROVE  AdapterInv'
  <1>1. /\ UNCHANGED <<clock, caller, call, ledger, orphans, peak, exchangeVars>>
        /\ verdict' = [verdict EXCEPT ![i] = Unknown] /\ reading' = [reading EXCEPT ![i] = NoCall]
    BY DEF ReadFails
  <1>2. Given(i, Unknown)
    BY DEF Given
  <1> QED
    BY <1>1, <1>2, VerifierStep

-----------------------------------------------------------------------------
(* The theorems *)

\* The invariant holds at the start: nothing was called.
LEMMA AdapterInit ==
  ASSUME Init
  PROVE  AdapterInv
  <1>0. /\ MaxClock \in Nat /\ MaxFills \in Nat /\ MaxOrphans \in Nat /\ MaxOrphans >= 1
    BY HyperliquidConstants
  <1>1. /\ \A c \in Calls : /\ call[c] = Unsent /\ ledger[c] = "none" /\ orders[c] = NoOrder
                            /\ shown[c] = Hidden
        /\ \A i \in Intents : caller[i] = "idle" /\ reading[i] = NoCall /\ verdict[i] = Unknown
        /\ posts = {} /\ orphans = 0 /\ peak = 0 /\ clock = 0
    BY DEF Init
  <1>2. /\ Unsent.pc = "none" /\ ~Unsent.orphan
        /\ Unknown.status = "UNKNOWN" /\ ~Unknown.authoritative
        /\ NoOrder.fills = <<>>
    BY DEF Unsent, Unknown, NoOrder
  <1>3. TypeOK
    <2>1. Unsent \in CallRow
      BY <1>0 DEF Unsent, CallRow
    <2>2. NoOrder \in Order
      BY <1>0 DEF NoOrder, Order
    <2>3. Unknown \in Record
      BY DEF Unknown, Record
    <2>4. Hidden \in Hidden .. MaxFills
      BY <1>0 DEF Hidden
    <2>5. clock \in 0 .. MaxClock /\ orphans \in Nat /\ peak \in Nat /\ posts \subseteq Calls
      BY <1>0, <1>1
    <2>6. /\ call \in [Calls -> CallRow] /\ orders \in [Calls -> Order]
          /\ shown \in [Calls -> Hidden .. MaxFills] /\ verdict \in [Intents -> Record]
      BY <2>1, <2>2, <2>3, <2>4 DEF Init
    <2>7. /\ caller \in [Intents -> {"idle", "cleared", "waiting", "late", "stopped"}]
          /\ ledger \in [Calls -> {"none", "live", "dead", "consumed"}]
          /\ reading \in [Intents -> Calls \cup {NoCall}]
      BY DEF Init
    <2> QED
      BY <2>5, <2>6, <2>7 DEF TypeOK, CallRow, Record
  <1>4. \A c \in Calls : CallInv(c)
    <2>1. Hidden <= Len(<<>>)
      BY DEF Hidden
    <2> QED
      BY <1>1, <1>2, <2>1 DEF CallInv
  <1>5. \A i \in Intents : ThreadInv(i)
    BY <1>1, <1>2 DEF ThreadInv
  <1>6. OrphanInv
    <2>1. Orphaned = {} /\ Pending = {}
      BY <1>1, <1>2 DEF Orphaned, Pending, Underway
    <2>2. Cardinality({}) = 0 /\ Cardinality(Intents) \in Nat
      BY FS_EmptySet, FiniteCalls
    <2>3. /\ orphans = Cardinality(Orphaned) /\ Cardinality(Pending) <= peak
          /\ orphans + Cardinality(Pending) <= MaxOrphans - 1 + peak
      BY <1>0, <1>1, <2>1, <2>2
    <2> QED
      BY <2>3 DEF OrphanInv, OrphansCounted, PastCheck, Orphaned, Pending
  <1>7. VerdictIsVenueTruth
    BY <1>1, <1>2 DEF VerdictIsVenueTruth
  <1> QED
    BY <1>3, <1>4, <1>5, <1>6, <1>7 DEF AdapterInv

\* Every step of the threads, the calls, the exchange and the verifier keeps the invariant.
LEMMA AdapterStep ==
  AdapterInv /\ [Next]_vars => AdapterInv'
  <1> SUFFICES ASSUME AdapterInv, [Next]_vars PROVE AdapterInv'
    OBVIOUS
  <1>1. CASE Tick
    BY <1>1, TickStep
  <1>2. ASSUME NEW i \in Intents,
               \/ CheckOrphans(i) \/ StartCall(i) \/ StopGrant(i)
               \/ Deadline(i) \/ Abandon(i) \/ Collect(i)
               \/ ReadOrder(i) \/ ReadFills(i) \/ ReadFails(i)
        PROVE  AdapterInv'
    BY <1>2, CheckOrphansStep, StartCallStep, StopGrantStep, DeadlineStep, AbandonStep, CollectStep,
       ReadOrderStep, ReadFillsStep, ReadFailsStep
  <1>3. ASSUME NEW c \in Calls,
               \/ ReadClock(c) \/ Consume(c) \/ Refused(c) \/ Post(c) \/ CallEnds(c)
               \/ Execute(c) \/ Show(c)
        PROVE  AdapterInv'
    BY <1>3, ReadClockStep, ConsumeStep, RefusedStep, PostStep, CallEndsStep, ExecuteStep, ShowStep
  <1>4. CASE UNCHANGED vars
    <2>1. /\ clock' = clock /\ ledger' = ledger
          /\ UNCHANGED <<caller, call, orphans, peak, exchangeVars, verifierVars>>
      BY <1>4 DEF vars, exchangeVars, verifierVars
    <2>2. clock' \in 0 .. MaxClock /\ ledger' \in [Calls -> {"none", "live", "dead", "consumed"}]
      BY <2>1 DEF AdapterInv, TypeOK
    <2> QED
      BY <2>1, <2>2, QuietStep
  <1> QED
    BY <1>1, <1>2, <1>3, <1>4 DEF Next

\* Whatever the threads, the adapter calls and the exchange do and however they interleave,
\* an intent has one call, an executed order is the one it was authorized for, every thread
\* underway passed the orphan check, and records are true.
THEOREM AdapterInvariant == Spec => []AdapterInv
  BY AdapterInit, AdapterStep, PTL DEF Spec

\* An intent never has two orders at the exchange, and its order is permitted, on time and
\* within the notional (HyperliquidExecutionAdapter.execute under _execute_adapter).
THEOREM AtMostOneOrder == Spec => []OneBoundedOrder
  <1>1. ASSUME AdapterInv PROVE OneBoundedOrder
    <2>0. TypeOK /\ \A c \in Calls : CallInv(c)
      BY <1>1 DEF AdapterInv
    <2>1. ASSUME NEW i \in Intents, NEW c \in OrdersOf(i)
          PROVE  /\ c = <<i, 1>> /\ c \in Calls
                 /\ ledger[c] = "consumed" /\ orders[c].at <= Expires(c)
                 /\ Ceiling(orders[c].size * orders[c].limit) <= Notional[i]
      <3>1. c \in Calls /\ IntentOf(c) = i /\ orders[c] # NoOrder /\ CallInv(c)
        BY <2>0 DEF OrdersOf
      <3>2. c[2] = 1
        BY <3>1 DEF CallInv
      <3>3. c = <<i, 1>>
        BY <3>1, <3>2, CallFacts
      <3>4. /\ ledger[c] = "consumed" /\ orders[c].at <= Expires(c) /\ Orderable(i)
            /\ orders[c].size = OrderSize(i) /\ orders[c].limit = Limit[i]
        BY <2>0, <3>1, OrderFacts
      <3>5. Ceiling(OrderSize(i) * Limit[i]) <= Notional[i]
        BY <3>4, SizeFacts
      <3> QED
        BY <3>1, <3>3, <3>4, <3>5
    <2>2. ASSUME NEW i \in Intents PROVE Cardinality(OrdersOf(i)) <= 1
      <3>1. CASE OrdersOf(i) = {}
        <4>1. Cardinality({}) = 0
          BY FS_EmptySet
        <4> QED
          BY <3>1, <4>1
      <3>2. CASE OrdersOf(i) # {}
        <4>1. OrdersOf(i) = {<<i, 1>>}
          BY <2>1, <3>2
        <4>2. Cardinality(OrdersOf(i)) = 1
          BY <4>1, FS_Singleton
        <4> QED
          BY <4>2
      <3> QED
        BY <3>1, <3>2
    <2> QED
      BY <2>0, <2>1, <2>2 DEF OneBoundedOrder
  <1> QED
    BY <1>1, AdapterInvariant, PTL

\* A record the settlement verifier calls authoritative states what became of the order, to
\* the last unit, and is never a contradiction or an absence.
THEOREM SettlementTruth == Spec => []VerdictIsVenueTruth
  <1>1. AdapterInv => VerdictIsVenueTruth
    BY DEF AdapterInv
  <1> QED
    BY <1>1, AdapterInvariant, PTL

\* _ORPHANED counts the abandoned calls that run, whichever of the deadline and the call's
\* end comes first (_execute_adapter).
THEOREM OrphansExact == Spec => []OrphansCounted
  <1>1. AdapterInv => OrphansCounted
    BY DEF AdapterInv, OrphanInv
  <1> QED
    BY <1>1, AdapterInvariant, PTL

\* However many threads there are, the abandoned calls exceed the limit only by threads that
\* were past the orphan check at one time.
THEOREM OrphanLimit == Spec => []OrphansBounded
  <1>1. ASSUME AdapterInv PROVE OrphansBounded
    <2>1. /\ Pending \in SUBSET Intents /\ orphans \in Nat /\ peak \in Nat /\ MaxOrphans \in Nat
          /\ orphans + Cardinality(Pending) <= MaxOrphans - 1 + peak
      BY <1>1, OrphanFacts
    <2>2. Cardinality(Pending) \in Nat
      BY <2>1, FiniteCalls
    <2>3. orphans <= MaxOrphans - 1 + peak
      BY <2>1, <2>2
    <2> QED
      BY <2>3 DEF OrphansBounded
  <1> QED
    BY <1>1, AdapterInvariant, PTL

=============================================================================
