-------------------------- MODULE PaperVenueProofs --------------------------
(***************************************************************************)
(* The paper venue's properties for every number of requests, identities,  *)
(* attempts and restarts, and its refinement of VenueContract.             *)
(***************************************************************************)
EXTENDS PaperVenue, FiniteSums

-----------------------------------------------------------------------------
(* Matching is a recursion over the queue *)

MatchOne(acc, k, p) ==
  IF acc.orders[k].state = "PENDING" /\ Marketable(acc.orders[k].req, p)
  THEN Fill(acc, acc.orders[k].req, p) ELSE acc

Matches(g, bk, p) ==
  g = [s \in SUBSET DOMAIN queue |->
         IF s = {} THEN bk ELSE MatchOne(g[s \ {Max(s)}], queue[Max(s)], p)]

\* The matched book is the value, for the whole queue, of the fold's recursion.
LEMMA MatchedUnfolds ==
  ASSUME NEW bk, NEW p
  PROVE  Matched(bk, p) = (CHOOSE g : Matches(g, bk, p))[DOMAIN queue]
  BY DEF Matched, FoldLeft, MapThenFoldSet, MatchOne, Matches

-----------------------------------------------------------------------------
(* Money *)

Wallet == [{"quote", "base"} -> 0 .. MaxBalance]

Money(o, b) ==
  /\ o \in [Keys -> Order] /\ b \in Wallet
  /\ IsFiniteSet({k \in Keys : o[k] # NoOrder})
  /\ Balanced(o, b)

\* The coins of some keys as a total of natural numbers.
LEMMA CoinsTotal ==
  ASSUME NEW o, NEW S
  PROVE  CoinsOf(o, S) = Total([k \in S |-> Size \div o[k].at], S)
  <1> DEFINE w == [k \in S |-> Size \div o[k].at]
             W(g) == [s \in SUBSET S |-> IF s = {} THEN 0 ELSE w[Pick(s)] + g[s \ {Pick(s)}]]
             U(g) == [s \in SUBSET S |-> IF s = {} THEN 0 ELSE (Size \div o[Pick(s)].at) + g[s \ {Pick(s)}]]
  <1>1. \A s \in SUBSET S : s # {} => Pick(s) \in S
    BY PickIn
  <1>2. \A g : U(g) = W(g)
    BY <1>1
  <1>3. (CHOOSE g : g = U(g)) = (CHOOSE g : g = W(g))
    BY <1>2
  <1>4. CoinsOf(o, S) = (CHOOSE g : g = U(g))[S]
    BY DEF CoinsOf, MapThenSumSet, MapThenFoldSet, Pick
  <1>5. Total(w, S) = (CHOOSE g : g = W(g))[S]
    BY DEF Total, MapThenSumSet, MapThenFoldSet, Pick
  <1> HIDE DEF w, U, W
  <1>6. CoinsOf(o, S) = Total(w, S)
    BY <1>3, <1>4, <1>5
  <1> QED
    BY <1>6 DEF w

\* Only the prices of the orders matter.
LEMMA CoinsSame ==
  ASSUME NEW o, NEW o2, NEW S, \A k \in S : o[k].at = o2[k].at
  PROVE  CoinsOf(o, S) = CoinsOf(o2, S)
  <1>1. [k \in S |-> Size \div o[k].at] = [k \in S |-> Size \div o2[k].at]
    OBVIOUS
  <1> QED
    BY <1>1, CoinsTotal

\* An order filled at a price buys or sells a whole number of coins.
LEMMA CoinNat ==
  ASSUME NEW p \in Prices
  PROVE  Size \div p \in Nat
  <1>1. p \in Nat /\ p > 0 /\ Size \in Nat
    BY PaperConstants
  <1> QED
    BY <1>1

\* One more order at price p moves its coins.
LEMMA CoinsAdd ==
  ASSUME NEW o, NEW o2, NEW S, IsFiniteSet(S), NEW x, x \notin S,
         \A k \in S : o[k].at \in Prices /\ o2[k].at = o[k].at, o2[x].at \in Prices
  PROVE  /\ CoinsOf(o2, S \cup {x}) = CoinsOf(o, S) + Size \div o2[x].at
         /\ CoinsOf(o, S) \in Nat
  <1> DEFINE T == S \cup {x}
             f == [k \in S |-> Size \div o[k].at]
             f2 == [k \in T |-> Size \div o2[k].at]
  <1>1. /\ \A k \in T : f2[k] \in Nat
        /\ \A k \in S : f[k] \in Nat /\ f2[k] = f[k]
        /\ f2[x] = Size \div o2[x].at
    BY CoinNat
  <1>2. CoinsOf(o2, T) = Total(f2, T) /\ CoinsOf(o, S) = Total(f, S)
    BY CoinsTotal
  <1> HIDE DEF f, f2
  <1>3. Total(f2, S \cup {x}) = Total(f2, S) + f2[x]
    BY <1>1, TotalAdd
  <1>4. Total(f2, S) = Total(f, S) /\ Total(f, S) \in Nat
    BY <1>1, TotalSame, TotalNat
  <1> QED
    BY <1>1, <1>2, <1>3, <1>4

\* The filled orders are finitely many.
LEMMA FilledFinite ==
  ASSUME NEW o, IsFiniteSet({k \in Keys : o[k] # NoOrder}), NEW kind
  PROVE  IsFiniteSet(FilledBy(o, kind)) /\ Cardinality(FilledBy(o, kind)) \in Nat
  <1>1. FilledBy(o, kind) \subseteq {k \in Keys : o[k] # NoOrder}
    BY DEF FilledBy, NoOrder
  <1>2. IsFiniteSet(FilledBy(o, kind))
    BY <1>1, FS_Subset
  <1> QED
    BY <1>2, FS_CardinalityType

\* The book o2 is o with the order v under x.
Rebooked(o, o2, x, v) == o2 = [o EXCEPT ![x] = v]

\* A change that fills nothing moves nothing.
LEMMA UnfilledMoney ==
  ASSUME NEW o, NEW b, Money(o, b), NEW x \in Keys, o[x].state # "FILLED",
         NEW v \in Order, v.state = "FILLED" => IsCancel(v.req),
         NEW o2, Rebooked(o, o2, x, v)
  PROVE  Money(o2, b)
  <1>1. o2 \in [Keys -> Order] /\ o2[x] = v /\ \A k \in Keys \ {x} : o2[k] = o[k]
    BY DEF Money, Rebooked
  <1>2. IsFiniteSet({k \in Keys : o2[k] # NoOrder})
    <2>1. {k \in Keys : o2[k] # NoOrder} \subseteq {k \in Keys : o[k] # NoOrder} \cup {x}
      BY <1>1
    <2>2. IsFiniteSet({k \in Keys : o[k] # NoOrder} \cup {x})
      BY FS_AddElement DEF Money
    <2> QED
      BY <2>1, <2>2, FS_Subset
  <1>3. FilledBy(o2, "BUY") = FilledBy(o, "BUY") /\ FilledBy(o2, "SELL") = FilledBy(o, "SELL")
    BY <1>1 DEF FilledBy, IsCancel
  <1>4. \A k \in FilledBy(o, "BUY") \cup FilledBy(o, "SELL") : o2[k] = o[k]
    BY <1>1 DEF FilledBy
  <1>5. /\ CoinsOf(o2, FilledBy(o, "BUY")) = CoinsOf(o, FilledBy(o, "BUY"))
        /\ CoinsOf(o2, FilledBy(o, "SELL")) = CoinsOf(o, FilledBy(o, "SELL"))
    <2>1. \A k \in FilledBy(o, "BUY") : o2[k].at = o[k].at
      BY <1>4
    <2>2. \A k \in FilledBy(o, "SELL") : o2[k].at = o[k].at
      BY <1>4
    <2>3. CoinsOf(o2, FilledBy(o, "BUY")) = CoinsOf(o, FilledBy(o, "BUY"))
      BY <2>1, CoinsSame
    <2>4. CoinsOf(o2, FilledBy(o, "SELL")) = CoinsOf(o, FilledBy(o, "SELL"))
      BY <2>2, CoinsSame
    <2> QED
      BY <2>3, <2>4
  <1>6. Balanced(o, b) /\ b \in Wallet
    BY DEF Money
  <1>7. Balanced(o2, b)
    BY <1>3, <1>4, <1>5, <1>6 DEF Balanced
  <1> QED
    BY <1>1, <1>2, <1>6, <1>7 DEF Money

\* A request that is no cancel buys or sells.
LEMMA TradeKinds ==
  ASSUME NEW r \in Requests
  PROVE  /\ IsCancel(r) => Shape[r].target \in Keys
         /\ ~IsCancel(r) => /\ Shape[r].kind \in {"BUY", "SELL"}
                            /\ Shape[r].tif \in {"IOC", "GTC"}
  <1>1. Shape[r] \in [kind : {"BUY", "SELL"}, tif : {"IOC", "GTC"}, limit : Prices]
                        \cup [kind : {"CANCEL"}, target : Keys]
    BY PaperConstants
  <1> QED
    BY <1>1 DEF IsCancel

\* A fill moves both legs of one order.
LEMMA FilledMoney ==
  ASSUME NEW o, NEW b, Money(o, b), NEW r \in Requests, ~IsCancel(r), NEW p \in Prices,
         Marketable(r, p), Transfers(b, r, p), o[KeyOf[r]].state # "FILLED",
         NEW o2, Rebooked(o, o2, KeyOf[r], Filled(r, p)), NEW b2, b2 = Settled(b, r, p)
  PROVE  Money(o2, b2)
  <1> DEFINE x == KeyOf[r]
             bought == FilledBy(o, "BUY")
             sold == FilledBy(o, "SELL")
  <1>0. x \in Keys /\ Filled(r, p) \in Order /\ Filled(r, p).state = "FILLED"
          /\ Filled(r, p).req = r /\ Filled(r, p).at = p
    BY PaperConstants DEF Filled, Order, OrderStates
  <1>1. o2 \in [Keys -> Order] /\ o2[x] = Filled(r, p) /\ \A k \in Keys \ {x} : o2[k] = o[k]
    BY <1>0 DEF Money, Rebooked
  <1>2. IsFiniteSet({k \in Keys : o2[k] # NoOrder})
    <2>1. {k \in Keys : o2[k] # NoOrder} \subseteq {k \in Keys : o[k] # NoOrder} \cup {x}
      BY <1>1
    <2>2. IsFiniteSet({k \in Keys : o[k] # NoOrder} \cup {x})
      BY FS_AddElement DEF Money
    <2> QED
      BY <2>1, <2>2, FS_Subset
  <1>3. /\ x \notin bought /\ x \notin sold
        /\ \A k \in bought \cup sold : o2[k] = o[k] /\ k \in Keys
    BY <1>1 DEF FilledBy
  <1>4. /\ IsFiniteSet(bought) /\ Cardinality(bought) \in Nat
        /\ IsFiniteSet(sold) /\ Cardinality(sold) \in Nat
    BY FilledFinite DEF Money
  <1>5. /\ \A k \in bought \cup sold : o[k].at \in Prices /\ Marketable(o[k].req, o[k].at)
        /\ b["quote"] = Cash + Size * (Cardinality(sold) - Cardinality(bought))
        /\ b["base"] = Coins + CoinsOf(o, bought) - CoinsOf(o, sold)
    BY DEF Money, Balanced
  <1>6. Size \div p \in Nat /\ Size \in Nat /\ Cash \in Nat /\ Coins \in Nat
    BY CoinNat, PaperConstants
  <1>7. b2["quote"] \in 0 .. MaxBalance /\ b2["base"] \in 0 .. MaxBalance /\ b2 \in Wallet
    BY DEF Transfers, Settled, Wallet
  <1>8. /\ CoinsOf(o2, bought \cup {x}) = CoinsOf(o, bought) + Size \div p
        /\ CoinsOf(o2, sold \cup {x}) = CoinsOf(o, sold) + Size \div p
        /\ CoinsOf(o, bought) \in Nat /\ CoinsOf(o, sold) \in Nat
    <2> HIDE DEF bought, sold, x
    <2>1. \A k \in bought : o[k].at \in Prices /\ o2[k].at = o[k].at
      BY <1>3, <1>5
    <2>2. \A k \in sold : o[k].at \in Prices /\ o2[k].at = o[k].at
      BY <1>3, <1>5
    <2>3. o2[x].at = p
      BY <1>0, <1>1
    <2>4. /\ CoinsOf(o2, bought \cup {x}) = CoinsOf(o, bought) + Size \div o2[x].at
          /\ CoinsOf(o, bought) \in Nat
      BY <1>3, <1>4, <2>1, <2>3, CoinsAdd
    <2>5. /\ CoinsOf(o2, sold \cup {x}) = CoinsOf(o, sold) + Size \div o2[x].at
          /\ CoinsOf(o, sold) \in Nat
      BY <1>3, <1>4, <2>2, <2>3, CoinsAdd
    <2> QED
      BY <2>3, <2>4, <2>5
  <1>9. CoinsOf(o2, bought) = CoinsOf(o, bought) /\ CoinsOf(o2, sold) = CoinsOf(o, sold)
    <2> HIDE DEF bought, sold
    <2>1. \A k \in bought : o2[k].at = o[k].at
      BY <1>3
    <2>2. \A k \in sold : o2[k].at = o[k].at
      BY <1>3
    <2>3. CoinsOf(o2, bought) = CoinsOf(o, bought)
      BY <2>1, CoinsSame
    <2>4. CoinsOf(o2, sold) = CoinsOf(o, sold)
      BY <2>2, CoinsSame
    <2> QED
      BY <2>3, <2>4
  <1>10. /\ Cardinality(bought \cup {x}) = Cardinality(bought) + 1
         /\ Cardinality(sold \cup {x}) = Cardinality(sold) + 1
    <2> HIDE DEF bought, sold
    <2> QED
      BY <1>3, <1>4, FS_AddElement
  <1>11. CASE Shape[r].kind = "BUY"
    <2>1. FilledBy(o2, "BUY") = bought \cup {x} /\ FilledBy(o2, "SELL") = sold
      BY <1>0, <1>1, <1>11 DEF FilledBy
    <2>2. b2["quote"] = b["quote"] - Size /\ b2["base"] = b["base"] + Size \div p
      BY <1>11 DEF Settled
    <2> HIDE DEF bought, sold
    <2>3. \A k \in bought \cup {x} \cup sold : o2[k].at \in Prices /\ Marketable(o2[k].req, o2[k].at)
      BY <1>0, <1>1, <1>3, <1>5
    <2>4. b2["quote"] = Cash + Size * (Cardinality(sold) - Cardinality(bought \cup {x}))
      BY <1>4, <1>5, <1>6, <1>10, <2>2
    <2>5. b2["base"] = Coins + CoinsOf(o2, bought \cup {x}) - CoinsOf(o2, sold)
      BY <1>5, <1>6, <1>8, <1>9, <2>2
    <2>6. Balanced(o2, b2)
      BY <2>1, <2>3, <2>4, <2>5 DEF Balanced
    <2> QED
      BY <1>1, <1>2, <1>7, <2>6 DEF Money
  <1>12. CASE Shape[r].kind = "SELL"
    <2>1. FilledBy(o2, "SELL") = sold \cup {x} /\ FilledBy(o2, "BUY") = bought
      BY <1>0, <1>1, <1>12 DEF FilledBy
    <2>2. b2["quote"] = b["quote"] + Size /\ b2["base"] = b["base"] - Size \div p
      BY <1>12 DEF Settled
    <2> HIDE DEF bought, sold
    <2>3. \A k \in bought \cup (sold \cup {x}) : o2[k].at \in Prices /\ Marketable(o2[k].req, o2[k].at)
      BY <1>0, <1>1, <1>3, <1>5
    <2>4. b2["quote"] = Cash + Size * (Cardinality(sold \cup {x}) - Cardinality(bought))
      BY <1>4, <1>5, <1>6, <1>10, <2>2
    <2>5. b2["base"] = Coins + CoinsOf(o2, bought) - CoinsOf(o2, sold \cup {x})
      BY <1>5, <1>6, <1>8, <1>9, <2>2
    <2>6. Balanced(o2, b2)
      BY <2>1, <2>3, <2>4, <2>5 DEF Balanced
    <2> QED
      BY <1>1, <1>2, <1>7, <2>6 DEF Money
  <1> QED
    BY <1>11, <1>12, TradeKinds

-----------------------------------------------------------------------------
(* Filling and matching *)

Books == [orders : [Keys -> Order], balance : Wallet]

\* The book o2 is o after the order of r has come to the state st.
EndsAs(o, o2, r, st) ==
  \E v \in Order : o2 = [o EXCEPT ![KeyOf[r]] = v] /\ v.req = r /\ v.state = st

\* What an attempt to fill leaves: both legs, or an order cancelled unfilled.
LEMMA FillResult ==
  ASSUME NEW bk \in Books, Money(bk.orders, bk.balance), NEW r \in Requests, ~IsCancel(r),
         NEW p \in Prices, Marketable(r, p), bk.orders[KeyOf[r]].state # "FILLED"
  PROVE  /\ Fill(bk, r, p) \in Books
         /\ Money(Fill(bk, r, p).orders, Fill(bk, r, p).balance)
         /\ EndsAs(bk.orders, Fill(bk, r, p).orders, r,
                   IF Transfers(bk.balance, r, p) THEN "FILLED" ELSE "CANCELLED")
  <1> DEFINE o == bk.orders
             b == bk.balance
             x == KeyOf[r]
  <1>0. x \in Keys /\ o \in [Keys -> Order] /\ b \in Wallet /\ bk = [orders |-> o, balance |-> b]
    BY PaperConstants DEF Books
  <1>1. CASE Transfers(b, r, p)
    <2> DEFINE v == Filled(r, p)
               o2 == [o EXCEPT ![x] = v]
               b2 == Settled(b, r, p)
    <2>1. Fill(bk, r, p) = [orders |-> o2, balance |-> b2]
      BY <1>1 DEF Fill
    <2>2. v \in Order /\ v.req = r /\ v.state = "FILLED"
      BY DEF Filled, Order, OrderStates
    <2>3. Rebooked(o, o2, x, v)
      BY DEF Rebooked
    <2> HIDE DEF o2, b2
    <2>4. Money(o2, b2)
      <3>1. b2 = Settled(b, r, p)
        BY DEF b2
      <3> QED
        BY <1>1, <2>3, <3>1, FilledMoney
    <2>5. o2 \in [Keys -> Order] /\ b2 \in Wallet
      BY <2>4 DEF Money
    <2>6. Fill(bk, r, p).orders = o2 /\ Fill(bk, r, p).balance = b2 /\ Fill(bk, r, p) \in Books
      BY <2>1, <2>5 DEF Books
    <2> QED
      BY <1>1, <2>2, <2>4, <2>6 DEF o2, EndsAs
  <1>2. CASE ~Transfers(b, r, p)
    <2> DEFINE v == Unfilled(r)
               o2 == [o EXCEPT ![x] = v]
    <2>1. Fill(bk, r, p) = [orders |-> o2, balance |-> b]
      <3>1. Fill(bk, r, p) = [bk EXCEPT !.orders[x] = v]
        BY <1>2 DEF Fill
      <3>2. [bk EXCEPT !.orders[x] = v] = [orders |-> o2, balance |-> b]
        BY <1>0
      <3> QED
        BY <3>1, <3>2
    <2>2. v \in Order /\ v.req = r /\ v.state = "CANCELLED"
      BY DEF Unfilled, Order, OrderStates
    <2>3. Rebooked(o, o2, x, v)
      BY DEF Rebooked
    <2> HIDE DEF o2
    <2>4. Money(o2, b)
      BY <1>0, <2>2, <2>3, UnfilledMoney
    <2>5. o2 \in [Keys -> Order]
      BY <2>4 DEF Money
    <2>6. Fill(bk, r, p).orders = o2 /\ Fill(bk, r, p).balance = b /\ Fill(bk, r, p) \in Books
      BY <1>0, <2>1, <2>5 DEF Books
    <2> QED
      BY <1>2, <2>2, <2>4, <2>6 DEF o2, EndsAs
  <1> QED
    BY <1>1, <1>2

\* Resting orders trade, each under its own identity.
Restable(o) ==
  \A k \in Keys : o[k].state = "PENDING" =>
    o[k].req \in Requests /\ KeyOf[o[k].req] = k /\ ~IsCancel(o[k].req)

\* Matching ends resting orders and touches nothing else.
MatchedFrom(o, o2) ==
  \A k \in Keys :
    \/ o2[k] = o[k]
    \/ /\ o[k].state = "PENDING" /\ o2[k].state \in {"FILLED", "CANCELLED"}
       /\ o2[k].req = o[k].req

Reach(o) == {bk \in Books : Money(bk.orders, bk.balance) /\ MatchedFrom(o, bk.orders)}

\* Matching one order keeps the books.
LEMMA MatchStep ==
  ASSUME NEW o, Restable(o), NEW bk \in Reach(o), NEW k \in Keys, NEW p \in Prices
  PROVE  MatchOne(bk, k, p) \in Reach(o)
  <1>0. bk \in Books /\ Money(bk.orders, bk.balance) /\ MatchedFrom(o, bk.orders)
    BY DEF Reach
  <1>1. CASE ~(bk.orders[k].state = "PENDING" /\ Marketable(bk.orders[k].req, p))
    BY <1>1 DEF MatchOne
  <1>2. CASE bk.orders[k].state = "PENDING" /\ Marketable(bk.orders[k].req, p)
    <2> DEFINE r == bk.orders[k].req
               new == Fill(bk, r, p)
    <2>1. o[k] = bk.orders[k]
      BY <1>0, <1>2 DEF MatchedFrom
    <2>2. r \in Requests /\ KeyOf[r] = k /\ ~IsCancel(r)
      BY <1>2, <2>1 DEF Restable
    <2>3. MatchOne(bk, k, p) = new
      BY <1>2 DEF MatchOne
    <2> HIDE DEF r
    <2>4. bk.orders[KeyOf[r]].state # "FILLED" /\ Marketable(r, p)
      BY <1>2, <2>2 DEF r
    <2>5. /\ new \in Books /\ Money(new.orders, new.balance)
          /\ EndsAs(bk.orders, new.orders, r,
                    IF Transfers(bk.balance, r, p) THEN "FILLED" ELSE "CANCELLED")
      BY <1>0, <2>2, <2>4, FillResult
    <2> HIDE DEF new
    <2>6. PICK v \in Order : /\ new.orders = [bk.orders EXCEPT ![k] = v]
                             /\ v.req = r /\ v.state \in {"FILLED", "CANCELLED"}
      BY <2>2, <2>5 DEF EndsAs
    <2>7. bk.orders \in [Keys -> Order]
      BY <1>0 DEF Books
    <2>8. new.orders[k] = v /\ \A j \in Keys \ {k} : new.orders[j] = bk.orders[j]
      BY <2>6, <2>7
    <2>9. MatchedFrom(o, new.orders)
      BY <1>0, <1>2, <2>1, <2>6, <2>8 DEF MatchedFrom, r
    <2> QED
      BY <2>3, <2>5, <2>9 DEF Reach
  <1> QED
    BY <1>1, <1>2

\* Matching the whole queue keeps the books.
LEMMA MatchedReach ==
  ASSUME queue \in Seq(Keys), NEW bk \in Books, Money(bk.orders, bk.balance), Restable(bk.orders),
         NEW p \in Prices
  PROVE  Matched(bk, p) \in Reach(bk.orders)
  <1> DEFINE S == DOMAIN queue
             V == Reach(bk.orders)
             c == [s \in SUBSET S |-> Max(s)]
             F == [x \in S \X V |-> MatchOne(x[2], queue[x[1]], p)]
  <1>1. S = 1 .. Len(queue) /\ Len(queue) \in Nat /\ \A n \in S : queue[n] \in Keys
    OBVIOUS
  <1>2. IsFiniteSet(S)
    BY <1>1, FS_Interval
  <1>3. bk \in V
    BY DEF Reach, MatchedFrom
  <1>4. \A s \in SUBSET S : s # {} => c[s] \in s
    BY <1>1, MaxIn
  <1>5. F \in [S \X V -> V]
    <2>1. ASSUME NEW x \in S \X V
          PROVE  MatchOne(x[2], queue[x[1]], p) \in V
      <3>1. x[2] \in V /\ queue[x[1]] \in Keys
        BY <1>1
      <3> HIDE DEF V
      <3> QED
        BY <3>1, MatchStep DEF V
    <2> HIDE DEF S, V
    <2> QED
      BY <2>1
  <1>6. PICK g \in [SUBSET S -> V] : Solves(g, S, bk, c, F)
    <2> HIDE DEF S, V, c, F
    <2> QED
      BY <1>2, <1>3, <1>4, <1>5, SolutionExists
  <1>7. ASSUME NEW s \in SUBSET S
        PROVE  g[s] = IF s = {} THEN bk ELSE MatchOne(g[s \ {Max(s)}], queue[Max(s)], p)
    <2>1. g[s] = IF s = {} THEN bk ELSE F[<<c[s], g[s \ {c[s]}]>>]
      BY <1>6 DEF Solves
    <2>2. CASE s # {}
      <3>1. c[s] = Max(s) /\ Max(s) \in S
        BY <1>4, <2>2
      <3>2. g[s \ {Max(s)}] \in V
        BY <1>6
      <3>3. F[<<Max(s), g[s \ {Max(s)}]>>] = MatchOne(g[s \ {Max(s)}], queue[Max(s)], p)
        <4> HIDE DEF S, V
        <4> QED
          BY <3>1, <3>2
      <3> QED
        BY <2>1, <2>2, <3>1, <3>3
    <2>3. CASE s = {}
      BY <2>1, <2>3
    <2> QED
      BY <2>2, <2>3
  <1>8. Matches(g, bk, p)
    <2> HIDE DEF c, F, V
    <2>1. g = [s \in SUBSET S |-> g[s]]
      BY <1>6
    <2> QED
      BY <1>7, <2>1 DEF Matches
  <1> DEFINE h == CHOOSE f : Matches(f, bk, p)
  <1>9. Matches(h, bk, p)
    BY <1>8
  <1>10. Matched(bk, p) = h[S]
    BY MatchedUnfolds
  <1> HIDE DEF h
  <1> DEFINE Bad == {s \in SUBSET S : h[s] # g[s]}
  <1>11. Bad = {}
    <2> SUFFICES ASSUME Bad # {} PROVE FALSE
      OBVIOUS
    <2>1. PICK U \in Bad : \A W \in Bad : W \subseteq U => W = U
      <3>1. Bad \subseteq SUBSET S
        OBVIOUS
      <3> HIDE DEF Bad, S, V, c, F
      <3> QED
        BY <1>2, <3>1, MinimalSubset
    <2>2. U \in SUBSET S /\ h[U] # g[U]
      OBVIOUS
    <2>3. h[U] = IF U = {} THEN bk ELSE MatchOne(h[U \ {Max(U)}], queue[Max(U)], p)
      BY <1>9, <2>2 DEF Matches
    <2>4. U # {}
      BY <1>7, <2>2, <2>3
    <2>5. U \ {Max(U)} \in SUBSET S /\ U \ {Max(U)} \subseteq U /\ U \ {Max(U)} # U
      BY <1>4, <2>2, <2>4
    <2>6. h[U \ {Max(U)}] = g[U \ {Max(U)}]
      BY <2>1, <2>5
    <2> QED
      BY <1>7, <2>2, <2>3, <2>4, <2>6
  <1>12. h[S] = g[S] /\ g[S] \in V
    BY <1>6, <1>11
  <1> QED
    BY <1>10, <1>12

-----------------------------------------------------------------------------
(* The inductive invariant: what every step needs *)

\* A submission names its key and one of the key's permits.
LEMMA SubmissionFacts ==
  ASSUME TypeOK, NEW m \in Submission, Known(m)
  PROVE  /\ m.req \in Requests /\ KeyOf[m.req] \in Keys
         /\ m.nth \in 1 .. Len(permits[KeyOf[m.req]])
         /\ Len(permits[KeyOf[m.req]]) \in Nat
         /\ permits[KeyOf[m.req]] \in Seq(Permit)
         /\ permits[KeyOf[m.req]] # <<>>
         /\ PermitOf(m) \in Permit /\ PermitOf(m).req = m.req
         /\ PermitOf(m) = permits[KeyOf[m.req]][m.nth]
  <1>1. m.req \in Requests /\ KeyOf[m.req] \in Keys
    BY PaperConstants DEF Submission
  <1>2. permits[KeyOf[m.req]] \in Seq(Permit)
    BY <1>1 DEF TypeOK
  <1>3. m.nth \in DOMAIN permits[KeyOf[m.req]] /\ PermitOf(m).req = m.req
    BY DEF Known
  <1> QED
    BY <1>1, <1>2, <1>3 DEF PermitOf

\* Two submissions of one identity that name its last permit are the same.
LEMMA SameSubmission ==
  ASSUME TypeOK, NEW m \in Submission, NEW n \in Submission, Known(m), Known(n),
         KeyOf[m.req] = KeyOf[n.req], m.nth = n.nth
  PROVE  m = n
  <1>1. m.req = n.req
    BY DEF Known, PermitOf
  <1> QED
    BY <1>1 DEF Submission

\* A reply changes the outcome of the client that waits for it, if any.
LEMMA ReplyResult ==
  ASSUME TypeOK, NEW m, NEW result \in Outcomes, Reply(m, result)
  PROVE  /\ outcome' \in [Keys -> Outcomes]
         /\ \A k \in Keys :
              \/ outcome'[k] = outcome[k]
              \/ /\ k = KeyOf[m.req] /\ m.nth = Len(permits[k])
                 /\ outcome'[k] \in {result, "ambiguous"}
  <1>1. outcome \in [Keys -> Outcomes] /\ "ambiguous" \in Outcomes
    BY DEF TypeOK, Outcomes
  <1> QED
    BY <1>1 DEF Reply

\* Steps that change only what clients know and take submissions off the wire.
LEMMA QuietStep ==
  ASSUME PaperInv, UNCHANGED <<orders, queue, balance, price, permits, busy, life>>,
         wire' \subseteq wire, outcome' \in [Keys -> Outcomes],
         \A k \in Keys : outcome'[k] = "refused" => outcome[k] = "refused" \/ Harmless(k)'
  PROVE  PaperInv'
  <1>1. TypeOK'
    BY DEF PaperInv, TypeOK
  <1>2. \A m : Known(m) => Known(m)'
    BY DEF Known, PermitOf
  <1>3. ASSUME NEW k \in Keys
        PROVE  PermitInv(k)' /\ OrderInv(k)'
    BY DEF PaperInv, PermitInv, OrderInv, Admitted
  <1>4. ASSUME NEW k \in Keys
        PROVE  RefusalInv(k)'
    <2>1. Harmless(k) => Harmless(k)'
      BY DEF Harmless, PermitOf
    <2>2. RefusalInv(k)
      BY DEF PaperInv
    <2> QED
      BY <2>1, <2>2 DEF RefusalInv
  <1>5. BusyInv'
    <2>1. BusyInv
      BY DEF PaperInv
    <2>2. Admissible(busy.req) => Admissible(busy.req)'
      BY DEF Admissible, Fresh, Existing
    <2> QED
      BY <1>2, <2>1, <2>2 DEF BusyInv, PermitOf
  <1>6. IsFiniteSet({k \in Keys : orders[k] # NoOrder})'
    BY DEF PaperInv
  <1>7. Balanced(orders, balance)'
    BY DEF PaperInv
  <1> QED
    BY <1>1, <1>2, <1>3, <1>4, <1>5, <1>6, <1>7 DEF PaperInv

\* A client that gives up was not refused.
LEMMA GiveUpStep ==
  ASSUME PaperInv, NEW k \in Keys, GiveUp(k)
  PROVE  PaperInv'
  <1>1. outcome' \in [Keys -> Outcomes] /\ \A j \in Keys : outcome'[j] = "refused" => outcome[j] = "refused"
    BY DEF PaperInv, TypeOK, GiveUp, Outcomes
  <1> QED
    BY <1>1, QuietStep DEF GiveUp

\* A lost request is not a refusal.
LEMMA DropStep ==
  ASSUME PaperInv, NEW m \in wire, Drop(m)
  PROVE  PaperInv'
  <1>1. outcome' \in [Keys -> Outcomes] /\ \A j \in Keys : outcome'[j] = "refused" => outcome[j] = "refused"
    BY ReplyResult DEF PaperInv, Drop, Outcomes
  <1> QED
    BY <1>1, QuietStep DEF Drop

\* A stored receipt is not a refusal.
LEMMA ReplayStep ==
  ASSUME PaperInv, NEW m \in wire, Replay(m)
  PROVE  PaperInv'
  <1>1. outcome' \in [Keys -> Outcomes] /\ \A j \in Keys : outcome'[j] = "refused" => outcome[j] = "refused"
    BY ReplyResult DEF PaperInv, Replay, Outcomes
  <1> QED
    BY <1>1, QuietStep DEF Replay

\* What is refused for the last permit of its identity leaves nothing behind.
LEMMA RefuseStep ==
  ASSUME PaperInv, NEW m \in wire, Refuse(m)
  PROVE  PaperInv'
  <1> DEFINE k == KeyOf[m.req]
  <1>0. TypeOK /\ m \in Submission /\ wire \subseteq Submission /\ \A n \in wire : Known(n)
    BY DEF PaperInv, TypeOK
  <1>1. /\ m.req \in Requests /\ k \in Keys
        /\ permits[k] # <<>> /\ permits[k][m.nth].req = m.req
    BY <1>0, SubmissionFacts
  <1>2. OrderInv(k) /\ PermitInv(k)
    BY <1>1 DEF PaperInv
  <1>3. ASSUME m.nth = Len(permits[k])
        PROVE  Harmless(k)'
    <2>1. orders[k] # NoOrder => orders[k].req = m.req /\ m.req \notin OutOfScope
      BY <1>1, <1>2, <1>3 DEF OrderInv
    <2>2. orders[k].state \in {"ABSENT", "CANCELLED"}
      <3>1. orders[k] \in Order
        BY <1>0, <1>1 DEF TypeOK
      <3>2. CASE orders[k] = NoOrder
        BY <3>2 DEF NoOrder
      <3>3. CASE orders[k] # NoOrder
        <4>1. ~Stored(m.req)
          BY <2>1, <3>3 DEF Refuse
        <4> QED
          BY <2>1, <3>1, <3>3, <4>1 DEF Stored, Existing, Order, OrderStates
      <3> QED
        BY <3>2, <3>3
    <2>3. ASSUME NEW n \in wire', KeyOf[n.req] = k
          PROVE  PermitOf(n).state = "dead"
      <3>1. n \in wire /\ n # m
        BY DEF Refuse
      <3>2. Known(n) /\ n \in Submission
        BY <1>0, <3>1
      <3>3. n.nth # m.nth
        BY <1>0, <2>3, <3>1, <3>2, SameSubmission
      <3>4. n.nth \in DOMAIN permits[k]
        BY <2>3, <3>2 DEF Known
      <3> QED
        BY <1>2, <1>3, <2>3, <3>3, <3>4 DEF PermitInv, PermitOf
    <2>4. UNCHANGED <<orders, permits, busy>> /\ busy = Nobody
      BY DEF Refuse, Idle
    <2> QED
      BY <1>1, <2>2, <2>3, <2>4 DEF Harmless, PermitOf
  <1>4. /\ outcome' \in [Keys -> Outcomes]
        /\ \A j \in Keys :
              \/ outcome'[j] = outcome[j]
              \/ j = k /\ m.nth = Len(permits[j])
    BY <1>0, ReplyResult DEF Refuse, Outcomes
  <1>5. ASSUME NEW j \in Keys, outcome'[j] = "refused"
        PROVE  outcome[j] = "refused" \/ Harmless(j)'
    BY <1>3, <1>4, <1>5
  <1> QED
    BY <1>4, <1>5, QuietStep DEF Refuse

-----------------------------------------------------------------------------
(* Steps that change the permits *)

\* A new permit joins permits that are all dead.
LEMMA SubmitStep ==
  ASSUME PaperInv, NEW r \in Requests, Submit(r)
  PROVE  PaperInv'
  <1> DEFINE k == KeyOf[r]
             n == Len(permits[k]) + 1
             fresh == [req |-> r, state |-> "live", life |-> life]
             sent == [req |-> r, nth |-> n]
  <1>0. TypeOK /\ k \in Keys /\ permits[k] \in Seq(Permit) /\ life \in 0 .. MaxLives
    BY PaperConstants DEF PaperInv, TypeOK
  <1>1. fresh \in Permit /\ sent \in Submission /\ n \in Nat /\ n > 0
    BY <1>0 DEF Permit, Submission
  <1>2. /\ UNCHANGED <<orders, queue, balance, price, busy, life>>
        /\ wire' = wire \cup {sent}
        /\ outcome' = [outcome EXCEPT ![k] = "waiting"]
        /\ permits' = [permits EXCEPT ![k] = Append(permits[k], fresh)]
        /\ \A i \in DOMAIN permits[k] : permits[k][i].state = "dead"
    BY DEF Submit
  <1>3. /\ permits'[k] = Append(permits[k], fresh)
        /\ \A j \in Keys \ {k} : permits'[j] = permits[j]
        /\ permits' \in [Keys -> Seq(Permit)]
    BY <1>0, <1>1, <1>2 DEF TypeOK
  <1>4. /\ Len(permits'[k]) = n /\ DOMAIN permits'[k] = 1 .. n
        /\ permits'[k][n] = fresh /\ permits'[k] # <<>>
        /\ \A i \in DOMAIN permits[k] : i \in 1 .. n /\ i # n /\ permits'[k][i] = permits[k][i]
        /\ \A i \in 1 .. n : i # n => i \in DOMAIN permits[k]
    <2> HIDE DEF fresh
    <2> QED
      BY <1>0, <1>1, <1>3, AppendFacts
  <1>5. TypeOK'
    <2>1. outcome' \in [Keys -> Outcomes]
      BY <1>0, <1>2 DEF TypeOK, Outcomes
    <2>2. wire' \subseteq Submission
      BY <1>0, <1>1, <1>2 DEF TypeOK
    <2> QED
      BY <1>0, <1>2, <1>3, <2>1, <2>2 DEF TypeOK
  <1> HIDE DEF n, fresh
  <1>6. ASSUME NEW m, Known(m), m.req \in Requests
        PROVE  Known(m)' /\ PermitOf(m)' = PermitOf(m)
    <2>1. KeyOf[m.req] \in Keys
      BY <1>6, PaperConstants
    <2>2. CASE KeyOf[m.req] = k
      BY <1>4, <1>6, <2>2 DEF Known, PermitOf
    <2>3. CASE KeyOf[m.req] # k
      BY <1>3, <1>6, <2>1, <2>3 DEF Known, PermitOf
    <2> QED
      BY <2>2, <2>3
  <1>7. ASSUME NEW m \in wire'
        PROVE  Known(m)'
    <2>1. CASE m \in wire
      <3>1. Known(m) /\ m.req \in Requests
        BY <1>0, <2>1 DEF PaperInv, TypeOK, Submission
      <3> QED
        BY <1>6, <3>1
    <2>2. CASE m = sent
      BY <1>4, <2>2 DEF Known, PermitOf, fresh
    <2> QED
      BY <1>2, <2>1, <2>2
  <1>8. ASSUME NEW j \in Keys
        PROVE  PermitInv(j)'
    <2>1. PermitInv(j)
      BY DEF PaperInv
    <2>2. CASE j = k
      <3> SUFFICES ASSUME NEW i \in DOMAIN permits'[k]
                   PROVE  /\ KeyOf[permits'[k][i].req] = k
                          /\ permits'[k][i].life <= life'
                          /\ permits'[k][i].state # "dead" => i = Len(permits'[k])
        BY <2>2 DEF PermitInv
      <3>1. CASE i = n
        BY <1>0, <1>2, <1>4, <3>1 DEF fresh
      <3>2. CASE i # n
        BY <1>2, <1>4, <2>1, <2>2, <3>2 DEF PermitInv
      <3> QED
        BY <3>1, <3>2
    <2>3. CASE j # k
      BY <1>2, <1>3, <2>1, <2>3 DEF PermitInv
    <2> QED
      BY <2>2, <2>3
  <1>9. ~Admitted(k) /\ ~Admitted(k)'
    <2>1. ~Admitted(k)'
      BY <1>4 DEF Admitted, fresh
    <2>2. permits[k] # <<>> => Len(permits[k]) \in DOMAIN permits[k]
      BY <1>0
    <2> QED
      BY <1>2, <2>1, <2>2 DEF Admitted
  <1>10. ASSUME NEW j \in Keys
         PROVE  OrderInv(j)'
    <2>1. OrderInv(j)
      BY DEF PaperInv
    <2>2. CASE j = k
      BY <1>2, <1>9, <2>1, <2>2 DEF OrderInv
    <2>3. CASE j # k
      BY <1>2, <1>3, <2>1, <2>3 DEF OrderInv, Admitted
    <2> QED
      BY <2>2, <2>3
  <1>11. ASSUME NEW j \in Keys
         PROVE  RefusalInv(j)'
    <2>1. RefusalInv(j)
      BY DEF PaperInv
    <2>2. CASE j = k
      <3>1. outcome'[k] = "waiting"
        BY <1>0, <1>2 DEF TypeOK
      <3> QED
        BY <2>2, <3>1 DEF RefusalInv
    <2>3. CASE j # k
      <3>1. outcome'[j] = outcome[j] /\ permits'[j] = permits[j]
        BY <1>0, <1>2, <1>3, <2>3 DEF TypeOK
      <3>2. Harmless(j) => Harmless(j)'
        BY <1>2, <2>3, <3>1 DEF Harmless, PermitOf
      <3> QED
        BY <2>1, <3>1, <3>2 DEF RefusalInv
    <2> QED
      BY <2>2, <2>3
  <1>12. BusyInv'
    <2> SUFFICES ASSUME busy # Nobody
                 PROVE  /\ Known(busy)' /\ busy \notin wire'
                        /\ PermitOf(busy)'.state = "consumed" /\ PermitOf(busy)'.life = life'
                        /\ Admissible(busy.req)'
      BY <1>2 DEF BusyInv
    <2>1. /\ Known(busy) /\ busy \notin wire
          /\ PermitOf(busy).state = "consumed" /\ PermitOf(busy).life = life
          /\ Admissible(busy.req)
      BY DEF PaperInv, BusyInv
    <2>2. busy.req \in Requests
      BY <1>0 DEF TypeOK, Submission
    <2>3. Known(busy)' /\ PermitOf(busy)' = PermitOf(busy)
      BY <1>2, <1>6, <2>1, <2>2
    <2>4. busy # sent
      BY <1>2, <2>1 DEF Known, PermitOf
    <2>5. Admissible(busy.req)'
      BY <1>2, <2>1 DEF Admissible, Fresh, Existing
    <2> QED
      BY <1>2, <2>1, <2>3, <2>4, <2>5
  <1>13. IsFiniteSet({j \in Keys : orders[j] # NoOrder})'
    BY <1>2 DEF PaperInv
  <1>14. Balanced(orders, balance)'
    BY <1>2 DEF PaperInv
  <1> QED
    BY <1>5, <1>7, <1>8, <1>10, <1>11, <1>12, <1>13, <1>14 DEF PaperInv

\* The permits ps2 are ps with p for the i-th of key k.
Reissued(ps, ps2, k, i, p) == ps2 = [ps EXCEPT ![k] = [ps[k] EXCEPT ![i] = p]]

\* What every change of one permit keeps: the new permit p replaces a live one.
LEMMA PermitChange ==
  ASSUME PaperInv, NEW k \in Keys, NEW i \in DOMAIN permits[k], permits[k][i].state = "live",
         NEW p \in Permit, p.req = permits[k][i].req, p.life <= life,
         Reissued(permits, permits', k, i, p), life' = life
  PROVE  /\ permits' \in [Keys -> Seq(Permit)]
         /\ i = Len(permits[k]) /\ permits[k] # <<>>
         /\ permits'[k][i] = p /\ DOMAIN permits'[k] = DOMAIN permits[k]
         /\ permits'[k] # <<>> /\ Len(permits'[k]) = Len(permits[k])
         /\ \A j \in DOMAIN permits[k] : j # i => permits'[k][j] = permits[k][j]
         /\ \A j \in Keys \ {k} : permits'[j] = permits[j]
         /\ \A j \in Keys : PermitInv(j)'
         /\ \A m \in Submission : Known(m) =>
              /\ Known(m)'
              /\ PermitOf(m)' = IF KeyOf[m.req] = k /\ m.nth = i THEN p ELSE PermitOf(m)
         /\ ~Admitted(k) /\ (Admitted(k)' <=> p.state = "consumed" /\ p.life = life)
  <1>0. permits \in [Keys -> Seq(Permit)] /\ permits[k] \in Seq(Permit) /\ PermitInv(k)
    BY DEF PaperInv, TypeOK
  <1>1. i = Len(permits[k]) /\ permits[k] # <<>>
    BY <1>0 DEF PermitInv
  <1>2. /\ permits'[k] = [permits[k] EXCEPT ![i] = p]
        /\ \A j \in Keys \ {k} : permits'[j] = permits[j]
    BY <1>0 DEF Reissued
  <1>3. /\ permits'[k] \in Seq(Permit) /\ Len(permits'[k]) = Len(permits[k])
        /\ DOMAIN permits'[k] = DOMAIN permits[k] /\ permits'[k][i] = p
        /\ permits'[k] # <<>>
        /\ \A j \in DOMAIN permits[k] : j # i => permits'[k][j] = permits[k][j]
    BY <1>0, <1>1, <1>2
  <1>4. permits' \in [Keys -> Seq(Permit)]
    BY <1>0, <1>2, <1>3 DEF Reissued
  <1>5. ASSUME NEW j \in Keys
        PROVE  PermitInv(j)'
    <2>1. PermitInv(j)
      BY DEF PaperInv
    <2>2. CASE j = k
      <3> SUFFICES ASSUME NEW l \in DOMAIN permits'[k]
                   PROVE  /\ KeyOf[permits'[k][l].req] = k
                          /\ permits'[k][l].life <= life'
                          /\ permits'[k][l].state # "dead" => l = Len(permits'[k])
        BY <2>2 DEF PermitInv
      <3>1. CASE l = i
        BY <1>1, <1>3, <2>1, <2>2, <3>1 DEF PermitInv
      <3>2. CASE l # i
        BY <1>3, <2>1, <2>2, <3>2 DEF PermitInv
      <3> QED
        BY <3>1, <3>2
    <2>3. CASE j # k
      BY <1>2, <2>1, <2>3 DEF PermitInv
    <2> QED
      BY <2>2, <2>3
  <1>6. ASSUME NEW m \in Submission, Known(m)
        PROVE  /\ Known(m)'
               /\ PermitOf(m)' = IF KeyOf[m.req] = k /\ m.nth = i THEN p ELSE PermitOf(m)
    <2>1. KeyOf[m.req] \in Keys
      BY PaperConstants DEF Submission
    <2>2. CASE KeyOf[m.req] = k
      BY <1>3, <1>6, <2>2 DEF Known, PermitOf
    <2>3. CASE KeyOf[m.req] # k
      BY <1>2, <1>6, <2>1, <2>3 DEF Known, PermitOf
    <2> QED
      BY <2>2, <2>3
  <1>7. ~Admitted(k) /\ (Admitted(k)' <=> p.state = "consumed" /\ p.life = life)
    BY <1>1, <1>3 DEF Admitted
  <1> QED
    BY <1>1, <1>2, <1>3, <1>4, <1>5, <1>6, <1>7

\* Only a permit that nothing has used dies.
LEMMA PermitDiesStep ==
  ASSUME PaperInv, NEW k \in Keys, PermitDies(k)
  PROVE  PaperInv'
  <1>1. PICK i \in DOMAIN permits[k] :
          permits[k][i].state = "live" /\ permits' = [permits EXCEPT ![k][i].state = "dead"]
    BY DEF PermitDies
  <1> DEFINE p == [permits[k][i] EXCEPT !.state = "dead"]
  <1>2. UNCHANGED <<orders, queue, balance, price, wire, outcome, busy, life>>
    BY DEF PermitDies
  <1>3. TypeOK /\ permits[k] \in Seq(Permit) /\ permits[k][i] \in Permit
    BY DEF PaperInv, TypeOK
  <1>4. /\ p \in Permit /\ p.req = permits[k][i].req /\ p.state = "dead"
        /\ p.life <= life
        /\ Reissued(permits, permits', k, i, p)
    <2>1. permits[k][i].life <= life
      BY DEF PaperInv, PermitInv
    <2> QED
      BY <1>1, <1>3, <2>1 DEF Permit, Reissued
  <1> HIDE DEF p
  <1>5. /\ permits' \in [Keys -> Seq(Permit)]
        /\ permits'[k] # <<>>
        /\ \A j \in Keys \ {k} : permits'[j] = permits[j]
        /\ \A j \in Keys : PermitInv(j)'
        /\ ~Admitted(k) /\ ~Admitted(k)'
    <2>1. permits[k][i].state = "live" /\ life' = life
      BY <1>1, <1>2
    <2> QED
      BY <1>4, <2>1, PermitChange
  <1>6. \A m \in Submission : Known(m) =>
          /\ Known(m)'
          /\ PermitOf(m)' = IF KeyOf[m.req] = k /\ m.nth = i THEN p ELSE PermitOf(m)
    <2>1. permits[k][i].state = "live" /\ life' = life
      BY <1>1, <1>2
    <2> QED
      BY <1>4, <2>1, PermitChange
  <1>7. TypeOK'
    BY <1>2, <1>3, <1>5 DEF TypeOK
  <1>8. \A m \in wire : Known(m) /\ m \in Submission
    BY DEF PaperInv, TypeOK
  <1>9. \A m \in wire' : Known(m)'
    BY <1>2, <1>6, <1>8
  <1>10. ASSUME NEW j \in Keys
         PROVE  OrderInv(j)'
    <2>1. OrderInv(j)
      BY DEF PaperInv
    <2>2. CASE j = k
      BY <1>2, <1>5, <2>1, <2>2 DEF OrderInv
    <2>3. CASE j # k
      BY <1>2, <1>5, <2>1, <2>3 DEF OrderInv, Admitted
    <2> QED
      BY <2>2, <2>3
  <1>11. ASSUME NEW j \in Keys
         PROVE  RefusalInv(j)'
    <2>1. RefusalInv(j)
      BY DEF PaperInv
    <2>2. ASSUME Harmless(j)
          PROVE  Harmless(j)'
      <3>1. permits'[j] # <<>>
        BY <1>5, <2>2 DEF Harmless
      <3>2. ASSUME NEW m \in wire, KeyOf[m.req] = j
            PROVE  PermitOf(m)'.state = "dead"
        <4>1. PermitOf(m).state = "dead"
          BY <2>2, <3>2 DEF Harmless
        <4> QED
          BY <1>4, <1>6, <1>8, <4>1
      <3> QED
        BY <1>2, <2>2, <3>1, <3>2 DEF Harmless
    <2> QED
      BY <1>2, <2>1, <2>2 DEF RefusalInv
  <1>12. BusyInv'
    <2> SUFFICES ASSUME busy # Nobody
                 PROVE  /\ Known(busy)' /\ busy \notin wire'
                        /\ PermitOf(busy)'.state = "consumed" /\ PermitOf(busy)'.life = life'
                        /\ Admissible(busy.req)'
      BY <1>2 DEF BusyInv
    <2>1. /\ Known(busy) /\ busy \notin wire
          /\ PermitOf(busy).state = "consumed" /\ PermitOf(busy).life = life
          /\ Admissible(busy.req)
      BY DEF PaperInv, BusyInv
    <2>2. busy \in Submission
      BY <1>3 DEF TypeOK
    <2>3. ~(KeyOf[busy.req] = k /\ busy.nth = i)
      BY <1>1, <2>1 DEF PermitOf
    <2>4. Known(busy)' /\ PermitOf(busy)' = PermitOf(busy)
      BY <1>2, <1>6, <2>1, <2>2, <2>3
    <2>5. Admissible(busy.req)'
      BY <1>2, <2>1 DEF Admissible, Fresh, Existing
    <2> QED
      BY <1>2, <2>1, <2>4, <2>5
  <1>13. IsFiniteSet({j \in Keys : orders[j] # NoOrder})'
    BY <1>2 DEF PaperInv
  <1>14. Balanced(orders, balance)'
    BY <1>2 DEF PaperInv
  <1> QED
    BY <1>5, <1>7, <1>9, <1>10, <1>11, <1>12, <1>13, <1>14 DEF PaperInv

\* The permit of a request that is admissible is consumed, in this life.
LEMMA ConsumeStep ==
  ASSUME PaperInv, NEW m \in wire, Consume(m)
  PROVE  PaperInv'
  <1> DEFINE k == KeyOf[m.req]
             i == m.nth
             p == [permits[k][i] EXCEPT !.state = "consumed", !.life = life]
  <1>0. TypeOK /\ wire \subseteq Submission /\ m \in Submission /\ Known(m) /\ life \in 0 .. MaxLives
    BY DEF PaperInv, TypeOK
  <1>1. /\ m.req \in Requests /\ k \in Keys
        /\ permits[k] \in Seq(Permit) /\ i \in DOMAIN permits[k]
        /\ permits[k][i] \in Permit
    BY <1>0, SubmissionFacts DEF Known
  <1>2. /\ UNCHANGED <<orders, queue, balance, price, outcome, life>>
        /\ wire' = wire \ {m} /\ busy' = m /\ busy = Nobody
        /\ permits[k][i].state = "live" /\ Admissible(m.req)
    BY DEF Consume, PermitOf, Idle
  <1>3. /\ p \in Permit /\ p.req = permits[k][i].req /\ p.state = "consumed"
        /\ p.life = life /\ p.life <= life
        /\ Reissued(permits, permits', k, i, p)
    <2>1. p \in Permit /\ p.req = permits[k][i].req /\ p.state = "consumed" /\ p.life = life
      BY <1>0, <1>1 DEF Permit
    <2>2. Reissued(permits, permits', k, i, p)
      <3>1. permits' = [permits EXCEPT ![k][i] = [@ EXCEPT !.state = "consumed", !.life = life]]
        BY DEF Consume
      <3> QED
        BY <3>1 DEF Reissued
    <2>3. life <= life
      BY <1>0
    <2> HIDE DEF p
    <2> QED
      BY <2>1, <2>2, <2>3
  <1> HIDE DEF p, k, i
  <1>4. /\ permits' \in [Keys -> Seq(Permit)]
        /\ permits'[k] # <<>>
        /\ \A j \in Keys \ {k} : permits'[j] = permits[j]
        /\ \A j \in Keys : PermitInv(j)'
    <2>1. life' = life
      BY <1>2
    <2> QED
      BY <1>1, <1>2, <1>3, <2>1, PermitChange
  <1>5. \A n \in Submission : Known(n) =>
          /\ Known(n)'
          /\ PermitOf(n)' = IF KeyOf[n.req] = k /\ n.nth = i THEN p ELSE PermitOf(n)
    <2>1. life' = life
      BY <1>2
    <2> QED
      BY <1>1, <1>2, <1>3, <2>1, PermitChange
  <1>6. TypeOK'
    BY <1>0, <1>2, <1>4 DEF TypeOK
  <1>7. \A n \in wire : Known(n) /\ n \in Submission
    BY DEF PaperInv, TypeOK
  <1>8. \A n \in wire' : Known(n)'
    BY <1>2, <1>5, <1>7
  <1>9. orders[k] = NoOrder
    BY <1>2 DEF Admissible, Fresh, Existing, k
  <1>10. ASSUME NEW j \in Keys
         PROVE  OrderInv(j)'
    <2>1. OrderInv(j)
      BY DEF PaperInv
    <2>2. busy' # Nobody /\ KeyOf[busy'.req] = k
      BY <1>0, <1>2 DEF k, Nobody, Submission
    <2>3. CASE j = k
      BY <1>2, <1>9, <2>2, <2>3 DEF OrderInv
    <2>4. CASE j # k
      <3>1. Admitted(j)' <=> Admitted(j)
        BY <1>2, <1>4, <2>4 DEF Admitted
      <3> QED
        BY <1>2, <1>4, <2>1, <2>4, <3>1 DEF OrderInv
    <2> QED
      BY <2>3, <2>4
  <1>11. ASSUME NEW j \in Keys
         PROVE  RefusalInv(j)'
    <2>1. RefusalInv(j)
      BY DEF PaperInv
    <2>2. ASSUME Harmless(j)
          PROVE  Harmless(j)'
      <3>1. j # k
        BY <1>2, <2>2 DEF Harmless, PermitOf, k, i
      <3>2. permits'[j] # <<>> /\ orders'[j].state \in {"ABSENT", "CANCELLED"}
        BY <1>2, <1>4, <2>2, <3>1 DEF Harmless
      <3>3. KeyOf[busy'.req] # j
        BY <1>2, <3>1 DEF k
      <3>4. ASSUME NEW n \in wire', KeyOf[n.req] = j
            PROVE  PermitOf(n)'.state = "dead"
        <4>1. n \in wire /\ PermitOf(n).state = "dead"
          BY <1>2, <2>2, <3>4 DEF Harmless
        <4> QED
          BY <1>5, <1>7, <3>1, <3>4, <4>1
      <3> QED
        BY <3>2, <3>3, <3>4 DEF Harmless
    <2> QED
      BY <1>2, <2>1, <2>2 DEF RefusalInv
  <1>12. BusyInv'
    <2>1. Known(m)' /\ PermitOf(m)' = p
      BY <1>0, <1>5 DEF k, i
    <2>2. Admissible(m.req)'
      BY <1>2 DEF Admissible, Fresh, Existing
    <2>3. Known(busy)' /\ PermitOf(busy)' = p
      BY <1>2, <2>1 DEF Known, PermitOf
    <2>4. Admissible(busy.req)'
      BY <1>2, <2>2
    <2> QED
      BY <1>2, <1>3, <2>3, <2>4 DEF BusyInv
  <1>13. IsFiniteSet({j \in Keys : orders[j] # NoOrder})'
    BY <1>2 DEF PaperInv
  <1>14. Balanced(orders, balance)'
    BY <1>2 DEF PaperInv
  <1> QED
    BY <1>4, <1>6, <1>8, <1>10, <1>11, <1>12, <1>13, <1>14 DEF PaperInv

-----------------------------------------------------------------------------
(* Steps that change the book *)

\* A consumed submission has its key to itself: no order, and an identity that was
\* admitted with it.
LEMMA BusyFacts ==
  ASSUME PaperInv, busy # Nobody
  PROVE  /\ busy \in Submission /\ busy.req \in Requests /\ KeyOf[busy.req] \in Keys
         /\ Known(busy) /\ Admissible(busy.req) /\ busy.req \notin OutOfScope
         /\ orders[KeyOf[busy.req]] = NoOrder
         /\ busy.nth = Len(permits[KeyOf[busy.req]])
         /\ Admitted(KeyOf[busy.req])
         /\ permits[KeyOf[busy.req]][Len(permits[KeyOf[busy.req]])].req = busy.req
  <1>1. TypeOK /\ busy \in Submission
    BY DEF PaperInv, TypeOK
  <1>2. /\ Known(busy) /\ Admissible(busy.req)
        /\ PermitOf(busy).state = "consumed" /\ PermitOf(busy).life = life
    BY DEF PaperInv, BusyInv
  <1>3. /\ busy.req \in Requests /\ KeyOf[busy.req] \in Keys
        /\ permits[KeyOf[busy.req]] # <<>>
        /\ PermitOf(busy).req = busy.req
        /\ PermitOf(busy) = permits[KeyOf[busy.req]][busy.nth]
    BY <1>1, <1>2, SubmissionFacts
  <1>4. PermitInv(KeyOf[busy.req]) /\ busy.nth \in DOMAIN permits[KeyOf[busy.req]]
    BY <1>2, <1>3 DEF PaperInv, Known
  <1>5. busy.nth = Len(permits[KeyOf[busy.req]])
    BY <1>2, <1>3, <1>4 DEF PermitInv
  <1> QED
    BY <1>1, <1>2, <1>3, <1>5 DEF Admissible, Fresh, Existing, Admitted

\* What a step that books the submission in hand, or matches, has to show: the
\* money, and for every order on the book the permit it stands for.
LEMMA BookStep ==
  ASSUME PaperInv, UNCHANGED <<permits, wire, life>>, busy' = Nobody,
         queue' \in Seq(Keys), price' \in Prices \cup {NoQuote}, outcome' \in [Keys -> Outcomes],
         Money(orders', balance'),
         \A k \in Keys : OrderInv(k)',
         \A k \in Keys : outcome'[k] = "refused" =>
           /\ orders'[k].state \in {"ABSENT", "CANCELLED"}
           /\ \/ Harmless(k)
              \/ permits[k] # <<>> /\ \A m \in wire : KeyOf[m.req] = k => PermitOf(m).state = "dead"
  PROVE  PaperInv'
  <1>0. TypeOK /\ orders' \in [Keys -> Order] /\ balance' \in Wallet
    BY DEF PaperInv, Money
  <1>1. TypeOK'
    BY <1>0 DEF TypeOK, Wallet
  <1>2. \A m \in wire' : Known(m)'
    BY DEF PaperInv, Known, PermitOf
  <1>3. ASSUME NEW k \in Keys
        PROVE  PermitInv(k)' /\ RefusalInv(k)'
    <2>1. PermitInv(k)'
      BY DEF PaperInv, PermitInv
    <2>2. RefusalInv(k)'
      BY DEF RefusalInv, Harmless, PermitOf
    <2> QED
      BY <2>1, <2>2
  <1>4. BusyInv'
    BY DEF BusyInv
  <1>5. IsFiniteSet({k \in Keys : orders'[k] # NoOrder}) /\ Balanced(orders', balance')
    BY DEF Money
  <1>6. IsFiniteSet({k \in Keys : orders[k] # NoOrder})'
    BY <1>5
  <1>7. Balanced(orders, balance)'
    BY <1>5
  <1> QED
    BY <1>1, <1>2, <1>3, <1>4, <1>6, <1>7 DEF PaperInv

\* Matching: resting orders end, in the books' favour or unfilled.
LEMMA MatchingStep ==
  ASSUME PaperInv, Idle, NEW p \in Prices, SetBook(Matched(Book, p)), price' \in Prices \cup {NoQuote},
         UNCHANGED <<queue, permits, wire, outcome, busy, life>>
  PROVE  PaperInv' /\ MatchedFrom(orders, orders')
  <1> DEFINE bk == Book
             new == Matched(bk, p)
  <1>0. /\ TypeOK /\ queue \in Seq(Keys) /\ outcome \in [Keys -> Outcomes] /\ busy = Nobody
        /\ \A k \in Keys : PermitInv(k) /\ OrderInv(k) /\ RefusalInv(k)
    BY DEF PaperInv, TypeOK, Idle
  <1>1. bk.orders = orders /\ bk.balance = balance /\ bk \in Books /\ Money(orders, balance)
    BY DEF Book, Books, PaperInv, TypeOK, Money, Wallet
  <1>2. Restable(orders)
    <2> SUFFICES ASSUME NEW k \in Keys, orders[k].state = "PENDING"
                 PROVE  orders[k].req \in Requests /\ KeyOf[orders[k].req] = k /\ ~IsCancel(orders[k].req)
      BY DEF Restable
    <2>1. orders[k] # NoOrder
      BY DEF NoOrder
    <2>2. /\ permits[k] # <<>> /\ orders[k].req = permits[k][Len(permits[k])].req
          /\ ~IsCancel(orders[k].req)
      BY <1>0, <2>1 DEF OrderInv, Admitted
    <2>3. permits[k] \in Seq(Permit)
      BY <1>0 DEF TypeOK
    <2>4. Len(permits[k]) \in DOMAIN permits[k] /\ permits[k][Len(permits[k])] \in Permit
      BY <2>2, <2>3
    <2> QED
      BY <1>0, <2>2, <2>4 DEF PermitInv, Permit
  <1>3. new \in Reach(orders)
    <2> HIDE DEF bk
    <2> QED
      BY <1>0, <1>1, <1>2, MatchedReach
  <1>4. /\ orders' = new.orders /\ balance' = new.balance
    BY DEF SetBook
  <1>5. Money(orders', balance') /\ MatchedFrom(orders, orders')
    <2> HIDE DEF new
    <2> QED
      BY <1>3, <1>4 DEF Reach
  <1>6. ASSUME NEW k \in Keys
        PROVE  OrderInv(k)'
    <2>1. OrderInv(k) /\ (Admitted(k)' <=> Admitted(k))
      BY <1>0 DEF Admitted
    <2>2. CASE orders'[k] = orders[k]
      BY <1>0, <2>1, <2>2 DEF OrderInv
    <2>3. CASE /\ orders[k].state = "PENDING" /\ orders'[k].state \in {"FILLED", "CANCELLED"}
               /\ orders'[k].req = orders[k].req
      <3>1. orders[k] # NoOrder /\ orders'[k] # NoOrder
        BY <2>3 DEF NoOrder
      <3> QED
        BY <1>0, <2>1, <2>3, <3>1 DEF OrderInv
    <2> QED
      BY <1>5, <2>2, <2>3 DEF MatchedFrom
  <1>7. ASSUME NEW k \in Keys, outcome'[k] = "refused"
        PROVE  orders'[k].state \in {"ABSENT", "CANCELLED"} /\ Harmless(k)
    <2>1. Harmless(k)
      BY <1>0, <1>7 DEF RefusalInv
    <2>2. orders[k].state # "PENDING" /\ orders[k].state \in {"ABSENT", "CANCELLED"}
      BY <2>1 DEF Harmless
    <2> QED
      BY <1>5, <2>1, <2>2 DEF MatchedFrom
  <1>8. queue' \in Seq(Keys) /\ outcome' \in [Keys -> Outcomes] /\ busy' = Nobody
    BY <1>0
  <1>9. PaperInv'
    BY <1>5, <1>6, <1>7, <1>8, BookStep
  <1> QED
    BY <1>5, <1>9

\* A new quote alone changes nothing an order depends on while the lock is free.
LEMMA QuoteStep ==
  ASSUME PaperInv, NEW p \in Prices, NEW match \in BOOLEAN, SetQuote(p, match)
  PROVE  PaperInv' /\ MatchedFrom(orders, orders')
  <1>0. /\ Idle /\ price' \in Prices \cup {NoQuote}
        /\ UNCHANGED <<queue, permits, wire, outcome, busy, life>>
    BY DEF SetQuote
  <1>1. CASE match
    <2>1. SetBook(Matched(Book, p))
      BY <1>1 DEF SetQuote
    <2> QED
      BY <1>0, <2>1, MatchingStep
  <1>2. CASE ~match
    <2>1. orders' = orders /\ balance' = balance
      BY <1>2 DEF SetQuote, SetBook, Book
    <2>2. MatchedFrom(orders, orders')
      BY <2>1 DEF MatchedFrom
    <2>3. /\ TypeOK /\ queue \in Seq(Keys) /\ outcome \in [Keys -> Outcomes] /\ busy = Nobody
          /\ \A k \in Keys : OrderInv(k) /\ RefusalInv(k)
      BY <1>0 DEF PaperInv, TypeOK, Idle
    <2>4. Money(orders, balance)
      BY DEF PaperInv, TypeOK, Money, Wallet
    <2>5. Money(orders', balance')
      BY <2>1, <2>4
    <2>6. \A k \in Keys : OrderInv(k)'
      BY <1>0, <2>1, <2>3 DEF OrderInv, Admitted
    <2>7. \A k \in Keys : outcome'[k] = "refused" =>
            orders'[k].state \in {"ABSENT", "CANCELLED"} /\ Harmless(k)
      BY <1>0, <2>1, <2>3 DEF RefusalInv, Harmless
    <2>8. queue' \in Seq(Keys) /\ outcome' \in [Keys -> Outcomes] /\ busy' = Nobody
      BY <1>0, <2>3
    <2>9. PaperInv'
      BY <1>0, <2>5, <2>6, <2>7, <2>8, BookStep
    <2> QED
      BY <2>2, <2>9
  <1> QED
    BY <1>1, <1>2

\* Matching at the quote that stands.
LEMMA MatchPendingStep ==
  ASSUME PaperInv, MatchPending
  PROVE  PaperInv' /\ MatchedFrom(orders, orders')
  <1>1. price \in Prices
    BY DEF MatchPending, PaperInv, TypeOK
  <1>2. price' \in Prices \cup {NoQuote}
    BY <1>1 DEF MatchPending
  <1>3. Idle /\ SetBook(Matched(Book, price)) /\ UNCHANGED <<queue, permits, wire, outcome, busy, life>>
    BY DEF MatchPending
  <1> QED
    BY <1>1, <1>2, <1>3, MatchingStep

\* A book as configured balances.
LEMMA NewMoney ==
  /\ Money(NewBook.orders, NewBook.balance)
  /\ NewBook.orders = [k \in Keys |-> NoOrder]
  <1> DEFINE o == [k \in Keys |-> NoOrder]
             b == [quote |-> Cash, base |-> Coins]
  <1>1. o \in [Keys -> Order] /\ b \in Wallet
    BY PaperConstants DEF NoOrder, Order, OrderStates, Wallet
  <1>2. {k \in Keys : o[k] # NoOrder} = {}
    OBVIOUS
  <1>3. FilledBy(o, "BUY") = {} /\ FilledBy(o, "SELL") = {}
    BY DEF FilledBy, NoOrder
  <1>4. CoinsOf(o, {}) = 0
    BY CoinsTotal, TotalEmpty
  <1>5. Cardinality({}) = 0 /\ IsFiniteSet({})
    BY FS_EmptySet
  <1>6. Cash \in Nat /\ Coins \in Nat /\ Size \in Nat
    BY PaperConstants
  <1>7. Balanced(o, b)
    <2>1. b["quote"] = Cash /\ b["base"] = Coins
      OBVIOUS
    <2>2. Cash = Cash + Size * (0 - 0) /\ Coins = Coins + 0 - 0
      BY <1>6
    <2> HIDE DEF o, b
    <2>3. b["quote"] = Cash + Size * (Cardinality(FilledBy(o, "SELL")) - Cardinality(FilledBy(o, "BUY")))
      BY <1>3, <1>5, <2>1, <2>2
    <2>4. b["base"] = Coins + CoinsOf(o, FilledBy(o, "BUY")) - CoinsOf(o, FilledBy(o, "SELL"))
      BY <1>3, <1>4, <2>1, <2>2
    <2> QED
      BY <1>3, <2>3, <2>4 DEF Balanced
  <1>8. Money(o, b)
    <2> HIDE DEF o, b
    <2> QED
      BY <1>1, <1>2, <1>5, <1>7 DEF Money
  <1> QED
    BY <1>8 DEF NewBook

\* After a restart nobody is admitted in the new life, so nothing need be on its book.
LEMMA RestartStep ==
  ASSUME PaperInv, Restart
  PROVE  PaperInv'
  <1>0. /\ TypeOK /\ life \in 0 .. MaxLives /\ life < MaxLives /\ life' = life + 1
        /\ MaxLives \in Nat /\ wire \subseteq Submission
        /\ \A k \in Keys : PermitInv(k) /\ OrderInv(k) /\ RefusalInv(k)
    BY PaperConstants DEF PaperInv, TypeOK, Restart
  <1>1. /\ orders' = NewBook.orders /\ balance' = NewBook.balance /\ busy' = Nobody
        /\ queue' = <<>> /\ price' = NoQuote /\ UNCHANGED <<permits, wire, outcome>>
    BY DEF Restart, SetBook
  <1>2. Money(orders', balance') /\ orders' = [k \in Keys |-> NoOrder]
    BY <1>1, NewMoney
  <1>3. TypeOK'
    <2>1. orders' \in [Keys -> Order] /\ balance' \in Wallet
      BY <1>2 DEF Money
    <2>2. life' \in 0 .. MaxLives
      BY <1>0
    <2> QED
      BY <1>0, <1>1, <2>1, <2>2 DEF TypeOK, Wallet
  <1>4. \A m \in wire' : Known(m)'
    BY <1>1 DEF PaperInv, Known, PermitOf
  <1>5. ASSUME NEW k \in Keys
        PROVE  PermitInv(k)' /\ OrderInv(k)' /\ RefusalInv(k)'
    <2>1. permits[k] \in Seq(Permit)
      BY <1>0 DEF TypeOK
    <2>2. ASSUME NEW i \in DOMAIN permits[k]
          PROVE  permits[k][i].life \in Nat /\ permits[k][i].life <= life
      <3>1. permits[k][i] \in Permit
        BY <2>1
      <3>2. permits[k][i].life \in 0 .. MaxLives
        BY <3>1 DEF Permit
      <3> QED
        BY <1>0, <3>2 DEF PermitInv
    <2>3. PermitInv(k)'
      BY <1>0, <1>1, <2>2 DEF PermitInv
    <2>4. ~Admitted(k)'
      <3>1. permits[k] # <<>> => Len(permits[k]) \in DOMAIN permits[k]
        BY <2>1
      <3> QED
        BY <1>0, <1>1, <2>2, <3>1 DEF Admitted
    <2>5. orders'[k] = NoOrder
      BY <1>2
    <2>6. OrderInv(k)'
      BY <2>4, <2>5 DEF OrderInv
    <2>7. RefusalInv(k)'
      BY <1>0, <1>1, <2>5 DEF RefusalInv, Harmless, PermitOf, NoOrder
    <2> QED
      BY <2>3, <2>6, <2>7
  <1>6. BusyInv'
    BY <1>1 DEF BusyInv
  <1>7. IsFiniteSet({k \in Keys : orders'[k] # NoOrder}) /\ Balanced(orders', balance')
    BY <1>2 DEF Money
  <1>8. IsFiniteSet({k \in Keys : orders[k] # NoOrder})'
    BY <1>7
  <1>9. Balanced(orders, balance)'
    BY <1>7
  <1> QED
    BY <1>3, <1>4, <1>5, <1>6, <1>8, <1>9 DEF PaperInv

\* What booking the submission in hand leaves under its key.
PlacedState(r) ==
  IF Marketable(r, price) THEN (IF Transfers(balance, r, price) THEN "FILLED" ELSE "CANCELLED")
                          ELSE (IF Shape[r].tif = "IOC" THEN "CANCELLED" ELSE "PENDING")

\* Booking keeps the books and ends in that state.
LEMMA PlacedResult ==
  ASSUME PaperInv, busy # Nobody, ~IsCancel(busy.req)
  PROVE  /\ Placed(busy.req) \in Books
         /\ Money(Placed(busy.req).orders, Placed(busy.req).balance)
         /\ EndsAs(orders, Placed(busy.req).orders, busy.req, PlacedState(busy.req))
  <1> DEFINE r == busy.req
             k == KeyOf[r]
             v == [state |-> "PENDING", req |-> r, at |-> 0]
             w == Unfilled(r)
             o == [orders EXCEPT ![k] = v]
             o2 == [orders EXCEPT ![k] = w]
             pending == [orders |-> o, balance |-> balance]
  <1>0. /\ r \in Requests /\ k \in Keys /\ orders[k] = NoOrder /\ Admissible(r)
        /\ orders \in [Keys -> Order] /\ balance \in Wallet
    BY BusyFacts DEF PaperInv, TypeOK, Wallet
  <1>1. price \in Prices
    BY <1>0 DEF Admissible, PaperInv, TypeOK
  <1>2. Money(orders, balance) /\ orders[k].state # "FILLED"
    BY <1>0 DEF PaperInv, Money, NoOrder
  <1>3. /\ v \in Order /\ v.req = r /\ v.state = "PENDING"
        /\ w \in Order /\ w.req = r /\ w.state = "CANCELLED"
    BY <1>0 DEF Order, OrderStates, Unfilled
  <1>4. /\ o \in [Keys -> Order] /\ Rebooked(orders, o, k, v) /\ o[k] = v
        /\ o2 \in [Keys -> Order] /\ Rebooked(orders, o2, k, w)
    BY <1>0, <1>3 DEF Rebooked
  <1>5. [Book EXCEPT !.orders[k] = v] = pending
    BY DEF Book
  <1>6. [pending EXCEPT !.orders[k] = w] = [orders |-> o2, balance |-> balance]
    BY <1>0
  <1>7. Placed(r) = CASE Marketable(r, price)                          -> Fill(pending, r, price)
                      [] ~Marketable(r, price) /\ Shape[r].tif = "GTC" -> pending
                      [] ~Marketable(r, price) /\ Shape[r].tif = "IOC" -> [orders |-> o2, balance |-> balance]
    BY <1>5, <1>6 DEF Placed
  <1>8. EndsAs(orders, o, r, "PENDING") /\ EndsAs(orders, o2, r, "CANCELLED")
    BY <1>3 DEF EndsAs
  <1>9. pending \in Books /\ pending.orders = o /\ pending.balance = balance
    BY <1>0, <1>4 DEF Books
  <1> HIDE DEF o, o2, v, w, r
  <1>10. Money(o, balance) /\ Money(o2, balance)
    <2>1. Money(o, balance)
      BY <1>0, <1>2, <1>3, <1>4, UnfilledMoney
    <2>2. Money(o2, balance)
      BY <1>0, <1>2, <1>3, <1>4, UnfilledMoney
    <2> QED
      BY <2>1, <2>2
  <1>11. CASE Marketable(r, price)
    <2> DEFINE new == Fill(pending, r, price)
               st == IF Transfers(balance, r, price) THEN "FILLED" ELSE "CANCELLED"
    <2>1. ~IsCancel(r) /\ o[KeyOf[r]].state # "FILLED"
      BY <1>3, <1>4 DEF r
    <2>2. new \in Books /\ Money(new.orders, new.balance) /\ EndsAs(o, new.orders, r, st)
      <3> HIDE DEF pending
      <3> QED
        BY <1>0, <1>1, <1>9, <1>10, <1>11, <2>1, FillResult
    <2>3. Placed(r) = new /\ PlacedState(r) = st
      BY <1>7, <1>11 DEF PlacedState
    <2> HIDE DEF new, st
    <2>4. EndsAs(orders, new.orders, r, st)
      <3>1. PICK u \in Order : new.orders = [o EXCEPT ![k] = u] /\ u.req = r /\ u.state = st
        BY <2>2 DEF EndsAs
      <3>2. [o EXCEPT ![k] = u] = [orders EXCEPT ![k] = u]
        BY <1>0 DEF o
      <3> QED
        BY <3>1, <3>2 DEF EndsAs
    <2>5. /\ Placed(r) \in Books
          /\ Money(Placed(r).orders, Placed(r).balance)
          /\ EndsAs(orders, Placed(r).orders, r, PlacedState(r))
      BY <2>2, <2>3, <2>4
    <2> QED
      BY <2>5 DEF r
  <1>12. CASE ~Marketable(r, price) /\ Shape[r].tif = "GTC"
    <2>1. Placed(r) = pending
      BY <1>7, <1>12
    <2>2. PlacedState(r) = "PENDING"
      BY <1>12 DEF PlacedState
    <2>3. /\ Placed(r) \in Books
          /\ Money(Placed(r).orders, Placed(r).balance)
          /\ EndsAs(orders, Placed(r).orders, r, PlacedState(r))
      BY <1>8, <1>9, <1>10, <2>1, <2>2
    <2> QED
      BY <2>3 DEF r
  <1>13. CASE ~Marketable(r, price) /\ Shape[r].tif = "IOC"
    <2> DEFINE new == [orders |-> o2, balance |-> balance]
    <2>1. Placed(r) = new
      BY <1>7, <1>13
    <2>2. PlacedState(r) = "CANCELLED"
      BY <1>13 DEF PlacedState
    <2>3. new \in Books /\ new.orders = o2 /\ new.balance = balance
      BY <1>0, <1>4 DEF Books
    <2> HIDE DEF new
    <2>4. /\ Placed(r) \in Books
          /\ Money(Placed(r).orders, Placed(r).balance)
          /\ EndsAs(orders, Placed(r).orders, r, PlacedState(r))
      BY <1>8, <1>10, <2>1, <2>2, <2>3
    <2> QED
      BY <2>4 DEF r
  <1>14. Shape[r].tif \in {"IOC", "GTC"}
    <2>1. ~IsCancel(r)
      BY DEF r
    <2> QED
      BY <1>0, <2>1, TradeKinds
  <1> QED
    BY <1>11, <1>12, <1>13, <1>14

\* The submission in hand is booked under its own key; the client of a raised one may
\* see a refusal, and the order is cancelled.
LEMMA PlaceStep ==
  ASSUME PaperInv, busy # Nobody, PlaceOrder(busy)
  PROVE  /\ PaperInv'
         /\ EndsAs(orders, orders', busy.req, PlacedState(busy.req))
  <1> DEFINE r == busy.req
             k == KeyOf[r]
             new == Placed(r)
             reply == IF Raises(r) THEN "refused" ELSE "receipt"
  <1>0. /\ busy \in Submission /\ r \in Requests /\ k \in Keys
        /\ r \notin OutOfScope /\ Known(busy)
        /\ orders[k] = NoOrder /\ busy.nth = Len(permits[k])
        /\ Admitted(k) /\ permits[k][Len(permits[k])].req = r
    BY BusyFacts
  <1>1. /\ TypeOK /\ orders \in [Keys -> Order] /\ queue \in Seq(Keys)
        /\ outcome \in [Keys -> Outcomes] /\ wire \subseteq Submission
        /\ price \in Prices \cup {NoQuote} /\ busy \notin wire
        /\ \A m \in wire : Known(m)
        /\ \A j \in Keys : PermitInv(j) /\ OrderInv(j) /\ RefusalInv(j)
    BY DEF PaperInv, TypeOK, BusyInv
  <1>2. /\ ~IsCancel(r) /\ orders' = new.orders /\ balance' = new.balance
        /\ queue' = Append(queue, k) /\ Reply(busy, reply) /\ busy' = Nobody
        /\ UNCHANGED <<price, permits, wire, life>>
    BY DEF PlaceOrder, SetBook
  <1>3. Money(orders', balance') /\ EndsAs(orders, orders', r, PlacedState(r))
    <2>1. Money(new.orders, new.balance) /\ EndsAs(orders, new.orders, r, PlacedState(r))
      BY <1>2, PlacedResult
    <2> HIDE DEF new
    <2> QED
      BY <1>2, <2>1
  <1> HIDE DEF new
  <1>4. PICK v \in Order : orders' = [orders EXCEPT ![k] = v] /\ v.req = r /\ v.state = PlacedState(r)
    BY <1>3 DEF EndsAs
  <1>5. orders'[k] = v /\ \A j \in Keys \ {k} : orders'[j] = orders[j]
    BY <1>0, <1>1, <1>4
  <1>6. v.state \in {"FILLED", "CANCELLED", "PENDING"} /\ v # NoOrder
    BY <1>4 DEF PlacedState, NoOrder
  <1>7. ASSUME NEW j \in Keys
        PROVE  OrderInv(j)'
    <2>1. OrderInv(j) /\ (Admitted(j)' <=> Admitted(j))
      BY <1>1, <1>2 DEF Admitted
    <2>2. CASE j = k
      BY <1>0, <1>2, <1>4, <1>5, <1>6, <2>1, <2>2 DEF OrderInv
    <2>3. CASE j # k
      BY <1>2, <1>5, <2>1, <2>3 DEF OrderInv
    <2> QED
      BY <2>2, <2>3
  <1>8. reply \in Outcomes /\ reply # "ambiguous"
    BY DEF Outcomes
  <1>9. /\ outcome' \in [Keys -> Outcomes]
        /\ \A j \in Keys :
             \/ outcome'[j] = outcome[j]
             \/ j = k /\ outcome'[j] \in {reply, "ambiguous"}
    <2> HIDE DEF reply
    <2> QED
      BY <1>1, <1>2, <1>8, ReplyResult
  <1>10. ASSUME NEW m \in wire, KeyOf[m.req] = k
         PROVE  PermitOf(m).state = "dead"
    <2>1. Known(m) /\ m \in Submission /\ m # busy
      BY <1>1
    <2>2. m.nth # busy.nth
      BY <1>0, <1>1, <1>10, <2>1, SameSubmission
    <2>3. m.nth \in DOMAIN permits[k] /\ PermitOf(m) = permits[k][m.nth]
      BY <1>10, <2>1 DEF Known, PermitOf
    <2> QED
      BY <1>0, <1>1, <2>2, <2>3 DEF PermitInv
  <1>11. outcome[k] # "refused"
    BY <1>0, <1>1 DEF RefusalInv, Harmless
  <1>12. ASSUME NEW j \in Keys, outcome'[j] = "refused"
         PROVE  /\ orders'[j].state \in {"ABSENT", "CANCELLED"}
                /\ \/ Harmless(j)
                   \/ permits[j] # <<>> /\ \A m \in wire : KeyOf[m.req] = j => PermitOf(m).state = "dead"
    <2>1. CASE j = k
      <3>1. Raises(r)
        BY <1>9, <1>11, <1>12, <2>1
      <3>2. v.state = "CANCELLED"
        BY <1>4, <3>1 DEF Raises, PlacedState
      <3> QED
        BY <1>0, <1>5, <1>10, <2>1, <3>2 DEF Admitted
    <2>2. CASE j # k
      <3>1. outcome[j] = "refused"
        BY <1>9, <1>12, <2>2
      <3> QED
        BY <1>1, <1>5, <2>2, <3>1 DEF RefusalInv, Harmless
    <2> QED
      BY <2>1, <2>2
  <1>13. queue' \in Seq(Keys) /\ price' \in Prices \cup {NoQuote} /\ busy' = Nobody
    BY <1>0, <1>1, <1>2
  <1>14. PaperInv'
    <2>1. UNCHANGED <<permits, wire, life>>
      BY <1>2
    <2> HIDE DEF k, r
    <2> QED
      BY <1>3, <1>7, <1>9, <1>12, <1>13, <2>1, BookStep
  <1> QED
    BY <1>3, <1>14

\* A cancel ends its target, which is another identity's, and is itself on record.
LEMMA CancelStep ==
  ASSUME PaperInv, busy # Nobody, CancelOrder(busy)
  PROVE  /\ PaperInv'
         /\ \A j \in Keys :
              \/ orders'[j] = orders[j]
              \/ j = KeyOf[busy.req] /\ orders'[j].state = "FILLED"
              \/ /\ orders[j].state \in {"PENDING", "CANCELLED"}
                 /\ orders'[j].state = "CANCELLED"
  <1> DEFINE r == busy.req
             k == KeyOf[r]
             t == Shape[r].target
             u == [orders[t] EXCEPT !.state = "CANCELLED", !.at = 0]
             v == [state |-> "FILLED", req |-> r, at |-> 0]
             o == [orders EXCEPT ![t] = u]
  <1>0. /\ busy \in Submission /\ r \in Requests /\ k \in Keys
        /\ r \notin OutOfScope /\ Known(busy) /\ Admissible(r)
        /\ orders[k] = NoOrder /\ busy.nth = Len(permits[k])
        /\ Admitted(k) /\ permits[k][Len(permits[k])].req = r
    BY BusyFacts
  <1>1. /\ TypeOK /\ orders \in [Keys -> Order] /\ queue \in Seq(Keys)
        /\ outcome \in [Keys -> Outcomes]
        /\ price \in Prices \cup {NoQuote}
        /\ \A j \in Keys : PermitInv(j) /\ OrderInv(j) /\ RefusalInv(j)
    BY DEF PaperInv, TypeOK
  <1>2. /\ IsCancel(r)
        /\ orders' = [orders EXCEPT ![t] = [@ EXCEPT !.state = "CANCELLED", !.at = 0], ![k] = v]
        /\ queue' = Append(queue, k) /\ Reply(busy, "receipt") /\ busy' = Nobody
        /\ UNCHANGED <<balance, price, permits, wire, life>>
    BY DEF CancelOrder
  <1>3. t \in Keys /\ orders[t].state \in {"PENDING", "CANCELLED"} /\ t # k
    <2>1. t \in Keys
      BY <1>0, <1>2, TradeKinds
    <2>2. orders[t].state \in {"PENDING", "CANCELLED"}
      BY <1>0, <1>2 DEF Admissible
    <2> QED
      BY <1>0, <2>1, <2>2 DEF NoOrder
  <1>4. /\ u \in Order /\ u.state = "CANCELLED" /\ u.req = orders[t].req
        /\ v \in Order /\ v.state = "FILLED" /\ v.req = r
    <2>1. orders[t] \in Order
      BY <1>1, <1>3
    <2> QED
      BY <1>0, <2>1 DEF Order, OrderStates
  <1>5. /\ o \in [Keys -> Order] /\ Rebooked(orders, o, t, u) /\ Rebooked(o, orders', k, v)
        /\ o[k] = orders[k]
    <2>1. orders' = [o EXCEPT ![k] = v]
      BY <1>1, <1>2, <1>3
    <2> QED
      BY <1>1, <1>3, <1>4, <2>1 DEF Rebooked
  <1>6. /\ orders'[k] = v /\ orders'[t] = u
        /\ \A j \in Keys : j # k /\ j # t => orders'[j] = orders[j]
    BY <1>0, <1>1, <1>2, <1>3
  <1> HIDE DEF o, u, v, t, r, k
  <1>7. Money(orders', balance')
    <2>1. Money(orders, balance)
      BY <1>1 DEF PaperInv, TypeOK, Money, Wallet
    <2>2. Money(o, balance)
      BY <1>3, <1>4, <1>5, <2>1, UnfilledMoney
    <2>3. o[k].state # "FILLED"
      BY <1>0, <1>5 DEF NoOrder
    <2>4. Money(orders', balance)
      BY <1>0, <1>2, <1>4, <1>5, <2>2, <2>3, UnfilledMoney
    <2> QED
      BY <1>2, <2>4
  <1>8. ASSUME NEW j \in Keys
        PROVE  OrderInv(j)'
    <2>1. OrderInv(j) /\ (Admitted(j)' <=> Admitted(j))
      BY <1>1, <1>2 DEF Admitted
    <2>2. CASE j = k
      <3>1. orders'[j] # NoOrder
        BY <1>4, <1>6, <2>2 DEF NoOrder
      <3> QED
        BY <1>0, <1>2, <1>4, <1>6, <2>1, <2>2, <3>1 DEF OrderInv
    <2>3. CASE j = t
      <3>1. orders'[j] # NoOrder /\ orders[j] # NoOrder
        BY <1>3, <1>4, <1>6, <2>3 DEF NoOrder
      <3> QED
        BY <1>2, <1>4, <1>6, <2>1, <2>3, <3>1 DEF OrderInv
    <2>4. CASE j # k /\ j # t
      BY <1>2, <1>6, <2>1, <2>4 DEF OrderInv, k, r
    <2> QED
      BY <2>2, <2>3, <2>4
  <1>9. /\ outcome' \in [Keys -> Outcomes]
        /\ \A j \in Keys : outcome'[j] = "refused" => outcome[j] = "refused"
    <2>1. "receipt" \in Outcomes
      BY DEF Outcomes
    <2> QED
      BY <1>1, <1>2, <2>1, ReplyResult
  <1>10. ASSUME NEW j \in Keys, outcome'[j] = "refused"
         PROVE  orders'[j].state \in {"ABSENT", "CANCELLED"} /\ Harmless(j)
    <2>1. Harmless(j)
      BY <1>1, <1>9, <1>10 DEF RefusalInv
    <2>2. j # k /\ orders[j].state \in {"ABSENT", "CANCELLED"}
      BY <2>1 DEF Harmless, k, r
    <2> QED
      BY <1>4, <1>6, <2>1, <2>2
  <1>11. queue' \in Seq(Keys) /\ price' \in Prices \cup {NoQuote} /\ busy' = Nobody
    BY <1>0, <1>1, <1>2
  <1>12. PaperInv'
    <2>1. UNCHANGED <<permits, wire, life>>
      BY <1>2
    <2> QED
      BY <1>7, <1>8, <1>9, <1>10, <1>11, <2>1, BookStep
  <1>13. \A j \in Keys :
           \/ orders'[j] = orders[j]
           \/ j = k /\ orders'[j].state = "FILLED"
           \/ /\ orders[j].state \in {"PENDING", "CANCELLED"}
              /\ orders'[j].state = "CANCELLED"
    BY <1>3, <1>4, <1>6
  <1> QED
    BY <1>12, <1>13 DEF k, r

-----------------------------------------------------------------------------
(* The theorems *)

\* The venue starts in the invariant.
LEMMA InitHolds ==
  Init => PaperInv
  <1> SUFFICES ASSUME Init PROVE PaperInv
    OBVIOUS
  <1>1. /\ orders = NewBook.orders /\ balance = NewBook.balance /\ queue = <<>>
        /\ price = NoQuote /\ permits = [k \in Keys |-> <<>>] /\ wire = {}
        /\ outcome = [k \in Keys |-> "idle"] /\ busy = Nobody /\ life = 0
    BY DEF Init
  <1>2. Money(orders, balance) /\ orders = [k \in Keys |-> NoOrder]
    BY <1>1, NewMoney
  <1>3. TypeOK
    <2>1. orders \in [Keys -> Order] /\ balance \in Wallet
      BY <1>2 DEF Money
    <2>2. life \in 0 .. MaxLives
      BY <1>1, PaperConstants
    <2>3. permits \in [Keys -> Seq(Permit)] /\ outcome \in [Keys -> Outcomes]
      BY <1>1 DEF Outcomes
    <2>4. wire \subseteq Submission /\ queue \in Seq(Keys)
      BY <1>1
    <2> QED
      BY <1>1, <2>1, <2>2, <2>3, <2>4 DEF TypeOK, Wallet
  <1>4. \A k \in Keys : PermitInv(k) /\ OrderInv(k) /\ RefusalInv(k)
    BY <1>1, <1>2 DEF PermitInv, OrderInv, RefusalInv, Admitted
  <1>5. BusyInv
    BY <1>1 DEF BusyInv
  <1>6. IsFiniteSet({k \in Keys : orders[k] # NoOrder}) /\ Balanced(orders, balance)
    BY <1>2 DEF Money
  <1> QED
    BY <1>1, <1>3, <1>4, <1>5, <1>6 DEF PaperInv

\* Every step of the server, its clients and the permit authority keeps the invariant.
LEMMA NextHolds ==
  PaperInv /\ [Next]_vars => PaperInv'
  <1> SUFFICES ASSUME PaperInv, [Next]_vars PROVE PaperInv'
    OBVIOUS
  <1>1. ASSUME NEW r \in Requests, Submit(r) PROVE PaperInv'
    BY <1>1, SubmitStep
  <1>2. ASSUME NEW k \in Keys, PermitDies(k) \/ GiveUp(k) PROVE PaperInv'
    BY <1>2, PermitDiesStep, GiveUpStep
  <1>3. ASSUME NEW m \in wire, Drop(m) \/ Replay(m) \/ Refuse(m) \/ Consume(m) PROVE PaperInv'
    BY <1>3, DropStep, ReplayStep, RefuseStep, ConsumeStep
  <1>4. ASSUME NEW m \in {busy} \ {Nobody}, PlaceOrder(m) \/ CancelOrder(m) PROVE PaperInv'
    <2>1. busy # Nobody /\ (PlaceOrder(busy) \/ CancelOrder(busy))
      BY <1>4
    <2> QED
      BY <2>1, PlaceStep, CancelStep
  <1>5. ASSUME NEW p \in Prices, NEW match \in BOOLEAN, SetQuote(p, match) PROVE PaperInv'
    BY <1>5, QuoteStep
  <1>6. CASE MatchPending
    BY <1>6, MatchPendingStep
  <1>7. CASE Restart
    BY <1>7, RestartStep
  <1>8. CASE UNCHANGED vars
    <2>1. /\ UNCHANGED <<orders, queue, balance, price, permits, busy, life>>
          /\ wire' = wire /\ outcome' = outcome
      BY <1>8 DEF vars
    <2>2. outcome \in [Keys -> Outcomes]
      BY DEF PaperInv, TypeOK
    <2> QED
      BY <2>1, <2>2, QuietStep
  <1> QED
    BY <1>1, <1>2, <1>3, <1>4, <1>5, <1>6, <1>7, <1>8 DEF Next

\* The inductive invariant of the paper venue: of an identity's permits only the last can
\* be live or consumed, an order is on the book exactly when that permit was consumed in
\* this life of the process (or is being booked), and the balances are what was filled.
THEOREM PaperInvariant == Spec => []PaperInv
  BY InitHolds, NextHolds, PTL DEF Spec

\* A permit this process has consumed is never paired with absence: the lookup of its
\* request finds its order, filled, resting or cancelled (_submit_locked).
THEOREM ConsumedIsOnRecord == Spec => []AdmittedOnRecord
  <1>1. PaperInv => AdmittedOnRecord
    <2> SUFFICES ASSUME PaperInv, Idle, NEW k \in Keys, NEW i \in DOMAIN permits[k],
                        permits[k][i].state = "consumed", permits[k][i].life = life
                 PROVE  Lookup(permits[k][i].req) \in {"FINALIZED", "PARTIALLY_FILLED", "CANCELLED"}
      BY DEF AdmittedOnRecord
    <2> DEFINE r == permits[k][i].req
    <2>1. PermitInv(k) /\ OrderInv(k) /\ permits[k] \in Seq(Permit) /\ orders[k] \in Order
      BY DEF PaperInv, TypeOK
    <2>2. i = Len(permits[k]) /\ KeyOf[r] = k
      BY <2>1 DEF PermitInv
    <2>3. Admitted(k)
      BY <2>1, <2>2 DEF Admitted
    <2>4. orders[k] # NoOrder /\ orders[k].req = r /\ orders[k].state # "ABSENT"
      BY <2>1, <2>2, <2>3 DEF OrderInv, Idle
    <2>5. orders[k].state \in {"PENDING", "FILLED", "CANCELLED"}
      BY <2>1, <2>4 DEF Order, OrderStates
    <2> HIDE DEF r
    <2>6. Existing(r) = orders[k]
      BY <2>2 DEF Existing
    <2>7. Lookup(r) \in {"FINALIZED", "PARTIALLY_FILLED", "CANCELLED"}
      BY <2>4, <2>5, <2>6 DEF Lookup
    <2> QED
      BY <2>7 DEF r
  <1> QED
    BY <1>1, PaperInvariant, PTL

\* A refusal the client saw can be believed: nothing of the submission is filled or can
\* still fill, whatever arrives late and whatever restarts.
THEOREM RefusalsAreFinal == Spec => []RefusalsHold
  <1>1. PaperInv => RefusalsHold
    <2> SUFFICES ASSUME PaperInv, NEW k \in Keys, outcome[k] = "refused"
                 PROVE  /\ Lookup(permits[k][Len(permits[k])].req) \notin {"FINALIZED", "PARTIALLY_FILLED"}
                        /\ \A m \in wire : KeyOf[m.req] = k => PermitOf(m).state = "dead"
      BY DEF RefusalsHold
    <2> DEFINE r == permits[k][Len(permits[k])].req
    <2>1. PermitInv(k) /\ OrderInv(k) /\ permits[k] \in Seq(Permit) /\ orders[k] \in Order
      BY DEF PaperInv, TypeOK
    <2>2. Harmless(k)
      BY DEF PaperInv, RefusalInv
    <2>3. permits[k] # <<>> /\ orders[k].state \in {"ABSENT", "CANCELLED"}
      BY <2>2 DEF Harmless
    <2>4. Len(permits[k]) \in DOMAIN permits[k]
      BY <2>1, <2>3
    <2>5. KeyOf[r] = k
      BY <2>1, <2>4 DEF PermitInv
    <2>6. orders[k] = NoOrder \/ (orders[k].req = r /\ orders[k].state = "CANCELLED")
      BY <2>1, <2>3 DEF OrderInv
    <2> HIDE DEF r
    <2>7. Existing(r) = orders[k]
      BY <2>5 DEF Existing
    <2>8. Lookup(r) \in {"NONE", "CANCELLED"}
      BY <2>6, <2>7 DEF Lookup, NoOrder
    <2> QED
      BY <2>2, <2>8 DEF r, Harmless
  <1> QED
    BY <1>1, PaperInvariant, PTL

\* The account holds what it started with and what the filled orders moved, each once, in
\* both legs and within its limit price, and no balance leaves its bounds (_transfer).
THEOREM AccountBalances == Spec => []BooksBalance
  <1>1. PaperInv => BooksBalance
    BY DEF PaperInv, BooksBalance
  <1> QED
    BY <1>1, PaperInvariant, PTL

-----------------------------------------------------------------------------
(* The refinement of VenueContract *)

\* The contract's state, as the INSTANCE defines it.
ViewOf(o) == [state  |-> IF o.state = "PENDING" THEN "OPEN" ELSE o.state,
              filled |-> IF o.state = "FILLED" THEN Size ELSE 0]
Orders == [k \in Keys |-> [state  |-> IF orders[k].state = "PENDING" THEN "OPEN" ELSE orders[k].state,
                           filled |-> IF orders[k].state = "FILLED" THEN Size ELSE 0]]
Consumed == {k \in Keys : \E i \in DOMAIN permits[k] : permits[k][i].state = "consumed"}
InHand == {KeyOf[m.req] : m \in {busy} \ {Nobody}}

\* The INSTANCE's variables in these terms.
LEMMA ContractState ==
  /\ Contract!contractVars = <<Orders, Consumed \ InHand>>
  /\ \A k \in Keys : Orders[k] = ViewOf(orders[k])
  BY DEF Contract!contractVars, Orders, Consumed, InHand, ViewOf

\* What the contract sees of an order is its state.
LEMMA ViewFacts ==
  ASSUME NEW o \in Order
  PROVE  /\ ViewOf(o) \in Contract!Order
         /\ ViewOf(o).state = IF o.state = "PENDING" THEN "OPEN" ELSE o.state
         /\ o.state \in {"ABSENT", "PENDING"} => ViewOf(o).filled = 0
         /\ ViewOf(o).filled \in Nat
         /\ ViewOf(o) = Contract!Absent <=> o.state = "ABSENT"
  <1>1. o.state \in {"ABSENT", "PENDING", "FILLED", "CANCELLED"} /\ Size \in Nat
    BY PaperConstants DEF Order, OrderStates
  <1> QED
    BY <1>1 DEF ViewOf, Contract!Order, Contract!Absent

\* Consuming is invisible until the order is booked, and so is every step that leaves the
\* book and the consumed permits alone.
LEMMA Invisible ==
  ASSUME orders' = orders, (Consumed \ InHand)' = Consumed \ InHand
  PROVE  UNCHANGED Contract!contractVars
  <1>1. Orders' = Orders
    BY DEF Orders
  <1> QED
    BY <1>1, ContractState DEF Contract!contractVars, Orders, Consumed, InHand

\* A step of the book is one the contract allows: what is in hand is booked, and resting
\* orders end.
LEMMA ServeRefines ==
  ASSUME PaperInv, PaperInv', permits' = permits, busy' = Nobody,
         \A j \in Keys :
           \/ orders'[j].state = orders[j].state
           \/ /\ busy # Nobody /\ j = KeyOf[busy.req]
              /\ orders'[j].state # "ABSENT"
           \/ orders[j].state = "PENDING" /\ orders'[j].state \in {"FILLED", "CANCELLED"},
         busy # Nobody => orders'[KeyOf[busy.req]].state # "ABSENT"
  PROVE  Contract!Serve
  <1> DEFINE new == Orders'
             before == Consumed \ InHand
             after == (Consumed \ InHand)'
  <1>0. /\ orders \in [Keys -> Order] /\ orders' \in [Keys -> Order]
        /\ permits \in [Keys -> Seq(Permit)]
    BY DEF PaperInv, TypeOK
  <1>1. \A k \in Keys : new[k] = ViewOf(orders'[k]) /\ Orders[k] = ViewOf(orders[k])
    BY DEF Orders, ViewOf
  <1>2. new \in [Keys -> Contract!Order]
    <2>1. \A k \in Keys : ViewOf(orders'[k]) \in Contract!Order
      BY <1>0, ViewFacts
    <2>2. new = [k \in Keys |-> ViewOf(orders'[k])]
      BY DEF Orders, ViewOf
    <2> QED
      BY <2>1, <2>2
  <1>3. InHand' = {} /\ Consumed' = Consumed /\ after = Consumed
    BY DEF InHand, Consumed
  <1>4. InHand = IF busy = Nobody THEN {} ELSE {KeyOf[busy.req]}
    BY DEF InHand
  <1>5. ASSUME NEW k \in Keys, orders'[k].state # "ABSENT"
        PROVE  k \in Consumed
    <2>1. OrderInv(k)' /\ orders'[k] # NoOrder
      BY <1>5 DEF PaperInv, NoOrder
    <2>2. Admitted(k)'
      BY <2>1 DEF OrderInv
    <2>3. permits[k] \in Seq(Permit) /\ permits[k] # <<>>
            /\ permits[k][Len(permits[k])].state = "consumed"
      BY <1>0, <2>2 DEF Admitted
    <2>4. Len(permits[k]) \in DOMAIN permits[k]
      BY <2>3
    <2> QED
      BY <2>3, <2>4 DEF Consumed
  <1>6. \A k \in Keys : new[k] # Contract!Absent <=> orders'[k].state # "ABSENT"
    BY <1>0, <1>1, ViewFacts
  <1>7. after = before \cup {k \in Keys : new[k] # Contract!Absent}
    <2>1. busy # Nobody => KeyOf[busy.req] \in Keys /\ orders'[KeyOf[busy.req]].state # "ABSENT"
      BY BusyFacts
    <2>2. Consumed \subseteq Keys
      BY DEF Consumed
    <2> HIDE DEF new
    <2> QED
      BY <1>3, <1>4, <1>5, <1>6, <2>1, <2>2
  <1>8. ASSUME NEW k \in Keys
        PROVE  \/ new[k] = Orders[k]
               \/ Orders[k].state = "ABSENT" /\ k \notin before /\ new[k].state # "ABSENT"
               \/ Orders[k].state = "OPEN" /\ new[k].state # "ABSENT" /\ new[k].filled >= Orders[k].filled
    <2>0. orders[k] \in Order /\ orders'[k] \in Order
      BY <1>0
    <2>1. CASE orders'[k].state = orders[k].state
      BY <1>1, <2>1 DEF ViewOf
    <2>2. CASE busy # Nobody /\ k = KeyOf[busy.req] /\ orders'[k].state # "ABSENT"
      <3>1. orders[k].state = "ABSENT"
        BY <2>2, BusyFacts DEF NoOrder
      <3>2. Orders[k].state = "ABSENT" /\ new[k].state # "ABSENT"
        BY <1>1, <2>0, <2>2, <3>1, ViewFacts
      <3> QED
        BY <1>4, <2>2, <3>2
    <2>3. CASE orders[k].state = "PENDING" /\ orders'[k].state \in {"FILLED", "CANCELLED"}
      <3>1. Orders[k].state = "OPEN" /\ Orders[k].filled = 0
        BY <1>1, <2>0, <2>3, ViewFacts
      <3>2. new[k].state # "ABSENT" /\ new[k].filled \in Nat
        BY <1>1, <2>0, <2>3, ViewFacts
      <3> QED
        BY <3>1, <3>2
    <2> QED
      BY <2>1, <2>2, <2>3
  <1>9. \A k \in Keys : new[k] \in Contract!Moves(k)
    <2>1. \A k \in Keys : new[k] \in Contract!Order
      BY <1>2
    <2> QED
      BY <1>8, <2>1 DEF Contract!Moves, Orders, Consumed, InHand
  <1> QED
    BY <1>2, <1>7, <1>9 DEF Contract!Serve, Orders, Consumed, InHand

\* Submitting adds a permit that is live.
LEMMA SubmitRefines ==
  ASSUME PaperInv, NEW r \in Requests, Submit(r)
  PROVE  UNCHANGED Contract!contractVars
  <1> DEFINE k == KeyOf[r]
             fresh == [req |-> r, state |-> "live", life |-> life]
  <1>0. k \in Keys /\ permits \in [Keys -> Seq(Permit)] /\ permits[k] \in Seq(Permit)
        /\ life \in 0 .. MaxLives
    BY PaperConstants DEF PaperInv, TypeOK
  <1>1. fresh \in Permit /\ fresh.state = "live"
    BY <1>0 DEF Permit
  <1>2. /\ permits' = [permits EXCEPT ![k] = Append(permits[k], fresh)]
        /\ orders' = orders /\ busy' = busy
    BY DEF Submit
  <1> HIDE DEF fresh
  <1>3. /\ permits'[k] = Append(permits[k], fresh)
        /\ \A j \in Keys \ {k} : permits'[j] = permits[j]
    BY <1>0, <1>2
  <1>4. /\ \A i \in DOMAIN permits[k] : i \in DOMAIN permits'[k] /\ permits'[k][i] = permits[k][i]
        /\ \A i \in DOMAIN permits'[k] :
             permits'[k][i] = fresh \/ (i \in DOMAIN permits[k] /\ permits'[k][i] = permits[k][i])
    BY <1>0, <1>1, <1>3, AppendFacts
  <1>5. ASSUME NEW j \in Keys
        PROVE  (\E i \in DOMAIN permits'[j] : permits'[j][i].state = "consumed")
                 <=> \E i \in DOMAIN permits[j] : permits[j][i].state = "consumed"
    BY <1>1, <1>3, <1>4
  <1>6. (Consumed \ InHand)' = Consumed \ InHand
    BY <1>2, <1>5 DEF Consumed, InHand
  <1> QED
    BY <1>2, <1>6, Invisible

\* A live permit that dies, or is consumed by the submission that is then in hand, changes
\* nothing the contract sees.
LEMMA PermitChangeRefines ==
  ASSUME PaperInv, NEW k \in Keys, NEW i \in DOMAIN permits[k], permits[k][i].state = "live",
         NEW p \in Permit, p.req = permits[k][i].req, p.life <= life,
         Reissued(permits, permits', k, i, p), life' = life, orders' = orders,
         \/ p.state = "dead" /\ busy' = busy
         \/ busy = Nobody /\ busy' # Nobody /\ KeyOf[busy'.req] = k
  PROVE  UNCHANGED Contract!contractVars
  <1>1. /\ i = Len(permits[k]) /\ permits'[k][i] = p /\ DOMAIN permits'[k] = DOMAIN permits[k]
        /\ \A j \in DOMAIN permits[k] : j # i => permits'[k][j] = permits[k][j]
        /\ \A j \in Keys \ {k} : permits'[j] = permits[j]
    BY PermitChange
  <1>2. k \notin Consumed
    <2>1. PermitInv(k)
      BY DEF PaperInv
    <2> QED
      BY <1>1, <2>1 DEF PermitInv, Consumed
  <1>3. \A j \in Keys \ {k} : j \in Consumed' <=> j \in Consumed
    BY <1>1 DEF Consumed
  <1>4. Consumed \subseteq Keys /\ Consumed' \subseteq Keys
    BY DEF Consumed
  <1>5. CASE p.state = "dead" /\ busy' = busy
    <2>1. k \notin Consumed'
      <3>1. \A j \in DOMAIN permits'[k] : permits'[k][j].state # "consumed"
        <4>1. \A j \in DOMAIN permits[k] : permits[k][j].state # "consumed"
          BY <1>2 DEF Consumed
        <4> QED
          BY <1>1, <1>5, <4>1
      <3> QED
        BY <3>1 DEF Consumed
    <2>2. InHand' = InHand
      BY <1>5 DEF InHand
    <2>3. (Consumed \ InHand)' = Consumed \ InHand
      BY <1>2, <1>3, <1>4, <2>1, <2>2
    <2> QED
      BY <2>3, Invisible
  <1>6. CASE busy = Nobody /\ busy' # Nobody /\ KeyOf[busy'.req] = k
    <2>1. InHand = {} /\ InHand' = {k}
      BY <1>6 DEF InHand
    <2>2. (Consumed \ InHand)' = Consumed \ InHand
      BY <1>2, <1>3, <1>4, <2>1
    <2> QED
      BY <2>2, Invisible
  <1> QED
    BY <1>5, <1>6

\* A dying permit is invisible to the contract.
LEMMA PermitDiesRefines ==
  ASSUME PaperInv, NEW k \in Keys, PermitDies(k)
  PROVE  UNCHANGED Contract!contractVars
  <1>1. PICK i \in DOMAIN permits[k] :
          permits[k][i].state = "live" /\ permits' = [permits EXCEPT ![k][i].state = "dead"]
    BY DEF PermitDies
  <1> DEFINE p == [permits[k][i] EXCEPT !.state = "dead"]
  <1>2. orders' = orders /\ busy' = busy /\ life' = life
    BY DEF PermitDies
  <1>3. permits[k] \in Seq(Permit) /\ permits[k][i] \in Permit /\ permits[k][i].life <= life
    BY DEF PaperInv, TypeOK, PermitInv
  <1>4. p \in Permit /\ p.req = permits[k][i].req /\ p.state = "dead" /\ p.life <= life
    BY <1>3 DEF Permit
  <1>5. Reissued(permits, permits', k, i, p)
    BY <1>1 DEF Reissued
  <1> HIDE DEF p
  <1>6. permits[k][i].state = "live"
    BY <1>1
  <1> QED
    BY <1>2, <1>4, <1>5, <1>6, PermitChangeRefines

\* A consumption is invisible while the submission is in hand.
LEMMA ConsumeRefines ==
  ASSUME PaperInv, NEW m \in wire, Consume(m)
  PROVE  UNCHANGED Contract!contractVars
  <1> DEFINE k == KeyOf[m.req]
             i == m.nth
             p == [permits[k][i] EXCEPT !.state = "consumed", !.life = life]
  <1>0. TypeOK /\ m \in Submission /\ Known(m) /\ life \in 0 .. MaxLives
    BY DEF PaperInv, TypeOK
  <1>1. /\ k \in Keys /\ i \in DOMAIN permits[k] /\ permits[k][i] \in Permit
    BY <1>0, SubmissionFacts DEF Known
  <1>2. /\ orders' = orders /\ life' = life /\ busy' = m /\ busy = Nobody
        /\ permits[k][i].state = "live"
    BY DEF Consume, PermitOf, Idle
  <1>3. p \in Permit /\ p.req = permits[k][i].req /\ p.life = life
    BY <1>0, <1>1 DEF Permit
  <1>4. Reissued(permits, permits', k, i, p)
    <2>1. permits' = [permits EXCEPT ![k][i] = [@ EXCEPT !.state = "consumed", !.life = life]]
      BY DEF Consume
    <2> QED
      BY <2>1 DEF Reissued
  <1>5. busy' # Nobody /\ KeyOf[busy'.req] = k /\ life <= life
    BY <1>0, <1>2 DEF Nobody, Submission
  <1> HIDE DEF p, i, k
  <1>6. p.life <= life
    BY <1>3, <1>5
  <1> QED
    BY <1>1, <1>2, <1>3, <1>4, <1>5, <1>6, PermitChangeRefines

\* The end of the process forgets the book and no admission.
LEMMA RestartRefines ==
  ASSUME Restart
  PROVE  Contract!Forget
  <1>1. orders' = [k \in Keys |-> NoOrder] /\ permits' = permits /\ busy' = Nobody
    BY DEF Restart, SetBook, NewBook
  <1>2. Orders' = [k \in Keys |-> Contract!Absent]
    BY <1>1 DEF Orders, Contract!Absent, NoOrder
  <1>3. InHand' = {} /\ Consumed' = Consumed
    BY <1>1 DEF InHand, Consumed
  <1>4. Consumed \ InHand \subseteq (Consumed \ InHand)'
    BY <1>3
  <1> QED
    BY <1>2, <1>4 DEF Contract!Forget, Orders, Consumed, InHand

\* The paper venue implements the venue contract: an identity is admitted once, over
\* restarts too, a cancelled order never fills and a filled one is never cancelled,
\* although requests arrive late and repeatedly and quotes match in between.
THEOREM RefinesVenueContract == Spec => ImplementsVenueContract
  <1>1. Init => Contract!ContractInit
    <2> SUFFICES ASSUME Init PROVE Contract!ContractInit
      OBVIOUS
    <2>1. orders = [k \in Keys |-> NoOrder] /\ permits = [k \in Keys |-> <<>>]
      BY DEF Init, NewBook
    <2>2. Orders = [k \in Keys |-> Contract!Absent]
      BY <2>1 DEF Orders, Contract!Absent, NoOrder
    <2>3. Consumed = {}
      BY <2>1 DEF Consumed
    <2>4. Consumed \ InHand = {}
      BY <2>3
    <2> QED
      BY <2>2, <2>4 DEF Contract!ContractInit, Orders, Consumed, InHand
  <1>2. ASSUME PaperInv, [Next]_vars
        PROVE  [Contract!ContractNext]_(Contract!contractVars)
    <2>0. PaperInv'
      BY <1>2, NextHolds
    <2>1. ASSUME NEW r \in Requests, Submit(r) PROVE UNCHANGED Contract!contractVars
      BY <1>2, <2>1, SubmitRefines
    <2>2. ASSUME NEW k \in Keys, PermitDies(k) PROVE UNCHANGED Contract!contractVars
      BY <1>2, <2>2, PermitDiesRefines
    <2>3. ASSUME NEW m \in wire, Consume(m) PROVE UNCHANGED Contract!contractVars
      BY <1>2, <2>3, ConsumeRefines
    <2>4. ASSUME \/ \E k \in Keys : GiveUp(k)
                 \/ \E m \in wire : Drop(m) \/ Replay(m) \/ Refuse(m)
                 \/ UNCHANGED vars
          PROVE  UNCHANGED Contract!contractVars
      <3>1. orders' = orders /\ permits' = permits /\ busy' = busy
        BY <2>4 DEF GiveUp, Drop, Replay, Refuse, vars
      <3>2. (Consumed \ InHand)' = Consumed \ InHand
        BY <3>1 DEF Consumed, InHand
      <3> QED
        BY <3>1, <3>2, Invisible
    <2>5. ASSUME busy # Nobody, PlaceOrder(busy) PROVE Contract!Serve
      <3> DEFINE r == busy.req
                 k == KeyOf[r]
      <3>1. EndsAs(orders, orders', r, PlacedState(r))
        BY <1>2, <2>5, PlaceStep
      <3>2. k \in Keys /\ orders \in [Keys -> Order]
        BY <1>2, <2>5, BusyFacts DEF PaperInv, TypeOK
      <3>3. PICK v \in Order : orders' = [orders EXCEPT ![k] = v] /\ v.state = PlacedState(r)
        BY <3>1 DEF EndsAs
      <3>4. v.state # "ABSENT"
        BY <3>3 DEF PlacedState
      <3>5. orders'[k] = v /\ \A j \in Keys \ {k} : orders'[j] = orders[j]
        BY <3>2, <3>3
      <3>6. \A j \in Keys : \/ orders'[j].state = orders[j].state
                            \/ j = k /\ orders'[j].state # "ABSENT"
        BY <3>4, <3>5
      <3>7. permits' = permits /\ busy' = Nobody
        BY <2>5 DEF PlaceOrder
      <3> QED
        BY <1>2, <2>0, <2>5, <3>4, <3>5, <3>6, <3>7, ServeRefines
    <2>6. ASSUME busy # Nobody, CancelOrder(busy) PROVE Contract!Serve
      <3> DEFINE k == KeyOf[busy.req]
      <3>1. \A j \in Keys :
              \/ orders'[j] = orders[j]
              \/ j = k /\ orders'[j].state = "FILLED"
              \/ /\ orders[j].state \in {"PENDING", "CANCELLED"}
                 /\ orders'[j].state = "CANCELLED"
        BY <1>2, <2>6, CancelStep
      <3>2. \A j \in Keys :
              \/ orders'[j].state = orders[j].state
              \/ j = k /\ orders'[j].state # "ABSENT"
              \/ orders[j].state = "PENDING" /\ orders'[j].state \in {"FILLED", "CANCELLED"}
        BY <3>1
      <3>3. permits' = permits /\ busy' = Nobody /\ orders'[k].state # "ABSENT"
        <4>1. orders \in [Keys -> Order] /\ k \in Keys
          BY <1>2, <2>6, BusyFacts DEF PaperInv, TypeOK
        <4>2. orders'[k].state = "FILLED"
          BY <2>6, <4>1 DEF CancelOrder
        <4> QED
          BY <2>6, <4>2 DEF CancelOrder
      <3> QED
        BY <1>2, <2>0, <2>6, <3>2, <3>3, ServeRefines
    <2>7. ASSUME \/ \E p \in Prices, match \in BOOLEAN : SetQuote(p, match)
                 \/ MatchPending
          PROVE  Contract!Serve
      <3>1. MatchedFrom(orders, orders')
        BY <1>2, <2>7, QuoteStep, MatchPendingStep
      <3>2. \A j \in Keys :
              \/ orders'[j].state = orders[j].state
              \/ orders[j].state = "PENDING" /\ orders'[j].state \in {"FILLED", "CANCELLED"}
        BY <3>1 DEF MatchedFrom
      <3>3. permits' = permits /\ busy' = Nobody /\ busy = Nobody
        BY <2>7 DEF SetQuote, MatchPending, Idle
      <3> QED
        BY <1>2, <2>0, <3>2, <3>3, ServeRefines
    <2>8. ASSUME Restart PROVE Contract!Forget
      BY <2>8, RestartRefines
    <2>9. \/ Contract!Serve \/ Contract!Forget \/ UNCHANGED Contract!contractVars
      <3>1. ASSUME NEW m \in {busy} \ {Nobody}, PlaceOrder(m) \/ CancelOrder(m)
            PROVE  Contract!Serve
        <4>1. busy # Nobody /\ (PlaceOrder(busy) \/ CancelOrder(busy))
          BY <3>1
        <4> QED
          BY <4>1, <2>5, <2>6
      <3> QED
        BY <1>2, <2>1, <2>2, <2>3, <2>4, <2>7, <2>8, <3>1 DEF Next
    <2> QED
      BY <2>9 DEF Contract!ContractNext
  <1>3. PaperInv /\ [Next]_vars => [Contract!ContractNext]_(Contract!contractVars)
    BY <1>2
  <1> QED
    BY <1>1, <1>3, PaperInvariant, PTL DEF Spec, ImplementsVenueContract, Contract!ContractSpec

=============================================================================
