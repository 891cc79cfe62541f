------------------------------ MODULE PaperVenue ------------------------------
(***************************************************************************)
(* The paper venue and its HTTP gateway (faar/paper_gateway.py).  Clients  *)
(* post requests and may stop waiting at any time; the server's threads    *)
(* take them up in any order, however late.  A submission is served under  *)
(* the venue's lock, but the permit's consumption is a transaction of the  *)
(* shared database and visible, and durable, before the order is booked.   *)
(* The book is in memory.                                                  *)
(***************************************************************************)
EXTENDS Integers, Sequences, FiniteSets, FiniteSetsExt, SequencesExt

CONSTANTS
  Requests,     \* execution requests, told apart by their hash
  Keys,         \* client order identities: one per principal and intent
  KeyOf,        \* the identity a request is submitted under
  Shape,        \* [Requests -> what the payload asks for]
  OutOfScope,   \* requests refused for their venue, principal, target,
                \* primitive or credential
  Size,         \* the notional of an order, in quote units
  Prices,       \* prices a quote may have
  NoQuote,      \* price of an asset without a quote
  Cash,         \* the account's quote balance at the start
  Coins,        \* the account's base balance at the start
  MaxBalance,   \* largest balance the amount parser accepts
  MaxAttempts,  \* bound: submissions of each identity
  MaxLives      \* bound: restarts of the venue process

\* Prices divide the notional, so that quantities are whole.
ASSUME PaperConstants ==
  /\ KeyOf \in [Requests -> Keys]
  /\ \A r \in Requests :
       Shape[r] \in [kind : {"BUY", "SELL"}, tif : {"IOC", "GTC"}, limit : Prices]
                      \cup [kind : {"CANCEL"}, target : Keys]
  /\ OutOfScope \subseteq Requests
  /\ \A p \in Prices : p \in Nat \ {0} /\ Size % p = 0
  /\ NoQuote \notin Prices
  /\ {Cash, Coins} \subseteq 0..MaxBalance
  /\ {Size, MaxLives} \subseteq Nat
  /\ MaxAttempts \in [Keys -> Nat]

VARIABLES
  orders,    \* book.orders: the order under each key
  queue,     \* keys in the order they were booked
  balance,   \* book.balances
  price,     \* the executable price of the base asset
  permits,   \* the permits issued under each key, oldest first
  wire,      \* submissions on their way to the server
  outcome,   \* what the submitting client of each key knows
  busy,      \* submission that has consumed and is being booked
  life       \* restarts so far

vars == <<orders, queue, balance, price, permits, wire, outcome, busy, life>>

-----------------------------------------------------------------------------
(* Data *)

OrderStates == {"ABSENT", "PENDING", "FILLED", "CANCELLED"}
Order == [state : OrderStates, req : Requests \cup {"none"}, at : Prices \cup {0}]
NoOrder == [state |-> "ABSENT", req |-> "none", at |-> 0]
Submission == [req : Requests, nth : Nat \ {0}]
Nobody == [req |-> "none", nth |-> 0]
Permit == [req : Requests, state : {"live", "dead", "consumed"}, life : 0..MaxLives]
Outcomes == {"idle", "waiting", "receipt", "refused", "ambiguous"}

Idle == busy = Nobody
PermitOf(m) == permits[KeyOf[m.req]][m.nth]
IsCancel(r) == Shape[r].kind = "CANCEL"

TypeOK ==
  /\ orders \in [Keys -> Order]
  /\ queue \in Seq(Keys)
  /\ balance \in [{"quote", "base"} -> 0..MaxBalance]
  /\ price \in Prices \cup {NoQuote}
  /\ permits \in [Keys -> Seq(Permit)]
  /\ wire \subseteq Submission
  /\ outcome \in [Keys -> Outcomes]
  /\ busy \in Submission \cup {Nobody}
  /\ life \in 0..MaxLives

\* A book as the operator configures it.
NewBook == [orders |-> [k \in Keys |-> NoOrder], balance |-> [quote |-> Cash, base |-> Coins]]

Init ==
  /\ orders = NewBook.orders
  /\ balance = NewBook.balance
  /\ queue = <<>>
  /\ price = NoQuote
  /\ permits = [k \in Keys |-> <<>>]
  /\ wire = {}
  /\ outcome = [k \in Keys |-> "idle"]
  /\ busy = Nobody
  /\ life = 0

-----------------------------------------------------------------------------
(* Filling *)

Marketable(r, p) ==
  IF Shape[r].kind = "SELL" THEN p >= Shape[r].limit ELSE p <= Shape[r].limit

\* Balances after a fill at price p.
Settled(bal, r, p) ==
  IF Shape[r].kind = "SELL"
  THEN [quote |-> bal.quote + Size, base |-> bal.base - Size \div p]
  ELSE [quote |-> bal.quote - Size, base |-> bal.base + Size \div p]

\* Slip: the credit is not checked.
TransfersDebitOnly(bal, r, p) ==
  LET after == Settled(bal, r, p) IN after.quote >= 0 /\ after.base >= 0

\* Both legs are applied, or neither: a debit the account cannot pay or a
\* credit past the bounds refuses the fill.
Transfers(bal, r, p) ==
  LET after == Settled(bal, r, p) IN after.quote \in 0..MaxBalance /\ after.base \in 0..MaxBalance

Filled(r, p) == [state |-> "FILLED", req |-> r, at |-> p]

\* Slip: the reason is noted, the state is not changed.
UnfilledStillOpen(r) == [state |-> "PENDING", req |-> r, at |-> 0]

Unfilled(r) == [state |-> "CANCELLED", req |-> r, at |-> 0]

\* Slip: an order that cannot be settled is taken off the book.
FillOrForget(bk, r, p) ==
  IF Transfers(bk.balance, r, p)
  THEN [orders  |-> [bk.orders EXCEPT ![KeyOf[r]] = Filled(r, p)],
        balance |-> Settled(bk.balance, r, p)]
  ELSE [bk EXCEPT !.orders[KeyOf[r]] = NoOrder]

\* The book after an attempt to fill the order of request r at price p: what
\* cannot be settled ends cancelled, with nothing filled.
Fill(bk, r, p) ==
  IF Transfers(bk.balance, r, p)
  THEN [orders  |-> [bk.orders EXCEPT ![KeyOf[r]] = Filled(r, p)],
        balance |-> Settled(bk.balance, r, p)]
  ELSE [bk EXCEPT !.orders[KeyOf[r]] = Unfilled(r)]

Book == [orders |-> orders, balance |-> balance]

\* Slip: whatever is not filled yet is matched.
MatchedUnfilled(bk, p) ==
  LET Match(acc, k) ==
        IF acc.orders[k].state \in {"PENDING", "CANCELLED"} /\ Marketable(acc.orders[k].req, p)
        THEN Fill(acc, acc.orders[k].req, p) ELSE acc
  IN  FoldLeft(Match, bk, queue)

\* Resting orders are matched in the order they were booked.
Matched(bk, p) ==
  LET Match(acc, k) ==
        IF acc.orders[k].state = "PENDING" /\ Marketable(acc.orders[k].req, p)
        THEN Fill(acc, acc.orders[k].req, p) ELSE acc
  IN  FoldLeft(Match, bk, queue)

SetBook(bk) ==
  /\ orders' = bk.orders
  /\ balance' = bk.balance

-----------------------------------------------------------------------------
(* The submitting side: the runtime, its permits and the HTTP client *)

\* The runtime issues a permit for an identity and posts the request with it.
\* It does so again only when no earlier permit of the identity can be, or was,
\* consumed.
Submit(r) ==
  LET k == KeyOf[r] IN
  /\ outcome[k] # "waiting"
  /\ Len(permits[k]) < MaxAttempts[k]
  /\ \A i \in DOMAIN permits[k] : permits[k][i].state = "dead"
  /\ permits' = [permits EXCEPT ![k] = Append(@, [req |-> r, state |-> "live", life |-> life])]
  /\ wire' = wire \cup {[req |-> r, nth |-> Len(permits[k]) + 1]}
  /\ outcome' = [outcome EXCEPT ![k] = "waiting"]
  /\ UNCHANGED <<orders, queue, balance, price, busy, life>>

\* A permit expires, is voided, or its grant is stopped.
PermitDies(k) ==
  /\ \E i \in DOMAIN permits[k] :
       /\ permits[k][i].state = "live"
       /\ permits' = [permits EXCEPT ![k][i].state = "dead"]
  /\ UNCHANGED <<orders, queue, balance, price, wire, outcome, busy, life>>

\* The client's timeout, a broken connection or an unreadable reply.
GiveUp(k) ==
  /\ outcome[k] = "waiting"
  /\ outcome' = [outcome EXCEPT ![k] = "ambiguous"]
  /\ UNCHANGED <<orders, queue, balance, price, permits, wire, busy, life>>

-----------------------------------------------------------------------------
(* The server *)

\* The reply to m reaches the client that still waits for it, or is lost.
Reply(m, result) ==
  LET k == KeyOf[m.req] IN
  IF outcome[k] = "waiting" /\ m.nth = Len(permits[k])
  THEN \E seen \in {result, "ambiguous"} : outcome' = [outcome EXCEPT ![k] = seen]
  ELSE UNCHANGED outcome

\* The request never arrives, or the handler fails before it has consumed.
Drop(m) ==
  /\ wire' = wire \ {m}
  /\ Reply(m, "ambiguous")
  /\ UNCHANGED <<orders, queue, balance, price, permits, busy, life>>

\* Refusals that neither consume nor book.  The order under the key is looked
\* up first; then a cancel checks its target, an order its prices; the permit
\* ledger has the last word.
Existing(r) == orders[KeyOf[r]]
Stored(r) == Existing(r).state \in {"PENDING", "FILLED"} /\ Existing(r).req = r
Fresh(r) == r \notin OutOfScope /\ Existing(r) = NoOrder
Admissible(r) ==
  /\ Fresh(r)
  /\ IF IsCancel(r) THEN orders[Shape[r].target].state \in {"PENDING", "CANCELLED"}
                    ELSE price # NoQuote

\* A repeated submission gets the stored receipt and consumes nothing.
Replay(m) ==
  /\ Idle
  /\ m.req \notin OutOfScope /\ Stored(m.req)
  /\ wire' = wire \ {m}
  /\ Reply(m, "receipt")
  /\ UNCHANGED <<orders, queue, balance, price, permits, busy, life>>

Refuse(m) ==
  /\ Idle
  /\ m.req \in OutOfScope \/ ~Stored(m.req)
  /\ ~Admissible(m.req) \/ PermitOf(m).state # "live"
  /\ wire' = wire \ {m}
  /\ Reply(m, "refused")
  /\ UNCHANGED <<orders, queue, balance, price, permits, busy, life>>

\* permit_verifier.consume commits in the database; the lock stays held.
Consume(m) ==
  /\ Idle
  /\ Admissible(m.req)
  /\ PermitOf(m).state = "live"
  /\ permits' = [permits EXCEPT ![KeyOf[m.req]][m.nth] =
                   [@ EXCEPT !.state = "consumed", !.life = life]]
  /\ wire' = wire \ {m}
  /\ busy' = m
  /\ UNCHANGED <<orders, queue, balance, price, outcome, life>>

\* The admitted order is filled at once, rests, or is cancelled unfilled.
Placed(r) ==
  LET pending == [Book EXCEPT !.orders[KeyOf[r]] = [state |-> "PENDING", req |-> r, at |-> 0]] IN
  CASE Marketable(r, price)                             -> Fill(pending, r, price)
    [] ~Marketable(r, price) /\ Shape[r].tif = "GTC"    -> pending
    [] ~Marketable(r, price) /\ Shape[r].tif = "IOC"    -> [pending EXCEPT !.orders[KeyOf[r]] = Unfilled(r)]

\* The submission raises: the fill failed, or an IOC order missed its limit.
Raises(r) ==
  IF Marketable(r, price) THEN ~Transfers(balance, r, price) ELSE Shape[r].tif = "IOC"

PlaceOrder(m) ==
  /\ busy = m /\ ~IsCancel(m.req)
  /\ SetBook(Placed(m.req))
  /\ queue' = Append(queue, KeyOf[m.req])
  /\ Reply(m, IF Raises(m.req) THEN "refused" ELSE "receipt")
  /\ busy' = Nobody
  /\ UNCHANGED <<price, permits, wire, life>>

\* A cancel is an order of its own, filled as soon as its target is cancelled.
CancelOrder(m) ==
  /\ busy = m /\ IsCancel(m.req)
  /\ LET target == Shape[m.req].target IN
     orders' = [orders EXCEPT ![target] = [@ EXCEPT !.state = "CANCELLED", !.at = 0],
                              ![KeyOf[m.req]] = [state |-> "FILLED", req |-> m.req, at |-> 0]]
  /\ queue' = Append(queue, KeyOf[m.req])
  /\ Reply(m, "receipt")
  /\ busy' = Nobody
  /\ UNCHANGED <<balance, price, permits, wire, life>>

\* A new quote, with or without a match of the resting orders.
SetQuote(p, match) ==
  /\ Idle
  /\ price' = p
  /\ SetBook(IF match THEN Matched(Book, p) ELSE Book)
  /\ UNCHANGED <<queue, permits, wire, outcome, busy, life>>

MatchPending ==
  /\ Idle /\ price # NoQuote
  /\ SetBook(Matched(Book, price))
  /\ UNCHANGED <<queue, price, permits, wire, outcome, busy, life>>

\* The process ends and is started again with its configured balances: the book
\* and the submission in hand are gone, the permit ledger is not.
Restart ==
  /\ life < MaxLives
  /\ life' = life + 1
  /\ SetBook(NewBook)
  /\ queue' = <<>>
  /\ price' = NoQuote
  /\ busy' = Nobody
  /\ UNCHANGED <<permits, wire, outcome>>

Next ==
  \/ \E r \in Requests : Submit(r)
  \/ \E k \in Keys : PermitDies(k) \/ GiveUp(k)
  \/ \E m \in wire : Drop(m) \/ Replay(m) \/ Refuse(m) \/ Consume(m)
  \/ \E m \in {busy} \ {Nobody} : PlaceOrder(m) \/ CancelOrder(m)
  \/ \E p \in Prices, match \in BOOLEAN : SetQuote(p, match)
  \/ MatchPending
  \/ Restart

Spec == Init /\ [][Next]_vars

-----------------------------------------------------------------------------
(* Lookup, and what must hold *)

\* The settlement record the query side returns for a request; all of these are
\* authoritative, and any failure on the way is not.
Lookup(r) ==
  CASE Existing(r) = NoOrder                                         -> "NONE"
    [] Existing(r) # NoOrder /\ Existing(r).req # r                  -> "CONTRADICTORY"
    [] Existing(r).req = r /\ Existing(r).state = "FILLED"           -> "FINALIZED"
    [] Existing(r).req = r /\ Existing(r).state = "PENDING"          -> "PARTIALLY_FILLED"
    [] Existing(r).req = r /\ Existing(r).state = "CANCELLED"        -> "CANCELLED"

\* A consumed permit is never paired with absence: whenever the lock is free for
\* a lookup, every permit this process consumed has an order of its request on
\* the book, whatever became of the fill (_submit_locked, _mark_unfilled_cancel,
\* _record_cancel_intent).
AdmittedOnRecord ==
  Idle => \A k \in Keys : \A i \in DOMAIN permits[k] :
    permits[k][i].state = "consumed" /\ permits[k][i].life = life
      => Lookup(permits[k][i].req) \in {"FINALIZED", "PARTIALLY_FILLED", "CANCELLED"}

\* A submission the client saw refused has left nothing that is filled or may
\* still fill, and nothing of it is left on the wire that could: a deterministic
\* refusal of the venue can be believed, late requests and restarts included.
RefusalsHold ==
  \A k \in Keys : outcome[k] = "refused" =>
    LET n == Len(permits[k])
        r == permits[k][n].req IN
    /\ Lookup(r) \notin {"FINALIZED", "PARTIALLY_FILLED"}
    /\ \A m \in wire : KeyOf[m.req] = k => PermitOf(m).state = "dead"

FilledBy(book, kind) == {k \in Keys : book[k].state = "FILLED" /\ Shape[book[k].req].kind = kind}
CoinsOf(book, keys) == MapThenSumSet(LAMBDA k : Size \div book[k].at, keys)

\* A balance that the filled orders of a book explain.
Balanced(book, bal) ==
  LET bought == FilledBy(book, "BUY")
      sold   == FilledBy(book, "SELL") IN
  /\ \A k \in bought \cup sold : book[k].at \in Prices /\ Marketable(book[k].req, book[k].at)
  /\ bal.quote = Cash + Size * (Cardinality(sold) - Cardinality(bought))
  /\ bal.base = Coins + CoinsOf(book, bought) - CoinsOf(book, sold)

\* Every table is well formed and the books balance: the account holds what it
\* started with and what the filled orders moved, each once, in both legs and at a
\* price within its limit, and no balance leaves its bounds (_fill, _transfer).
BooksBalance == TypeOK /\ Balanced(orders, balance)

\* The paper venue implements the venue contract: an identity is admitted once,
\* over restarts too, a cancelled order never fills and a filled one is never
\* cancelled, although requests arrive late and repeatedly.
Contract ==
  INSTANCE VenueContract WITH
    book <- [k \in Keys |->
      [state  |-> IF orders[k].state = "PENDING" THEN "OPEN" ELSE orders[k].state,
       filled |-> IF orders[k].state = "FILLED" THEN Size ELSE 0]],
    admitted <- {k \in Keys : \E i \in DOMAIN permits[k] : permits[k][i].state = "consumed"}
                  \ {KeyOf[m.req] : m \in {busy} \ {Nobody}}
ImplementsVenueContract == Contract!ContractSpec

-----------------------------------------------------------------------------
(* The inductive invariant *)

\* A submission names a permit issued for its request.
Known(m) == m.nth \in DOMAIN permits[KeyOf[m.req]] /\ PermitOf(m).req = m.req

\* Of the permits of an identity only the last one can be live or consumed.
PermitInv(k) ==
  \A i \in DOMAIN permits[k] :
    /\ KeyOf[permits[k][i].req] = k
    /\ permits[k][i].life <= life
    /\ permits[k][i].state # "dead" => i = Len(permits[k])

\* The last permit of the identity was consumed in this life of the process.
Admitted(k) ==
  /\ permits[k] # <<>>
  /\ LET p == permits[k][Len(permits[k])] IN p.state = "consumed" /\ p.life = life

\* An order on the book is that of a consumed permit, and a consumed permit has its
\* order unless it is just being booked.
OrderInv(k) ==
  /\ orders[k] = NoOrder \/ orders[k].state # "ABSENT"
  /\ orders[k] # NoOrder =>
       /\ Admitted(k) /\ orders[k].req = permits[k][Len(permits[k])].req
       /\ orders[k].req \notin OutOfScope
       /\ orders[k].state = "PENDING" => ~IsCancel(orders[k].req)
  /\ Admitted(k) => orders[k] # NoOrder \/ (busy # Nobody /\ KeyOf[busy.req] = k)

\* The submission that holds the lock has consumed its permit, and what admitted it is
\* still so.
BusyInv ==
  busy # Nobody =>
    /\ Known(busy) /\ busy \notin wire
    /\ PermitOf(busy).state = "consumed" /\ PermitOf(busy).life = life
    /\ Admissible(busy.req)

\* Nothing is left of the identity that is filled or could still fill.
Harmless(k) ==
  /\ permits[k] # <<>>
  /\ orders[k].state \in {"ABSENT", "CANCELLED"}
  /\ busy # Nobody => KeyOf[busy.req] # k
  /\ \A m \in wire : KeyOf[m.req] = k => PermitOf(m).state = "dead"
RefusalInv(k) == outcome[k] = "refused" => Harmless(k)

PaperInv ==
  /\ TypeOK
  /\ \A m \in wire : Known(m)
  /\ \A k \in Keys : PermitInv(k) /\ OrderInv(k) /\ RefusalInv(k)
  /\ BusyInv
  /\ IsFiniteSet({k \in Keys : orders[k] # NoOrder})
  /\ Balanced(orders, balance)
=============================================================================
