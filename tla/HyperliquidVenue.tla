--------------------------- MODULE HyperliquidVenue ---------------------------
(***************************************************************************)
(* The Hyperliquid testnet adapter and its settlement verifier             *)
(* (faar/hyperliquid.py), called by the runtime under the adapter deadline *)
(* (_execute_adapter).  An adapter call runs on a thread of its own that   *)
(* cannot be cancelled: the runtime may stop waiting at any point of it.   *)
(* The exchange is external: it refuses used nonces and expired actions,   *)
(* never rests an IOC order, and shows orders and fills with a delay.      *)
(*                                                                         *)
(* Amounts are in units of the ledger's quantum, sizes in lots, and Grain  *)
(* lots at price 1 cost one unit.                                          *)
(***************************************************************************)
EXTENDS Integers, Sequences, FiniteSets, FiniteSetsExt, SequencesExt

CONSTANTS
  Intents,       \* intents, each with its own cloid and its own runtime thread
  Notional,      \* [Intents -> authorized notional]
  Limit,         \* [Intents -> limit price]
  RoundsUp,      \* intents whose quotient rounds up to a whole lot
  MinNotional,   \* market.min_notional_usd
  Grain,
  Prices,        \* prices of the exchange's book
  MaxFills,      \* bound: executions an order is filled by
  PageLimit,     \* fill_page_limit
  Ttl,           \* permit lifetime
  MinWindow,     \* minimum_submission_window_ms
  MaxOrphans,    \* max_orphaned_adapter_calls
  MaxAttempts,   \* bound: calls per intent
  MaxClock       \* bound: last instant

ASSUME HyperliquidConstants ==
  /\ IsFiniteSet(Intents)
  /\ Notional \in [Intents -> Nat] /\ Limit \in [Intents -> Nat \ {0}]
  /\ RoundsUp \subseteq Intents
  /\ Prices \subseteq Nat \ {0}
  /\ {MinNotional, MaxFills, Ttl, MinWindow, MaxAttempts, MaxClock} \subseteq Nat
  /\ {Grain, PageLimit, MaxOrphans} \subseteq Nat \ {0}

VARIABLES
  clock,
  caller,    \* the runtime thread of each intent
  call,      \* the adapter calls: thread position, permit issue time, clock read
  ledger,    \* the permit of each call, in the permit ledger
  orphans,   \* _ORPHANED[0]
  peak,      \* history: most threads past the orphan check at one time
  posts,     \* signed actions that have left, and may arrive once more
  orders,    \* orders the exchange has executed
  shown,     \* fills of each order the info API shows, Hidden before the order
  reading,   \* order the verifier of each intent has looked up
  verdict    \* the verifier's last record

vars == <<clock, caller, call, ledger, orphans, peak, posts, orders, shown, reading, verdict>>

Calls == Intents \X (1..MaxAttempts)
IntentOf(c) == c[1]
Hidden == -1
NoCall == <<>>
Unsent == [pc |-> "none", issued |-> 0, now |-> 0, orphan |-> FALSE]
NoOrder == [size |-> 0, limit |-> 0, at |-> 0, fills |-> <<>>]
Unknown == [status |-> "UNKNOWN", authoritative |-> FALSE, order |-> NoCall, amount |-> 0]

-----------------------------------------------------------------------------
(* The order a request translates to *)

Ceiling(x) == (x + Grain - 1) \div Grain

\* The quotient is rounded to the decimal context before it is cut to lots.
Quotient(i) == (Notional[i] * Grain) \div Limit[i] + (IF i \in RoundsUp THEN 1 ELSE 0)

\* A size whose cost would exceed the notional is one lot smaller.
OrderSize(i) ==
  IF Ceiling(Quotient(i) * Limit[i]) > Notional[i] THEN Quotient(i) - 1 ELSE Quotient(i)

\* The price has a precision at which whole lots cost whole units, the size is
\* positive, and the cost is within the notional and not below the minimum,
\* which nothing is ever rounded up to.
Orderable(i) ==
  LET cost == Ceiling(OrderSize(i) * Limit[i]) IN
  /\ Limit[i] % Grain = 0
  /\ OrderSize(i) > 0
  /\ cost <= Notional[i]
  /\ cost >= MinNotional

Lots(fills) == FoldLeft(LAMBDA sum, f : sum + f.sz, 0, fills)

\* What the fills cost, rounded up once.
Spent(fills) == Ceiling(FoldLeft(LAMBDA sum, f : sum + f.sz * f.px, 0, fills))

Fill == [sz : Nat \ {0}, px : Prices]
Order == [size : Nat, limit : Nat, at : 0..MaxClock, fills : Seq(Fill)]

TypeOK ==
  /\ clock \in 0..MaxClock
  /\ caller \in [Intents -> {"idle", "cleared", "waiting", "late", "stopped"}]
  /\ call \in [Calls -> [pc : {"none", "start", "consume", "post", "await", "done", "refused"},
                         issued : 0..MaxClock, now : 0..MaxClock, orphan : BOOLEAN]]
  /\ ledger \in [Calls -> {"none", "live", "dead", "consumed"}]
  /\ orphans \in Nat /\ peak \in Nat
  /\ posts \subseteq Calls
  /\ orders \in [Calls -> Order]
  /\ shown \in [Calls -> Hidden..MaxFills]
  /\ reading \in [Intents -> Calls \cup {NoCall}]
  /\ verdict \in [Intents -> [status : {"UNKNOWN", "NONE", "FINALIZED", "CANCELLED", "CONTRADICTORY"},
                              authoritative : BOOLEAN, order : Calls \cup {NoCall}, amount : Nat]]

Init ==
  /\ clock = 0
  /\ caller = [i \in Intents |-> "idle"]
  /\ call = [c \in Calls |-> Unsent]
  /\ ledger = [c \in Calls |-> "none"]
  /\ orphans = 0 /\ peak = 0
  /\ posts = {}
  /\ orders = [c \in Calls |-> NoOrder]
  /\ shown = [c \in Calls |-> Hidden]
  /\ reading = [i \in Intents |-> NoCall]
  /\ verdict = [i \in Intents |-> Unknown]

Tick ==
  /\ clock < MaxClock
  /\ clock' = clock + 1
  /\ UNCHANGED <<caller, call, ledger, orphans, peak, posts, orders, shown, reading, verdict>>

-----------------------------------------------------------------------------
(* The runtime thread: _submit and _execute_adapter *)

exchangeVars == <<posts, orders, shown>>
verifierVars == <<reading, verdict>>

Attempts(i) == Cardinality({n \in 1..MaxAttempts : call[<<i, n>>].pc # "none"})
Current(i) == <<i, Attempts(i)>>
Expires(c) == call[c].issued + Ttl
Ended(c) == call[c].pc \in {"done", "refused"}

\* A later attempt needs authoritative absence after the permit's window, under a
\* permit that was not consumed, and that the adapter was not seen to refuse the
\* earlier one: of a call that was abandoned the runtime never learns.
MayAttempt(i) ==
  /\ Attempts(i) < MaxAttempts
  /\ Attempts(i) > 0 =>
       /\ verdict[i].status = "NONE" /\ verdict[i].authoritative
       /\ clock > Expires(Current(i))
       /\ ledger[Current(i)] # "consumed"
       /\ call[Current(i)].orphan \/ call[Current(i)].pc # "refused"

\* The threads between the orphan check and the end of their wait.
Underway == {"cleared", "waiting", "late"}
PastCheck == Cardinality({i \in Intents : caller[i] \in Underway})

\* Slip: whatever the count is, the call is made.
CheckOrphansNever(i) ==
  /\ caller[i] = "idle" /\ MayAttempt(i)
  /\ caller' = [caller EXCEPT ![i] = "cleared"]
  /\ peak' = IF PastCheck' > peak THEN PastCheck' ELSE peak
  /\ UNCHANGED <<clock, call, ledger, orphans, exchangeVars, verifierVars>>

\* The orphan count is read before the grant's guard is waited for.
CheckOrphans(i) ==
  /\ caller[i] = "idle" /\ MayAttempt(i)
  /\ caller' = [caller EXCEPT ![i] = IF orphans >= MaxOrphans THEN "stopped" ELSE "cleared"]
  /\ peak' = IF PastCheck' > peak THEN PastCheck' ELSE peak
  /\ UNCHANGED <<clock, call, ledger, orphans, exchangeVars, verifierVars>>

\* Inside the guard: the earlier permit is void, a new one is recorded, and the
\* adapter call starts on its own thread.
StartCall(i) ==
  LET c == <<i, Attempts(i) + 1>> IN
  /\ caller[i] = "cleared"
  /\ ledger' = [d \in Calls |-> CASE d = c -> "live"
                                  [] d # c /\ IntentOf(d) = i /\ ledger[d] = "live" -> "dead"
                                  [] OTHER -> ledger[d]]
  /\ call' = [call EXCEPT ![c].pc = "start", ![c].issued = clock]
  /\ caller' = [caller EXCEPT ![i] = "waiting"]
  /\ verdict' = [verdict EXCEPT ![i] = Unknown]
  /\ UNCHANGED <<clock, orphans, peak, exchangeVars, reading>>

\* The grant is paused, revoked or halted while the call is on its way.
StopGrant(i) ==
  /\ \E c \in Calls : IntentOf(c) = i /\ ledger[c] = "live"
  /\ ledger' = [c \in Calls |-> IF IntentOf(c) = i /\ ledger[c] = "live" THEN "dead" ELSE ledger[c]]
  /\ UNCHANGED <<clock, caller, call, orphans, peak, exchangeVars, verifierVars>>

\* done.wait ran into the deadline; the lock is not yet taken.
Deadline(i) ==
  /\ caller[i] = "waiting" /\ ~Ended(Current(i))
  /\ caller' = [caller EXCEPT ![i] = "late"]
  /\ UNCHANGED <<clock, call, ledger, orphans, peak, exchangeVars, verifierVars>>

\* Slip: the event is not looked at again under the lock.
AbandonUnchecked(i) ==
  /\ caller[i] = "late"
  /\ call' = [call EXCEPT ![Current(i)].orphan = TRUE]
  /\ orphans' = orphans + 1
  /\ caller' = [caller EXCEPT ![i] = "idle"]
  /\ UNCHANGED <<clock, ledger, peak, exchangeVars, verifierVars>>

Abandon(i) ==
  /\ caller[i] = "late" /\ ~Ended(Current(i))
  /\ call' = [call EXCEPT ![Current(i)].orphan = TRUE]
  /\ orphans' = orphans + 1
  /\ caller' = [caller EXCEPT ![i] = "idle"]
  /\ UNCHANGED <<clock, ledger, peak, exchangeVars, verifierVars>>

\* The call's outcome, whatever it is, is taken for telemetry.
Collect(i) ==
  /\ caller[i] \in {"waiting", "late"} /\ Ended(Current(i))
  /\ caller' = [caller EXCEPT ![i] = "idle"]
  /\ UNCHANGED <<clock, call, ledger, orphans, peak, exchangeVars, verifierVars>>

-----------------------------------------------------------------------------
(* The adapter call: execute, and the end of its thread *)

End(c, pc) ==
  /\ call' = [call EXCEPT ![c].pc = pc]
  /\ orphans' = IF call[c].orphan THEN orphans - 1 ELSE orphans

\* The clock is read once, for the window check and for the permit's expiry.
ReadClock(c) ==
  /\ call[c].pc = "start"
  /\ Orderable(IntentOf(c)) /\ Expires(c) - clock >= MinWindow
  /\ call' = [call EXCEPT ![c].pc = "consume", ![c].now = clock]
  /\ UNCHANGED <<clock, caller, ledger, orphans, peak, exchangeVars, verifierVars>>

\* Slip: the window is checked and not what became of the permit.
ConsumeUnchecked(c) ==
  /\ call[c].pc = "consume"
  /\ call[c].now <= Expires(c)
  /\ ledger' = [ledger EXCEPT ![c] = IF @ = "live" THEN "consumed" ELSE @]
  /\ call' = [call EXCEPT ![c].pc = "post"]
  /\ UNCHANGED <<clock, caller, orphans, peak, exchangeVars, verifierVars>>

\* A permit that is live in the ledger is consumed, however long ago the clock
\* was read.
Consume(c) ==
  /\ call[c].pc = "consume"
  /\ ledger[c] = "live" /\ call[c].now <= Expires(c)
  /\ ledger' = [ledger EXCEPT ![c] = "consumed"]
  /\ call' = [call EXCEPT ![c].pc = "post"]
  /\ UNCHANGED <<clock, caller, orphans, peak, exchangeVars, verifierVars>>

\* There is no such order, too little of the window is left, the permit is dead
\* or the ledger cannot be reached.
Refused(c) ==
  /\ \/ call[c].pc = "start" /\ ~(Orderable(IntentOf(c)) /\ Expires(c) - clock >= MinWindow)
     \/ call[c].pc = "consume"
  /\ End(c, "refused")
  /\ UNCHANGED <<clock, caller, ledger, peak, exchangeVars, verifierVars>>

\* The action is signed and posted once.
Post(c) ==
  /\ call[c].pc = "post"
  /\ call' = [call EXCEPT ![c].pc = "await"]
  /\ posts' = posts \cup {c}
  /\ UNCHANGED <<clock, caller, ledger, orphans, peak, orders, shown, verifierVars>>

\* The signer fails, or the reply arrives, is unreadable or does not come in
\* time: nothing is posted again.
CallEnds(c) ==
  /\ call[c].pc \in {"post", "await"}
  /\ End(c, "done")
  /\ UNCHANGED <<clock, caller, ledger, peak, exchangeVars, verifierVars>>

-----------------------------------------------------------------------------
(* The exchange, as the adapter relies on it *)

Nonce(c) == call[c].issued
UsedNonces == {Nonce(c) : c \in {d \in Calls : orders[d] # NoOrder}}
Executions(i) ==
  {s \in UNION {[1..n -> [sz : 1..OrderSize(i), px : Prices]] : n \in 0..MaxFills} :
     Lots(s) <= OrderSize(i) /\ \A n \in DOMAIN s : s[n].px <= Limit[i]}

\* A signed action arrives, perhaps late or again.
Execute(c) ==
  LET i == IntentOf(c) IN
  /\ c \in posts
  /\ Nonce(c) \notin UsedNonces /\ clock <= Expires(c)
  /\ \E s \in Executions(i) :
       orders' = [orders EXCEPT ![c] = [size |-> OrderSize(i), limit |-> Limit[i],
                                        at |-> clock, fills |-> s]]
  /\ UNCHANGED <<clock, caller, call, ledger, orphans, peak, posts, shown, verifierVars>>

\* The info API shows the order, then its fills.
Show(c) ==
  /\ orders[c] # NoOrder
  /\ shown[c] < Len(orders[c].fills)
  /\ shown' = [shown EXCEPT ![c] = @ + 1]
  /\ UNCHANGED <<clock, caller, call, ledger, orphans, peak, posts, orders, verifierVars>>

-----------------------------------------------------------------------------
(* The settlement verifier *)

Visible(i) == {c \in Calls : IntentOf(c) = i /\ shown[c] # Hidden}
Filled(c) == Lots(orders[c].fills)       \* origSz - sz of the order status
Complete(c) == Filled(c) = orders[c].size
Seen(c) == SubSeq(orders[c].fills, 1, shown[c])
Page(c) == FoldSet(LAMBDA d, n : n + shown[d], 0,
                   {d \in Calls : shown[d] # Hidden /\ orders[d].at >= orders[c].at})

Says(status, c, amount) ==
  [status |-> status, authoritative |-> TRUE, order |-> c, amount |-> amount]

\* Slip: the fills that are shown are the fills there are.
JudgeShown(c) ==
  Says(IF Complete(c) THEN "FINALIZED" ELSE "CANCELLED", c, Spent(Seen(c)))

\* The order's terms are not the ones the request translates to.
Misbound(c) == orders[c].size # OrderSize(IntentOf(c)) \/ orders[c].limit # Limit[IntentOf(c)]

Contradiction == Says("CONTRADICTORY", NoCall, 0)

\* The record for an order whose status was read before its fills.
Judge(c) ==
  LET seen == Seen(c)
      i    == IntentOf(c) IN
  IF Misbound(c) THEN Contradiction
  ELSE IF Page(c) >= PageLimit THEN Unknown
  ELSE IF Lots(seen) > Filled(c) \/ \E n \in DOMAIN seen : seen[n].px > Limit[i] THEN Contradiction
  ELSE IF Lots(seen) < Filled(c) THEN Unknown
  ELSE IF Spent(seen) > Notional[i] \/ (Complete(c) /\ Spent(seen) = 0) THEN Contradiction
  ELSE Says(IF Complete(c) THEN "FINALIZED" ELSE "CANCELLED", c, Spent(seen))

Settleable(i) == caller[i] = "idle" /\ Attempts(i) > 0 /\ Orderable(i)

\* An order that is not found may still be on its way to the index.
Missing == Unknown

ReadOrder(i) ==
  /\ Settleable(i) /\ reading[i] = NoCall
  /\ IF Visible(i) = {}
     THEN verdict' = [verdict EXCEPT ![i] = Missing] /\ UNCHANGED reading
     ELSE /\ \E c \in Visible(i) : reading' = [reading EXCEPT ![i] = c]
          /\ UNCHANGED verdict
  /\ UNCHANGED <<clock, caller, call, ledger, orphans, peak, exchangeVars>>

ReadFills(i) ==
  /\ reading[i] # NoCall
  /\ verdict' = [verdict EXCEPT ![i] = Judge(reading[i])]
  /\ reading' = [reading EXCEPT ![i] = NoCall]
  /\ UNCHANGED <<clock, caller, call, ledger, orphans, peak, exchangeVars>>

\* Either read fails, or its answer is malformed.
ReadFails(i) ==
  /\ Settleable(i)
  /\ verdict' = [verdict EXCEPT ![i] = Unknown]
  /\ reading' = [reading EXCEPT ![i] = NoCall]
  /\ UNCHANGED <<clock, caller, call, ledger, orphans, peak, exchangeVars>>

Next ==
  \/ Tick
  \/ \E i \in Intents :
       \/ CheckOrphans(i) \/ StartCall(i) \/ StopGrant(i) \/ Deadline(i) \/ Abandon(i) \/ Collect(i)
       \/ ReadOrder(i) \/ ReadFills(i) \/ ReadFails(i)
  \/ \E c \in Calls :
       \/ ReadClock(c) \/ Consume(c) \/ Refused(c) \/ Post(c) \/ CallEnds(c)
       \/ Execute(c) \/ Show(c)

Spec == Init /\ [][Next]_vars

-----------------------------------------------------------------------------
(* What must hold *)

OrdersOf(i) == {c \in Calls : IntentOf(c) = i /\ orders[c] # NoOrder}

\* Every intent has at most one order at the exchange, placed under a permit that
\* was consumed, before that permit expired and for no more than the notional the
\* intent was authorized for, although actions arrive late and repeatedly, calls
\* are abandoned and the order may be invisible when it is looked for.
OneBoundedOrder ==
  /\ TypeOK
  /\ \A i \in Intents :
       /\ Cardinality(OrdersOf(i)) <= 1
       /\ \A c \in OrdersOf(i) :
            /\ ledger[c] = "consumed"
            /\ orders[c].at <= Expires(c)
            /\ Ceiling(orders[c].size * orders[c].limit) <= Notional[i]

\* An authoritative record states exactly what became of the order, to the last
\* unit, although status and fills are two reads of an index that lags behind;
\* an exchange that keeps to the order's terms is never called contradictory.
VerdictIsVenueTruth ==
  \A i \in Intents : verdict[i].authoritative =>
    /\ verdict[i].order \in OrdersOf(i)
    /\ LET o == orders[verdict[i].order] IN
       /\ verdict[i].status = IF Lots(o.fills) = o.size THEN "FINALIZED" ELSE "CANCELLED"
       /\ verdict[i].amount = Spent(o.fills)
       /\ verdict[i].amount <= Notional[i]

\* The process counts the abandoned calls that still run, each once, whichever of
\* the deadline and the call's end comes first.
OrphansCounted == orphans = Cardinality({c \in Calls : call[c].orphan /\ ~Ended(c)})

\* The check is made before the call and not with it, so the limit can be passed, but
\* only by threads that were past the check together: when there never were two of
\* them at one time, no more calls than the limit are abandoned, and each further
\* thread past the check at the same time adds one.
OrphansBounded == orphans <= MaxOrphans - 1 + peak

-----------------------------------------------------------------------------
(* The inductive invariant *)

\* The verifier never answers that there is no order, so only the first call of an intent
\* is ever made.  What was posted was orderable and its permit is consumed; what the
\* exchange executed has the posted terms and was on time.
CallInv(c) ==
  /\ call[c].pc = "none" => call[c] = Unsent /\ c \notin posts
  /\ call[c].pc # "none" => c[2] = 1
  /\ call[c].pc \in {"consume", "post", "await"} => Orderable(IntentOf(c))
  /\ call[c].pc \in {"post", "await"} => ledger[c] = "consumed"
  /\ c \in posts => ledger[c] = "consumed" /\ Orderable(IntentOf(c))
  /\ orders[c] # NoOrder =>
       /\ c \in posts
       /\ orders[c].size = OrderSize(IntentOf(c)) /\ orders[c].limit = Limit[IntentOf(c)]
       /\ orders[c].at <= Expires(c)
       /\ orders[c].fills \in Executions(IntentOf(c))
  /\ shown[c] # Hidden => orders[c] # NoOrder
  /\ shown[c] <= Len(orders[c].fills)

Begun(i) == <<i, 1>> \in Calls /\ call[<<i, 1>>].pc # "none"

\* A thread that waits for its call has not abandoned it, and one about to start a call
\* has none.  The verifier reads an order that stays as it is.
ThreadInv(i) ==
  /\ caller[i] = "cleared" => ~Begun(i) /\ MaxAttempts > 0
  /\ caller[i] \in {"waiting", "late"} => Begun(i) /\ ~call[<<i, 1>>].orphan
  /\ verdict[i].status # "NONE"
  /\ reading[i] # NoCall => IntentOf(reading[i]) = i /\ shown[reading[i]] # Hidden

\* Every thread underway passed the check while fewer calls than the limit were orphaned.
OrphanInv ==
  /\ OrphansCounted
  /\ PastCheck <= peak
  /\ orphans + PastCheck <= MaxOrphans - 1 + peak

AdapterInv ==
  /\ TypeOK
  /\ \A c \in Calls : CallInv(c)
  /\ \A i \in Intents : ThreadInv(i)
  /\ OrphanInv
  /\ VerdictIsVenueTruth
=============================================================================
