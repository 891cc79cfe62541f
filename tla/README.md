# FAAR runtime: TLA+ models, model checks and proofs

FAAR, the Financial Agent Authority Router, executes the economic intents of agents
under signed, bounded authority.
It promises that an intent reaches its venue at most once, that money is reserved
before and released only when nothing can be filled any more, and that stopping
works: a pause, revocation, halt or restore of an old backup never leaves usable
authority behind. The code is `src/faar/`; the claims are numbered I-1, I-2, ... in
`docs/INVARIANTS.md`. This directory models the parts where those claims depend on
the order of steps of several actors, checks them with TLC on small instances, and
proves every safety property that holds with TLAPS, for every size of the system.

## 1. The system

| Component | State it keeps | Operations | Hard behaviour | What makes it correct |
|---|---|---|---|---|
| Permit authority, permit ledger, gateway verification (`permits.py`, `store.py`) | grant rows (status, `runtime_epoch`, `fence_counter`), control scopes (halts), `execution_permits` | `issue` (three transactions), `verify`, `consume_execution_permit`, `void_unconsumed_permits`, `set_grant_status`, `halt`, `resume` | concurrent issuers; verified state stale at consumption; clocks that differ | one fence per permit; a stop kills every earlier permit; void and consume exclude each other; retry windows do not overlap |
| Runtime (`runtime.py`, `store.py`) | `intents`, `usage_reservations.status`, `intent_leases`, `submission_attempts` | `process`, `reconcile`, recovery of interrupted calls, lease handling, `_stop_execution_state` | crash or outage between any two transactions; requests that arrive late; verifiers that are silent, wrong or contradictory; second process without the adapter | at most one admission; released budget is never spent; terminal intents are disarmed; blocks, settled effects and fills are durable; every intent ends |
| Venue and verifier (`adapters.py`, `settlement.py`) | the venue's orders | `execute`, `complete_fill`, `cancel_order`, `verify` | acts whenever it likes on what it was sent | only a consumed permit becomes an order |
| Authority anchor (`anchor.py`, `store.py`) | high-water marks outside the backup set | `record`, `read`; repair at opening | mark and row are two stores; outages; restores | no fence or permit is used twice across restores; regressed authority stays stopped |
| Usage ledger (`store.py`) | reservations, attempts, two ledgers of risk claims, exposure caps | `reserve_usage`, `begin_submission`, `claim_permit_risk_state`, `commit_usage`, `release_usage`, `set_exposure_cap` | decision times out of order; several grant versions; restored cap tables | limits hold in every trailing window; risk states are used once; no stale caps |
| Evidence chain (`store.py`) | hash-linked events with MACs, signed heads, `heads_since` | `register`, `add_evidence`, `assert_evidence_appendable`, `evidence_status`, `rebuild_evidence_head(s)` | rows lost or altered; chains of older builds; a transition and its event in two transactions | no loss is made invisible by later writes; healthy chains are never refused; legacy and damaged chains are told apart |
| Quorum verifier (`settlement.py`) | none | `verify`: ask every source, combine their records | sources fail, lag, lie, and are asked at different moments | a verdict was true during its call and is not taken back by a later one; failing or lagging sources do not block an honest quorum |
| Paper venue and its HTTP gateway (`paper_gateway.py`) | orders, quotes, balances, all in memory | submit, cancel, lookup, `set_quote`, `match_pending` | consumption is durable before the order is booked; requests served late or again; restarts | a consumed permit has its order on record; refusals can be believed; an identity is admitted once |
| Hyperliquid testnet adapter and verifier (`hyperliquid.py`), adapter deadline (`runtime.py`) | the process's count of orphaned calls | `execute`, `verify`, `_execute_adapter` | calls outlive their deadline; actions arrive late; the exchange's index lags | at most one order, within the notional; an authoritative record is exact; orphans are counted once |
| Gates, attestations, models, canonical encoding, outcomes, CLI, migrations, PostgreSQL store | see `PROJECT.json` | | | not modelled (section 8) |

How they interact. `FAARRuntime.process` and `.reconcile` are called by any number
of processes over one database. A call takes the intent's lease, then alternates
between store transactions and external calls: gates and attestations, the permit
authority, the adapter (under a deadline, so that a call may be abandoned while its
request still travels), the settlement verifier. The venue's gateway verifies and
consumes the permit in the same database, at any later time. Operators pause,
revoke, halt and resume through the same store from other processes. Every
authority transaction also writes the anchor, before its COMMIT.

Atomicity. A store method is one `BEGIN IMMEDIATE .. COMMIT` transaction, so one
action; everything between two of them may be interrupted by anyone. The store's
`execution_guard` is an in-process lock (`store.py:829`): it excludes nobody in
another process, so the models let operators, gateways and other workers act
between any two transactions, also inside a guarded section.

## 2. Modules

| Module | Models | Used by |
|---|---|---|
| `PermitLedger` | grants, scopes, permits, issue, verify, consume, void, stops | extended by `IntentRuntime` |
| `EffectOnce` | abstract promise about one intent: reserve, admit once, fill, commit or release | instantiated by `IntentRuntime` |
| `IntentRuntime` | runtime processes, leases, venue, verifier, faults, composed with the ledger | |
| `IntentRuntimeProofs` | the ledger's theorems, the runtime's inductive invariant, its theorems and its refinement of `EffectOnce` | |
| `VenueContract` | abstract promise of a venue about its orders: admit once, fill while open, never change after the end | instantiated by `PaperVenue`, extended by `QuorumSettlement` |
| `PaperVenue` | the paper venue, its HTTP clients and server | |
| `PaperVenueProofs` | its theorems and its refinement of `VenueContract` | |
| `QuorumSettlement` | one call after another of the quorum verifier, over a venue that keeps the contract | |
| `QuorumSettlementProofs` | its theorems | |
| `HyperliquidVenue` | adapter, runtime deadline and orphan count, exchange, verifier | |
| `HyperliquidVenueProofs` | its theorems | |
| `AuthorityAnchor` | authority transactions in two steps, outages, backups, restores | |
| `AuthorityAnchorProofs` | its theorems | |
| `UsageLedger` | limits, caps, risk claims | |
| `UsageLedgerProofs` | its theorems | |
| `FiniteSums` | lemmas on sums and recursion over finite sets | extended by `UsageLedgerProofs`, `PaperVenueProofs`, `EvidenceChainProofs`, `HyperliquidVenueProofs` |
| `EvidenceChain` | chains, heads, their adoption, damage | |
| `EvidenceChainProofs` | its theorems | |
| `MC...` | small instances for TLC | |

**PermitLedger.** `grant`, `halted` and `permits` are tables (`permits` is a
sequence, its index the rowid). `ticket[w]` is what issuer `w` carries between the
transactions of `ExecutionPermitAuthority.issue`: `AllocateFence`, `Recheck`,
`RecordPermit`; `AbandonIssue` is every refusal and death in between. `verified`
holds the permits the gateway has verified and not yet consumed; `VerifyPermit`
uses the venue's own clock, at most `VenueSkew` off. `stops` and a permit's `born`
are history: they count the stops themselves, where the code compares epochs.
Signatures, request digests and the binding of permit to request are taken as
given.

**IntentRuntime.** `job[w].pc` names the next transaction or external call of
process `w`. `wire` holds the permits given to the adapter: the venue may act on
them at any time, also after the adapter call was abandoned, failed, or its
process died (`AdapterReturns`, `AdapterRejects`, `Crash`). The verifier returns
`Truth(i)` (what the venue's book says, at any degree of finality), silence, or a
member of the constant `Lies`. `Crash` kills a process and leaves its lease behind,
`Abort` is a store that raises in mid-call (a refused evidence append among the
reasons), `ReleaseFails` a lease whose release
failed. `ClearStaleLease` is the operator's command for the lease of a dead owner;
clearing a live owner's lease by force is outside the model. Gates, attestations,
limits and the orphan limit refuse or allow freely.

**VenueContract.** What parts A and C of `docs/ADAPTER_CONTRACT.md` ask of a venue:
one order per client identity, admitted once, which gains fills only while it is
open. `Forget` allows a book kept in memory to be lost, but not a second admission.

**PaperVenue.** `permits[k]` lists the permits issued under identity `k`, `wire` the
requests that may still reach the server, `outcome[k]` what the submitting client
knows. A submission is two steps: `Consume`, which commits in the shared database,
and `PlaceOrder` or `CancelOrder`, which book under the same hold of the lock
(`busy`); only a permit's death, the clients and `Restart` come in between. A client
that gives up leaves its request on the wire. `Submit` issues another permit for an
identity only when the earlier ones are dead, which is what the runtime guarantees
(`RetryOnDeadPermits`, `AtMostOneAdmission`). Reference and executable price are one
price, since a quote sets both; quantities are whole because prices divide the
notional. Credentials, scope, payload and wire-format checks are the set
`OutOfScope`.

**QuorumSettlement.** `votes` are the records of the sources asked so far; between
two questions `VenueMoves` may take the order on. The venue does not lose its book
(`Forget` is left out), since a source can report only what the venue still knows. Honest sources report the truth
of the moment, at its finality or a weaker one, or nothing; faulty ones, fewer than
the quorum, return any member of `Lies`. `truths` collects what was true during the
call. `Tally` and `Verdict` are the body of `verify` after its loop.

**HyperliquidVenue.** `caller[i]` is the runtime thread of an intent (`_submit`,
`_execute_adapter`), `call[c]` the adapter thread: `ReadClock`, `Consume`, `Post`,
`CallEnds`. `Deadline` and `Abandon` are the two halves of the timed wait, between
which the call may end. The exchange is external: it executes a posted action at any
time before its expiry, once per nonce, and `Show` reveals the order and then its
fills. The verifier reads the order (`ReadOrder`) and then the fills (`ReadFills`).
`OrderSize` and `Orderable` are the arithmetic of `_request_order` with amounts in
ledger quanta and sizes in lots; `RoundsUp` marks the intents whose decimal quotient
was rounded up to a whole lot.

**AuthorityAnchor.** A write transaction is `Begin` (the anchor has been written,
the row not committed), then `COMMIT` or `ROLLBACK`. `RecordPermit` joins the re-read of
the grant and the INSERT, which `PermitLedger` has apart; no property depends on what
comes between them here. `answer` says what the anchor
did: `up`, `readonly` (reads, cannot write) or `down`. Stops commit whatever it
says; issuance, consumption and re-activation need it. `Open` is the repair of
marks that are behind their rows. `Backup(c)` keeps copy `c` of the database, for any
number of `Copies`, and `Restore(c)` puts it back; the marks are never replaced. As
`docs/OPERATIONS.md:146` asks, no backup is taken while a mark is behind. Each scope is the set of grants it covers.

**UsageLedger.** The tables of reservations, attempts, risk claims and caps, and
every writer of them. `Now` is any time up to `Lag` behind the clock: the caller
read it and then waited for the database. A refused call changes nothing and is no
action, except the tightening that is rolled back (`SetExposureCapFails`), which is
finding 2. All versions have the same `action_window_seconds`, and rows written by
older schema versions are left out.

**EvidenceChain.** `chain[i]` and `head[i]` are the rows of `evidence` and
`evidence_head`. A hash is the sequence of what it covers, a MAC the hash it was made
over: neither collides and nobody without the key makes one. A call of the runtime is
`BeginCall` (`assert_evidence_appendable`), then `Transition` and `AddEvidence`
alternately; `EndCall` is its return or its death at any point. `LegacyRegister`,
`LegacyAppend` and `Upgrade` are older builds, `Open` binds `heads_since`. Instances
have the key or not (`Keys`). Whoever has the database and not the key may lose or alter
an event (`EventDamaged`), lose a head or write one unsigned (`HeadDamaged`), and do what
no MAC covers: put back a head that was signed once (`HeadPutBack`), put a written event
in under an id the table has given out (`EventPutBack`; losing a row first, this rewrites
its id), lose or rewrite `heads_since` (`MarkRewritten`). `uncovered` remembers the
intents this happened to, `commits` every head ever signed.
Payloads, timestamps and size limits are left out.

Operators marked *Slip* are plausible mistakes in the definition that follows them.
No specification uses them: they are put in its place to show that the property
they are listed with notices.

## 3. Runs

| Run | Question | Instance |
|---|---|---|
| `RuntimeSafety` | Do fences, epochs and voids hold while processes, gateway and operators race, and is an intent admitted at most once, backed, disarmed when it ends, its hold never stranded? | PAY, 2 processes, 2 attempts, 1 fault, 1 stop, late and skewed venue |
| `RuntimeTrade` | Does the runtime implement `EffectOnce` with partial fills and cancels, also with a process that has no adapter? | TRADE of size 2, 2 processes of which 1 configured, no stop |
| `RuntimeLies` | What survives a verifier that says anything? | TRADE of size 2, 1 process, no stop, every authoritative report, foreign, missing and malformed identities, contradictions; another intent may settle on the foreign order first |
| `RuntimeLiveness` | Does every intent end? | PAY, 1 process, 1 fault, 1 stop, 2 attempts |
| `AnchorRestore` | Is authority single use across restores, failed commits and outages? | 2 grants under one scope, 3 and 2 epochs, 2 authority events of the first, 1 copy |
| `Usage` | Do turnover, velocity, risk claims and caps hold with times out of order, two grants and versions, while operators set and restore caps? | 2 intents, 2 attempts, 2 grants, 2 versions, windows of 1 s, a global cap |
| `EvidenceLoss` | Does a chain that verifies hold everything that was written, and is a healthy chain never refused? | 2 intents, 3 events, 2 damages, keyed and unkeyed instances, upgrade |
| `PaperVenue` | Does the paper venue keep `VenueContract`, record what it admits, refuse truthfully and balance its books? | 5 requests under 3 identities (BUY and SELL under one, a cancel, one out of scope), 2 attempts, 2 prices, 1 restart |
| `QuorumSettlement` | Is a verdict true, and does it come, with faulty, silent and lagging sources? | 4 sources, quorum 3, 2 faulty, an order of size 2 |
| `HyperliquidVenue` | One order within the notional, exact records, orphans counted? | 2 intents, 2 attempts, up to 2 fills at 2 prices, orphan limit 1 |
| `AnchorHalt`, `UsageOutage` | the findings below | as small as they show |

Why the bounds are enough for the cases to happen. Two processes are the fewest
that race for an intent. With one intent, whose lease excludes the other process, they
do not race for a fence: two issuers of one grant at once are in the theorems only
(`FencesNeverReused`, `RuntimeFencesSound`), as are two intents that settle on one order
(`EffectsSettleOnce`).
An epoch begins at 1 and stays within `MaxEpoch`: with 2, in `RuntimeSafety` and
`RuntimeLiveness`, one pause, revocation or halt falls between any two steps, and a
resume of what was halted; with 1, in `RuntimeTrade` and `RuntimeLies`, there is no stop,
and what stops do there rests on the theorems. Two attempts contain the first and the retry; a third repeats the
relation between them. `MaxClock` lets a permit's window, the skew allowance and
the ambiguity window all close. One fault at any of the steps covers every
place a crash may hit; a second crash in the recovery is the one thing it leaves
out. In `RuntimeLies` the other intents of the store are represented by
what they leave under the unique index (`taken`): they may claim the foreign order at
any step. The unconfigured process of `RuntimeTrade` cannot be in `RuntimeSafety`
(`NoStrandedHold`, below), so that `TerminalDisarmed` with such a process is shown by
`EndsDisarmed` alone. Three events are a registration, an event and one more after a loss, or a
legacy event beside a chain born with its head; two damages lose a row and the head
together, or lose the tail and put the head before it back. The anchor's two authority events are one allocation and one
consumption, which a restore may both undo; the second grant shares the first one's
halts, of which the anchor may record either, both or neither. The run keeps one
copy; the theorems are for any number. All windows in `UsageLedger` are one second, so that the inclusive bound, a time inside and one outside all occur.
The cap table changes once; re-applying a cap after a restore is left to `CapsNeverStale`.
The paper venue's cash pays for one of its two resting orders, and its balance
limit refuses a credit, so that both legs of a fill fail; a lie of the quorum's
sources exists for every way a record can be wrong (status, amount, effect, request).
In `HyperliquidVenue` one intent's quotient rounds up and its two lots may fill in two
parts, at different prices; the page limit is reached when both orders are shown.
With an orphan limit of 1 and two threads, both pass the check together, or the second
finds the limit reached by the first one's abandoned call; the count is 2 in the former
case alone.
Its second attempts occur only where a mistake lets one happen: the adapter's verifier
never reports absence, and a refused permit ends the intent.

Deadlock is checked in every run but `HyperliquidVenue`, where both intents may have
been stopped by the orphan limit and nothing is left to do.

Three properties are stated for the instances in which the code gives them, and the
theorems carry the same hypotheses:

* `NoStrandedHold` needs every process to serve the venue (`Configured = Issuers`). A
  process without the adapter can take RESERVED to RECONCILING to UNKNOWN with no
  attempt made and then stop it with ADAPTER_NOT_CONFIGURED, budget held, because it
  cannot know whether something was sent; the hold is released by the next `process()`
  replay (`_release_orphaned_hold`). `RuntimeSafety` has both processes configured.
* `RecordedFillKeepsBudget` under arbitrary lies needs it for the same reason: that
  replay releases a never-submitted intent for which a lying verifier reported a fill.
  With an unconfigured process, a lie and a fault TLC finds the violation.
* `SettledHistoryKept` is about PAY and TRADE (`Primitive # "CONTROL"`). A CONTROL
  intent has no amount to compare, so that after a larger fill a lying verifier's
  PARTIALLY_FILLED without an amount is accepted and recorded as 0 (`runtime.py:1055`),
  although the comment at `runtime.py:1001` says that cumulative fills never shrink;
  TLC finds this too. No run has a CONTROL intent.

### Findings

1. `AnchorHalt`: `halt()` raises the epoch of every grant in the scope without asking
   whether the row is behind its mark (`store.py:1148`). After a restore, enough
   halts take a REGRESSED version past its mark and `resume()` makes it ACTIVE,
   although `docs/INVARIANTS.md:153` says that only `revoke_after_restore` changes
   its lifecycle. A second path: a PAUSE during an anchor outage
   (`store.py:1525` takes `behind = False`), then re-activation. `RegressedEndsStopped` is what does
   hold: no single transaction does it.
2. `UsageOutage`: `set_exposure_cap` reads the mark outside the `try` that tolerates
   an anchor failure (`store.py:1243`), so a tightening is rolled back while the
   anchor cannot be read; `docs/INVARIANTS.md:153` says tightening commits.

Smaller observations, without a run. A signed head states the length and the tail of a
chain (`_head_mac`, `store.py:2295`), not that it is the latest: a chain whose last events
are gone and whose earlier head row is put back verifies as `ok` and is extended. In the
model `HeadPutBack` reaches this, and `LossNeverLaundered` states what holds then
(`uncovered`). `docs/THREAT_MODEL.md:60` says of whoever has the database that "the signed
head commitment detects tail truncation"; `:62` and `docs/INVARIANTS.md:93` concede
the rollback of the whole database only. Row ids and `heads_since` are covered by no MAC
either (`store.py:2351`, `:2462`), and they decide whether a chain without a head counts as
legacy. A chain all of whose events and whose head are
gone looks like that of a legacy intent that never had any: `_check_head_matches_tail`
(`store.py:2317`) lets the next append start it anew, and it verifies again, although
`evidence_status` reports `chain_empty` in between; `LossNeverLaundered` excludes it
(`erased`). `get_grant_control` reads the row under the lock and the mark after
it (`store.py:1489`), and writers raise the mark before they commit: a reader in
between reports REGRESSED on a healthy store, and `process()` ends a fresh intent
STOPPED. This fails closed. The orphan limit refuses at `>=`
(`runtime.py:578`) where `docs/INVARIANTS.md:165` says "more than", and the count is
read before the grant's guard is waited for, so that callers who passed the check
together exceed it: `OrphansBounded` states the bound that holds, the limit less one
plus the most callers that were past the check at one time. A quorum all of whose sources are honest reports
CONTRADICTORY, which stops the intent, when the order moves between two of its
questions. The branch of the paper venue's cancel that "lost the race with a fill"
(`paper_gateway.py:549`) cannot be reached under the venue's lock, and would write a
FILLED record where its comment says CANCELLED; no order is ever REJECTED. Two
Hyperliquid orders of one account issued in the same millisecond share a nonce and
one is refused, as `docs/HYPERLIQUID_TESTNET_ADAPTER_REVIEW.md:83` says. A retry may bind, in
`permit_risk_claims`, a risk state that another intent claimed initially:
`claim_permit_risk_state` asks only its own ledger who owns it. What an intent has bound
there before is accepted again before its age is asked (`store.py:1651`), also when
another intent has claimed a later state since, although `docs/INVARIANTS.md:73` says that
a version older than one consumed "by any intent or retry is refused in both ledgers". A cap mark left
behind by an outage is not repaired at opening, where only grant marks are.
Re-applying the cap of one scope clears EXPOSURE_CAPS_REGRESSED for all, as
`docs/OPERATIONS.md:205` says. A stop that the anchor did not record, followed by a restore to a
backup from before it, is undetected: the documented limit of the design.

## 4. Fairness

Only `RuntimeLiveness` assumes any (`Fairness` in `IntentRuntime`).

* Callers repeat `process()` for an open intent (`docs/OPERATIONS.md:93` and
  `:99`: "the next `process()` call ... reconciles", "reconcile again later"): strong fairness of `Register` while nobody else
  holds the lease, of `AcquireLease`, and of presenting the intent's own grant.
* A process runs its call to the end, unless it crashes: weak fairness of its steps.
* The clock moves. Operators clear the lease of a dead owner. A resting order fills
  or is cancelled.
* A verifier that is asked for ever answers once: strong fairness of `Verify` with
  a decisive record. A verifier silent for ever keeps an intent UNKNOWN for ever, as
  the code intends.

Nothing is assumed of the venue's handling of a request, of gates, or of the grant's
status. A halt, pause or revocation may come at any step and stay; the run has one, and
a halt may be resumed. A PAY order does not rest, so that the run does without the
fairness of fills; with `Primitive = "TRADE"`, where it is needed, TLC finds no error
either (300 264 states, more minutes than the run).

## 5. Proofs

TLAPS checks about 12 600 obligations in eight modules. Every theorem is for all values
of the constants that satisfy the named assumption of its module (`LedgerConstants`,
`RuntimeConstants`, `AnchorConstants`, `UsageConstants`, `QuorumConstants`,
`PaperConstants`, `EvidenceConstants`, `HyperliquidConstants`): typing, a principal for
every grant, a grant for every intent, fewer faulty sources than the quorum, positive
prices, which divide the notional at the paper venue. The bounds `MaxEpoch`, `MaxClock`,
... are arbitrary naturals, and sets of intents, grants and processes may be infinite,
except the intents of `HyperliquidVenue`, whose threads are counted. `PROJECT.json` lists the theorems.

### The permit ledger (`IntentRuntimeProofs`, first part)

`LedgerTypeCorrect`, `FencesNeverReused`, `StopKillsPermits`, `PermitTableCorrect`,
`FencesCount`, and the inductive invariant itself, `LedgerInvariant`. None of the
properties is inductive alone. `FencesUnique` speaks of recorded permits, but a
fence is allocated one transaction, and an arbitrary time, earlier: `FencesAllocated`
adds that a fence in an issuer's hands is at most the counter and differs from
every recorded and every other carried one. `NoConsumptionAcrossAStop` counts stops
while the code compares epochs: `EpochsDateStops` says that a permit, or an issue in
progress, whose epoch is still current has seen no stop since its fence was allocated.
`LedgerInv` is the conjunction of these with `LedgerTypeOK`, `VoidOrConsumedNotBoth`
and `WindowsDisjoint`. `FenceCountsEvents` counts three sets; `CountInv` adds that only
finitely many issues are in progress, and every action moves at most one element from
one set to another or adds one and raises the counter.

### The runtime (`IntentRuntimeProofs`)

`RuntimeInvariant` is the core: `LedgerInv /\ RuntimeInv` holds in every state. The
argument is the code's own: the lease makes an intent the business of one process, so
what that process concluded from row, reservation and permits is still so when it
writes. `JobInv` says for each program point what the process may rely on (before an
issue every earlier permit is void; a stop that releases has no effect recorded; a
blocked intent is never on the submitting path), `IntentInv` what row, reservation and
permits of an intent owe each other whoever works on it, `TicketInv` ties an issue in
progress to its process. With a truthful verifier `BookInv` and `RecordInv` relate them
to the venue's book: a record that is acted on is still true, because only final
answers are acted on. `RuntimeSafety` checks `RuntimeInv` itself.

`DrivesLedger` shows that every step of the composed system is a step of `LedgerNext`
or leaves the ledger alone, which carries the ledger's theorems over:
`RuntimeKeepsLedger`, `RuntimeFencesSound`, `StopsReachTheVenue`. Then

* whatever the verifier says: `RuntimeTypeCorrect`, `AdmittedOnce`,
  `RetriesOnDeadPermits`, `BlocksAreDurable`, `EffectsSettleOnce`; `HistoryKept` for
  `Primitive # "CONTROL"`; `FillsKeepBudget` and `NothingStranded` for
  `Configured = Issuers` (section 3 says why these need their hypothesis);
* with a verifier that speaks with authority only when it reports the venue's book
  (`Truthful`): `FillsBacked`, `EndsDisarmed`, and the refinement `RefinesEffectOnce`:
  initial states map to initial states of `EffectOnce` and every step, of any process,
  the venue, an operator or a fault, maps to one of its steps or to none.

### The anchor (`AuthorityAnchorProofs`)

`AuthorityNeverUnmarked`, `AuthorityUsedOnce`, `RegressedNeverRevived`,
`AnchorNeverFalls`. What a restore brings back was true of some earlier database, so
the invariant is stated of every copy as of the database and of the open transaction
(`Anchored(data, held)`): a datastore that does not know of a consumption has been
stopped since or is behind its mark, and a row ahead of its mark, which only a stop
under a failing anchor leaves, holds no permit of its epoch. `AnchorInv` and
`NoAuthorityTwice`, as the run checks them, are inductive together (`AuthorityInv`).

### The usage ledger (`UsageLedgerProofs`, `FiniteSums`)

`TurnoverWithinLimit`, `VelocityWithinLimit`, `ExposureWithinCap`, `RiskUsedOnce`,
`CapsNeverStale`, `UsageTypeCorrect`, from `UsageInvariant`. The
bounds are not inductive: they hold for the limit of *some* row of the window, and when
that row is released it takes its limit with it. `UsageInv` therefore bounds every
*subset* of every window, and does so for the tables of the backup as well. A new row
is admitted against everything later than the window's start, so every subset that
contains it is within its own limit, and every other one was bounded before. It also
states that only finitely many rows and attempts exist, without which a sum means
nothing; finiteness of the set of intents is not assumed. TLC checks `UsageInv` on the
instance of `Usage` (2 649 231 states); the run itself keeps to the properties.

`FiniteSums` proves what `MapThenSumSet` of the community modules computes: that it
is additive over disjoint sets, monotonic, and unchanged by a change outside the set.
The fold is a recursion on finite sets, and the library's induction theorems are out of
the provers' reach (they have an operator as a parameter); `MinimalSubset` obtains a
smallest counterexample from the well-foundedness of strict inclusion instead, whose
theorems have none.

### The quorum (`QuorumSettlementProofs`)

`VerdictsWereTrue`, `VerdictsNeverGoBack`, `HonestQuorumsDecide`. `QuorumInv` says that
the venue's truth only moved on since the last verdict (`Follows`) and that every
honest answer was true at some moment of the call (`Honest`). A decided fact has a
quorum of votes, more than there are faulty sources, so one of them is honest.

### The paper venue (`PaperVenueProofs`)

`ConsumedIsOnRecord`, `RefusalsAreFinal`, `AccountBalances` and `RefinesVenueContract`,
from `PaperInvariant`. `PaperInv` ties the three places a submission can be in. Of the
permits of an identity only the last can be live or consumed, and two submissions that
name it are the same one, so what is refused for the last permit leaves nothing on the
wire that could still be admitted. An order is on the book exactly when the last permit
of its identity was consumed *in this life of the process*, unless it is the one in
hand; a restart forgets the book and ends the life, so nothing is owed. What admitted
the submission in hand is still so when it is booked, because every other step on the
book waits for the lock. TLC checks `PaperInv` on the run's instance (754 957 states);
the run itself keeps to the properties.

The balances are sums over the filled orders. One fill adds one order to one of the two
sums (`FilledMoney`), or nothing (`UnfilledMoney`). Matching is a fold over the queue
whose every step is such a fill: `SolutionExists` and `SolutionUnique` of `FiniteSums`
show that a recursion over finite sets has one solution and stays in any set its steps
stay in, and `MatchedReach` applies them to a queue of any length.

In the refinement the contract sees an order by its state and an identity as admitted
once its consumed permit is no longer in hand: consuming is invisible, booking is where
the identity is admitted, a restart is `Forget`.

### The evidence chain (`EvidenceChainProofs`)

`EvidenceComplete`, `TransitionsRecorded`, `NoFalseAlarm` and `DeletionDetected`, from
`EvidenceInvariant`. A chain that verifies is a statement about its rows, and
`LossNeverLaundered` about rows that are no longer there, so the invariant has to say
what the remaining rows remember of them. `EventInv`: no MAC covers an alteration, and
an event that was not altered is, row for row, one that was written; so an event that
verifies was written. `BornInv`, of a chain born with its head: only the registration
starts a chain under the key, so a tail cannot pass for a whole chain, and a signed head
carries the number and the hash of the last event ever written. The latter is so only
while no head is put back, so `BornInv` leaves out the intents of `uncovered`; for them, as
for every other, `EventInv` and `commits` give what is left (`VerifiedIsOurs`): each event
that verifies says what one written to this intent said, and the store signed a head of
this length and tail at some time. In a chain that verifies
the hash of the n-th event covers n events, and of the events that were written only the
n-th does; the head says how many there are, so the chain is what was written
(`VerifiedIsComplete`). `UnharmedInv` is the other direction: what nobody touched verifies, agrees with
its head, and can be appended to by the keyed call in progress, although an upgrade, a
rebuild or another call came in between. `DeletionIsNotLegacy` follows from
the identity of the registration, which is not below `heads_since`.
TLC checks `EvidenceInv` on the run's instance (1 040 842 states).

### The Hyperliquid adapter (`HyperliquidVenueProofs`)

`AtMostOneOrder`, `SettlementTruth`, `OrphansExact` and `OrphanLimit`, from `AdapterInvariant`. The
verifier never states that there is no order, and `MayAttempt` asks for just that: an
intent has one call (`CallInv`), and a nonce that was executed is refused. An action
leaves after its permit was consumed and only for an orderable request, so the order's
cost is within the notional. Whatever the exchange executes within its contract costs no
more: the cost is a fold over the fills, which `AddedUpIsTotal` of `FiniteSums` turns
into a sum, and a sum of lots at the limit or better is at most lots times limit
(`SpentWithin`). `JudgeTruth`: status and fills are read at different times, but an
executed order does not change, every fill has lots, and so the fills that are shown add
up to the filled size only when they are all there (`SeenLots`); in no other case is a
record authoritative. `OrphanInv` adds to the orphans the threads that are past the
check: together they never exceed the limit less one plus `peak`, the most threads that
were ever past it at one time, since a thread passes only below the limit, and abandoning
a call moves one from the threads to the orphans. Without the check `peak` may stay 1
while one call after another is abandoned. TLC checks `AdapterInv` on the run's instance
(1 332 220 states).

### Only model-checked

* `EveryIntentEnds`: liveness under fairness, and the `ENABLED` it rests on, are beyond
  this prover.
* `ClosedForGood` and `TighteningCommits` are false: findings 1 and 2.

## 6. Correspondence with the code

`PROJECT.json` maps every definition to its lines. Where the code's names are usable
they are kept (`consume_execution_permit` is `ConsumePermit`,
`set_grant_status` is `SetGrantStatus`). Amounts are small integers, intents and
processes model values, times whole seconds. What is abstracted, in each module:
payloads, digests and signatures (taken as correctly bound), reason codes (only the
distinction between a resubmission block, a settlement dispute and anything else),
the content of evidence, and logging. What the implementation of the anchor file
does beyond raising and reading marks is covered by `Answers`: any call may fail.

## 7. Plan

Modelling is complete up to section 8. What could follow: the anchor file's own
read-modify-write and replacement, and the PostgreSQL store's locking, each shown to
give the atomic step the other modules assume.

Every safety property that a run checks and that holds is proved; what is left to TLC is
in section 5.

## 8. Not modelled

* Gates, attestations, outcomes, models, parsing and canonical encoding are pure
  functions of immutable data; the runtime model lets each of them pass or fail.
* The PostgreSQL store is the same set of methods over another database; the
  models' atomicity is the contract it has to meet, not something they show.
* Migrations run once, in one process. Opening a database with another anchor than
  it is bound to, and the anchor file's own format and locking, are left out.
* The command line calls the modelled store operations.
* Forced clearing of a live lease, and rows of older schemas.
* The in-process paper venue (`paper.py`) fills at once or raises, in one thread.
* The evaluation harnesses under `evals/` drive the code that is modelled.
