----------------------------- MODULE UsageLedger -----------------------------
(***************************************************************************)
(* The aggregate limits of the FAAR store: turnover and action velocity of *)
(* a grant id over trailing windows, the operators' exposure caps over     *)
(* scopes of grants, and the single use of risk snapshots.  Many intents   *)
(* reserve, submit, retry and settle at once; each store method is one     *)
(* BEGIN IMMEDIATE .. COMMIT transaction, but the time it is given was     *)
(* read earlier, by a process that then waited, so times do not arrive in  *)
(* order.  The cap table is anchored: a restored backup must not bring a   *)
(* looser cap back.                                                        *)
(*                                                                         *)
(* A refused call changes nothing and is no action.  Which intent may      *)
(* reserve, submit or settle when is IntentRuntime's subject.              *)
(***************************************************************************)
EXTENDS Integers, FiniteSetsExt

CONSTANTS
  Intents,         \* intent ids
  Grants,          \* grant ids
  Versions,        \* the versions of every grant
  Principals,      \* principals
  Global,          \* the 'global' scope
  Owner,           \* [Grants -> Principals]
  Turnover,        \* [Versions -> Nat], limits.max_daily_turnover_usd
  Actions,         \* [Versions -> Nat], limits.max_actions_per_window
  MaxAttempts,     \* limits.max_submission_attempts
  TurnoverWindow,  \* TURNOVER_WINDOW_SECONDS
  ActionWindow,    \* limits.action_window_seconds
  Amounts,         \* what an intent may ask for; 0 for a non-monetary primitive
  RiskStates,      \* state_version of the risk snapshots
  Caps,            \* caps an operator may set
  CapScopes,       \* scopes an operator caps
  Answers,         \* how the anchor may behave: "up", "readonly", "down"
  Lag,             \* how old the time of a call may be
  MaxClock,        \* bound on time
  MaxCapVersion,   \* bound on changes of the cap table
  MaxBackupRows    \* bound on the reservations in a backup

ASSUME UsageConstants ==
  /\ Answers \subseteq {"up", "readonly", "down"}
  /\ Owner \in [Grants -> Principals] /\ Global \notin Principals
  /\ CapScopes \subseteq {Global} \cup Principals
  /\ Turnover \in [Versions -> Nat] /\ Actions \in [Versions -> Nat]
  /\ Amounts \subseteq Nat /\ RiskStates \subseteq Nat /\ Caps \subseteq Nat \ {0}
  /\ {MaxAttempts, TurnoverWindow, ActionWindow, Lag, MaxClock, MaxCapVersion, MaxBackupRows}
       \subseteq Nat

VARIABLES
  usage,     \* usage_reservations
  attempts,  \* submission_attempts
  initial,   \* risk_claims
  rebound,   \* permit_risk_claims
  caps,      \* exposure_caps, with its version
  anchored,  \* the anchor's mark for the cap table, and the table it was told of
  backup,    \* the backup set
  clock,
  refused    \* history: a tightening was rolled back

tables == <<usage, attempts, initial, rebound, caps>>
vars == <<tables, anchored, backup, clock, refused>>

Scopes == {Global} \cup Principals
Uncapped == -1
NoRow == [status |-> "NONE"]

\* `allowed' is history: the caps in force when the reservation was made.
Row == [status : {"HELD", "COMMITTED", "RELEASED"}, grant : Grants, version : Versions,
        ts : Nat, amount : Amounts, submitted : BOOLEAN, allowed : [Scopes -> Caps \cup {Uncapped}]]
Attempt == [intent : Intents, number : 1 .. MaxAttempts, grant : Grants, version : Versions,
            at : Nat]
Claim == [intent : Intents, grant : Grants, version : Versions, risk : RiskStates]
CapTable == [cap : [Scopes -> Caps \cup {Uncapped}], version : Nat]

TypeOK ==
  /\ usage \in [Intents -> Row \cup {NoRow}]
  /\ attempts \subseteq Attempt
  /\ initial \subseteq Claim /\ rebound \subseteq Claim
  /\ caps \in CapTable /\ anchored \in CapTable
  /\ clock \in 0 .. MaxClock
  /\ refused \in BOOLEAN

NoCaps == [cap |-> [s \in Scopes |-> Uncapped], version |-> 0]

Init ==
  /\ usage = [i \in Intents |-> NoRow]
  /\ attempts = {} /\ initial = {} /\ rebound = {}
  /\ caps = NoCaps /\ anchored = NoCaps
  /\ backup = tables
  /\ clock = 0
  /\ refused = FALSE

-----------------------------------------------------------------------------
(* Reading the tables *)

Now == {t \in clock - Lag .. clock : t >= 0}

Active == {i \in Intents : usage[i].status \in {"HELD", "COMMITTED"}}

Held(i) == usage[i].status = "HELD"

InScope(s, g) == s = Global \/ s = Owner[g]

Spent(rows) == MapThenSumSet(LAMBDA i : usage[i].amount, rows)

\* Slip: only the rows of the version that asks are counted.
GrantTurnoverOfVersion(g, v, since) ==
  Spent({i \in Active : usage[i].grant = g /\ usage[i].version = v /\ usage[i].ts >= since})

\* Every version of the grant counts.
GrantTurnover(g, v, since) ==
  Spent({i \in Active : usage[i].grant = g /\ usage[i].ts >= since})

\* Slip: a window that begins after its first instant.
ScopeTurnoverLate(s, since) ==
  Spent({i \in Active : InScope(s, usage[i].grant) /\ usage[i].ts > since})

ScopeTurnover(s, since) ==
  Spent({i \in Active : InScope(s, usage[i].grant) /\ usage[i].ts >= since})

Attempted(g, since) == {a \in attempts : a.grant = g /\ a.at >= since}
Pending(g, since) ==
  {i \in Active : usage[i].grant = g /\ usage[i].ts >= since /\ ~usage[i].submitted}

\* Slip: the provisional slots of reservations are not counted.
VelocityOfAttempts(g, since, except) == Cardinality(Attempted(g, since))

\* Attempts and reservations that have not begun one, save those of `except'.
Velocity(g, since, except) ==
  Cardinality(Attempted(g, since)) + Cardinality(Pending(g, since) \ except)

OfVersion(claims, g, v) == {c \in claims : c.grant = g /\ c.version = v}

\* Slip: nobody asks whose claim it is.
FreshForAnyone(i, g, v, risk, claims) ==
  \A c \in OfVersion(initial \cup rebound, g, v) : c.risk <= risk

\* No later risk state was claimed in either ledger, and this one by nobody else
\* in `claims'.
Fresh(i, g, v, risk, claims) ==
  /\ \A c \in OfVersion(initial \cup rebound, g, v) : c.risk <= risk
  /\ \A c \in OfVersion(claims, g, v) : c.risk = risk => c.intent = i

Regressed == caps.version < anchored.version

-----------------------------------------------------------------------------
(* Intents *)

\* reserve_usage: all limits and the claim of the risk state in one transaction.
ReserveUsage(i, g, v, amount, risk, now) ==
  /\ usage[i] = NoRow
  /\ Fresh(i, g, v, risk, initial \cup rebound)
  /\ GrantTurnover(g, v, now - TurnoverWindow) + amount <= Turnover[v]
  /\ amount > 0 =>
       /\ ~Regressed
       /\ \A s \in Scopes : InScope(s, g) /\ caps.cap[s] # Uncapped =>
            ScopeTurnover(s, now - TurnoverWindow) + amount <= caps.cap[s]
  /\ Velocity(g, now - ActionWindow, {}) + 1 <= Actions[v]
  /\ initial' = initial \cup {[intent |-> i, grant |-> g, version |-> v, risk |-> risk]}
  /\ usage' = [usage EXCEPT ![i] =
       [status |-> "HELD", grant |-> g, version |-> v, ts |-> now, amount |-> amount,
        submitted |-> FALSE, allowed |-> caps.cap]]
  /\ UNCHANGED <<attempts, rebound, caps, anchored, backup, clock, refused>>

\* claim_permit_risk_state, for an attempt that has begun: a retry may bind a fresher
\* snapshot.  What the intent bound itself before is accepted as it stands, however old
\* it has become; the age is asked of a new claim only.
ClaimPermitRiskState(i, risk) ==
  LET g == usage[i].grant
      v == usage[i].version
      claim == [intent |-> i, grant |-> g, version |-> v, risk |-> risk]
  IN
  /\ Held(i) /\ usage[i].submitted
  /\ \/ claim \in rebound /\ UNCHANGED rebound
     \/ Fresh(i, g, v, risk, rebound) /\ rebound' = rebound \cup {claim}
  /\ UNCHANGED <<usage, attempts, initial, caps, anchored, backup, clock, refused>>

\* Slip: one attempt too many.
BeginSubmissionOneMore(i, now) ==
  LET g == usage[i].grant
      count == Cardinality({a \in attempts : a.intent = i})
  IN
  /\ Held(i)
  /\ count <= MaxAttempts
  /\ Velocity(g, now - ActionWindow, {i}) + 1 <= Actions[usage[i].version]
  /\ attempts' = attempts \cup {[intent |-> i, number |-> count + 1, grant |-> g,
                                 version |-> usage[i].version, at |-> now]}
  /\ usage' = [usage EXCEPT ![i].submitted = TRUE]
  /\ UNCHANGED <<initial, rebound, caps, anchored, backup, clock, refused>>

\* begin_submission: the provisional slot becomes an attempt, a retry needs another
\* slot; the limit is the one the reservation was made with.  The method asks for a
\* reservation only; that it is still held is the runtime's doing: an intent it submits
\* is RESERVED or RECONCILING and holds its usage (RuntimeInv of IntentRuntime).
BeginSubmission(i, now) ==
  LET g == usage[i].grant
      count == Cardinality({a \in attempts : a.intent = i})
  IN
  /\ Held(i)
  /\ count < MaxAttempts
  /\ Velocity(g, now - ActionWindow, {i}) + 1 <= Actions[usage[i].version]
  /\ attempts' = attempts \cup {[intent |-> i, number |-> count + 1, grant |-> g,
                                 version |-> usage[i].version, at |-> now]}
  /\ usage' = [usage EXCEPT ![i].submitted = TRUE]
  /\ UNCHANGED <<initial, rebound, caps, anchored, backup, clock, refused>>

CommitUsage(i) ==
  /\ Held(i)
  /\ usage' = [usage EXCEPT ![i].status = "COMMITTED"]
  /\ UNCHANGED <<attempts, initial, rebound, caps, anchored, backup, clock, refused>>

ReleaseUsage(i) ==
  /\ Held(i)
  /\ usage' = [usage EXCEPT ![i].status = "RELEASED"]
  /\ UNCHANGED <<attempts, initial, rebound, caps, anchored, backup, clock, refused>>

-----------------------------------------------------------------------------
(* Operators *)

Tightens(s, cap) == cap # Uncapped /\ (caps.cap[s] = Uncapped \/ cap < caps.cap[s])

\* Slip: the version is the datastore's next, the mark is not consulted.
NextOfDatastore == caps.version + 1

\* Past both the datastore and the anchor.
NextVersion ==
  (IF caps.version > anchored.version THEN caps.version ELSE anchored.version) + 1

\* The anchor answers and records ("up"), or answers only ("readonly"): a tightening
\* then commits all the same.
SetExposureCap(s, cap, answer) ==
  LET next == [cap |-> [caps.cap EXCEPT ![s] = cap], version |-> NextVersion] IN
  /\ answer = "readonly" => Tightens(s, cap)
  /\ next.version <= MaxCapVersion
  /\ caps' = next
  /\ anchored' = IF answer = "up" THEN next ELSE anchored
  /\ UNCHANGED <<usage, attempts, initial, rebound, backup, clock, refused>>

\* The anchor does not answer, or does not record a loosening: rolled back.
SetExposureCapFails(s, cap, answer) ==
  /\ answer = "down" \/ ~Tightens(s, cap)
  /\ refused' = (refused \/ Tightens(s, cap))
  /\ UNCHANGED <<tables, anchored, backup, clock>>

\* Taken while the anchor's mark is not behind.
Backup ==
  /\ anchored.version >= caps.version
  /\ Cardinality({i \in Intents : usage[i] # NoRow}) <= MaxBackupRows
  /\ backup' = tables
  /\ UNCHANGED <<tables, anchored, clock, refused>>

Restore ==
  /\ usage' = backup[1] /\ attempts' = backup[2] /\ initial' = backup[3]
  /\ rebound' = backup[4] /\ caps' = backup[5]
  /\ UNCHANGED <<anchored, backup, clock, refused>>

Tick ==
  /\ clock < MaxClock
  /\ clock' = clock + 1
  /\ UNCHANGED <<tables, anchored, backup, refused>>

IntentStep(i) ==
  \/ \E g \in Grants, v \in Versions, amount \in Amounts, risk \in RiskStates, now \in Now :
       ReserveUsage(i, g, v, amount, risk, now)
  \/ \E risk \in RiskStates : ClaimPermitRiskState(i, risk)
  \/ \E now \in Now : BeginSubmission(i, now)
  \/ CommitUsage(i) \/ ReleaseUsage(i)

OperatorStep ==
  \/ \E s \in CapScopes, cap \in Caps \cup {Uncapped} :
       \/ \E answer \in Answers \ {"down"} : SetExposureCap(s, cap, answer)
       \/ \E answer \in Answers \ {"up"} : SetExposureCapFails(s, cap, answer)
  \/ Backup \/ Restore

Next == (\E i \in Intents : IntentStep(i)) \/ OperatorStep \/ Tick

Spec == Init /\ [][Next]_vars

-----------------------------------------------------------------------------
(* Properties *)

\* The active reservations of a window that ends at t.
InWindow(t) == {i \in Active : usage[i].ts \in t - TurnoverWindow .. t}

\* I-13: in no window of the turnover length do the held and committed reservations
\* of a grant id exceed the limit of the most generous version among them, although
\* times arrive out of order and versions change.
TurnoverBounded ==
  \A g \in Grants, t \in 0 .. MaxClock :
    LET rows == {i \in InWindow(t) : usage[i].grant = g} IN
    rows # {} => \E i \in rows : Spent(rows) <= Turnover[usage[i].version]

\* I-13: in no window of the action length do the venue attempts, retries included,
\* and the provisional slots of reservations together exceed max_actions_per_window:
\* an admitted reservation keeps its slot against the retries of others.
VelocityBounded ==
  \A g \in Grants, t \in 0 .. MaxClock :
    LET tries == {a \in attempts : a.grant = g /\ a.at \in t - ActionWindow .. t}
        slots == {i \in Active : /\ usage[i].grant = g /\ ~usage[i].submitted
                                 /\ usage[i].ts \in t - ActionWindow .. t}
    IN
    tries # {} \/ slots # {} =>
      \E v \in {a.version : a \in tries} \cup {usage[i].version : i \in slots} :
        Cardinality(tries) + Cardinality(slots) <= Actions[v]

\* I-37: in no window does the turnover of a scope exceed the loosest cap under
\* which one of its monetary reservations was admitted.
ExposureCapped ==
  \A s \in Scopes, t \in 0 .. MaxClock :
    LET rows == {i \in InWindow(t) : InScope(s, usage[i].grant) /\ usage[i].amount > 0} IN
    rows # {} => \E i \in rows : usage[i].allowed[s] = Uncapped \/ Spent(rows) <= usage[i].allowed[s]

\* I-14: a risk state is initially claimed by one intent and bound to permits of one
\* intent.
RiskSingleUse ==
  \A claims \in {initial, rebound} : \A c, d \in claims :
    (c.grant = d.grant /\ c.version = d.version /\ c.risk = d.risk) => c.intent = d.intent

\* "A restore cannot silently reinstate a looser cap": money is reserved only under
\* the table the anchor was last told of, or one committed after it.
NoStaleCaps ==
  [][\A i \in Intents : usage[i] = NoRow /\ usage'[i] # NoRow /\ usage'[i].amount > 0 =>
       caps.version > anchored.version \/ caps = anchored]_vars

\* I-33: a stop-direction change, cap tightening among them, commits "even when the
\* anchor is unreachable or unreadable".
TighteningCommits == ~refused

-----------------------------------------------------------------------------
(* The inductive invariant.  A row that ends takes its limit with it, so each  *)
(* bound is stated of every part of a window, and of the tables of a backup as *)
(* of those of the datastore.                                                  *)

SpentIn(u, rows) == MapThenSumSet(LAMBDA i : u[i].amount, rows)

Windowed(u, t, width) ==
  {i \in Intents : u[i].status \in {"HELD", "COMMITTED"} /\ u[i].ts \in t - width .. t}

TurnoverKept(u) ==
  \A g \in Grants, t \in 0 .. MaxClock :
    \A S \in SUBSET {i \in Windowed(u, t, TurnoverWindow) : u[i].grant = g} :
      S # {} => \E i \in S : SpentIn(u, S) <= Turnover[u[i].version]

ExposureKept(u) ==
  \A s \in Scopes, t \in 0 .. MaxClock :
    \A S \in SUBSET {i \in Windowed(u, t, TurnoverWindow) : InScope(s, u[i].grant) /\ u[i].amount > 0} :
      S # {} => \E i \in S : u[i].allowed[s] = Uncapped \/ SpentIn(u, S) <= u[i].allowed[s]

TriesIn(a, g, t) == {x \in a : x.grant = g /\ x.at \in t - ActionWindow .. t}
SlotsIn(u, g, t) == {i \in Windowed(u, t, ActionWindow) : u[i].grant = g /\ ~u[i].submitted}

VelocityKept(u, a) ==
  \A g \in Grants, t \in 0 .. MaxClock :
    \A A \in SUBSET TriesIn(a, g, t), P \in SUBSET SlotsIn(u, g, t) :
      A # {} \/ P # {} =>
        \/ \E x \in A : Cardinality(A) + Cardinality(P) <= Actions[x.version]
        \/ \E i \in P : Cardinality(A) + Cardinality(P) <= Actions[u[i].version]

SingleUse(claims) ==
  \A c, d \in claims :
    (c.grant = d.grant /\ c.version = d.version /\ c.risk = d.risk) => c.intent = d.intent

TablesInv(u, a, ini, reb, c) ==
  /\ u \in [Intents -> Row \cup {NoRow}] /\ IsFiniteSet({i \in Intents : u[i] # NoRow})
  /\ a \subseteq Attempt /\ IsFiniteSet(a)
  /\ ini \subseteq Claim /\ reb \subseteq Claim
  /\ c \in CapTable
  /\ TurnoverKept(u) /\ ExposureKept(u) /\ VelocityKept(u, a)
  /\ SingleUse(ini) /\ SingleUse(reb)

\* A backup holds nothing the datastore does not, and its cap table is not newer than
\* the anchor's mark; two cap tables of one version are one table.
UsageInv ==
  /\ TypeOK
  /\ TablesInv(usage, attempts, initial, rebound, caps)
  /\ TablesInv(backup[1], backup[2], backup[3], backup[4], backup[5])
  /\ \A i \in Intents : backup[1][i] # NoRow => usage[i] # NoRow
  /\ backup[3] \subseteq initial /\ backup[4] \subseteq rebound
  /\ caps.version = anchored.version => caps = anchored
  /\ backup[5].version <= anchored.version
  /\ backup[5].version = anchored.version => backup[5] = anchored

=============================================================================
