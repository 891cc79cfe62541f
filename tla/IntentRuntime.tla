---------------------------- MODULE IntentRuntime ----------------------------
(***************************************************************************)
(* FAARRuntime: the execution of an intent, from registration to a         *)
(* terminal state, by several runtime processes over one store, against a  *)
(* venue that acts on the requests it was sent whenever it likes and a     *)
(* settlement verifier that is the only source of economic truth.          *)
(*                                                                         *)
(* A runtime process works on one call (process or reconcile) at a time;   *)
(* job[w].pc says which store transaction or external call comes next.     *)
(* Every store transaction is one action, so a crash, an operator command, *)
(* a venue step or a clock tick may come between any two of them.  The     *)
(* ledger of grants and permits is PermitLedger's, and its actions are     *)
(* conjoined to the runtime's where the runtime performs them.             *)
(*                                                                         *)
(* Policy outcomes (attestations, gates, budget and velocity limits, the   *)
(* orphan limit) are free choices: any of them may refuse at any time.     *)
(***************************************************************************)
EXTENDS PermitLedger

CONSTANTS
  Configured,    \* runtimes that have an adapter and a verifier for the venue
  MaxAttempts,   \* grant.limits.max_submission_attempts
  Size,          \* the authorized amount of every intent
  Primitive,     \* "PAY", "TRADE" (the other monetary ones) or "CONTROL"
  Rivals,        \* orders that other intents of the store may settle on
  Lies,          \* settlement records the verifier may return besides true ones
  MaxFaults      \* bound on crashes and store outages

States == {"PROPOSED", "AUTHORIZED", "RESERVED", "SUBMITTED", "UNKNOWN", "RECONCILING",
           "CONFIRMED", "FINALIZED", "DENIED", "DEFERRED", "STOPPED", "FAILED_SAFE"}
Terminal == {"FINALIZED", "DENIED", "DEFERRED", "STOPPED", "FAILED_SAFE"}

\* Effect identities: the venue's order for intent i is named i; "foreign" is
\* some order of nobody, "none" is NULL and "bad" a malformed identity.
EffectIds == Intents \cup {"foreign", "none", "bad"}
None == -1                                    \* NULL, for times and amounts
Amounts == None .. Size + 1

Record == [status : {"NONE", "UNKNOWN", "CONFIRMED", "PARTIALLY_FILLED", "FINALIZED",
                     "CANCELLED", "CONTRADICTORY", "MALFORMED"},
           auth : BOOLEAN, bound : BOOLEAN, effect : EffectIds, amount : Amounts]

ASSUME RuntimeConstants ==
  /\ Configured \subseteq Issuers
  /\ MaxAttempts \in Nat
  /\ Size \in Nat \ {0}
  /\ Primitive \in {"PAY", "TRADE", "CONTROL"}
  /\ Rivals \subseteq {"foreign"}
  /\ Lies \subseteq Record
  /\ MaxFaults \in Nat
  /\ Intents \cap {"foreign", "none", "bad"} = {}
  /\ Issuers \cap {"FREE", "DEAD"} = {}

VARIABLES
  row,       \* the intents table
  usage,     \* usage_reservations.status, "NONE" without a row
  lease,     \* intent_leases: "FREE", the owning process, or "DEAD" (owner died)
  job,       \* what each runtime process is doing
  wire,      \* permits handed to the adapter: the venue may act on them at any time
  order,     \* the venue's book
  faults,    \* how many faults there were
  rejected,  \* history: an adapter reported a deterministic failure of the intent
  taken      \* effect identities in the rows of other intents

runtimeVars == <<row, usage, lease, job, wire, order, faults, rejected, taken>>
vars == <<ledgerVars, runtimeVars>>

\* `block' says that reason_codes hold a resubmission block, `disputed' that the
\* intent was STOPPED for a settlement-derived reason, `amb' is ambiguity_until.
Row == [state : States \cup {"ABSENT"}, effect : EffectIds, fill : Amounts, count : Nat,
        amb : Nat \cup {None}, block : BOOLEAN, disputed : BOOLEAN]
NewRow == [state |-> "ABSENT", effect |-> "none", fill |-> None, count |-> 0,
           amb |-> None, block |-> FALSE, disputed |-> FALSE]

PCs == {"acquire", "process", "gate", "recover", "reserve", "authorize", "submit", "begin",
        "issue", "recheck", "record", "send", "await", "reconcile", "verify", "settle",
        "count", "cancelled", "stop", "stopped", "exit"}

\* `fresh': signed authority and risk were presented.  `block': the _block_reason
\* argument of reconcile; resubmission is allowed exactly without one.  `stop':
\* how _stop_execution_state was called: with release_usage, without it, or
\* without it for a settlement-derived reason.
Job == [pc : PCs, call : {"process", "reconcile"}, intent : Intents, fresh : BOOLEAN,
        block : {"none", "failure", "status"}, stop : {"none", "release", "held", "disputed"},
        now : Nat, record : Record]
NoJob == [pc |-> "idle"]

\* The verifier does not know, does not answer, or raised.
Silence == [status |-> "UNKNOWN", auth |-> FALSE, bound |-> FALSE, effect |-> "none",
            amount |-> None]

\* An open order has something left to fill.
Order == {o \in [status : {"none", "open", "filled", "cancelled"}, fill : 0 .. Size] :
            o.status = "open" => o.fill < Size}

RuntimeTypeOK ==
  /\ row \in [Intents -> Row]
  /\ usage \in [Intents -> {"NONE", "HELD", "COMMITTED", "RELEASED"}]
  /\ lease \in [Intents -> Issuers \cup {"FREE", "DEAD"}]
  /\ job \in [Issuers -> Job \cup {NoJob}]
  /\ wire \subseteq DOMAIN permits
  /\ order \in [Intents -> Order]
  /\ faults \in Nat
  /\ rejected \subseteq Intents
  /\ taken \subseteq Rivals

TypeOK == LedgerTypeOK /\ RuntimeTypeOK

RuntimeInit ==
  /\ row = [i \in Intents |-> NewRow]
  /\ usage = [i \in Intents |-> "NONE"]
  /\ lease = [i \in Intents |-> "FREE"]
  /\ job = [w \in Issuers |-> NoJob]
  /\ wire = {}
  /\ order = [i \in Intents |-> [status |-> "none", fill |-> 0]]
  /\ faults = 0
  /\ rejected = {}
  /\ taken = {}

Init == LedgerInit /\ RuntimeInit

-----------------------------------------------------------------------------
(* Building blocks *)

Call(i, name, fresh) ==
  [pc |-> "acquire", call |-> name, intent |-> i, fresh |-> fresh, block |-> "none",
   stop |-> "none", now |-> 0, record |-> Silence]

At(w, pc) == job[w].pc = pc
TheIntent(w) == job[w].intent
Goto(w, pc) == job' = [job EXCEPT ![w].pc = pc]

\* The call is over but for its lease.
Leave(w) == job' = [job EXCEPT ![w] = [Call(TheIntent(w), @.call, @.fresh) EXCEPT !.pc = "exit"]]

\* reserve_usage keeps a row it finds; commit and release touch HELD rows only.
Released(i) == [usage EXCEPT ![i] = IF @ = "HELD" THEN "RELEASED" ELSE @]
Committed(i) == [usage EXCEPT ![i] = IF @ = "HELD" THEN "COMMITTED" ELSE @]

\* A transition replaces reason_codes, and with them the block it may carry.
Moved(i, state, block) == [row EXCEPT ![i].state = state, ![i].block = block]

\* Slip: the budget is left to a later statement.
CloseHeld(w, state, block) ==
  /\ row' = Moved(TheIntent(w), state, block)
  /\ UNCHANGED usage
  /\ Leave(w)

\* The terminal transitions that release the budget in the same transaction.
CloseReleased(w, state, block) ==
  /\ row' = Moved(TheIntent(w), state, block)
  /\ usage' = Released(TheIntent(w))
  /\ Leave(w)

\* _stop_execution_state, called with its release_usage argument.
StopWith(w, how) ==
  job' = [job EXCEPT ![w].pc = "stop", ![w].stop = how, ![w].record = Silence]

NoRuntimeStep == UNCHANGED <<lease, wire, order, faults, rejected, taken>>
RowKept == UNCHANGED <<row, usage>>
Quiet == NoRuntimeStep /\ UNCHANGED ledgerVars

-----------------------------------------------------------------------------
(* Calls: process(), reconcile() and the lease *)

\* process(): the intent is registered before its lease is taken.
Register(w, i) ==
  /\ job[w] = NoJob
  /\ row[i].state \notin Terminal
  /\ row' = IF row[i].state = "ABSENT" THEN Moved(i, "PROPOSED", FALSE) ELSE row
  /\ job' = [job EXCEPT ![w] = Call(i, "process", TRUE)]
  /\ UNCHANGED usage /\ Quiet

\* process() of a terminal intent: no lease, only _release_orphaned_hold.
ReplayTerminal(i) ==
  /\ row[i].state \in Terminal
  /\ usage' = IF row[i].state = "FINALIZED" THEN Committed(i)
              ELSE IF row[i].count = 0 /\ ~row[i].disputed THEN Released(i) ELSE usage
  /\ UNCHANGED <<row, job>> /\ Quiet

StartReconcile(w, i, fresh) ==
  /\ job[w] = NoJob
  /\ row[i].state # "ABSENT"
  /\ job' = [job EXCEPT ![w] = Call(i, "reconcile", fresh)]
  /\ RowKept /\ Quiet

\* Slip: a lease held by someone else is taken over.
TakeOverLease(w) ==
  /\ At(w, "acquire")
  /\ lease' = [lease EXCEPT ![TheIntent(w)] = w]
  /\ Goto(w, job[w].call)
  /\ RowKept /\ UNCHANGED <<wire, order, faults, rejected, taken>> /\ UNCHANGED ledgerVars

\* Slip: the owner of a lease cannot take it again.
AcquireFreeLease(w) ==
  /\ At(w, "acquire")
  /\ lease[TheIntent(w)] = "FREE"
  /\ lease' = [lease EXCEPT ![TheIntent(w)] = w]
  /\ Goto(w, job[w].call)
  /\ RowKept /\ UNCHANGED <<wire, order, faults, rejected, taken>> /\ UNCHANGED ledgerVars

\* intent_guard: the owner may take its own lease again.
AcquireLease(w) ==
  /\ At(w, "acquire")
  /\ lease[TheIntent(w)] \in {"FREE", w}
  /\ lease' = [lease EXCEPT ![TheIntent(w)] = w]
  /\ Goto(w, job[w].call)
  /\ RowKept /\ UNCHANGED <<wire, order, faults, rejected, taken>> /\ UNCHANGED ledgerVars

IntentBusy(w) ==
  /\ At(w, "acquire")
  /\ lease[TheIntent(w)] \notin {"FREE", w}
  /\ job' = [job EXCEPT ![w] = NoJob]
  /\ RowKept /\ Quiet

ReleaseLease(w) ==
  /\ At(w, "exit")
  /\ lease' = [lease EXCEPT ![TheIntent(w)] = "FREE"]
  /\ job' = [job EXCEPT ![w] = NoJob]
  /\ RowKept /\ UNCHANGED <<wire, order, faults, rejected, taken>> /\ UNCHANGED ledgerVars

-----------------------------------------------------------------------------
(* _process_unlocked *)

\* A durable failure block outranks the status block.
ReconcileWith(w, otherwise) ==
  job' = [job EXCEPT ![w].pc = "reconcile",
                     ![w].block = IF row[TheIntent(w)].block THEN "failure" ELSE otherwise]

\* The caller presents a grant that is not the provisioned envelope, or (for an
\* intent in flight) not the intent's own.
PresentWrongGrant(w) ==
  /\ At(w, job[w].call)
  /\ IF job[w].call = "process" /\ row[TheIntent(w)].state = "PROPOSED"
       THEN CloseReleased(w, "STOPPED", FALSE)
       ELSE Leave(w) /\ RowKept
  /\ Quiet

ProcessFinished(w) ==
  /\ At(w, "process")
  /\ row[TheIntent(w)].state \in Terminal
  /\ Leave(w)
  /\ RowKept /\ Quiet

ProcessInactive(w) ==
  LET state == row[TheIntent(w)].state IN
  /\ At(w, "process")
  /\ state \notin Terminal
  /\ ~EffectivelyActive(GrantOf[TheIntent(w)])
  /\ IF state \in {"PROPOSED", "AUTHORIZED"}
       THEN CloseReleased(w, "STOPPED", FALSE)
       ELSE ReconcileWith(w, "status") /\ RowKept
  /\ Quiet

ProcessActive(w) ==
  LET state == row[TheIntent(w)].state IN
  /\ At(w, "process")
  /\ state \notin Terminal
  /\ EffectivelyActive(GrantOf[TheIntent(w)])
  /\ CASE state = "PROPOSED"   -> Goto(w, "gate")
       [] state = "AUTHORIZED" -> Goto(w, "recover")
       [] OTHER                -> ReconcileWith(w, "none")
  /\ RowKept /\ Quiet

\* A gate or an attestation refuses, or the venue has no adapter here.
GateRefuses(w, verdict) ==
  /\ At(w, "gate")
  /\ verdict \in {"DENIED", "DEFERRED", "STOPPED"}
  /\ CloseReleased(w, verdict, FALSE)
  /\ Quiet

RecoveryRefused(w) ==
  /\ At(w, "recover")
  /\ CloseReleased(w, "STOPPED", FALSE)
  /\ Quiet

\* reserve_usage: a row left by an earlier, interrupted call is found and kept.
ReserveUsage(w) ==
  /\ At(w, "gate")
  /\ w \in Configured
  /\ usage' = [usage EXCEPT ![TheIntent(w)] = IF @ = "NONE" THEN "HELD" ELSE @]
  /\ Goto(w, "authorize")
  /\ UNCHANGED row /\ Quiet

ReservationDenied(w) ==
  /\ At(w, "gate")
  /\ w \in Configured
  /\ usage[TheIntent(w)] = "NONE"
  /\ row' = Moved(TheIntent(w), "DEFERRED", FALSE)
  /\ Leave(w)
  /\ UNCHANGED usage /\ Quiet

Authorize(w) ==
  /\ At(w, "authorize")
  /\ row' = Moved(TheIntent(w), "AUTHORIZED", FALSE)
  /\ Goto(w, "reserve")
  /\ UNCHANGED usage /\ Quiet

\* AUTHORIZED -> RESERVED, on the fresh and on the recovered path.
Reserve(w) ==
  /\ At(w, "reserve") \/ At(w, "recover")
  /\ row' = Moved(TheIntent(w), "RESERVED", FALSE)
  /\ Goto(w, "submit")
  /\ UNCHANGED usage /\ Quiet

-----------------------------------------------------------------------------
(* _submit *)

\* The last checks before a submission: the clock is read, then the gates and
\* the grant's status are evaluated again.  Any failure stops and releases.
Submit(w) ==
  /\ At(w, "submit")
  /\ w \in Configured
  /\ EffectivelyActive(GrantOf[TheIntent(w)])
  /\ clock <= Deadline[TheIntent(w)]
  /\ job' = [job EXCEPT ![w].pc = "begin", ![w].now = clock]
  /\ RowKept /\ Quiet

SubmitRefused(w) ==
  /\ At(w, "submit") \/ At(w, "begin")
  /\ StopWith(w, "release")
  /\ RowKept /\ Quiet

\* begin_submission: the attempt is counted, the row's reason codes and its
\* ambiguity window are reset.
BeginSubmission(w) ==
  LET i == TheIntent(w) IN
  /\ At(w, "begin")
  /\ row[i].state \in {"RESERVED", "RECONCILING"}
  /\ row[i].count < MaxAttempts
  /\ row' = [row EXCEPT ![i].state = "SUBMITTED", ![i].count = @ + 1,
                        ![i].block = FALSE, ![i].amb = None]
  /\ Goto(w, "issue")
  /\ UNCHANGED usage /\ Quiet

\* ConstrainedPermitAuthority.issue, in the transactions of PermitLedger.
IssueFence(w) ==
  LET i == TheIntent(w) IN
  /\ At(w, "issue")
  /\ usage[i] = "HELD"
  /\ \E exp \in job[w].now .. Deadline[i] : AllocateFence(w, i, job[w].now, exp)
  /\ Goto(w, "recheck")
  /\ RowKept /\ NoRuntimeStep

IssueRecheck(w) ==
  /\ At(w, "recheck")
  /\ Recheck(w)
  /\ Goto(w, "record")
  /\ RowKept /\ NoRuntimeStep

\* The permit and the intent's ambiguity window are one transaction.
IssueRecord(w) ==
  LET i == TheIntent(w) IN
  /\ At(w, "record")
  /\ IF Live(i, job[w].now) = {}
       THEN /\ RecordPermit(w)
            /\ row' = [row EXCEPT ![i].amb = ticket[w].expires]
            /\ Goto(w, "send")
       ELSE /\ AbandonIssue(w)
            /\ row' = Moved(i, "UNKNOWN", FALSE)
            /\ Goto(w, "reconcile")
  /\ UNCHANGED usage /\ NoRuntimeStep

\* issue() raises before anything left the process: fail safe.
IssueRefused(w) ==
  /\ job[w].pc \in {"issue", "recheck", "record"}
  /\ IF ticket[w] = NoTicket THEN UNCHANGED ledgerVars ELSE AbandonIssue(w)
  /\ CloseReleased(w, "FAILED_SAFE", FALSE)
  /\ NoRuntimeStep

LastPermit(i) ==
  CHOOSE r \in DOMAIN permits : permits[r].intent = i /\ ~Superseded(r)

\* adapter.execute starts: from here the venue may act on the request.
Send(w) ==
  /\ At(w, "send")
  /\ wire' = wire \cup {LastPermit(TheIntent(w))}
  /\ Goto(w, "await")
  /\ RowKept /\ UNCHANGED <<lease, order, faults, rejected, taken>> /\ UNCHANGED ledgerVars

\* A receipt, an ambiguous outcome, a deadline or an exception: none of them is
\* evidence of what the venue did.
AdapterReturns(w) ==
  /\ At(w, "await")
  /\ row' = Moved(TheIntent(w), "UNKNOWN", FALSE)
  /\ Goto(w, "reconcile")
  /\ UNCHANGED usage /\ Quiet

AdapterRejects(w) ==
  /\ At(w, "await")
  /\ row' = Moved(TheIntent(w), "UNKNOWN", TRUE)
  /\ job' = [job EXCEPT ![w].pc = "reconcile", ![w].block = "failure"]
  /\ rejected' = rejected \cup {TheIntent(w)}
  /\ UNCHANGED <<usage, lease, wire, order, faults, taken>> /\ UNCHANGED ledgerVars

-----------------------------------------------------------------------------
(* _reconcile_unlocked *)

\* The time of the decision is read before the verifier is asked.  The durable
\* block binds every entry point and travels with the row through RECONCILING.
Reconcile(w) ==
  LET i == TheIntent(w) IN
  /\ At(w, "reconcile")
  /\ w \in Configured
  /\ row[i].state \in {"RESERVED", "SUBMITTED", "UNKNOWN", "RECONCILING", "CONFIRMED"}
  /\ row' = Moved(i, "RECONCILING", row[i].block)
  /\ job' = [job EXCEPT ![w].pc = "verify", ![w].now = clock,
                        ![w].block = IF @ = "none" /\ row[i].block THEN "failure" ELSE @]
  /\ UNCHANGED usage /\ Quiet

ReconcileNotApplicable(w) ==
  /\ At(w, "reconcile")
  /\ \/ row[TheIntent(w)].state \in Terminal
     \/ row[TheIntent(w)].state \in {"PROPOSED", "AUTHORIZED"} /\ w \in Configured
  /\ Leave(w)
  /\ RowKept /\ Quiet

\* Slip: the stop releases whatever the state.
UnconfiguredReleases(w) ==
  /\ At(w, "reconcile")
  /\ w \notin Configured
  /\ row[TheIntent(w)].state \notin Terminal
  /\ StopWith(w, "release")
  /\ RowKept /\ Quiet

ReconcileUnconfigured(w) ==
  LET state == row[TheIntent(w)].state IN
  /\ At(w, "reconcile")
  /\ w \notin Configured
  /\ state \notin Terminal
  /\ StopWith(w, IF state \in {"PROPOSED", "AUTHORIZED", "RESERVED"} THEN "release" ELSE "held")
  /\ RowKept /\ Quiet

\* The external read.  What it returns is acted on later, when the venue may
\* have moved on.
Report(i, status) ==
  [status |-> status, auth |-> TRUE, bound |-> TRUE, effect |-> i, amount |-> order[i].fill]

Absence == [status |-> "NONE", auth |-> TRUE, bound |-> TRUE, effect |-> "none", amount |-> None]

Truth(i) ==
  CASE order[i].status = "none"      -> {Absence}
    [] order[i].status = "open"      -> {Report(i, "PARTIALLY_FILLED")}
    [] order[i].status = "filled"    -> {Report(i, "CONFIRMED"), Report(i, "FINALIZED")}
    [] order[i].status = "cancelled" -> {Report(i, "CANCELLED")}

Verify(w, rec) ==
  /\ At(w, "verify")
  /\ rec \in Truth(TheIntent(w)) \cup Lies \cup {Silence}
  /\ job' = [job EXCEPT ![w].pc = "settle", ![w].record = rec]
  /\ RowKept /\ Quiet

Reporting == {"CONFIRMED", "FINALIZED", "PARTIALLY_FILLED", "CANCELLED"}

\* A non-authoritative observation carries no weight in either direction.
Weak(rec) == ~rec.auth /\ rec.status \in Reporting \cup {"NONE"}

\* Slip: the identity is not compared with the recorded one.
EffectUncompared(i, rec) ==
  /\ rec.auth
  /\ \/ ~rec.bound
     \/ rec.effect = "bad"
     \/ rec.status \in Reporting /\ rec.effect = "none"
     \/ row[i].effect # "none" /\ rec.status = "NONE"

EffectDisputed(i, rec) ==
  /\ rec.auth
  /\ \/ ~rec.bound
     \/ rec.effect = "bad"
     \/ rec.status \in Reporting /\ rec.effect = "none"
     \/ /\ row[i].effect # "none"
        /\ rec.status = "NONE" \/ rec.effect \notin {"none", row[i].effect}

AmountDisputed(rec) ==
  /\ Primitive # "CONTROL"
  /\ CASE rec.status = "CANCELLED" ->
            \/ rec.amount > Size
            \/ Primitive = "PAY" /\ rec.amount \notin {None, 0, Size}
       [] rec.status = "PARTIALLY_FILLED" ->
            rec.amount = None \/ rec.amount > Size \/ Primitive = "PAY"
       [] rec.status \in {"CONFIRMED", "FINALIZED"} ->
            \/ rec.amount \in {None, 0}
            \/ rec.amount > Size
            \/ Primitive = "PAY" /\ rec.amount # Size
       [] OTHER -> FALSE

Unfilled(rec) == rec.status = "CANCELLED" /\ rec.amount \in {None, 0}

\* Slip: only a lower positive fill is disputed, not a cancel reporting none.
RegressionOnly(i, rec) ==
  /\ rec.status \in Reporting
  /\ None \notin {row[i].fill, rec.amount}
  /\ rec.amount < row[i].fill
  /\ ~Unfilled(rec)

\* Cumulative fills never shrink; a cancel reporting nothing filled contradicts
\* a recorded effect unless that was recorded with nothing filled.
FillDisputed(i, rec) ==
  \/ /\ rec.status \in Reporting
     /\ None \notin {row[i].fill, rec.amount}
     /\ rec.amount < row[i].fill
  \/ Unfilled(rec) /\ row[i].effect # "none" /\ row[i].fill # 0

Disputed(i, rec) ==
  /\ ~Weak(rec)
  /\ \/ rec.status \in {"MALFORMED", "CONTRADICTORY"}
     \/ EffectDisputed(i, rec)
     \/ AmountDisputed(rec)
     \/ FillDisputed(i, rec)

\* The partial unique index on (venue, effect_id).
Claimed(i, effect) == effect \in taken \/ \E j \in Intents \ {i} : row[j].effect = effect

\* Some other intent settles on an order: its transition claims the identity under
\* the same index.
SettledElsewhere(effect) ==
  /\ effect \notin taken
  /\ \A i \in Intents : row[i].effect # effect
  /\ taken' = taken \cup {effect}
  /\ RowKept /\ UNCHANGED <<lease, job, wire, order, faults, rejected>> /\ UNCHANGED ledgerVars

SettleDisputed(w) ==
  /\ At(w, "settle")
  /\ Disputed(TheIntent(w), job[w].record)
  /\ StopWith(w, "disputed")
  /\ RowKept /\ Quiet

\* Slip: the block is not carried through UNKNOWN.
BackToUnknownUnblocked(w) ==
  /\ row' = Moved(TheIntent(w), "UNKNOWN", FALSE)
  /\ Leave(w)
  /\ UNCHANGED usage

\* No usable answer: the intent stays UNKNOWN, the block stays with it.
BackToUnknown(w) ==
  /\ row' = Moved(TheIntent(w), "UNKNOWN", job[w].block = "failure")
  /\ Leave(w)
  /\ UNCHANGED usage

SettleUnknown(w) ==
  LET rec == job[w].record IN
  /\ At(w, "settle")
  /\ ~Disputed(TheIntent(w), rec)
  /\ Weak(rec) \/ rec.status = "UNKNOWN"
  /\ BackToUnknown(w)
  /\ Quiet

\* An accepted effect: the fill of an order still open is CONFIRMED and held, a
\* final one, and what a cancelled order had filled, is FINALIZED and committed.
SettleEffect(w) ==
  LET i == TheIntent(w)
      rec == job[w].record
      final == rec.status \in {"FINALIZED", "CANCELLED"}
      fill == IF rec.status = "PARTIALLY_FILLED" /\ rec.amount = None THEN 0 ELSE rec.amount
  IN
  /\ At(w, "settle")
  /\ rec.status \in Reporting /\ ~Weak(rec) /\ ~Disputed(i, rec) /\ ~Unfilled(rec)
  /\ IF Claimed(i, rec.effect)
       THEN StopWith(w, "disputed") /\ RowKept
       ELSE /\ row' = [row EXCEPT ![i].state = IF final THEN "FINALIZED" ELSE "CONFIRMED",
                                  ![i].effect = rec.effect, ![i].block = FALSE,
                                  ![i].fill = IF fill = None THEN @ ELSE fill]
            /\ usage' = IF final THEN Committed(i) ELSE usage
            /\ Leave(w)
  /\ Quiet

\* Cancelled before any fill: the permits are voided, then the order's identity
\* is claimed in the transaction that releases the budget.
SettleCancelled(w) ==
  LET rec == job[w].record IN
  /\ At(w, "settle")
  /\ Unfilled(rec) /\ ~Weak(rec) /\ ~Disputed(TheIntent(w), rec)
  /\ VoidUnconsumedPermits(TheIntent(w))
  /\ Goto(w, "cancelled")
  /\ RowKept /\ NoRuntimeStep

CloseCancelled(w) ==
  LET i == TheIntent(w) IN
  /\ At(w, "cancelled")
  /\ IF Claimed(i, job[w].record.effect)
       THEN StopWith(w, "disputed") /\ RowKept
       ELSE /\ row' = [Moved(i, "FAILED_SAFE", FALSE) EXCEPT ![i].effect = job[w].record.effect]
            /\ usage' = Released(i)
            /\ Leave(w)
  /\ Quiet

\* Absence is trusted only when the last permit's window, clock skew included,
\* has closed.
WindowOpen(i, now) == row[i].amb # None /\ now < row[i].amb + MaxClockSkew

AuthoritativeNone(w) ==
  LET rec == job[w].record IN
  /\ At(w, "settle")
  /\ rec.status = "NONE" /\ ~Weak(rec) /\ ~Disputed(TheIntent(w), rec)

SettleNoneEarly(w) ==
  /\ AuthoritativeNone(w)
  /\ WindowOpen(TheIntent(w), job[w].now)
  /\ BackToUnknown(w)
  /\ Quiet

\* Slip: absence is acted on without voiding.
SettleNoneUnvoided(w) ==
  /\ AuthoritativeNone(w)
  /\ ~WindowOpen(TheIntent(w), job[w].now)
  /\ Goto(w, "count")
  /\ RowKept /\ Quiet

SettleNone(w) ==
  /\ AuthoritativeNone(w)
  /\ ~WindowOpen(TheIntent(w), job[w].now)
  /\ VoidUnconsumedPermits(TheIntent(w))
  /\ Goto(w, "count")
  /\ RowKept /\ NoRuntimeStep

\* Slip: an admission without a record is taken for no effect.
ReleaseAfterConsumption(w) ==
  /\ At(w, "count")
  /\ ConsumedRows(TheIntent(w)) # {}
  /\ StopWith(w, "release")
  /\ RowKept /\ Quiet

\* The ledger is read after the void: an admission without any settlement record
\* is a contradiction.
NoneAfterConsumption(w) ==
  /\ At(w, "count")
  /\ ConsumedRows(TheIntent(w)) # {}
  /\ StopWith(w, "disputed")
  /\ RowKept /\ Quiet

\* Nothing was ever admitted: the attempt ends here, released, when a retry is
\* blocked or not authorized ...
ResubmissionBlocked(w) ==
  /\ At(w, "count")
  /\ ConsumedRows(TheIntent(w)) = {}
  /\ IF job[w].block = "failure"
       THEN CloseReleased(w, "FAILED_SAFE", TRUE)
       ELSE CloseReleased(w, "STOPPED", FALSE)
  /\ Quiet

\* ... and is otherwise retried under fresh authorization.
Resubmit(w) ==
  /\ At(w, "count")
  /\ ConsumedRows(TheIntent(w)) = {}
  /\ job[w].block = "none"
  /\ job[w].fresh
  /\ job[w].now <= Deadline[TheIntent(w)]
  /\ EffectivelyActive(GrantOf[TheIntent(w)])
  /\ job' = [job EXCEPT ![w].pc = "submit", ![w].record = Silence]
  /\ RowKept /\ Quiet

\* _stop_execution_state: void first, then the terminal transition.
StopVoid(w) ==
  /\ At(w, "stop")
  /\ VoidUnconsumedPermits(TheIntent(w))
  /\ Goto(w, "stopped")
  /\ RowKept /\ NoRuntimeStep

StopTransition(w) ==
  LET i == TheIntent(w) IN
  /\ At(w, "stopped")
  /\ row' = IF row[i].state \in Terminal THEN row
            ELSE [Moved(i, "STOPPED", FALSE) EXCEPT ![i].disputed = job[w].stop = "disputed"]
  /\ usage' = IF job[w].stop = "release" THEN Released(i) ELSE usage
  /\ Leave(w)
  /\ Quiet

-----------------------------------------------------------------------------
(* Faults and the lease *)

\* A runtime process dies.  What it handed to the adapter is still out there;
\* its lease has no expiry and stays.
Crash(w) ==
  /\ faults < MaxFaults
  /\ job[w] # NoJob
  /\ faults' = faults + 1
  /\ job' = [job EXCEPT ![w] = NoJob]
  /\ lease' = [i \in Intents |-> IF lease[i] = w THEN "DEAD" ELSE lease[i]]
  /\ IF ticket[w] = NoTicket THEN UNCHANGED ledgerVars ELSE AbandonIssue(w)
  /\ RowKept /\ UNCHANGED <<wire, order, rejected, taken>>

\* The store refuses a write past its busy timeout, the evidence chain refuses an
\* append, or an interrupt propagates: the call returns with the durable state as
\* it is.  Inside issue() the same failures are refusals.
Abort(w) ==
  /\ faults < MaxFaults
  /\ job[w].pc \in PCs \ {"acquire", "issue", "recheck", "record", "exit"}
  /\ faults' = faults + 1
  /\ Leave(w)
  /\ RowKept /\ UNCHANGED <<lease, wire, order, rejected, taken>> /\ UNCHANGED ledgerVars

\* The lease row survives a release that failed; its owner is alive.
ReleaseFails(w) ==
  /\ faults < MaxFaults
  /\ At(w, "exit")
  /\ faults' = faults + 1
  /\ job' = [job EXCEPT ![w] = NoJob]
  /\ RowKept /\ UNCHANGED <<lease, wire, order, rejected, taken>> /\ UNCHANGED ledgerVars

\* clear_stale_intent_lease, refused while the owner lives.
ClearStaleLease(i) ==
  /\ lease[i] = "DEAD"
  /\ lease' = [lease EXCEPT ![i] = "FREE"]
  /\ RowKept /\ UNCHANGED <<job, wire, order, faults, rejected, taken>> /\ UNCHANGED ledgerVars

-----------------------------------------------------------------------------
(* The venue *)

Idle == RowKept /\ UNCHANGED <<lease, job, wire, faults, rejected, taken>>

\* A request for an intent that already has an order is answered from the book.
VenueVerify(r) ==
  /\ order[permits[r].intent].status = "none"
  /\ \E v \in clock - VenueSkew .. clock + VenueSkew : VerifyPermit(r, v)
  /\ Idle /\ UNCHANGED order

VenueConsume(r) ==
  /\ ConsumePermit(r)
  /\ Idle /\ UNCHANGED order

\* The admitted request takes effect, at once or later, or never (an admission
\* that times out leaves no record).
VenueExecute(i) ==
  /\ ConsumedRows(i) # {}
  /\ order[i].status = "none"
  /\ order' \in {[order EXCEPT ![i] = o] : o \in
       {[status |-> "filled", fill |-> Size]} \cup
       {[status |-> "open", fill |-> f] : f \in IF Primitive = "TRADE" THEN 0 .. Size - 1 ELSE {}}}
  /\ Idle /\ UNCHANGED ledgerVars

VenueFill(i) ==
  /\ order[i].status = "open"
  /\ order' = [order EXCEPT ![i] = [status |-> IF @.fill + 1 = Size THEN "filled" ELSE "open",
                                    fill |-> @.fill + 1]]
  /\ Idle /\ UNCHANGED ledgerVars

VenueCancel(i) ==
  /\ order[i].status = "open"
  /\ order' = [order EXCEPT ![i].status = "cancelled"]
  /\ Idle /\ UNCHANGED ledgerVars

-----------------------------------------------------------------------------
CallStep(w) ==
  \/ \E i \in Intents : Register(w, i)
  \/ \E i \in Intents, fresh \in BOOLEAN : StartReconcile(w, i, fresh)
  \/ job[w] # NoJob /\ PresentWrongGrant(w)

ProcessStep(w) ==
  \/ AcquireLease(w) \/ IntentBusy(w) \/ ReleaseLease(w)
  \/ ProcessFinished(w) \/ ProcessInactive(w) \/ ProcessActive(w)
  \/ \E verdict \in {"DENIED", "DEFERRED", "STOPPED"} : GateRefuses(w, verdict)
  \/ RecoveryRefused(w) \/ ReserveUsage(w) \/ ReservationDenied(w)
  \/ Authorize(w) \/ Reserve(w)

SubmitStep(w) ==
  \/ Submit(w) \/ SubmitRefused(w) \/ BeginSubmission(w)
  \/ IssueFence(w) \/ IssueRecheck(w) \/ IssueRecord(w) \/ IssueRefused(w)
  \/ Send(w) \/ AdapterReturns(w) \/ AdapterRejects(w)

ReconcileStep(w) ==
  \/ Reconcile(w) \/ ReconcileNotApplicable(w) \/ ReconcileUnconfigured(w)
  \/ \E rec \in Truth(TheIntent(w)) \cup Lies \cup {Silence} : Verify(w, rec)
  \/ SettleDisputed(w) \/ SettleUnknown(w) \/ SettleEffect(w)
  \/ SettleCancelled(w) \/ CloseCancelled(w)
  \/ SettleNoneEarly(w) \/ SettleNone(w)
  \/ NoneAfterConsumption(w) \/ ResubmissionBlocked(w) \/ Resubmit(w)
  \/ StopVoid(w) \/ StopTransition(w)

FaultStep(w) == Crash(w) \/ Abort(w) \/ ReleaseFails(w)

VenueStep ==
  \/ \E r \in wire : VenueVerify(r) \/ VenueConsume(r)
  \/ \E i \in Intents : VenueExecute(i) \/ VenueFill(i) \/ VenueCancel(i)

\* Operators and the clock move as PermitLedger says, at any time.
EnvironmentStep == (OperatorStep \/ Tick) /\ UNCHANGED runtimeVars

Next ==
  \/ \E w \in Issuers :
       \/ CallStep(w)
       \/ job[w] # NoJob /\ (ProcessStep(w) \/ SubmitStep(w) \/ ReconcileStep(w) \/ FaultStep(w))
  \/ \E i \in Intents : ReplayTerminal(i) \/ ClearStaleLease(i)
  \/ \E effect \in Rivals : SettledElsewhere(effect)
  \/ VenueStep
  \/ EnvironmentStep

Spec == Init /\ [][Next]_vars

-----------------------------------------------------------------------------
(* The inductive invariant of the runtime *)

\* What the permits of an intent may look like at each point of its life.
NoPermits(i) == \A r \in DOMAIN permits : permits[r].intent # i
AllVoided(i) == \A r \in DOMAIN permits : permits[r].intent = i => permits[r].voided
Disarmed(i) ==
  \A r \in DOMAIN permits : permits[r].intent = i => permits[r].consumed \/ permits[r].voided
OneAlive(i) ==
  \A r, q \in DOMAIN permits :
    r # q /\ permits[r].intent = i /\ permits[q].intent = i => permits[r].voided \/ permits[q].voided
LastRecorded(i) == \E r \in DOMAIN permits : permits[r].intent = i /\ ~Superseded(r)

Unsent == {"ABSENT", "PROPOSED", "AUTHORIZED", "RESERVED"}
InFlight == {"AUTHORIZED", "RESERVED", "SUBMITTED", "UNKNOWN", "RECONCILING", "CONFIRMED"}

\* An intent's row, its reservation and its permits agree, whatever the verifier
\* says: permits come with counted attempts, one of them at most is not void, and an
\* intent under way holds its budget.  The last two parts are about a deployment in
\* which every runtime has the venue's adapter.
IntentInv(i) ==
  /\ row[i].state \in Unsent => row[i].count = 0 /\ row[i].effect = "none" /\ i \notin rejected
  /\ row[i].count = 0 => NoPermits(i)
  /\ row[i].count > 0 => usage[i] # "NONE"
  /\ OneAlive(i)
  /\ row[i].state \in {"ABSENT", "PROPOSED"} => usage[i] \in {"NONE", "HELD"}
  /\ row[i].state \in InFlight => usage[i] = "HELD"
  /\ row[i].state = "FINALIZED" => usage[i] = "COMMITTED"
  /\ row[i].effect = "none" => row[i].fill = None
  /\ row[i].disputed => row[i].state = "STOPPED" /\ usage[i] = "HELD"
  /\ i \in rejected /\ row[i].state \notin Terminal =>
       /\ row[i].state \in {"UNKNOWN", "RECONCILING", "CONFIRMED"}
       /\ row[i].block \/ row[i].effect # "none"
  /\ Configured = Issuers =>
       /\ row[i].fill > 0 => usage[i] \in {"HELD", "COMMITTED"}
       /\ row[i].state \in Terminal /\ row[i].count = 0 /\ ~row[i].disputed =>
            usage[i] # "HELD" /\ (row[i].state # "FINALIZED" => row[i].fill <= 0)

Submitting == {"submit", "begin", "issue", "recheck", "record", "send", "await"}

\* An issue in progress belongs to a process inside issue().
TicketInv(w) == (ticket[w] # NoTicket) <=> (job[w].pc \in {"recheck", "record"})

\* What a process knows of its intent between two transactions: it owns the lease, and
\* the durable state is the one its next step was decided on.
JobInv(w, i) ==
  LET pc == job[w].pc
      releasing == pc \in {"stop", "stopped"} /\ job[w].stop = "release"
  IN
  job[w] # NoJob /\ job[w].intent = i =>
    /\ job[w].now <= clock
    /\ row[i].state # "ABSENT"
    /\ IF pc = "acquire" THEN job[w].block = "none" ELSE lease[i] = w
    /\ pc \in {"gate", "authorize"} => row[i].state = "PROPOSED"
    /\ pc = "authorize" => usage[i] = "HELD"
    /\ pc \in {"recover", "reserve"} => row[i].state = "AUTHORIZED"
    /\ pc \in {"submit", "begin"} => row[i].state \in {"RESERVED", "RECONCILING"}
    /\ pc \in {"issue", "recheck", "record", "send", "await"} =>
         row[i].state = "SUBMITTED" /\ row[i].count > 0
    /\ pc \in {"verify", "settle", "count", "cancelled"} => row[i].state = "RECONCILING"
    /\ pc \in {"stop", "stopped"} =>
         /\ row[i].state \notin Terminal
         /\ job[w].stop # "none"
         /\ job[w].stop = "disputed" => row[i].state = "RECONCILING"
         /\ Configured = Issuers => job[w].stop # "held"
    /\ pc \in {"recheck", "record"} => ticket[w].intent = i
    /\ pc = "send" => LastRecorded(i)
    /\ pc \in {"submit", "begin", "issue", "recheck", "record"} \/ releasing => AllVoided(i)
    /\ pc \in {"count", "cancelled", "stopped"} => Disarmed(i)
    /\ pc \in Submitting \cup {"count"} \/ releasing => row[i].effect = "none"
    /\ pc \in Submitting => i \notin rejected
    /\ i \in rejected /\ row[i].effect = "none" =>
         /\ pc = "reconcile" => job[w].block # "status"
         /\ pc \in {"verify", "settle", "count"} => job[w].block = "failure"
    /\ pc = "cancelled" =>
         /\ row[i].fill <= 0
         /\ job[w].record.effect # "none"
         /\ row[i].effect \in {"none", job[w].record.effect}

\* A verifier that speaks with authority only when it reports the venue's book.
Truthful == \A rec \in Lies : rec.auth => rec.status \notin Reporting \cup {"NONE"}

\* With a truthful verifier the reservation agrees with the venue's book, too.
BookInv(i) ==
  /\ order[i].status # "none" => ConsumedRows(i) # {}
  /\ order[i].status = "none" => order[i].fill = 0
  /\ order[i].status = "filled" => order[i].fill = Size
  /\ row[i].state \in Terminal => Disarmed(i)
  /\ usage[i] = "RELEASED" =>
       AllVoided(i) \/ (order[i].status = "cancelled" /\ order[i].fill = 0)
  /\ usage[i] = "COMMITTED" =>
       order[i].status \in {"filled", "cancelled"} /\ order[i].fill > 0

\* A record read from the venue stays true while it is acted on: it is final, or
\* only what it claims to exist matters.
RecordInv(w, i) ==
  LET rec == job[w].record IN
  job[w] # NoJob /\ job[w].intent = i /\ job[w].pc \in {"settle", "cancelled"} =>
    /\ rec.auth /\ rec.status \in Reporting => order[i].status # "none"
    /\ rec.auth /\ rec.status \in {"FINALIZED", "CONFIRMED"} => order[i].status = "filled"
    /\ rec.auth /\ rec.status = "CANCELLED" =>
         order[i].status = "cancelled" /\ rec.amount = order[i].fill
    /\ job[w].pc = "cancelled" => order[i].status = "cancelled" /\ order[i].fill = 0

RuntimeInv ==
  /\ RuntimeTypeOK
  /\ \A i \in Intents : IntentInv(i)
  /\ \A w \in Issuers : TicketInv(w)
  /\ \A w \in Issuers, i \in Intents : JobInv(w, i)
  /\ Truthful => /\ \A i \in Intents : BookInv(i)
                 /\ \A w \in Issuers, i \in Intents : RecordInv(w, i)

-----------------------------------------------------------------------------
(* Properties *)

\* The headline claim (I-3, "at most one"): whatever the crashes, retries,
\* delays, duplicate deliveries and operator commands, the venue admits at most
\* one permit of an intent.
AtMostOneAdmission == \A i \in Intents : Cardinality(ConsumedRows(i)) <= 1

\* A venue effect is always backed by budget: once a reservation was released
\* nothing is ever filled for its intent, however late the request arrives.
EffectsAreBacked ==
  \A i \in Intents : order[i].fill > 0 => usage[i] \in {"HELD", "COMMITTED"}

\* "A terminal intent must not leave a live capability behind": no request still
\* travelling to the venue can be admitted for an intent that has ended.
TerminalDisarmed ==
  \A r \in DOMAIN permits :
    row[permits[r].intent].state \in Terminal => permits[r].consumed \/ permits[r].voided

\* An adapter's deterministic failure blocks every further attempt of the intent,
\* for good: through settlement lookups that fail, halts, crashes and calls of
\* reconcile() that know nothing of it.
BlockIsDurable ==
  [][\A i \in rejected : row'[i].count = row[i].count]_vars

\* A retry begins only when every permit of the earlier attempts was voided
\* unconsumed, so no two attempts are ever admissible together.
RetryOnDeadPermits ==
  [][\A i \in Intents : row'[i].count > row[i].count =>
       \A r \in DOMAIN permits : permits[r].intent = i => permits[r].voided]_vars

\* No budget is stranded: an intent that ended without an attempt, and not over a
\* settlement dispute, holds no reservation, wherever a crash interrupted it.
NoStrandedHold ==
  \A i \in Intents :
    row[i].state \in Terminal /\ row[i].count = 0 /\ ~row[i].disputed => usage[i] # "HELD"

\* Settled history: an accepted effect identity is never replaced and the
\* recorded cumulative fill never shrinks, whatever the verifier answers later.
SettledHistoryKept ==
  [][\A i \in Intents :
       /\ row[i].effect # "none" => row'[i].effect = row[i].effect
       /\ row'[i].fill >= row[i].fill]_vars

\* Budget follows settlement: a recorded fill, or a stop over a settlement
\* dispute, keeps the reservation held or committed for ever.
RecordedFillKeepsBudget ==
  \A i \in Intents :
    row[i].fill > 0 \/ row[i].disputed => usage[i] \in {"HELD", "COMMITTED"}

\* One order settles one intent: no effect identity is recorded twice, whoever of
\* any number of intents the verifier reports it to is first.
EffectsUnique ==
  \A i \in Intents :
    /\ row[i].effect \notin taken
    /\ \A j \in Intents : i # j /\ row[i].effect # "none" => row[i].effect # row[j].effect

\* With a truthful verifier the runtime implements EffectOnce: every step of a
\* worker, the venue, an operator or a fault is one of its steps or invisible.
Once == INSTANCE EffectOnce WITH
  budget <- usage,
  admissions <- [i \in Intents |-> Cardinality(ConsumedRows(i))],
  filled <- [i \in Intents |-> order[i].fill],
  closed <- [i \in Intents |-> order[i].status \in {"filled", "cancelled"}]

ImplementsEffectOnce == Once!EffectSpec

-----------------------------------------------------------------------------
(* Liveness *)

\* A decisive answer of the verifier: what the venue's book says, as final as it
\* is.
Decisive(i) ==
  IF order[i].status = "filled" THEN Report(i, "FINALIZED") ELSE CHOOSE rec \in Truth(i) : TRUE

\* Callers keep calling process() with the intent's own grant while the intent is
\* open, also when nobody holds its lease, and do not lose every race for it; a
\* process runs its call to the end, the clock moves, operators clear the lease of a
\* dead owner, a resting order fills or is cancelled, and a verifier asked again and
\* again once answers.  Nothing is assumed of the venue's handling of a request, of
\* the gates, or of the grant.
Fairness ==
  /\ \A w \in Issuers :
       /\ \A i \in Intents : SF_vars(Register(w, i) /\ lease[i] \in {"FREE", w})
       /\ SF_vars(job[w] # NoJob /\ job[w].call = "process" /\ AcquireLease(w))
       /\ SF_vars(job[w] # NoJob /\ (ProcessActive(w) \/ ProcessInactive(w)))
       /\ SF_vars(job[w] # NoJob /\ Verify(w, Decisive(TheIntent(w))))
       /\ WF_vars(job[w] # NoJob /\ (ProcessStep(w) \/ SubmitStep(w) \/ ReconcileStep(w)))
  /\ \A i \in Intents :
       /\ WF_vars(ClearStaleLease(i))
       /\ WF_vars(VenueFill(i) \/ VenueCancel(i))
  /\ WF_vars(Tick /\ UNCHANGED runtimeVars)

FairSpec == Spec /\ Fairness

\* Every registered intent reaches a terminal state: no block, window, lease or
\* interrupted attempt keeps it open for ever.
EveryIntentEnds ==
  \A i \in Intents : row[i].state # "ABSENT" ~> row[i].state \in Terminal
=============================================================================
