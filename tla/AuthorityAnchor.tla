--------------------------- MODULE AuthorityAnchor ---------------------------
(***************************************************************************)
(* Restore safety: the store's authority (grant rows, permits) together    *)
(* with the high-water marks an authority anchor keeps outside the backup  *)
(* set.  Every authority transaction writes the anchor before it commits,  *)
(* so the transaction is two steps here: the anchor write, and the COMMIT  *)
(* (or the rollback, when the COMMIT fails or the process dies).  Backups   *)
(* are taken and restored; the anchor may fail to answer or to write at    *)
(* any time.                                                               *)
(*                                                                         *)
(* Every store is bound to the anchor and opened with it: an instance      *)
(* without it, or with another one, is refused every step modelled here.   *)
(***************************************************************************)
EXTENDS Integers

CONSTANTS
  Grants,     \* grant versions
  Scopes,     \* control scopes, each the set of grants it covers
  Answers,    \* how the anchor may behave: "up", "readonly", "down"
  Copies,     \* the backup copies operators keep, each overwritten by a later backup
  MaxEpoch,   \* bound on the lifecycle changes of each grant
  MaxFence    \* bound on the authority events under each grant

ASSUME AnchorConstants ==
  /\ Scopes \subseteq SUBSET Grants
  /\ Answers \subseteq {"up", "readonly", "down"}
  /\ MaxEpoch \in [Grants -> Nat] /\ MaxFence \in [Grants -> Nat]

VARIABLES
  db,       \* the datastore, as committed
  txn,      \* the write transaction between its anchor write and its COMMIT
  mark,     \* the anchor: a high-water mark per grant version
  tickets,  \* fences allocated by issuers that have not recorded a permit yet
  backup,   \* the backup set: a datastore per copy
  minted,   \* history: every fence ever allocated
  spent,    \* history: every permit ever consumed
  lost      \* history: grants a restore or a rollback once left behind their marks

vars == <<db, txn, mark, tickets, backup, minted, spent, lost>>
history == <<minted, spent, lost>>

Mark == [epoch : Nat, fence : Nat]
NoRow == [status |-> "ABSENT", epoch |-> 0, fence |-> 0]
GrantRow == {NoRow} \cup [status : {"ACTIVE", "PAUSED", "REVOKED"}, epoch : Nat, fence : Nat]
Permit == [grant : Grants, epoch : Nat, fence : Nat]
Database == [grant : [Grants -> GrantRow], halted : SUBSET Scopes,
             recorded : SUBSET Permit, consumed : SUBSET Permit]
NoTxn == [open |-> FALSE]
Txn == [open : {TRUE}, db : Database, mint : SUBSET Permit, use : SUBSET Permit]

TypeOK ==
  /\ db \in Database
  /\ backup \in [Copies -> Database]
  /\ txn \in Txn \cup {NoTxn}
  /\ mark \in [Grants -> Mark]
  /\ tickets \subseteq Permit
  /\ minted \subseteq Permit /\ spent \subseteq Permit
  /\ lost \subseteq Grants

NewDatabase ==
  [grant |-> [g \in Grants |-> NoRow],
   halted |-> {}, recorded |-> {}, consumed |-> {}]

\* A mark of zeros is no mark: every row starts at epoch 1.
Init ==
  /\ db = NewDatabase /\ backup = [c \in Copies |-> NewDatabase]
  /\ txn = NoTxn
  /\ mark = [g \in Grants |-> [epoch |-> 0, fence |-> 0]]
  /\ tickets = {}
  /\ minted = {} /\ spent = {} /\ lost = {}

-----------------------------------------------------------------------------
\* Tuples compare epoch first.
Behind(a, b) == a.epoch < b.epoch \/ (a.epoch = b.epoch /\ a.fence < b.fence)

Provisioned(g) == db.grant[g].status # "ABSENT"
Regressed(g) == Behind(db.grant[g], mark[g])
Halted(g) == \E s \in db.halted : g \in s

\* History: the grants that are behind their marks in a datastore, or will be once
\* they are provisioned again.
Losing(data) ==
  {g \in Grants : IF data.grant[g].status = "ABSENT" THEN Behind([epoch |-> 1, fence |-> 0], mark[g])
                  ELSE Behind(data.grant[g], mark[g])}

\* The effective status is ACTIVE, and the anchor answers.
Usable(g) == db.grant[g].status = "ACTIVE" /\ ~Halted(g) /\ ~Regressed(g)

\* Slip: the mark is overwritten instead of raised.
Overwritten(marks, g, row) == [marks EXCEPT ![g] = [epoch |-> row.epoch, fence |-> row.fence]]

\* anchor.record never lowers a mark.
Raised(marks, g, row) ==
  IF Behind(marks[g], row) THEN [marks EXCEPT ![g] = [epoch |-> row.epoch, fence |-> row.fence]]
  ELSE marks

\* BEGIN IMMEDIATE .. the anchor write.  `mint' and `use' are the fences that the
\* transaction allocates and the permits it consumes.
Begin(next, mint, use) ==
  /\ txn = NoTxn
  /\ txn' = [open |-> TRUE, db |-> next, mint |-> mint, use |-> use]
  /\ UNCHANGED <<db, tickets, backup, history>>

COMMIT ==
  /\ txn # NoTxn
  /\ db' = txn.db
  /\ tickets' = tickets \cup txn.mint
  /\ minted' = minted \cup txn.mint
  /\ spent' = spent \cup txn.use
  /\ txn' = NoTxn
  /\ UNCHANGED <<mark, backup, lost>>

\* The COMMIT fails or the process dies: the anchor keeps what it was told.
ROLLBACK ==
  /\ txn # NoTxn
  /\ txn' = NoTxn
  /\ lost' = lost \cup Losing(db)
  /\ UNCHANGED <<db, mark, tickets, backup, minted, spent>>

SetRow(g, row) == [db EXCEPT !.grant[g] = row]

-----------------------------------------------------------------------------
(* Authority transactions that need the anchor *)

ProvisionGrant(g) ==
  LET row == [status |-> "ACTIVE", epoch |-> 1, fence |-> 0] IN
  /\ ~Provisioned(g)
  /\ Begin(SetRow(g, row), {}, {})
  /\ mark' = Raised(mark, g, row)

\* next_execution_fence: issuance is an authority event.
NextExecutionFence(g) ==
  LET row == [db.grant[g] EXCEPT !.fence = @ + 1] IN
  /\ Usable(g)
  /\ db.grant[g].fence < MaxFence[g]
  /\ Begin(SetRow(g, row), {[grant |-> g, epoch |-> row.epoch, fence |-> row.fence]}, {})
  /\ mark' = Raised(mark, g, row)

\* Slip: the mark is raised after the commit, as if a later statement did it.
ConsumeUnanchored(p) ==
  LET row == [db.grant[p.grant] EXCEPT !.fence = @ + 1] IN
  /\ p \in db.recorded \ db.consumed
  /\ Usable(p.grant)
  /\ db.grant[p.grant].epoch = p.epoch
  /\ row.fence <= MaxFence[p.grant]
  /\ Begin([SetRow(p.grant, row) EXCEPT !.consumed = @ \cup {p}], {}, {p})
  /\ UNCHANGED mark

\* consume_execution_permit: so is consumption.
Consume(p) ==
  LET row == [db.grant[p.grant] EXCEPT !.fence = @ + 1] IN
  /\ p \in db.recorded \ db.consumed
  /\ Usable(p.grant)
  /\ db.grant[p.grant].epoch = p.epoch
  /\ row.fence <= MaxFence[p.grant]
  /\ Begin([SetRow(p.grant, row) EXCEPT !.consumed = @ \cup {p}], {}, {p})
  /\ mark' = Raised(mark, p.grant, row)

\* Between the allocation and the INSERT the issuer reads the grant again; the
\* INSERT itself does not concern the anchor.  The two are one step here: a stop in
\* between leaves a permit of an ended epoch, which Consume refuses.  PermitLedger has
\* them apart.
RecordPermit(p) ==
  /\ txn = NoTxn
  /\ p \in tickets
  /\ Usable(p.grant) /\ db.grant[p.grant].epoch = p.epoch
  /\ db' = [db EXCEPT !.recorded = @ \cup {p}]
  /\ tickets' = tickets \ {p}
  /\ UNCHANGED <<txn, mark, backup, history>>

\* The issuer fails after its allocation.
AbandonTicket(p) ==
  /\ p \in tickets
  /\ tickets' = tickets \ {p}
  /\ UNCHANGED <<db, txn, mark, backup, history>>

(* Stops and re-activation *)

\* Slip: a regressed version is paused and re-activated like any other.
SetGrantStatusAnyway(g, s, answer) ==
  LET row == [status |-> s, epoch |-> db.grant[g].epoch + 1, fence |-> db.grant[g].fence] IN
  /\ Provisioned(g)
  /\ s = "ACTIVE" => answer = "up"
  /\ db.grant[g].status # s /\ db.grant[g].status # "REVOKED"
  /\ row.epoch <= MaxEpoch[g]
  /\ Begin(SetRow(g, row), {}, {})
  /\ mark' = IF answer = "up" THEN Raised(mark, g, row) ELSE mark

\* A regressed version is refused, when the anchor can say that it is; a stop does
\* not wait for an anchor that cannot, re-activation does.
SetGrantStatus(g, s, answer) ==
  LET row == [status |-> s, epoch |-> db.grant[g].epoch + 1, fence |-> db.grant[g].fence] IN
  /\ Provisioned(g)
  /\ answer # "down" => ~Regressed(g)
  /\ s = "ACTIVE" => answer = "up"
  /\ db.grant[g].status # s /\ db.grant[g].status # "REVOKED"
  /\ row.epoch <= MaxEpoch[g]
  /\ Begin(SetRow(g, row), {}, {})
  /\ mark' = IF answer = "up" THEN Raised(mark, g, row) ELSE mark

\* Re-running a stop repairs the mark it could not raise before.
RepeatStop(g) ==
  /\ txn = NoTxn
  /\ db.grant[g].status \in {"PAUSED", "REVOKED"} /\ ~Regressed(g)
  /\ mark' = Raised(mark, g, db.grant[g])
  /\ UNCHANGED <<db, txn, tickets, backup, history>>

\* halt fences every grant of the scope, whatever the anchor says of it, and
\* records the rows one by one until the anchor fails: `told' are those it got.
Halt(s, told) ==
  LET fenced == [g \in Grants |-> IF g \in s /\ Provisioned(g)
                                    THEN [db.grant[g] EXCEPT !.epoch = @ + 1] ELSE db.grant[g]]
  IN
  /\ told \subseteq {g \in s : Provisioned(g)}
  /\ \A g \in s : fenced[g].epoch <= MaxEpoch[g]
  /\ Begin([db EXCEPT !.grant = fenced, !.halted = @ \cup {s}], {}, {})
  /\ mark' = [g \in Grants |-> IF g \in told THEN Raised(mark, g, fenced[g])[g] ELSE mark[g]]

Resume(s) ==
  /\ txn = NoTxn
  /\ s \in db.halted
  /\ db' = [db EXCEPT !.halted = @ \ {s}]
  /\ UNCHANGED <<txn, mark, tickets, backup, history>>

\* The only way on for a regressed version: closed past both the row and the mark.
RevokeAfterRestore(g, answer) ==
  LET known == IF answer = "down" THEN db.grant[g] ELSE mark[g]
      higher(x, y) == IF x > y THEN x ELSE y
      row == [status |-> "REVOKED", epoch |-> higher(db.grant[g].epoch, known.epoch) + 1,
              fence |-> higher(db.grant[g].fence, known.fence)]
  IN
  /\ Provisioned(g)
  /\ row.epoch <= MaxEpoch[g]
  /\ Begin(SetRow(g, row), {}, {})
  /\ mark' = IF answer = "up" THEN [mark EXCEPT ![g] = [epoch |-> row.epoch, fence |-> row.fence]]
             ELSE mark

-----------------------------------------------------------------------------
(* Opening, backing up, restoring *)

\* Every anchored open raises the marks that are behind their rows, until the anchor
\* fails.
Open(told) ==
  /\ told \subseteq {g \in Grants : Provisioned(g) /\ Behind(mark[g], db.grant[g])}
  /\ mark' = [g \in Grants |-> IF g \in told THEN Raised(mark, g, db.grant[g])[g] ELSE mark[g]]
  /\ UNCHANGED <<db, txn, tickets, backup, history>>

\* A backup copies what is committed; operators take none while a mark is behind.
Backup(c) ==
  /\ \A g \in Grants : ~Behind(mark[g], db.grant[g])
  /\ backup' = [backup EXCEPT ![c] = db]
  /\ UNCHANGED <<db, txn, mark, tickets, history>>

\* The processes are down while the file is replaced, by any copy kept.
Restore(c) ==
  /\ db' = backup[c]
  /\ txn' = NoTxn /\ tickets' = {}
  /\ lost' = lost \cup Losing(backup[c])
  /\ UNCHANGED <<mark, backup, minted, spent>>

-----------------------------------------------------------------------------
AuthorityStep ==
  \/ \E g \in Grants : ProvisionGrant(g) \/ NextExecutionFence(g)
  \/ \E p \in db.recorded : Consume(p)
  \/ \E p \in tickets : RecordPermit(p) \/ AbandonTicket(p)

OperatorStep ==
  \/ \E g \in Grants, s \in {"ACTIVE", "PAUSED", "REVOKED"}, answer \in Answers :
       SetGrantStatus(g, s, answer)
  \/ \E g \in Grants, answer \in Answers : RevokeAfterRestore(g, answer)
  \/ \E g \in Grants : RepeatStop(g)
  \/ \E s \in Scopes : Resume(s) \/ \E told \in SUBSET s : Halt(s, told)

FileStep ==
  \/ \E c \in Copies : Backup(c) \/ Restore(c)
  \/ \E told \in SUBSET Grants : Open(told)

Next == AuthorityStep \/ OperatorStep \/ FileStep \/ COMMIT \/ ROLLBACK

Spec == Init /\ [][Next]_vars

-----------------------------------------------------------------------------
(* Properties *)

\* What an open transaction allocates and consumes.
Allocating == IF txn = NoTxn THEN {} ELSE txn.mint
Consuming == IF txn = NoTxn THEN {} ELSE txn.use

\* I-33, the single-use half: across any number of copies, restores, rollbacks,
\* outages and halts no fence is allocated twice and no permit is consumed twice.
NoAuthorityTwice == Allocating \cap minted = {} /\ Consuming \cap spent = {}

\* No fence is ahead of the anchor, not even one whose transaction is still open.
EventsAnchored == \A p \in minted \cup Allocating : ~Behind(mark[p.grant], p)

\* No copy is ahead of the anchor.
CopiesAnchored == \A c \in Copies, g \in Grants : ~Behind(mark[g], backup[c].grant[g])

\* A row that is ahead of its mark has been stopped since its last issuance: no
\* permit, recorded or about to be, was issued under the row's epoch.
UnmarkedHoldsNoPermit(data, held) ==
  \A p \in data.recorded \cup held :
    /\ p.epoch <= data.grant[p.grant].epoch
    /\ p.epoch = data.grant[p.grant].epoch => ~Behind(mark[p.grant], data.grant[p.grant])

\* A datastore that does not know of a consumption has been stopped since, or shows
\* that it is behind the anchor.
UnknownConsumptionShows(data) ==
  \A p \in (data.recorded \ data.consumed) \cap (spent \cup Consuming) :
    \/ p.epoch < data.grant[p.grant].epoch
    \/ Behind(data.grant[p.grant], mark[p.grant])

\* What holds of a datastore and of the fences still to be recorded in it.
Anchored(data, held) ==
  /\ UnmarkedHoldsNoPermit(data, held)
  /\ UnknownConsumptionShows(data)
  /\ data.recorded \subseteq minted
  /\ held \cap data.recorded = {}

\* An issuer holds allocated fences that nobody consumed.
TicketsFresh ==
  /\ tickets \cup spent \cup Consuming \subseteq minted
  /\ tickets \cap (spent \cup Consuming) = {}

\* "Authority never exists without its mark", so whatever copy is restored its loss
\* shows: no allocated fence is ahead of the anchor; where a stop left the mark behind
\* its row, nothing was issued that a restore could bring back unnoticed; and no
\* datastore, committed, about to be or kept, can take a spent permit for a fresh one.
AnchorInv ==
  /\ TypeOK
  /\ EventsAnchored /\ CopiesAnchored /\ TicketsFresh
  /\ Anchored(db, tickets)
  /\ txn # NoTxn => Anchored(txn.db, tickets \cup txn.mint)
  /\ \A c \in Copies : Anchored(backup[c], {})

\* Whatever is written for a REGRESSED version leaves it stopped (paused, revoked or
\* halted), and no one transaction of issuance, consumption or lifecycle turns
\* authority that a restore brought back into usable authority: only restoring
\* another copy, one that is not behind, can.
Stopped(next, g) == next.grant[g].status # "ACTIVE" \/ \E s \in next.halted : g \in s
RegressedEndsStopped ==
  [][\A g \in Grants : txn = NoTxn /\ Provisioned(g) /\ Regressed(g) =>
       /\ Usable(g)' => \E c \in Copies : Restore(c)
       /\ (txn' # NoTxn /\ txn'.db.grant[g] # db.grant[g]) => Stopped(txn'.db, g)]_vars

\* I-33, "its lifecycle cannot be changed except by revoke_after_restore": a grant
\* version once behind its mark is never usable again.
ClosedForGood == \A g \in lost : ~Usable(g)
=============================================================================
